-------------------------------- MODULE Connection --------------------------------
(***************************************************************************)
(* The websocket connection of a client (client/connection.ts) with the    *)
(* promises of connect() (ConnectionManager.ts), the backoff of the        *)
(* reconnect timer (ExponentialBackoff.ts) and the request manager.        *)
(*                                                                         *)
(* A step is one call of the application, one event of the websocket, one  *)
(* timer callback, or one promise continuation.  The event loop runs every *)
(* continuation before the next event or timer (Quiet); the application's  *)
(* own calls may come between any two steps.                               *)
(*                                                                         *)
(* Abstracted: urls (the Client constructor insists on one), messages that *)
(* are not responses, listeners of the application that throw, except for  *)
(* 'connected', whose exception the code handles.                          *)
(***************************************************************************)
EXTENDS RequestManager

CONSTANTS
  Platforms, \* the builds checked, see platform
  Users,     \* calls of connect, disconnect and reconnect by the application
  Pings,     \* the calls that are pings of the heartbeat
  MaxDrops,  \* bound: unexpected closes of an established connection
  PeerCodes, \* close codes of a close we did not ask for
  Faults     \* what else may go wrong: "handshake", "listener"

ASSUME PlatformsAssumption == Platforms \subseteq {"node", "browser"}
ASSUME PingsAssumption == Pings \subseteq Calls /\ \A p \in Pings : ReqId[p] = NoId
ASSUME MaxDropsAssumption == MaxDrops \in Nat
ASSUME OpsDisjoint ==  \* who is who among the operations
  Users \cap (Pings \cup 1..MaxDrops) = {} /\ Pings \cap 1..MaxDrops = {}
ASSUME PeerCodesAssumption == PeerCodes \subseteq {"other", "undefined"}

VARIABLES
  platform,            \* "node": the ws package; "browser": WSWrapper; never changes
  ws,                  \* this.ws and its readyState, see WsStates
  closedBy,            \* who began to close an established connection
  connTimer,           \* the connection timeout is armed
  op,                  \* how far each connect, disconnect and reconnect is
  heartbeat,           \* the heartbeat interval is set
  reconnectTimers,     \* armed reconnect timers, named by the close that set them
  reconnectTimeoutID,  \* this.reconnectTimeoutID, 0 for null
  attempts,            \* retryConnectionBackoff.attempts
  drops,               \* unexpected closes so far
  throwing,            \* sends that failed at once and whose catch is queued
  failedPings,         \* failed pings whose catch is queued
  manualDown,          \* the application disconnected, and has not connected since
  announced            \* the last of 'connected' and 'disconnected' to be emitted

socketVars == <<platform, ws, closedBy, connTimer>>
timerVars == <<heartbeat, reconnectTimers, reconnectTimeoutID, attempts, drops>>
connVars == <<socketVars, timerVars, op, throwing, failedPings, manualDown, announced>>
vars == <<rmVars, connVars>>

\* "none" is null.  ABORTING is CLOSING before the handshake is done: the
\* listeners are still those of connect().  CLOSED is never seen: the listener
\* of the close sets ws to null.
WsStates == {"none", "CONNECTING", "ABORTING", "OPEN", "CLOSING"}

\* A reconnect is done for a user, for a failed ping or for a reconnect timer.
Timers == 1..MaxDrops
Ops == Users \cup Pings \cup Timers

\* connecting: in promisesAwaitingConnection.  closing, reclosing: a disconnect,
\* or the one of a reconnect, listens for 'close'.  resuming: that disconnect is
\* done and connect() is next.  hung: its listener is gone, nothing settles it.
OpStates == {"free", "connecting", "closing", "reclosing", "resuming", "hung", "done"}

InFlight(o) == op[o] \in {"connecting", "closing", "reclosing", "resuming"}

\* No continuation is queued.  The 'error' of an aborted handshake counts as one.
Quiet ==
  /\ throwing = {}
  /\ failedPings = {}
  /\ ws # "ABORTING"
  /\ \A o \in Ops : op[o] # "resuming"

ConnInit ==
  /\ RMInit
  /\ platform \in Platforms
  /\ ws = "none" /\ closedBy = "nobody" /\ connTimer = FALSE
  /\ op = [o \in Ops |-> "free"]
  /\ heartbeat = FALSE /\ reconnectTimers = {} /\ reconnectTimeoutID = 0
  /\ attempts = 0 /\ drops = 0
  /\ throwing = {} /\ failedPings = {}
  /\ manualDown = FALSE /\ announced = "disconnected"

-----------------------------------------------------------------------------
(* connect(), disconnect() and reconnect(), for the operation o.           *)

\* Mutants: a websocket that is closing is not told from none; no connection timeout.
CallConnect_Redials(o) ==
  /\ \/ /\ ws \in {"none", "CLOSING"}
        /\ ws' = "CONNECTING"
        /\ connTimer' = TRUE
        /\ op' = [op EXCEPT ![o] = "connecting"]
     \/ /\ ws = "CONNECTING"
        /\ op' = [op EXCEPT ![o] = "connecting"]
        /\ UNCHANGED <<ws, connTimer>>
     \/ /\ ws \in {"OPEN", "ABORTING"}
        /\ op' = [op EXCEPT ![o] = "done"]
        /\ UNCHANGED <<ws, connTimer>>
  /\ UNCHANGED <<platform, closedBy>>

CallConnect(o) ==
  /\ \/ /\ ws = "none"
        /\ ws' = "CONNECTING"
        /\ connTimer' = TRUE
        /\ op' = [op EXCEPT ![o] = "connecting"]
     \/ /\ ws = "CONNECTING"
        /\ op' = [op EXCEPT ![o] = "connecting"]
        /\ UNCHANGED <<ws, connTimer>>
     \/ /\ ws \in {"OPEN", "ABORTING", "CLOSING"}  \* resolved, or rejected: never cleaned up
        /\ op' = [op EXCEPT ![o] = "done"]
        /\ UNCHANGED <<ws, connTimer>>
  /\ UNCHANGED <<platform, closedBy>>

\* Mutant: WSWrapper.close tests the wrong readyState.
AfterClose_NeverCloses == IF ws = "CONNECTING" THEN "ABORTING" ELSE ws

\* readyState after ws.close(4000): a handshake is aborted by the ws package,
\* and not at all by WSWrapper.
AfterClose ==
  CASE ws = "OPEN" -> "CLOSING"
    [] ws = "CONNECTING" /\ platform = "node" -> "ABORTING"
    [] OTHER -> ws

\* Mutant: the heartbeat is not stopped.
CallDisconnect_KeepsHeartbeat(o, waiting, atOnce, armed) ==
  /\ reconnectTimers' = armed \ {reconnectTimeoutID}
  /\ reconnectTimeoutID' = 0
  /\ op' = [op EXCEPT ![o] = IF ws = "none" THEN atOnce ELSE waiting]
  /\ ws' = AfterClose
  /\ closedBy' = IF ws = "OPEN" THEN "us" ELSE closedBy
  /\ UNCHANGED <<platform, heartbeat, connTimer, attempts, drops>>

\* "armed" are the reconnect timers armed just before.  Without a websocket the
\* operation is "at once", else it is "waiting" for the 'close' event.
CallDisconnect(o, waiting, atOnce, armed) ==
  /\ heartbeat' = FALSE
  /\ reconnectTimers' = armed \ {reconnectTimeoutID}
  /\ reconnectTimeoutID' = 0
  /\ op' = [op EXCEPT ![o] = IF ws = "none" THEN atOnce ELSE waiting]
  /\ ws' = AfterClose
  /\ closedBy' = IF ws = "OPEN" THEN "us" ELSE closedBy
  /\ UNCHANGED <<platform, connTimer, attempts, drops>>

CallReconnect(o, armed) == CallDisconnect(o, "reclosing", "resuming", armed)

UserConnect(u) ==
  /\ op[u] = "free"
  /\ CallConnect(u)
  /\ manualDown' = FALSE
  /\ UNCHANGED <<rmVars, timerVars, throwing, failedPings, announced>>

UserDisconnect(u) ==
  /\ op[u] = "free"
  /\ CallDisconnect(u, "closing", "done", reconnectTimers)
  /\ manualDown' = \A o \in Users : ~InFlight(o)
  /\ UNCHANGED <<rmVars, throwing, failedPings, announced>>

UserReconnect(u) ==
  /\ op[u] = "free"
  /\ CallReconnect(u, reconnectTimers)
  /\ manualDown' = FALSE
  /\ UNCHANGED <<rmVars, throwing, failedPings, announced>>

\* reconnect() goes on after its disconnect(); a ping that the same close
\* rejected was rejected first.
Resume(o) ==
  /\ op[o] = "resuming"
  /\ failedPings = {}
  /\ CallConnect(o)
  /\ UNCHANGED <<rmVars, timerVars, throwing, failedPings, manualDown, announced>>

-----------------------------------------------------------------------------
(* The handshake.                                                          *)

\* Mutant: the promises of connect() are left alone.
AfterHandshake_ForgetsConnects ==
  [o \in Ops |-> IF op[o] \in {"closing", "reclosing"} THEN "hung" ELSE op[o]]

\* removeAllListeners() takes the 'close' listener of every disconnect with it;
\* the promises of connect() are resolved or rejected.
AfterHandshake ==
  [o \in Ops |-> CASE op[o] = "connecting" -> "done"
                   [] op[o] \in {"closing", "reclosing"} -> "hung"
                   [] OTHER -> op[o]]

\* Mutants: the connection timeout stays armed; 'connected' is not emitted.
OnceOpen_KeepsTimeout ==
  /\ Quiet
  /\ ws = "CONNECTING"
  /\ op' = AfterHandshake
  /\ attempts' = 0
  /\ announced' = "connected"
  /\ UNCHANGED <<platform, connTimer, rmVars, drops, throwing, failedPings, manualDown>>

OnceOpen_Silent ==
  /\ Quiet
  /\ ws = "CONNECTING"
  /\ connTimer' = FALSE
  /\ op' = AfterHandshake
  /\ attempts' = 0
  /\ UNCHANGED <<platform, announced, rmVars, drops, throwing, failedPings, manualDown>>

OnceOpen ==
  /\ Quiet
  /\ ws = "CONNECTING"
  /\ connTimer' = FALSE
  /\ op' = AfterHandshake
  /\ attempts' = 0
  /\ announced' = "connected"
  /\ UNCHANGED <<platform, rmVars, drops, throwing, failedPings, manualDown>>

Open ==
  /\ OnceOpen
  /\ ws' = "OPEN"
  /\ heartbeat' = TRUE
  /\ UNCHANGED <<closedBy, reconnectTimers, reconnectTimeoutID>>

\* A listener of 'connected' throws: the connection is closed again.
OpenThenListenerThrows ==
  /\ "listener" \in Faults
  /\ OnceOpen
  /\ ws' = "CLOSING"
  /\ closedBy' = "us"
  /\ heartbeat' = FALSE
  /\ reconnectTimers' = reconnectTimers \ {reconnectTimeoutID}
  /\ reconnectTimeoutID' = 0

OnConnectionFailed ==
  /\ ws' = "none"
  /\ connTimer' = FALSE
  /\ op' = AfterHandshake
  /\ UNCHANGED <<platform, rmVars, timerVars, closedBy, throwing, failedPings, manualDown, announced>>

HandshakeFails ==
  /\ Quiet
  /\ "handshake" \in Faults
  /\ ws = "CONNECTING"
  /\ OnConnectionFailed

\* ws.close() in onConnectionFailed lets go of the websocket.  WSWrapper does not
\* close it; it has no listeners any more, and does nothing that is seen here.
ConnectionTimeout ==
  /\ Quiet
  /\ "handshake" \in Faults
  /\ connTimer
  /\ OnConnectionFailed

\* The 'error' of the handshake that ws.close(4000) aborted.
Aborted ==
  /\ ws = "ABORTING"
  /\ OnConnectionFailed

-----------------------------------------------------------------------------
(* The end of an established connection, and the timer that makes another. *)

PeerCloses ==
  /\ Quiet
  /\ ws = "OPEN"
  /\ drops < MaxDrops
  /\ ws' = "CLOSING"
  /\ closedBy' = "peer"
  /\ UNCHANGED <<platform, rmVars, timerVars, connTimer, op, throwing, failedPings,
                 manualDown, announced>>

\* A close we asked for ends with our code, unless the peer does not take part.
CloseCodes == IF closedBy = "us" THEN {"intentional"} \cup PeerCodes ELSE PeerCodes

\* Pings that this step rejects: their catch is queued.
NewlyFailed ==
  {p \in Pings : /\ outcome[p] \in {"idle", "pending"}
                 /\ outcome'[p] \notin {"idle", "pending", "resolved"}}

\* Mutant: the backoff is asked twice.
ScheduleReconnect_CountsTwice ==
  /\ attempts' = attempts + 2
  /\ drops' = drops + 1
  /\ reconnectTimers' = reconnectTimers \cup {drops'}
  /\ reconnectTimeoutID' = drops'

\* intentionalDisconnect(): a timer is set, whatever reconnectTimeoutID held.
ScheduleReconnect ==
  /\ attempts' = attempts + 1
  /\ drops' = drops + 1
  /\ reconnectTimers' = reconnectTimers \cup {drops'}
  /\ reconnectTimeoutID' = drops'

Close(code) ==
  /\ Quiet
  /\ ws = "CLOSING"
  /\ code \in CloseCodes
  /\ heartbeat' = FALSE
  /\ RejectAll
  /\ failedPings' = NewlyFailed
  /\ ws' = "none"
  /\ closedBy' = "nobody"
  /\ announced' = "disconnected"
  /\ \/ /\ code \notin {"intentional", "undefined"}
        /\ drops < MaxDrops
        /\ ScheduleReconnect
     \/ /\ code \in {"intentional", "undefined"}
        /\ UNCHANGED <<attempts, drops, reconnectTimers, reconnectTimeoutID>>
  /\ op' = [o \in Ops |-> CASE op[o] = "closing" -> "done"
                            [] op[o] = "reclosing" -> "resuming"
                            [] OTHER -> op[o]]
  /\ UNCHANGED <<platform, connTimer, throwing, manualDown>>

ReconnectTimerFires(t) ==
  /\ Quiet
  /\ t \in reconnectTimers
  /\ CallReconnect(t, reconnectTimers \ {t})
  /\ UNCHANGED <<rmVars, throwing, failedPings, manualDown, announced>>

-----------------------------------------------------------------------------
(* Requests.                                                               *)

\* What becomes of a message: only the ws package reports errors to a callback;
\* both throw while CONNECTING, and WSWrapper drops the message while CLOSING.
SendFates ==
  CASE ws = "OPEN" -> IF platform = "node" THEN Fates ELSE {"delivered", "lost"}
    [] ws = "CLOSING" /\ platform = "browser" -> {"lost"}
    [] OTHER -> {"failing"}

Request(r) ==
  /\ \/ /\ ws = "none"
        /\ RefuseNotConnected(r)
        /\ UNCHANGED throwing
     \/ /\ ws # "none"
        /\ RefuseDuplicate(r)
        /\ UNCHANGED throwing
     \/ /\ ws # "none"
        /\ \E fate \in SendFates : CreateRequest(r, fate)
        /\ throwing' = IF ws # "OPEN" THEN throwing \cup (failing' \ failing) ELSE throwing
  /\ failedPings' = failedPings \cup NewlyFailed
  /\ UNCHANGED <<socketVars, timerVars, op, manualDown, announced>>

UserRequest(r) == r \notin Pings /\ Request(r)

Heartbeat(p) == Quiet /\ heartbeat /\ p \in Pings /\ Request(p)

\* The catch of the heartbeat: reconnect().
PingCatch(p) ==
  /\ p \in failedPings
  /\ failedPings' = failedPings \ {p}
  /\ CallReconnect(p, reconnectTimers)
  /\ UNCHANGED <<rmVars, throwing, manualDown, announced>>

\* What the request manager does leaves the socket alone.
OnlyRequests ==
  /\ failedPings' = failedPings \cup NewlyFailed
  /\ UNCHANGED <<socketVars, timerVars, op, manualDown, announced>>

SendThrew(r) ==
  /\ r \in throwing
  /\ SendFails(r)
  /\ throwing' = throwing \ {r}
  /\ OnlyRequests

SendReportsError(r) ==
  /\ Quiet
  /\ SendFails(r)
  /\ OnlyRequests
  /\ UNCHANGED throwing

RequestTimesOut(r) ==
  /\ Quiet
  /\ TimerFires(r)
  /\ OnlyRequests
  /\ UNCHANGED throwing

\* The ws package still delivers messages while it closes.
OnMessage ==
  /\ Quiet
  /\ ws = "OPEN" \/ (ws = "CLOSING" /\ platform = "node")
  /\ \/ BadResponse
     \/ \E r \in Calls : IgnoreResponse(r) \/ \E status \in Status : HandleResponse(r, status)
  /\ OnlyRequests
  /\ UNCHANGED throwing

-----------------------------------------------------------------------------

Handshake == Open \/ OpenThenListenerThrows \/ HandshakeFails \/ ConnectionTimeout

ConnNext ==
  \/ \E u \in Users : UserConnect(u) \/ UserDisconnect(u) \/ UserReconnect(u)
  \/ \E o \in Ops : Resume(o)
  \/ Handshake \/ Aborted
  \/ PeerCloses
  \/ \E code \in {"intentional", "undefined", "other"} : Close(code)
  \/ \E t \in Timers : ReconnectTimerFires(t)
  \/ \E r \in Calls : \/ UserRequest(r) \/ Heartbeat(r) \/ PingCatch(r)
                      \/ SendThrew(r) \/ SendReportsError(r) \/ RequestTimesOut(r)
  \/ OnMessage

\* A silent server leaves nothing but the connection timeout.
HandshakeEnds ==
  \/ ConnectionTimeout
  \/ "handshake" \notin Faults /\ (Open \/ OpenThenListenerThrows)

\* Continuations run; armed timers fire; a handshake that cannot fail is done in
\* the end; a websocket that is closing is closed in the end (the ws package
\* forces it after 30 seconds).
ConnFairness ==
  /\ \A o \in Ops : WF_vars(Resume(o))
  /\ WF_vars(HandshakeEnds) /\ WF_vars(Aborted)
  /\ WF_vars(\E code \in {"intentional", "undefined", "other"} : Close(code))
  /\ \A t \in Timers : WF_vars(ReconnectTimerFires(t))
  /\ \A r \in Calls : WF_vars(PingCatch(r)) /\ WF_vars(SendThrew(r)) /\ WF_vars(RequestTimesOut(r))

ConnSpec == ConnInit /\ [][ConnNext]_vars /\ ConnFairness

-----------------------------------------------------------------------------
(* What the connection promises.                                           *)

\* Every variable keeps its type.
ConnTypeOK ==
  /\ RMTypeOK
  /\ platform \in Platforms
  /\ ws \in WsStates
  /\ closedBy \in {"nobody", "us", "peer"}
  /\ connTimer \in BOOLEAN /\ heartbeat \in BOOLEAN
  /\ op \in [Ops -> OpStates]
  /\ reconnectTimers \subseteq Timers
  /\ reconnectTimeoutID \in Timers \cup {0}
  /\ drops \in 0..MaxDrops /\ attempts \in 0..drops
  /\ throwing \subseteq failing
  /\ failedPings \subseteq Pings
  /\ manualDown \in BOOLEAN
  /\ announced \in {"connected", "disconnected"}

\* The connection timeout is armed exactly while a handshake is under way: it
\* acts on this.ws, so a timer that outlived its handshake would tear down the
\* next connection.
ConnTimerGuardsHandshake == connTimer <=> ws \in {"CONNECTING", "ABORTING"}

\* Whoever waits for a connection or for a close waits for an event that can
\* still come: no promise is left in promisesAwaitingConnection after the
\* handshake, no disconnect listens for the close of a websocket that is gone.
WaitersHaveSource ==
  \A o \in Ops :
    /\ op[o] = "connecting" => ws \in {"CONNECTING", "ABORTING"}
    /\ op[o] \in {"closing", "reclosing"} => ws # "none"

\* A pending request was sent on the established websocket of now, or its send
\* has just thrown: no request outlives its websocket.
NoRequestOutlivesSocket ==
  \A r \in Calls : outcome[r] = "pending" => ws \in {"OPEN", "CLOSING"} \/ r \in throwing

\* The heartbeat runs on every open connection, and stops at the latest when it
\* is closed; our own close stops it at once.
HeartbeatWatchesSocket ==
  /\ ws = "OPEN" => heartbeat
  /\ heartbeat => ws = "OPEN" \/ (ws = "CLOSING" /\ closedBy = "peer")

\* The exponent of the backoff never grows: a failed attempt is not retried, and
\* a successful one resets it.
BackoffNeverGrows == attempts <= 1

\* 'connected' and 'disconnected' alternate, and tell the truth.
EventsAlternate == announced = "connected" <=> ws \in {"OPEN", "CLOSING"}

\* A disconnect() goes on once its websocket is closed, be it that of a
\* reconnect(), or its listener is lost.
DisconnectsGoOn ==
  \A o \in Ops : op[o] \in {"closing", "reclosing", "resuming"}
                   ~> op[o] \notin {"closing", "reclosing", "resuming"}

\* To the layer above, the connection is one link that is dialled, opened and
\* closed in turn: no second websocket is made while there is one, and every
\* connect() that waits for a handshake settles, with all the others, at its end,
\* which comes.
LinkState == CASE ws = "none" -> "down" [] ws = "CONNECTING" -> "handshake"
               [] ws = "ABORTING" -> "aborting" [] ws = "OPEN" -> "up" [] OTHER -> "closing"
Link == INSTANCE ConnectionLink
          WITH link <- LinkState, awaiting <- {o \in Ops : op[o] = "connecting"}
ConnLinkSpec == Link!Spec

\* connection.ts:235: disconnect() returns a promise "that resolves when the
\* connection is destroyed".
DisconnectResolves == \A o \in Ops : op[o] # "hung"

\* connection.ts:433: "If this wasn't a manual disconnect, then lets reconnect
\* ASAP": after a manual one the connection stays down.
ManualDisconnectStaysDown == [][manualDown /\ manualDown' /\ ws = "none" => ws' = "none"]_vars

=============================================================================
