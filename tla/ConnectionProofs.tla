----------------------------- MODULE ConnectionProofs -----------------------------
(***************************************************************************)
(* Proofs about Connection, for every set of calls and users, any number   *)
(* of unexpected closes, both platforms and every choice of faults.        *)
(***************************************************************************)
EXTENDS Connection, RequestManagerProofs

\* The variables of the connection itself; with RMTypeOK this is ConnTypeOK.
SocketTypes ==
  /\ platform \in Platforms
  /\ ws \in WsStates
  /\ closedBy \in {"nobody", "us", "peer"}
  /\ connTimer \in BOOLEAN /\ heartbeat \in BOOLEAN
  /\ op \in [Ops -> OpStates]
  /\ reconnectTimers \subseteq Timers
  /\ reconnectTimeoutID \in Timers \cup {0}
  /\ drops \in 0..MaxDrops /\ attempts \in 0..drops
  /\ announced \in {"connected", "disconnected"}

TaskTypes ==
  /\ throwing \subseteq failing
  /\ failedPings \subseteq Pings
  /\ manualDown \in BOOLEAN

\* An established connection has reset the backoff.
BackoffReset == ws \in {"OPEN", "CLOSING"} => attempts = 0

\* What the socket, its timers and the operations keep among themselves ...
SocketInv ==
  /\ SocketTypes
  /\ ConnTimerGuardsHandshake
  /\ WaitersHaveSource
  /\ HeartbeatWatchesSocket
  /\ BackoffReset /\ BackoffNeverGrows
  /\ EventsAlternate

\* ... and with the requests.
ConnInv == RMInv /\ SocketInv /\ TaskTypes /\ NoRequestOutlivesSocket

\* A reconnect is begun once for a timer and once for a ping: it is still to be
\* begun as long as the timer is armed or not yet set, and the ping not yet caught.
BegunOnce ==
  /\ reconnectTimers \subseteq 1..drops
  /\ \A t \in Timers : t \in reconnectTimers \/ t > drops => op[t] = "free"
  /\ \A p \in Pings : p \in failedPings \/ outcome[p] \in {"idle", "pending"}
                       => op[p] = "free"
  /\ \A p \in failedPings : outcome[p] \notin {"idle", "pending"}

-----------------------------------------------------------------------------
(* Every step of the connection is a step of the request manager.          *)

LEMMA RequestManagerStep ==
  ASSUME [ConnNext]_vars
  PROVE  [RMNext]_rmVars
<1> USE DEF RMNext
<1>1. ASSUME NEW r \in Calls, Request(r)
      PROVE  RMNext
  <2>1. SendFates \subseteq Fates
    BY DEF SendFates, Fates
  <2>2. QED
    BY <1>1, <2>1 DEF Request
<1>2. ASSUME NEW r \in Calls,
             UserRequest(r) \/ Heartbeat(r) \/ SendThrew(r) \/ SendReportsError(r)
               \/ RequestTimesOut(r)
      PROVE  RMNext
  BY <1>1, <1>2 DEF UserRequest, Heartbeat, SendThrew, SendReportsError, RequestTimesOut
<1>3. CASE OnMessage
  BY <1>3 DEF OnMessage
<1>4. ASSUME NEW code, Close(code)
      PROVE  RMNext
  BY <1>4 DEF Close
<1>5. ASSUME NEW u \in Users, UserConnect(u) \/ UserDisconnect(u) \/ UserReconnect(u)
      PROVE  UNCHANGED rmVars
  BY <1>5 DEF UserConnect, UserDisconnect, UserReconnect
<1>6. ASSUME NEW o, Resume(o) \/ ReconnectTimerFires(o) \/ PingCatch(o)
      PROVE  UNCHANGED rmVars
  BY <1>6 DEF Resume, ReconnectTimerFires, PingCatch
<1>7. CASE Handshake \/ Aborted \/ PeerCloses
  BY <1>7 DEF Handshake, Open, OpenThenListenerThrows, HandshakeFails, ConnectionTimeout,
              OnceOpen, OnConnectionFailed, Aborted, PeerCloses
<1>8. CASE UNCHANGED vars
  BY <1>8 DEF vars
<1>9. QED
  BY <1>2, <1>3, <1>4, <1>5, <1>6, <1>7, <1>8 DEF ConnNext

\* The connection uses the request manager as RequestManager says: whatever is
\* proved of the manager's steps holds of the connection.
THEOREM UsesRequestManager == ConnSpec => RMInit /\ [][RMNext]_rmVars
<1>1. ConnInit => RMInit
  BY DEF ConnInit
<1>2. [ConnNext]_vars => [RMNext]_rmVars
  BY RequestManagerStep
<1>3. QED
  BY <1>1, <1>2, PTL DEF ConnSpec

-----------------------------------------------------------------------------
(* The socket.                                                             *)

LEMMA ConnectKeepsSocket ==
  ASSUME SocketInv, NEW o \in Ops, CallConnect(o), UNCHANGED <<timerVars, announced>>
  PROVE  SocketInv'
<1> USE DEF SocketInv, timerVars
<1>1. SocketTypes'
  BY DEF SocketTypes, CallConnect, WsStates, OpStates
<1>2. WaitersHaveSource'
  BY DEF WaitersHaveSource, CallConnect, SocketTypes
<1>3. ConnTimerGuardsHandshake' /\ HeartbeatWatchesSocket'
  BY DEF ConnTimerGuardsHandshake, HeartbeatWatchesSocket, CallConnect
<1>4. BackoffReset' /\ BackoffNeverGrows' /\ EventsAlternate'
  BY DEF BackoffReset, BackoffNeverGrows, EventsAlternate, CallConnect
<1>5. QED
  BY <1>1, <1>2, <1>3, <1>4

LEMMA DisconnectKeepsSocket ==
  ASSUME SocketInv, NEW o \in Ops,
         NEW waiting \in {"closing", "reclosing"}, NEW atOnce \in {"done", "resuming"},
         NEW armed \in SUBSET Timers,
         CallDisconnect(o, waiting, atOnce, armed), UNCHANGED announced
  PROVE  SocketInv'
<1> USE DEF SocketInv
<1>1. /\ ws = "OPEN" => ws' = "CLOSING" /\ closedBy' = "us"
      /\ ws # "OPEN" => ws' \in {ws, "ABORTING"} /\ closedBy' = closedBy
      /\ ws' = "ABORTING" => ws \in {"CONNECTING", "ABORTING"}
      /\ ws' = "none" <=> ws = "none"
  BY DEF CallDisconnect, AfterClose
<1>2. op' = [op EXCEPT ![o] = IF ws = "none" THEN atOnce ELSE waiting]
      /\ heartbeat' = FALSE /\ UNCHANGED <<platform, connTimer, attempts, drops>>
      /\ reconnectTimers' \subseteq Timers /\ reconnectTimeoutID' = 0
  BY DEF CallDisconnect
<1>3. SocketTypes'
  BY <1>1, <1>2 DEF SocketTypes, WsStates, OpStates
<1>4. WaitersHaveSource'
  BY <1>1, <1>2 DEF WaitersHaveSource, SocketTypes
<1>5. ConnTimerGuardsHandshake'
  BY <1>1, <1>2 DEF ConnTimerGuardsHandshake, SocketTypes, WsStates, AfterClose, CallDisconnect
<1>6. HeartbeatWatchesSocket' /\ BackoffReset' /\ BackoffNeverGrows' /\ EventsAlternate'
  BY <1>1, <1>2 DEF HeartbeatWatchesSocket, BackoffReset, BackoffNeverGrows, EventsAlternate,
                    SocketTypes, WsStates
<1>7. QED
  BY <1>3, <1>4, <1>5, <1>6

\* After the handshake nobody waits for a connection or a close.
LEMMA AfterHandshakeSettles ==
  ASSUME SocketTypes, op' = AfterHandshake
  PROVE  /\ op' \in [Ops -> OpStates]
         /\ \A o \in Ops : op'[o] \notin {"connecting", "closing", "reclosing"}
  BY DEF SocketTypes, AfterHandshake, OpStates

LEMMA HandshakeKeepsSocket ==
  ASSUME SocketInv, Handshake \/ Aborted
  PROVE  SocketInv'
<1> USE DEF SocketInv
<1>1. CASE OnceOpen /\ (Open \/ OpenThenListenerThrows)
  <2>1. /\ op' = AfterHandshake /\ connTimer' = FALSE /\ attempts' = 0
        /\ announced' = "connected" /\ UNCHANGED <<platform, drops>>
        /\ ws' \in {"OPEN", "CLOSING"}
    BY <1>1 DEF OnceOpen, Open, OpenThenListenerThrows
  <2>2. op' \in [Ops -> OpStates] /\ WaitersHaveSource'
    BY <2>1, AfterHandshakeSettles DEF WaitersHaveSource
  <2>3. /\ reconnectTimers' \subseteq Timers /\ reconnectTimeoutID' \in Timers \cup {0}
        /\ heartbeat' \in BOOLEAN /\ closedBy' \in {"nobody", "us", "peer"}
    BY <1>1 DEF Open, OpenThenListenerThrows, SocketTypes
  <2>4. SocketTypes'
    <3>1. drops' \in 0..MaxDrops /\ attempts' \in 0..drops'
      BY <2>1, MaxDropsAssumption DEF SocketTypes
    <3>2. connTimer' \in BOOLEAN
      BY <2>1 DEF SocketTypes
    <3>3. ws' \in WsStates /\ announced' \in {"connected", "disconnected"}
      BY <2>1 DEF WsStates
    <3>4. QED
      BY <2>1, <2>2, <2>3, <3>1, <3>2, <3>3 DEF SocketTypes
  <2>5. HeartbeatWatchesSocket'
    BY <1>1 DEF Open, OpenThenListenerThrows, HeartbeatWatchesSocket
  <2>6. ConnTimerGuardsHandshake' /\ BackoffReset' /\ BackoffNeverGrows' /\ EventsAlternate'
    BY <2>1 DEF ConnTimerGuardsHandshake, BackoffReset, BackoffNeverGrows, EventsAlternate
  <2>7. QED
    BY <2>2, <2>4, <2>5, <2>6
<1>2. CASE OnConnectionFailed /\ (HandshakeFails \/ ConnectionTimeout \/ Aborted)
  <2>1. /\ ws \in {"CONNECTING", "ABORTING"}
        /\ ws' = "none" /\ connTimer' = FALSE /\ op' = AfterHandshake
        /\ UNCHANGED <<platform, timerVars, closedBy, announced>>
    BY <1>2 DEF OnConnectionFailed, HandshakeFails, ConnectionTimeout, Aborted,
                ConnTimerGuardsHandshake, SocketTypes
  <2>2. op' \in [Ops -> OpStates] /\ WaitersHaveSource'
    BY <2>1, AfterHandshakeSettles DEF WaitersHaveSource
  <2>3. SocketTypes'
    BY <2>1, <2>2 DEF SocketTypes, WsStates, timerVars
  <2>4. ConnTimerGuardsHandshake' /\ HeartbeatWatchesSocket'
    BY <2>1 DEF ConnTimerGuardsHandshake, HeartbeatWatchesSocket, timerVars
  <2>5. BackoffReset' /\ BackoffNeverGrows' /\ EventsAlternate'
    BY <2>1 DEF BackoffReset, BackoffNeverGrows, EventsAlternate, timerVars
  <2>6. QED
    BY <2>2, <2>3, <2>4, <2>5
<1>3. QED
  BY <1>1, <1>2 DEF Handshake, Open, OpenThenListenerThrows, HandshakeFails, ConnectionTimeout,
                    Aborted

LEMMA PeerKeepsSocket ==
  ASSUME SocketInv, PeerCloses
  PROVE  SocketInv'
<1> USE DEF SocketInv, PeerCloses, timerVars
<1>1. SocketTypes' /\ WaitersHaveSource'
  BY DEF SocketTypes, WsStates, WaitersHaveSource
<1>2. ConnTimerGuardsHandshake' /\ HeartbeatWatchesSocket'
  BY DEF ConnTimerGuardsHandshake, HeartbeatWatchesSocket
<1>3. BackoffReset' /\ BackoffNeverGrows' /\ EventsAlternate'
  BY DEF BackoffReset, BackoffNeverGrows, EventsAlternate
<1>4. QED
  BY <1>1, <1>2, <1>3

LEMMA CloseKeepsSocket ==
  ASSUME SocketInv, NEW code, Close(code)
  PROVE  SocketInv'
<1> USE DEF SocketInv
<1>1. /\ ws = "CLOSING" /\ ws' = "none" /\ closedBy' = "nobody" /\ heartbeat' = FALSE
      /\ announced' = "disconnected" /\ UNCHANGED <<platform, connTimer>>
  BY DEF Close
<1>2. connTimer = FALSE /\ attempts = 0
  BY <1>1 DEF ConnTimerGuardsHandshake, BackoffReset, SocketTypes
<1>3. /\ op' \in [Ops -> OpStates]
      /\ \A o \in Ops : op'[o] \notin {"connecting", "closing", "reclosing"}
  BY <1>1 DEF Close, SocketTypes, OpStates, WaitersHaveSource
<1>4. /\ drops' \in 0..MaxDrops /\ attempts' \in 0..drops' /\ attempts' <= 1
      /\ reconnectTimers' \subseteq Timers /\ reconnectTimeoutID' \in Timers \cup {0}
  BY <1>2, MaxDropsAssumption DEF Close, ScheduleReconnect, SocketTypes, Timers
<1>5. SocketTypes' /\ WaitersHaveSource'
  BY <1>1, <1>3, <1>4 DEF SocketTypes, WsStates, WaitersHaveSource
<1>6. ConnTimerGuardsHandshake' /\ HeartbeatWatchesSocket'
  BY <1>1, <1>2 DEF ConnTimerGuardsHandshake, HeartbeatWatchesSocket
<1>7. BackoffReset' /\ BackoffNeverGrows' /\ EventsAlternate'
  BY <1>1, <1>4 DEF BackoffReset, BackoffNeverGrows, EventsAlternate
<1>8. QED
  BY <1>5, <1>6, <1>7

\* Requests and responses leave the socket alone.
LEMMA RequestsKeepSocket ==
  ASSUME SocketInv, UNCHANGED <<socketVars, timerVars, op, announced>>
  PROVE  SocketInv'
  BY DEF SocketInv, socketVars, timerVars, SocketTypes, ConnTimerGuardsHandshake,
         WaitersHaveSource, HeartbeatWatchesSocket, BackoffReset, BackoffNeverGrows,
         EventsAlternate

LEMMA SocketStep ==
  ASSUME SocketInv, TaskTypes, [ConnNext]_vars
  PROVE  SocketInv'
<1>1. ASSUME NEW u \in Users, UserConnect(u) \/ UserDisconnect(u) \/ UserReconnect(u)
      PROVE  SocketInv'
  <2>1. u \in Ops /\ reconnectTimers \in SUBSET Timers
    BY DEF Ops, SocketInv, SocketTypes
  <2>2. CASE UserConnect(u)
    BY <2>1, <2>2, ConnectKeepsSocket DEF UserConnect
  <2>3. CASE UserDisconnect(u)
    BY <2>1, <2>3, DisconnectKeepsSocket DEF UserDisconnect
  <2>4. CASE UserReconnect(u)
    BY <2>1, <2>4, DisconnectKeepsSocket DEF UserReconnect, CallReconnect
  <2>5. QED
    BY <1>1, <2>2, <2>3, <2>4
<1>2. ASSUME NEW o \in Ops, Resume(o)
      PROVE  SocketInv'
  BY <1>2, ConnectKeepsSocket DEF Resume
<1>3. ASSUME NEW t \in Timers, ReconnectTimerFires(t)
      PROVE  SocketInv'
  <2>1. t \in Ops /\ reconnectTimers \ {t} \in SUBSET Timers
    BY DEF Ops, SocketInv, SocketTypes
  <2>2. QED
    BY <1>3, <2>1, DisconnectKeepsSocket DEF ReconnectTimerFires, CallReconnect
<1>4. ASSUME NEW r \in Calls, PingCatch(r)
      PROVE  SocketInv'
  <2>1. r \in Ops /\ reconnectTimers \in SUBSET Timers
    BY <1>4 DEF Ops, PingCatch, TaskTypes, SocketInv, SocketTypes
  <2>2. QED
    BY <1>4, <2>1, DisconnectKeepsSocket DEF PingCatch, CallReconnect
<1>5. ASSUME NEW code, Close(code)
      PROVE  SocketInv'
  BY <1>5, CloseKeepsSocket
<1>6. CASE Handshake \/ Aborted
  BY <1>6, HandshakeKeepsSocket
<1>7. CASE PeerCloses
  BY <1>7, PeerKeepsSocket
<1>8. ASSUME NEW r \in Calls, UserRequest(r) \/ Heartbeat(r)
      PROVE  SocketInv'
  BY <1>8, RequestsKeepSocket DEF UserRequest, Heartbeat, Request
<1>9. ASSUME NEW r \in Calls, SendThrew(r) \/ SendReportsError(r) \/ RequestTimesOut(r)
      PROVE  SocketInv'
  BY <1>9, RequestsKeepSocket DEF SendThrew, SendReportsError, RequestTimesOut, OnlyRequests
<1>10. CASE OnMessage
  BY <1>10, RequestsKeepSocket DEF OnMessage, OnlyRequests
<1>11. CASE UNCHANGED vars
  BY <1>11, RequestsKeepSocket DEF vars, connVars
<1>12. QED
  BY <1>1, <1>2, <1>3, <1>4, <1>5, <1>6, <1>7, <1>8, <1>9, <1>10, <1>11 DEF ConnNext

-----------------------------------------------------------------------------
(* Queued continuations and pending requests.                              *)

LEMMA TasksStep ==
  ASSUME RMTypeOK, TaskTypes, [ConnNext]_vars
  PROVE  TaskTypes'
<1> USE DEF TaskTypes
<1>0. NewlyFailed \subseteq Pings
  BY DEF NewlyFailed
<1>1. ASSUME NEW r \in Calls, Request(r)
      PROVE  TaskTypes'
  <2>1. throwing' \subseteq failing'
    BY <1>1 DEF Request, CreateRequest, RefuseDuplicate, RefuseNotConnected
  <2>2. QED
    BY <1>0, <1>1, <2>1 DEF Request
<1>2. ASSUME NEW r \in Calls, SendThrew(r) \/ SendReportsError(r) \/ RequestTimesOut(r)
      PROVE  TaskTypes'
  <2>1. throwing' \subseteq failing'
    BY <1>2 DEF SendThrew, SendReportsError, RequestTimesOut, SendFails, TimerFires, Quiet
  <2>2. QED
    BY <1>0, <1>2, <2>1 DEF SendThrew, SendReportsError, RequestTimesOut, OnlyRequests
<1>3. CASE OnMessage
  <2>1. UNCHANGED <<failing, throwing>>
    BY <1>3 DEF OnMessage, BadResponse, IgnoreResponse, HandleResponse
  <2>2. QED
    BY <1>0, <1>3, <2>1 DEF OnMessage, OnlyRequests
<1>4. ASSUME NEW code, Close(code)
      PROVE  TaskTypes'
  BY <1>0, <1>4 DEF Close, RejectAll
<1>5. ASSUME NEW u \in Users, UserConnect(u) \/ UserDisconnect(u) \/ UserReconnect(u)
      PROVE  TaskTypes'
  BY <1>5 DEF UserConnect, UserDisconnect, UserReconnect, rmVars
<1>6. ASSUME NEW o, Resume(o) \/ ReconnectTimerFires(o) \/ PingCatch(o)
      PROVE  TaskTypes'
  BY <1>6 DEF Resume, ReconnectTimerFires, PingCatch, rmVars
<1>7. CASE Handshake \/ Aborted \/ PeerCloses
  BY <1>7 DEF Handshake, Open, OpenThenListenerThrows, HandshakeFails, ConnectionTimeout,
              OnceOpen, OnConnectionFailed, Aborted, PeerCloses, rmVars
<1>8. CASE UNCHANGED vars
  BY <1>8 DEF vars, connVars, rmVars
<1>9. ASSUME NEW r \in Calls, UserRequest(r) \/ Heartbeat(r)
      PROVE  TaskTypes'
  BY <1>1, <1>9 DEF UserRequest, Heartbeat
<1>10. QED
  BY <1>2, <1>3, <1>4, <1>5, <1>6, <1>7, <1>8, <1>9 DEF ConnNext

\* A step of a request that issues none leaves no new promise pending.
LEMMA NoNewPending ==
  ASSUME RMInv, NEW r \in Calls,
         \/ TimerFires(r) \/ SendFails(r) \/ IgnoreResponse(r)
         \/ RefuseDuplicate(r) \/ RefuseNotConnected(r) \/ BadResponse
         \/ \E status \in Status : HandleResponse(r, status)
  PROVE  \A q \in Calls : outcome'[q] = "pending" => outcome[q] = "pending"
<1> USE DEF RMInv, TypesAndTable
<1>1. ASSUME NEW id \in Awaiting, NEW o, o # "pending", NEW by, NEW armed, Settle(id, o, by, armed)
      PROVE  \A q \in Calls : outcome'[q] = "pending" => outcome[q] = "pending"
  BY <1>1 DEF Settle, RMTypeOK
<1>2. CASE TimerFires(r) \/ SendFails(r)
  BY <1>1, <1>2 DEF TimerFires, SendFails
<1>3. ASSUME NEW status \in Status, HandleResponse(r, status)
      PROVE  \A q \in Calls : outcome'[q] = "pending" => outcome[q] = "pending"
  <2>1. Verdict(status) # "pending"
    BY DEF Verdict
  <2>2. QED
    BY <1>1, <1>3, <2>1 DEF HandleResponse
<1>4. CASE IgnoreResponse(r) \/ BadResponse \/ RefuseDuplicate(r) \/ RefuseNotConnected(r)
  BY <1>4 DEF IgnoreResponse, BadResponse, RefuseDuplicate, RefuseNotConnected, RMTypeOK
<1>5. QED
  BY <1>2, <1>3, <1>4

\* When the send of r fails, r is not pending any more.
LEMMA FailedIsNotPending ==
  ASSUME RMInv, NEW r \in Calls, SendFails(r)
  PROVE  outcome'[r] # "pending"
<1> USE DEF RMInv, TypesAndTable
<1>1. SUFFICES ASSUME outcome[r] = "pending"
               PROVE  outcome'[r] # "pending"
  BY NoNewPending
<1>2. idOf[r] \in Awaiting /\ promisesAwaitingResponse[idOf[r]] = r
  <2>1. r \in timers
    BY <1>1 DEF TableConsistent
  <2>2. QED
    BY <2>1, ArmedHasEntry
<1>3. QED
  BY <1>2 DEF SendFails, Settle, RMTypeOK

LEMMA PendingStep ==
  ASSUME ConnInv, [ConnNext]_vars
  PROVE  NoRequestOutlivesSocket'
<1> USE DEF ConnInv
<1>1. ASSUME NEW r \in Calls, Request(r)
      PROVE  NoRequestOutlivesSocket'
  <2>1. ws' = ws
    BY <1>1 DEF Request, socketVars
  <2>2. CASE RefuseNotConnected(r) \/ RefuseDuplicate(r)
    <3>1. throwing \subseteq throwing'
      BY <1>1 DEF Request
    <3>2. QED
      BY <2>1, <2>2, <3>1, NoNewPending DEF NoRequestOutlivesSocket
  <2>3. ASSUME NEW fate \in SendFates, CreateRequest(r, fate),
               throwing' = IF ws # "OPEN" THEN throwing \cup (failing' \ failing) ELSE throwing
        PROVE  NoRequestOutlivesSocket'
    <3>1. \A q \in Calls \ {r} : outcome'[q] = outcome[q]
      BY <2>3 DEF CreateRequest, RMInv, TypesAndTable, RMTypeOK
    <3>2. ws \notin {"OPEN", "CLOSING"} => r \in failing' \ failing
      <4>1. r \notin failing
        BY <2>3 DEF CreateRequest, RMInv, IdsConsistent, Issued
      <4>2. QED
        BY <2>3, <4>1 DEF CreateRequest, SendFates
    <3>3. QED
      BY <2>1, <2>3, <3>1, <3>2 DEF NoRequestOutlivesSocket
  <2>4. QED
    BY <1>1, <2>2, <2>3 DEF Request
<1>2. ASSUME NEW r \in Calls, SendThrew(r)
      PROVE  NoRequestOutlivesSocket'
  <2>1. ws' = ws /\ throwing' = throwing \ {r} /\ SendFails(r)
    BY <1>2 DEF SendThrew, OnlyRequests, socketVars
  <2>2. QED
    BY <2>1, NoNewPending, FailedIsNotPending DEF NoRequestOutlivesSocket
<1>3. ASSUME NEW r \in Calls, SendReportsError(r) \/ RequestTimesOut(r)
      PROVE  NoRequestOutlivesSocket'
  <2>1. UNCHANGED <<ws, throwing>> /\ (SendFails(r) \/ TimerFires(r))
    BY <1>3 DEF SendReportsError, RequestTimesOut, OnlyRequests, socketVars
  <2>2. QED
    BY <2>1, NoNewPending DEF NoRequestOutlivesSocket
<1>4. CASE OnMessage
  <2>1. ws' = ws /\ ws \in {"OPEN", "CLOSING"}
    BY <1>4 DEF OnMessage, OnlyRequests, socketVars
  <2>2. QED
    BY <2>1 DEF NoRequestOutlivesSocket
<1>5. ASSUME NEW code, Close(code)
      PROVE  NoRequestOutlivesSocket'
  <2>1. \A r \in Calls : outcome'[r] # "pending"
    BY <1>5 DEF Close, RejectAll, RMInv, TypesAndTable, TableConsistent
  <2>2. QED
    BY <2>1 DEF NoRequestOutlivesSocket
<1>6. ASSUME UNCHANGED <<outcome, throwing>>,
             ws \in {"OPEN", "CLOSING"} => ws' \in {"OPEN", "CLOSING"}
      PROVE  NoRequestOutlivesSocket'
  BY <1>6 DEF NoRequestOutlivesSocket
<1>7. ASSUME NEW o, CallConnect(o) \/ \E armed : CallReconnect(o, armed)
                      \/ CallDisconnect(o, "closing", "done", reconnectTimers)
      PROVE  ws \in {"OPEN", "CLOSING"} => ws' \in {"OPEN", "CLOSING"}
  BY <1>7 DEF CallConnect, CallReconnect, CallDisconnect, AfterClose
<1>8. ASSUME NEW u \in Users, UserConnect(u) \/ UserDisconnect(u) \/ UserReconnect(u)
      PROVE  NoRequestOutlivesSocket'
  BY <1>6, <1>7, <1>8 DEF UserConnect, UserDisconnect, UserReconnect, rmVars
<1>9. ASSUME NEW o, Resume(o) \/ ReconnectTimerFires(o) \/ PingCatch(o)
      PROVE  NoRequestOutlivesSocket'
  BY <1>6, <1>7, <1>9 DEF Resume, ReconnectTimerFires, PingCatch, rmVars
<1>10. CASE Handshake \/ Aborted \/ PeerCloses
  <2>1. UNCHANGED <<outcome, throwing>>
    BY <1>10 DEF Handshake, Open, OpenThenListenerThrows, HandshakeFails, ConnectionTimeout,
                 OnceOpen, OnConnectionFailed, Aborted, PeerCloses, rmVars
  <2>2. ws \in {"OPEN", "CLOSING"} => ws' \in {"OPEN", "CLOSING"}
    BY <1>10 DEF Handshake, Open, OpenThenListenerThrows, HandshakeFails, ConnectionTimeout,
                 OnceOpen, Aborted, PeerCloses, SocketInv, ConnTimerGuardsHandshake
  <2>3. QED
    BY <1>6, <2>1, <2>2
<1>11. CASE UNCHANGED vars
  BY <1>6, <1>11 DEF vars, connVars, socketVars, rmVars
<1>12. ASSUME NEW r \in Calls, UserRequest(r) \/ Heartbeat(r)
       PROVE  NoRequestOutlivesSocket'
  BY <1>1, <1>12 DEF UserRequest, Heartbeat
<1>13. QED
  BY <1>2, <1>3, <1>4, <1>5, <1>8, <1>9, <1>10, <1>11, <1>12 DEF ConnNext

-----------------------------------------------------------------------------
(* To the layer above, the connection is a link.                           *)

Waiting == {o \in Ops : op[o] = "connecting"}

LEMMA LinkDefs ==
  /\ Link!vars = <<LinkState, Waiting>>
  /\ LinkState' = CASE ws' = "none" -> "down" [] ws' = "CONNECTING" -> "handshake"
                    [] ws' = "ABORTING" -> "aborting" [] ws' = "OPEN" -> "up"
                    [] OTHER -> "closing"
  /\ Waiting' = {o \in Ops : op'[o] = "connecting"}
  BY DEF Link!vars, LinkState, Waiting

\* A step that keeps the socket and who waits for it is a stutter of the link.
LEMMA LinkStutters ==
  ASSUME UNCHANGED <<ws, Waiting>>
  PROVE  UNCHANGED Link!vars
  BY DEF Link!vars, LinkState, Waiting

LEMMA ConnectIsLinkStep ==
  ASSUME SocketInv, NEW o \in Ops, op[o] # "connecting", CallConnect(o)
  PROVE  [Link!Next]_(Link!vars)
<1> USE DEF LinkState, SocketInv, SocketTypes
<1>1. CASE ws = "none"
  <2>1. ws' = "CONNECTING" /\ op' = [op EXCEPT ![o] = "connecting"]
    BY <1>1 DEF CallConnect
  <2>2. {q \in Ops : op'[q] = "connecting"} = {o}
    BY <1>1, <2>1 DEF WaitersHaveSource
  <2>3. Link!Dial(o)
    BY <1>1, <2>1, <2>2 DEF Link!Dial
  <2>4. QED
    BY <2>3 DEF Link!Next
<1>2. CASE ws = "CONNECTING"
  <2>1. ws' = ws /\ op' = [op EXCEPT ![o] = "connecting"]
    BY <1>2 DEF CallConnect
  <2>2. {q \in Ops : op'[q] = "connecting"} = {q \in Ops : op[q] = "connecting"} \cup {o}
    BY <2>1
  <2>3. Link!Join(o)
    BY <1>2, <2>1, <2>2 DEF Link!Join
  <2>4. QED
    BY <2>3 DEF Link!Next
<1>3. CASE ws \notin {"none", "CONNECTING"}
  <2>1. ws' = ws /\ op' = [op EXCEPT ![o] = "done"]
    BY <1>3 DEF CallConnect, WsStates
  <2>2. {q \in Ops : op'[q] = "connecting"} = {q \in Ops : op[q] = "connecting"}
    BY <2>1
  <2>3. QED
    BY <2>1, <2>2, LinkStutters DEF Waiting
<1>4. QED
  BY <1>1, <1>2, <1>3

LEMMA DisconnectIsLinkStep ==
  ASSUME SocketInv, NEW o \in Ops, op[o] # "connecting",
         NEW waiting \in {"closing", "reclosing"}, NEW atOnce \in {"done", "resuming"},
         NEW armed, CallDisconnect(o, waiting, atOnce, armed)
  PROVE  [Link!Next]_(Link!vars)
<1> USE DEF LinkState, SocketInv, SocketTypes
<1>1. op' = [op EXCEPT ![o] = IF ws = "none" THEN atOnce ELSE waiting] /\ ws' = AfterClose
  BY DEF CallDisconnect
<1>2. {q \in Ops : op'[q] = "connecting"} = {q \in Ops : op[q] = "connecting"}
  BY <1>1
<1>3. CASE ws' = ws
  BY <1>2, <1>3, LinkStutters DEF Waiting
<1>4. CASE ws = "OPEN" /\ ws' = "CLOSING"
  <2>1. Link!BeginClose
    BY <1>2, <1>4 DEF Link!BeginClose
  <2>2. QED
    BY <2>1 DEF Link!Next
<1>5. CASE ws = "CONNECTING" /\ ws' = "ABORTING"
  <2>1. Link!Abort
    BY <1>2, <1>5 DEF Link!Abort
  <2>2. QED
    BY <2>1 DEF Link!Next
<1>6. QED
  BY <1>1, <1>3, <1>4, <1>5 DEF AfterClose

LEMMA HandshakeIsLinkStep ==
  ASSUME SocketInv, Handshake \/ Aborted
  PROVE  [Link!Next]_(Link!vars)
<1> USE DEF LinkState, SocketInv
<1>1. {o \in Ops : op'[o] = "connecting"} = {}
  <2>1. op' = AfterHandshake
    BY DEF Handshake, Open, OpenThenListenerThrows, HandshakeFails, ConnectionTimeout, OnceOpen,
           OnConnectionFailed, Aborted
  <2>2. QED
    BY <2>1, AfterHandshakeSettles
<1>2. CASE Open
  <2>1. Link!Open
    BY <1>1, <1>2 DEF Open, OnceOpen, Link!Open
  <2>2. QED
    BY <2>1 DEF Link!Next
<1>3. CASE OpenThenListenerThrows
  <2>1. Link!OpenAndClose
    BY <1>1, <1>3 DEF OpenThenListenerThrows, OnceOpen, Link!OpenAndClose
  <2>2. QED
    BY <2>1 DEF Link!Next
<1>4. CASE HandshakeFails \/ ConnectionTimeout \/ Aborted
  <2>1. ws \in {"CONNECTING", "ABORTING"} /\ ws' = "none"
    BY <1>4 DEF HandshakeFails, ConnectionTimeout, Aborted, OnConnectionFailed,
                ConnTimerGuardsHandshake
  <2>2. Link!Fail
    BY <1>1, <2>1 DEF Link!Fail
  <2>3. QED
    BY <2>2 DEF Link!Next
<1>5. QED
  BY <1>2, <1>3, <1>4 DEF Handshake

LEMMA CloseIsLinkStep ==
  ASSUME SocketInv, PeerCloses \/ \E code : Close(code)
  PROVE  [Link!Next]_(Link!vars)
<1> USE DEF LinkState, SocketInv, SocketTypes
<1>1. CASE PeerCloses
  <2>1. Link!BeginClose
    BY <1>1 DEF PeerCloses, Link!BeginClose
  <2>2. QED
    BY <2>1 DEF Link!Next
<1>2. ASSUME NEW code, Close(code)
      PROVE  [Link!Next]_(Link!vars)
  <2>1. \A o \in Ops : op'[o] = "connecting" <=> op[o] = "connecting"
    BY <1>2 DEF Close
  <2>2. Link!Closed
    BY <1>2, <2>1 DEF Close, Link!Closed
  <2>3. QED
    BY <2>2 DEF Link!Next
<1>3. QED
  BY <1>1, <1>2

LEMMA LinkStep ==
  ASSUME SocketInv, TaskTypes, BegunOnce, [ConnNext]_vars
  PROVE  [Link!Next]_(Link!vars)
<1>1. ASSUME NEW u \in Users, UserConnect(u) \/ UserDisconnect(u) \/ UserReconnect(u)
      PROVE  [Link!Next]_(Link!vars)
  <2>1. u \in Ops /\ op[u] # "connecting"
    BY <1>1 DEF Ops, UserConnect, UserDisconnect, UserReconnect
  <2>2. QED
    BY <1>1, <2>1, ConnectIsLinkStep, DisconnectIsLinkStep
       DEF UserConnect, UserDisconnect, UserReconnect, CallReconnect
<1>2. ASSUME NEW o \in Ops, Resume(o)
      PROVE  [Link!Next]_(Link!vars)
  BY <1>2, ConnectIsLinkStep DEF Resume
<1>3. ASSUME NEW t \in Timers, ReconnectTimerFires(t)
      PROVE  [Link!Next]_(Link!vars)
  <2>1. t \in Ops /\ op[t] # "connecting"
    BY <1>3 DEF Ops, ReconnectTimerFires, BegunOnce
  <2>2. QED
    BY <1>3, <2>1, DisconnectIsLinkStep DEF ReconnectTimerFires, CallReconnect
<1>4. ASSUME NEW p \in Calls, PingCatch(p)
      PROVE  [Link!Next]_(Link!vars)
  <2>1. p \in Ops /\ op[p] # "connecting"
    BY <1>4 DEF Ops, PingCatch, TaskTypes, BegunOnce
  <2>2. QED
    BY <1>4, <2>1, DisconnectIsLinkStep DEF PingCatch, CallReconnect
<1>5. CASE PeerCloses \/ \E code \in {"intentional", "undefined", "other"} : Close(code)
  BY <1>5, CloseIsLinkStep
<1>6. CASE Handshake \/ Aborted
  BY <1>6, HandshakeIsLinkStep
<1>7. ASSUME NEW r \in Calls,
             UserRequest(r) \/ Heartbeat(r) \/ SendThrew(r) \/ SendReportsError(r)
               \/ RequestTimesOut(r) \/ OnMessage \/ UNCHANGED vars
      PROVE  [Link!Next]_(Link!vars)
  <2>1. UNCHANGED <<ws, op>>
    BY <1>7 DEF UserRequest, Heartbeat, Request, SendThrew, SendReportsError, RequestTimesOut,
                OnMessage, OnlyRequests, socketVars, vars, connVars
  <2>2. QED
    BY <2>1, LinkStutters DEF Waiting
<1>8. CASE OnMessage \/ UNCHANGED vars
  <2>1. UNCHANGED <<ws, op>>
    BY <1>8 DEF OnMessage, OnlyRequests, socketVars, vars, connVars
  <2>2. QED
    BY <2>1, LinkStutters DEF Waiting
<1>9. QED
  BY <1>1, <1>2, <1>3, <1>4, <1>5, <1>6, <1>7, <1>8 DEF ConnNext

-----------------------------------------------------------------------------
(* A reconnect is begun once.                                              *)

\* A request that is settled stays settled.
LEMMA SettledStays ==
  ASSUME TypesAndTable, [RMNext]_rmVars,
         NEW q \in Calls, outcome[q] \notin {"idle", "pending"}
  PROVE  outcome'[q] = outcome[q]
<1> USE DEF TypesAndTable
<1>1. ASSUME NEW id \in Awaiting, NEW o, NEW by, NEW armed, Settle(id, o, by, armed)
      PROVE  outcome'[q] = outcome[q]
  <2>1. promisesAwaitingResponse[id] # q
    BY EntryIsPending
  <2>2. QED
    BY <1>1, <2>1 DEF Settle, RMTypeOK
<1>2. ASSUME NEW r \in Calls,
             \/ TimerFires(r) \/ SendFails(r)
             \/ \E status \in Status : HandleResponse(r, status)
      PROVE  outcome'[q] = outcome[q]
  BY <1>1, <1>2 DEF TimerFires, SendFails, HandleResponse
<1>3. ASSUME NEW r \in Calls,
             \/ RefuseDuplicate(r) \/ RefuseNotConnected(r) \/ IgnoreResponse(r)
             \/ \E fate \in Fates : CreateRequest(r, fate)
      PROVE  outcome'[q] = outcome[q]
  BY <1>3 DEF CreateRequest, RefuseDuplicate, RefuseNotConnected, IgnoreResponse, RMTypeOK
<1>4. CASE RejectAll
  BY <1>4 DEF RejectAll, TableConsistent
<1>5. CASE BadResponse \/ UNCHANGED rmVars
  BY <1>5 DEF BadResponse, rmVars
<1>6. QED
  BY <1>2, <1>3, <1>4, <1>5 DEF RMNext

LEMMA BegunOnceStep ==
  ASSUME ConnInv, BegunOnce, [ConnNext]_vars
  PROVE  BegunOnce'
<1> USE DEF ConnInv, SocketInv, SocketTypes, TaskTypes, BegunOnce
<1>0. /\ \A p \in Pings : p \in Calls /\ p \in Ops
      /\ \A t \in Timers : t \in Ops /\ t \in Nat /\ t \notin Users /\ t \notin Pings
      /\ \A u \in Users : u \in Ops /\ u \notin Pings /\ u \notin Timers
  BY PingsAssumption, OpsDisjoint, MaxDropsAssumption DEF Ops, Timers
<1>1. \A p \in Pings : outcome[p] \notin {"idle", "pending"} => outcome'[p] = outcome[p]
  BY <1>0, SettledStays, RequestManagerStep DEF RMInv
<1>2. \A p \in NewlyFailed : /\ p \in Pings /\ op[p] = "free"
                             /\ outcome'[p] \notin {"idle", "pending"}
  BY DEF NewlyFailed
<1>3. ASSUME NEW o \in Ops, op[o] # "free", NEW v, op' = [op EXCEPT ![o] = v],
             UNCHANGED <<drops, failedPings>>, reconnectTimers' \subseteq reconnectTimers
      PROVE  BegunOnce'
  BY <1>0, <1>1, <1>3
<1>4. ASSUME NEW u \in Users, UserConnect(u) \/ UserDisconnect(u) \/ UserReconnect(u)
      PROVE  BegunOnce'
  <2>1. /\ \A o \in Ops : o # u => op'[o] = op[o]
        /\ UNCHANGED <<drops, failedPings>> /\ reconnectTimers' \subseteq reconnectTimers
    BY <1>0, <1>4 DEF UserConnect, UserDisconnect, UserReconnect, CallConnect, CallDisconnect,
                CallReconnect, timerVars
  <2>2. QED
    BY <1>0, <1>1, <2>1
<1>5. ASSUME NEW o \in Ops, Resume(o)
      PROVE  BegunOnce'
  <2>1. PICK v : op' = [op EXCEPT ![o] = v]
    BY <1>5 DEF Resume, CallConnect
  <2>2. UNCHANGED <<drops, failedPings>> /\ reconnectTimers' \subseteq reconnectTimers
    BY <1>5 DEF Resume, timerVars
  <2>3. QED
    BY <1>3, <1>5, <2>1, <2>2 DEF Resume
<1>6. ASSUME NEW t \in Timers, ReconnectTimerFires(t)
      PROVE  BegunOnce'
  <2>1. /\ \A o \in Ops : o # t => op'[o] = op[o]
        /\ UNCHANGED <<drops, failedPings>> /\ reconnectTimers' \subseteq reconnectTimers \ {t}
    BY <1>0, <1>6 DEF ReconnectTimerFires, CallReconnect, CallDisconnect
  <2>2. t \in 1..drops
    BY <1>6 DEF ReconnectTimerFires
  <2>3. QED
    BY <1>0, <1>1, <2>1, <2>2
<1>7. ASSUME NEW p \in Calls, PingCatch(p)
      PROVE  BegunOnce'
  <2>1. /\ \A o \in Ops : o # p => op'[o] = op[o]
        /\ UNCHANGED drops /\ reconnectTimers' \subseteq reconnectTimers
        /\ p \in failedPings /\ failedPings' = failedPings \ {p}
    BY <1>0, <1>7 DEF PingCatch, CallReconnect, CallDisconnect
  <2>2. QED
    BY <1>0, <1>1, <2>1
<1>8. ASSUME NEW code, Close(code)
      PROVE  BegunOnce'
  <2>1. /\ \A o \in Ops : op[o] = "free" => op'[o] = "free"
        /\ failedPings' = NewlyFailed
    BY <1>8 DEF Close
  <2>2. \/ drops' = drops + 1 /\ reconnectTimers' = reconnectTimers \cup {drops'}
        \/ UNCHANGED <<drops, reconnectTimers>>
    BY <1>8 DEF Close, ScheduleReconnect
  <2>3. reconnectTimers' \subseteq 1..drops'
    <3>1. drops \in Nat
      BY MaxDropsAssumption
    <3>2. \A n \in 1..drops : n \in 1..(drops + 1)
      BY <3>1
    <3>3. drops + 1 \in 1..(drops + 1)
      BY <3>1
    <3>4. reconnectTimers \subseteq 1..drops
      BY DEF BegunOnce
    <3>5. QED
      BY ONLY <2>2, <3>2, <3>3, <3>4
  <2>4. \A t \in Timers : t \in reconnectTimers' \/ t > drops' => op'[t] = "free"
    BY <1>0, <2>1, <2>2
  <2>5. QED
    BY <1>0, <1>1, <1>2, <2>1, <2>3, <2>4
<1>9. CASE Handshake \/ Aborted \/ PeerCloses
  <2>1. /\ \A o \in Ops : op[o] = "free" => op'[o] = "free"
        /\ UNCHANGED <<drops, failedPings>> /\ reconnectTimers' \subseteq reconnectTimers
    BY <1>9 DEF Handshake, Open, OpenThenListenerThrows, HandshakeFails, ConnectionTimeout,
                OnceOpen, OnConnectionFailed, Aborted, PeerCloses, AfterHandshake, timerVars
  <2>2. QED
    BY <1>0, <1>1, <2>1
<1>10. ASSUME UNCHANGED <<op, drops, reconnectTimers>>,
              failedPings' \subseteq failedPings \cup NewlyFailed
       PROVE  BegunOnce'
  BY <1>0, <1>1, <1>2, <1>10
<1>11. ASSUME NEW r \in Calls, UserRequest(r) \/ Heartbeat(r) \/ SendThrew(r)
                                \/ SendReportsError(r) \/ RequestTimesOut(r)
       PROVE  BegunOnce'
  BY <1>10, <1>11 DEF UserRequest, Heartbeat, Request, SendThrew, SendReportsError,
                      RequestTimesOut, OnlyRequests, timerVars
<1>12. CASE OnMessage \/ UNCHANGED vars
  BY <1>10, <1>12 DEF OnMessage, OnlyRequests, timerVars, vars, connVars
<1>13. QED
  BY <1>4, <1>5, <1>6, <1>7, <1>8, <1>9, <1>11, <1>12 DEF ConnNext

-----------------------------------------------------------------------------

LEMMA ConnInvInit == ConnInit => ConnInv
<1> SUFFICES ASSUME ConnInit PROVE ConnInv
  OBVIOUS
<1>1. RMInv
  BY RMInvInit DEF ConnInit
<1>2. SocketTypes /\ TaskTypes
  <2>1. drops \in 0..MaxDrops /\ attempts \in 0..drops
    BY MaxDropsAssumption DEF ConnInit
  <2>2. op \in [Ops -> OpStates]
    BY DEF ConnInit, OpStates
  <2>3. QED
    BY <2>1, <2>2 DEF ConnInit, SocketTypes, TaskTypes, WsStates
<1>3. ConnTimerGuardsHandshake /\ WaitersHaveSource /\ HeartbeatWatchesSocket
  BY DEF ConnInit, ConnTimerGuardsHandshake, WaitersHaveSource, HeartbeatWatchesSocket
<1>4. BackoffReset /\ BackoffNeverGrows /\ EventsAlternate
  BY DEF ConnInit, BackoffReset, BackoffNeverGrows, EventsAlternate
<1>5. NoRequestOutlivesSocket
  BY DEF ConnInit, RMInit, NoRequestOutlivesSocket
<1>6. QED
  BY <1>1, <1>2, <1>3, <1>4, <1>5 DEF ConnInv, SocketInv

LEMMA ConnInvStep ==
  ASSUME ConnInv, [ConnNext]_vars
  PROVE  ConnInv'
<1>1. RMInv'
  BY RequestManagerStep, RMInvStep DEF ConnInv
<1>2. SocketInv' /\ TaskTypes'
  BY SocketStep, TasksStep DEF ConnInv, RMInv, TypesAndTable
<1>3. QED
  BY <1>1, <1>2, PendingStep DEF ConnInv

LEMMA ConnInvariant == ConnSpec => []ConnInv
  BY ConnInvInit, ConnInvStep, PTL DEF ConnSpec

\* The connection is the link that Client is built on: its first state is one of
\* the link, and every step one of the link or none.
THEOREM ImplementsLink == ConnSpec => Link!Init /\ [][Link!Next]_(Link!vars)
<1>1. ConnInit => Link!Init /\ BegunOnce
  <2>1. ASSUME ConnInit PROVE {o \in Ops : op[o] = "connecting"} = {}
    BY <2>1 DEF ConnInit
  <2>2. ASSUME ConnInit PROVE Link!Init
    BY <2>1, <2>2 DEF ConnInit, Link!Init, LinkState
  <2>3. ASSUME ConnInit PROVE BegunOnce
    BY <2>3, MaxDropsAssumption DEF ConnInit, BegunOnce, Ops
  <2>4. QED
    BY <2>2, <2>3
<1>2. ConnInv /\ BegunOnce /\ [ConnNext]_vars => BegunOnce'
  BY BegunOnceStep
<1>3. ConnInv /\ BegunOnce /\ [ConnNext]_vars => [Link!Next]_(Link!vars)
  BY LinkStep DEF ConnInv
<1>4. QED
  BY <1>1, <1>2, <1>3, ConnInvariant, PTL DEF ConnSpec

\* Every variable keeps its type.
THEOREM ConnTypeCorrect == ConnSpec => []ConnTypeOK
<1>1. ConnInv => ConnTypeOK
  BY DEF ConnInv, RMInv, TypesAndTable, SocketInv, SocketTypes, TaskTypes, ConnTypeOK
<1>2. QED
  BY <1>1, ConnInvariant, PTL

\* The connection timeout never outlives its handshake.
THEOREM ConnTimerAlwaysGuards == ConnSpec => []ConnTimerGuardsHandshake
<1>1. ConnInv => ConnTimerGuardsHandshake
  BY DEF ConnInv, SocketInv
<1>2. QED
  BY <1>1, ConnInvariant, PTL

\* No promise of connect() or disconnect() waits for an event that cannot come.
THEOREM WaitersAlwaysHaveSource == ConnSpec => []WaitersHaveSource
<1>1. ConnInv => WaitersHaveSource
  BY DEF ConnInv, SocketInv
<1>2. QED
  BY <1>1, ConnInvariant, PTL

\* No request outlives its websocket.
THEOREM RequestsEndWithSocket == ConnSpec => []NoRequestOutlivesSocket
<1>1. ConnInv => NoRequestOutlivesSocket
  BY DEF ConnInv
<1>2. QED
  BY <1>1, ConnInvariant, PTL

\* The heartbeat runs while, and only while, it should.
THEOREM HeartbeatAlwaysWatches == ConnSpec => []HeartbeatWatchesSocket
<1>1. ConnInv => HeartbeatWatchesSocket
  BY DEF ConnInv, SocketInv
<1>2. QED
  BY <1>1, ConnInvariant, PTL

\* The backoff is never asked for a second attempt in a row.
THEOREM BackoffIsConstant == ConnSpec => []BackoffNeverGrows
<1>1. ConnInv => BackoffNeverGrows
  BY DEF ConnInv, SocketInv
<1>2. QED
  BY <1>1, ConnInvariant, PTL

\* 'connected' and 'disconnected' alternate.
THEOREM EventsAlwaysAlternate == ConnSpec => []EventsAlternate
<1>1. ConnInv => EventsAlternate
  BY DEF ConnInv, SocketInv
<1>2. QED
  BY <1>1, ConnInvariant, PTL

=============================================================================
