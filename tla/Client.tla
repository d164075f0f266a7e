---------------------------------- MODULE Client ----------------------------------
(***************************************************************************)
(* The client's side of a connection (client/index.ts): connect(), which   *)
(* asks the server for its network before it emits 'connected', and the    *)
(* listeners that pass on the events of the connection.  The connection is *)
(* the one of ConnectionLink; its reconnect() and its events are those of  *)
(* connection.ts.                                                          *)
(*                                                                         *)
(* A step is one call, one event of the connection with all its listeners, *)
(* or one continuation.  Continuations run before the next event (Quiet);  *)
(* calls of the application may come between any two steps.                *)
(***************************************************************************)
EXTENDS Naturals

CONSTANTS
  Users,     \* calls of client.connect()
  Retries,   \* reconnects the connection makes by itself
  Networks,  \* the networks the servers behind the url may belong to
  NoNetwork, \* networkID is undefined
  Eager      \* the application may call connect() whatever the link is

ASSUME UsersAssumption == Users \cap Retries = {}
ASSUME NoNetworkAssumption == NoNetwork \notin Networks
ASSUME EagerAssumption == Eager \in BOOLEAN

VARIABLES
  link,       \* the connection, as in ConnectionLink
  step,       \* how far each connect() and reconnect is
  listener,   \* the connection has the once-listener of the last 'reconnect'
  network,    \* the network of the server the link leads to
  networkID,  \* this.networkID
  told,       \* the last of 'connected' and 'disconnected' the client emitted
  announced   \* 'connected' emitted for the established link: 0, 1, or 2 for more

clientVars == <<link, step, listener, network, networkID, told, announced>>

Ops == Users \cup Retries

\* asking: server_info is under way.  failed: its rejection is to be handled.
\* due: a reconnect timer is armed, or a ping has failed.  closing: reconnect()
\* waits for its disconnect().  resuming: connect() is next.
Steps == {"idle", "due", "closing", "resuming", "awaiting", "asking", "failed", "done"}

AwaitingOps == {o \in Ops : step[o] = "awaiting"}
Asking == {c \in Users : step[c] \in {"asking", "failed"}}
Quiet == \A o \in Ops : step[o] \notin {"resuming", "failed"}

ClientInit ==
  /\ link = "down"
  /\ step = [o \in Ops |-> "idle"]
  /\ listener = FALSE
  /\ network \in Networks
  /\ networkID = NoNetwork
  /\ told = "disconnected"
  /\ announced = 0

-----------------------------------------------------------------------------
(* Events the client emits.                                                *)

EmitConnected ==
  /\ told' = "connected"
  /\ announced' = IF announced < 2 THEN announced + 1 ELSE 2

-----------------------------------------------------------------------------
(* connect() of the connection, for the client or for a reconnect.         *)

\* Mutant: a link that is closing is not told from one that is down.
CallConnect_Redials(o, whenUp) ==
  \/ /\ link \in {"down", "closing"}
     /\ link' = "handshake"
     /\ step' = [step EXCEPT ![o] = "awaiting"]
  \/ /\ link = "handshake"
     /\ step' = [step EXCEPT ![o] = "awaiting"]
     /\ UNCHANGED link
  \/ /\ link \in {"up", "aborting"}
     /\ step' = [step EXCEPT ![o] = IF link = "up" THEN whenUp ELSE "done"]
     /\ UNCHANGED link

CallConnect(o, whenUp) ==
  \/ /\ link = "down"
     /\ link' = "handshake"
     /\ step' = [step EXCEPT ![o] = "awaiting"]
  \/ /\ link = "handshake"
     /\ step' = [step EXCEPT ![o] = "awaiting"]
     /\ UNCHANGED link
  \/ /\ link = "up"
     /\ step' = [step EXCEPT ![o] = whenUp]
     /\ UNCHANGED link
  \/ /\ link \in {"aborting", "closing"}  \* "Websocket connection never cleaned up."
     /\ step' = [step EXCEPT ![o] = "done"]
     /\ UNCHANGED link

\* client.connect(); on a link that is up it goes straight on to server_info.
Connect(c) ==
  /\ step[c] = "idle"
  /\ Eager \/ (link = "down" /\ \A o \in Ops : step[o] \in {"idle", "done"})
  /\ CallConnect(c, "asking")
  /\ UNCHANGED <<listener, network, networkID, told, announced>>

\* disconnect() of the connection: of the armed timers only the last is cleared.
\* A handshake is aborted by the ws package and goes on in a browser.
CallDisconnect(after) ==
  /\ \/ link = "up" /\ link' = "closing"
     \/ link = "handshake" /\ link' \in {"handshake", "aborting"}
     \/ link \in {"down", "closing", "aborting"} /\ UNCHANGED link
  /\ \E cleared \in SUBSET {k \in Retries : after[k] = "due"} :
       step' = [o \in Ops |-> IF o \in cleared THEN "done" ELSE after[o]]

Disconnect ==
  /\ Eager
  /\ CallDisconnect(step)
  /\ UNCHANGED <<listener, network, networkID, told, announced>>

\* Mutant: the handler of 'reconnect' removes the listener and sets no new one.
Reconnect_OnlyRemoves(k) ==
  /\ Quiet
  /\ step[k] = "due"
  /\ listener' = FALSE
  /\ CallDisconnect([step EXCEPT ![k] = CASE link = "down" -> "resuming"
                                          [] link \in {"up", "closing"} -> "closing"
                                          [] OTHER -> "done"])
  /\ UNCHANGED <<network, networkID, told, announced>>

\* reconnect() emits 'reconnect', whose handler replaces the listeners of
\* 'connected' by one, then disconnects.  In a handshake its disconnect() loses
\* its listener and hangs.
Reconnect(k) ==
  /\ Quiet
  /\ step[k] = "due"
  /\ listener' = TRUE
  /\ CallDisconnect([step EXCEPT ![k] = CASE link = "down" -> "resuming"
                                          [] link \in {"up", "closing"} -> "closing"
                                          [] OTHER -> "done"])
  /\ UNCHANGED <<network, networkID, told, announced>>

Resume(k) ==
  /\ step[k] = "resuming"
  /\ CallConnect(k, "done")
  /\ UNCHANGED <<listener, network, networkID, told, announced>>

-----------------------------------------------------------------------------
(* The end of the handshake.                                               *)

\* Mutant: the promises of connect() are left alone.
HandshakeFails_ForgetsCalls ==
  /\ Quiet
  /\ link \in {"handshake", "aborting"}
  /\ link' = "down"
  /\ UNCHANGED <<step, listener, network, networkID, told, announced>>

HandshakeFails ==
  /\ Quiet
  /\ link \in {"handshake", "aborting"}
  /\ link' = "down"
  /\ step' = [o \in Ops |-> IF step[o] = "awaiting" THEN "done" ELSE step[o]]
  /\ UNCHANGED <<listener, network, networkID, told, announced>>

\* The connection emits 'connected'; the once-listener, if there is one, passes it
\* on.  The connect() calls that waited go on to server_info.  A listener of the
\* application may throw, and the link is closed again.
Opened ==
  /\ Quiet
  /\ link = "handshake"
  /\ link' \in {"up", "closing"}
  /\ step' = [o \in Ops |-> CASE step[o] # "awaiting" -> step[o]
                              [] o \in Users -> "asking"
                              [] OTHER -> "done"]
  /\ network' \in Networks
  /\ listener' = FALSE
  /\ IF listener THEN told' = "connected" /\ announced' = 1
                 ELSE announced' = 0 /\ UNCHANGED told
  /\ UNCHANGED networkID

-----------------------------------------------------------------------------
(* getServerInfo(), and the 'connected' that connect() emits after it.     *)

ServerInfo(c) ==
  /\ step[c] = "asking"
  /\ step' = [step EXCEPT ![c] = "done"]
  /\ networkID' = network
  /\ EmitConnected
  /\ UNCHANGED <<link, listener, network>>

\* The request is rejected: the error is printed, and 'connected' emitted.
ServerInfoFails(c) ==
  /\ step[c] \in {"asking", "failed"}
  /\ step' = [step EXCEPT ![c] = "done"]
  /\ EmitConnected
  /\ UNCHANGED <<link, listener, network, networkID>>

-----------------------------------------------------------------------------
(* The link fails or is closed.                                            *)

PingFails(k) ==
  /\ Quiet
  /\ link \in {"up", "closing"}
  /\ step[k] = "idle"
  /\ step' = [step EXCEPT ![k] = "due"]
  /\ UNCHANGED <<link, listener, network, networkID, told, announced>>

PeerCloses ==
  /\ Quiet
  /\ link = "up"
  /\ link' = "closing"
  /\ UNCHANGED <<step, listener, network, networkID, told, announced>>

\* Requests are rejected, then 'disconnected' is emitted; after an unexpected
\* close a reconnect timer is armed.
Closed ==
  /\ Quiet
  /\ link = "closing"
  /\ link' = "down"
  /\ told' = "disconnected"
  /\ \E armed \in {{}} \cup {{k} : k \in {r \in Retries : step[r] = "idle"}} :
       step' = [o \in Ops |-> CASE o \in armed -> "due"
                                [] step[o] = "closing" -> "resuming"
                                [] step[o] = "asking" -> "failed"
                                [] OTHER -> step[o]]
  /\ UNCHANGED <<listener, network, networkID, announced>>

-----------------------------------------------------------------------------

ClientNext ==
  \/ \E c \in Users : Connect(c) \/ ServerInfo(c) \/ ServerInfoFails(c)
  \/ \E k \in Retries : Reconnect(k) \/ Resume(k) \/ PingFails(k)
  \/ Disconnect
  \/ HandshakeFails \/ Opened \/ PeerCloses \/ Closed

\* Continuations run; timers fire; the connection is that of ConnectionLink; every
\* request is settled (RequestManager!RequestsSettle).
ClientFairness ==
  /\ \A c \in Users : WF_clientVars(ServerInfo(c) \/ ServerInfoFails(c))
  /\ \A k \in Retries : WF_clientVars(Reconnect(k)) /\ WF_clientVars(Resume(k))
  /\ WF_clientVars(HandshakeFails \/ Opened) /\ WF_clientVars(Closed)

ClientSpec == ClientInit /\ [][ClientNext]_clientVars /\ ClientFairness

-----------------------------------------------------------------------------
(* What the client promises.                                               *)

\* Every variable keeps its type.
ClientTypeOK ==
  /\ link \in {"down", "handshake", "aborting", "up", "closing"}
  /\ step \in [Ops -> Steps]
  /\ \A c \in Users : step[c] \notin {"due", "closing", "resuming"}
  /\ \A k \in Retries : step[k] \notin {"asking", "failed"}
  /\ listener \in BOOLEAN
  /\ network \in Networks
  /\ networkID \in Networks \cup {NoNetwork}
  /\ told \in {"connected", "disconnected"}
  /\ announced \in 0..2

\* Whoever listens to the client knows of every link: once it is up, and no
\* connect() is still asking for the server's network, the last event was
\* 'connected'; no reconnect goes unannounced.
UpIsAnnounced == link = "up" /\ Asking = {} => told = "connected" /\ announced > 0

\* A handshake is always one that somebody will hear of: a connect() waits for it,
\* or the listener of a reconnect is in place.
HandshakeHasListener == link = "handshake" => listener \/ AwaitingOps \cap Users # {}

\* Every connect() settles, though the link fail or close meanwhile.
ConnectEnds == \A c \in Users : step[c] # "idle" ~> step[c] = "done"

\* client/index.ts:276-277: the handler of 'reconnect' is "to prevent duplicate
\* event emissions": no link is announced twice.
AnnouncedOnce == announced <= 1

\* The client keeps to the protocol of its connection.
Link == INSTANCE ConnectionLink WITH awaiting <- AwaitingOps
LinkSpec == Link!Spec

=============================================================================
