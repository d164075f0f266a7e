-------------------------------- MODULE PartsProofs --------------------------------
(***************************************************************************)
(* Proofs about the small parts of the client: the client itself, for      *)
(* every set of calls, reconnects and networks, and, for every limit,      *)
(* number of attempts, set of callers and sponsorship, requestAll,         *)
(* fundWallet, loadWasmModule and validateSponsorship.                     *)
(***************************************************************************)
EXTENDS Client, RequestAll, FundWallet, ModuleLoader, Sponsorship, TLAPS

-----------------------------------------------------------------------------
(* The client.                                                             *)

\* Only a handshake is waited for.
AwaitingIsAHandshake == AwaitingOps # {} => link \in {"handshake", "aborting"}

\* A reconnect that is to call connect() has put its listener in place, and waits
\* for no other close than the one under way.
ResumersListen ==
  \A k \in Retries :
    /\ step[k] \in {"closing", "resuming"} => listener
    /\ step[k] = "closing" => link = "closing"

CInv ==
  /\ ClientTypeOK
  /\ AwaitingIsAHandshake
  /\ ResumersListen
  /\ HandshakeHasListener
  /\ UpIsAnnounced

\* The invariant holds at the start.
LEMMA InitCInv == ClientInit => CInv
<1> SUFFICES ASSUME ClientInit PROVE CInv
  OBVIOUS
<1>1. ClientTypeOK
  <2>1. \A o \in Ops : step[o] = "idle"
    BY DEF ClientInit
  <2>2. step \in [Ops -> Steps]
    BY DEF ClientInit, Steps
  <2>3. /\ \A c \in Users : step[c] \notin {"due", "closing", "resuming"}
        /\ \A k \in Retries : step[k] \notin {"asking", "failed"}
    BY <2>1 DEF Ops
  <2>4. /\ link \in {"down", "handshake", "aborting", "up", "closing"}
        /\ listener \in BOOLEAN /\ network \in Networks
        /\ networkID \in Networks \cup {NoNetwork}
        /\ told \in {"connected", "disconnected"}
    BY DEF ClientInit
  <2>5. announced \in 0..2
    BY DEF ClientInit
  <2> QED  BY <2>2, <2>3, <2>4, <2>5 DEF ClientTypeOK
<1>2. AwaitingIsAHandshake /\ ResumersListen /\ HandshakeHasListener /\ UpIsAnnounced
  BY DEF ClientInit, AwaitingIsAHandshake, AwaitingOps, ResumersListen, HandshakeHasListener,
         UpIsAnnounced, Ops
<1> QED  BY <1>1, <1>2 DEF CInv

\* connect() keeps the invariant, for a call and for a reconnect.
LEMMA ConnectKeepsCInv ==
  ASSUME CInv, NEW c \in Users, Connect(c)
  PROVE  CInv'
<1>1. ClientTypeOK'
  BY UsersAssumption DEF Connect, CallConnect, CInv, ClientTypeOK, Ops, Steps
<1>2. AwaitingIsAHandshake'
  BY UsersAssumption DEF Connect, CallConnect, CInv, ClientTypeOK, AwaitingIsAHandshake, AwaitingOps, Ops
<1>3. ResumersListen'
  BY UsersAssumption DEF Connect, CallConnect, CInv, ClientTypeOK, ResumersListen, AwaitingIsAHandshake, AwaitingOps, Ops
<1>4. HandshakeHasListener'
  BY UsersAssumption DEF Connect, CallConnect, CInv, ClientTypeOK, HandshakeHasListener, ResumersListen, AwaitingOps, Ops
<1>5. UpIsAnnounced'
  BY UsersAssumption DEF Connect, CallConnect, CInv, ClientTypeOK, HandshakeHasListener, UpIsAnnounced, Asking, AwaitingOps, Ops
<1> QED  BY <1>1, <1>2, <1>3, <1>4, <1>5 DEF CInv

LEMMA ResumeKeepsCInv ==
  ASSUME CInv, NEW k \in Retries, Resume(k)
  PROVE  CInv'
<1>1. ClientTypeOK'
  BY UsersAssumption DEF Resume, CallConnect, CInv, ClientTypeOK, Ops, Steps
<1>2. AwaitingIsAHandshake'
  BY UsersAssumption DEF Resume, CallConnect, CInv, ClientTypeOK, AwaitingIsAHandshake, AwaitingOps, Ops
<1>3. ResumersListen'
  BY UsersAssumption DEF Resume, CallConnect, CInv, ClientTypeOK, ResumersListen, AwaitingIsAHandshake, AwaitingOps, Ops
<1>4. HandshakeHasListener'
  BY UsersAssumption DEF Resume, CallConnect, CInv, ClientTypeOK, HandshakeHasListener, ResumersListen, AwaitingOps, Ops
<1>5. UpIsAnnounced'
  BY UsersAssumption DEF Resume, CallConnect, CInv, ClientTypeOK, HandshakeHasListener, UpIsAnnounced, Asking, AwaitingOps, Ops
<1> QED  BY <1>1, <1>2, <1>3, <1>4, <1>5 DEF CInv

\* disconnect() does, too.
LEMMA DisconnectKeepsCInv ==
  ASSUME CInv, Disconnect
  PROVE  CInv'
<1>1. ClientTypeOK'
  BY UsersAssumption DEF Disconnect, CallDisconnect, CInv, ClientTypeOK, Ops, Steps
<1>2. AwaitingIsAHandshake'
  BY UsersAssumption DEF Disconnect, CallDisconnect, CInv, ClientTypeOK, AwaitingIsAHandshake, AwaitingOps, Ops
<1>3. ResumersListen'
  BY UsersAssumption DEF Disconnect, CallDisconnect, CInv, ClientTypeOK, ResumersListen, AwaitingIsAHandshake, AwaitingOps, Ops
<1>4. HandshakeHasListener'
  BY UsersAssumption DEF Disconnect, CallDisconnect, CInv, ClientTypeOK, HandshakeHasListener, ResumersListen, AwaitingOps, Ops
<1>5. UpIsAnnounced'
  BY UsersAssumption DEF Disconnect, CallDisconnect, CInv, ClientTypeOK, HandshakeHasListener, UpIsAnnounced, Asking, AwaitingOps, Ops
<1> QED  BY <1>1, <1>2, <1>3, <1>4, <1>5 DEF CInv

LEMMA ReconnectKeepsCInv ==
  ASSUME CInv, NEW k \in Retries, Reconnect(k)
  PROVE  CInv'
<1>1. ClientTypeOK'
  BY UsersAssumption DEF Reconnect, CallDisconnect, CInv, ClientTypeOK, Ops, Steps
<1>2. AwaitingIsAHandshake'
  BY UsersAssumption DEF Reconnect, CallDisconnect, CInv, ClientTypeOK, AwaitingIsAHandshake, AwaitingOps, Ops
<1>3. ResumersListen'
  BY UsersAssumption DEF Reconnect, CallDisconnect, CInv, ClientTypeOK, ResumersListen, AwaitingIsAHandshake, AwaitingOps, Ops
<1>4. HandshakeHasListener'
  BY UsersAssumption DEF Reconnect, CallDisconnect, CInv, ClientTypeOK, HandshakeHasListener, ResumersListen, AwaitingOps, Ops
<1>5. UpIsAnnounced'
  BY UsersAssumption DEF Reconnect, CallDisconnect, CInv, ClientTypeOK, HandshakeHasListener, UpIsAnnounced, Asking, AwaitingOps, Ops
<1> QED  BY <1>1, <1>2, <1>3, <1>4, <1>5 DEF CInv

\* The end of a handshake: whoever opened the link will announce it.
LEMMA OpenedKeepsCInv ==
  ASSUME CInv, Opened
  PROVE  CInv'
<1>1. ClientTypeOK'
  <2>1. step' \in [Ops -> Steps]
    BY DEF Opened, CInv, ClientTypeOK, Steps
  <2>2. \A o \in Ops : step'[o] = step[o] \/ (o \in Users /\ step'[o] = "asking")
                        \/ step'[o] = "done"
    BY DEF Opened, CInv, ClientTypeOK
  <2>3. announced' \in 0..2 /\ told' \in {"connected", "disconnected"}
    BY DEF Opened, CInv, ClientTypeOK
  <2> QED
    BY <2>1, <2>2, <2>3, UsersAssumption DEF Opened, CInv, ClientTypeOK, Ops
<1>2. AwaitingIsAHandshake'
  BY UsersAssumption DEF Opened, Quiet, CInv, ClientTypeOK, AwaitingIsAHandshake, AwaitingOps, Ops
<1>3. ResumersListen'
  BY UsersAssumption DEF Opened, Quiet, CInv, ClientTypeOK, ResumersListen, AwaitingIsAHandshake, AwaitingOps, Ops
<1>4. HandshakeHasListener'
  BY UsersAssumption DEF Opened, Quiet, CInv, ClientTypeOK, HandshakeHasListener, ResumersListen, AwaitingOps, Ops
<1>5. UpIsAnnounced'
  BY UsersAssumption DEF Opened, Quiet, CInv, ClientTypeOK, HandshakeHasListener, UpIsAnnounced, Asking, AwaitingOps, Ops
<1> QED  BY <1>1, <1>2, <1>3, <1>4, <1>5 DEF CInv

LEMMA HandshakeFailsKeepsCInv ==
  ASSUME CInv, HandshakeFails
  PROVE  CInv'
<1>1. ClientTypeOK'
  BY UsersAssumption DEF HandshakeFails, Quiet, CInv, ClientTypeOK, Ops, Steps
<1>2. AwaitingIsAHandshake'
  BY UsersAssumption DEF HandshakeFails, Quiet, CInv, ClientTypeOK, AwaitingIsAHandshake, AwaitingOps, Ops
<1>3. ResumersListen'
  BY UsersAssumption DEF HandshakeFails, Quiet, CInv, ClientTypeOK, ResumersListen, AwaitingIsAHandshake, AwaitingOps, Ops
<1>4. HandshakeHasListener'
  BY UsersAssumption DEF HandshakeFails, Quiet, CInv, ClientTypeOK, HandshakeHasListener, ResumersListen, AwaitingOps, Ops
<1>5. UpIsAnnounced'
  BY UsersAssumption DEF HandshakeFails, Quiet, CInv, ClientTypeOK, HandshakeHasListener, UpIsAnnounced, Asking, AwaitingOps, Ops
<1> QED  BY <1>1, <1>2, <1>3, <1>4, <1>5 DEF CInv

LEMMA ServerInfoKeepsCInv ==
  ASSUME CInv, NEW c \in Users, ServerInfo(c)
  PROVE  CInv'
<1>1. ClientTypeOK'
  BY UsersAssumption DEF ServerInfo, EmitConnected, CInv, ClientTypeOK, Ops, Steps
<1>2. AwaitingIsAHandshake'
  BY UsersAssumption DEF ServerInfo, EmitConnected, CInv, ClientTypeOK, AwaitingIsAHandshake, AwaitingOps, Ops
<1>3. ResumersListen'
  BY UsersAssumption DEF ServerInfo, EmitConnected, CInv, ClientTypeOK, ResumersListen, AwaitingIsAHandshake, AwaitingOps, Ops
<1>4. HandshakeHasListener'
  BY UsersAssumption DEF ServerInfo, EmitConnected, CInv, ClientTypeOK, HandshakeHasListener, ResumersListen, AwaitingOps, Ops
<1>5. UpIsAnnounced'
  BY UsersAssumption DEF ServerInfo, EmitConnected, CInv, ClientTypeOK, HandshakeHasListener, UpIsAnnounced, Asking, AwaitingOps, Ops
<1> QED  BY <1>1, <1>2, <1>3, <1>4, <1>5 DEF CInv

LEMMA ServerInfoFailsKeepsCInv ==
  ASSUME CInv, NEW c \in Users, ServerInfoFails(c)
  PROVE  CInv'
<1>1. ClientTypeOK'
  BY UsersAssumption DEF ServerInfoFails, EmitConnected, CInv, ClientTypeOK, Ops, Steps
<1>2. AwaitingIsAHandshake'
  BY UsersAssumption DEF ServerInfoFails, EmitConnected, CInv, ClientTypeOK, AwaitingIsAHandshake, AwaitingOps, Ops
<1>3. ResumersListen'
  BY UsersAssumption DEF ServerInfoFails, EmitConnected, CInv, ClientTypeOK, ResumersListen, AwaitingIsAHandshake, AwaitingOps, Ops
<1>4. HandshakeHasListener'
  BY UsersAssumption DEF ServerInfoFails, EmitConnected, CInv, ClientTypeOK, HandshakeHasListener, ResumersListen, AwaitingOps, Ops
<1>5. UpIsAnnounced'
  BY UsersAssumption DEF ServerInfoFails, EmitConnected, CInv, ClientTypeOK, HandshakeHasListener, UpIsAnnounced, Asking, AwaitingOps, Ops
<1> QED  BY <1>1, <1>2, <1>3, <1>4, <1>5 DEF CInv

LEMMA PingFailsKeepsCInv ==
  ASSUME CInv, NEW k \in Retries, PingFails(k)
  PROVE  CInv'
<1>1. ClientTypeOK'
  BY UsersAssumption DEF PingFails, CInv, ClientTypeOK, Ops, Steps
<1>2. AwaitingIsAHandshake'
  BY UsersAssumption DEF PingFails, CInv, ClientTypeOK, AwaitingIsAHandshake, AwaitingOps, Ops
<1>3. ResumersListen'
  BY UsersAssumption DEF PingFails, CInv, ClientTypeOK, ResumersListen, AwaitingIsAHandshake, AwaitingOps, Ops
<1>4. HandshakeHasListener'
  BY UsersAssumption DEF PingFails, CInv, ClientTypeOK, HandshakeHasListener, ResumersListen, AwaitingOps, Ops
<1>5. UpIsAnnounced'
  BY UsersAssumption DEF PingFails, CInv, ClientTypeOK, HandshakeHasListener, UpIsAnnounced, Asking, AwaitingOps, Ops
<1> QED  BY <1>1, <1>2, <1>3, <1>4, <1>5 DEF CInv

LEMMA PeerClosesKeepsCInv ==
  ASSUME CInv, PeerCloses
  PROVE  CInv'
<1>1. ClientTypeOK'
  BY UsersAssumption DEF PeerCloses, CInv, ClientTypeOK, Ops, Steps
<1>2. AwaitingIsAHandshake'
  BY UsersAssumption DEF PeerCloses, CInv, ClientTypeOK, AwaitingIsAHandshake, AwaitingOps, Ops
<1>3. ResumersListen'
  BY UsersAssumption DEF PeerCloses, CInv, ClientTypeOK, ResumersListen, AwaitingIsAHandshake, AwaitingOps, Ops
<1>4. HandshakeHasListener'
  BY UsersAssumption DEF PeerCloses, CInv, ClientTypeOK, HandshakeHasListener, ResumersListen, AwaitingOps, Ops
<1>5. UpIsAnnounced'
  BY UsersAssumption DEF PeerCloses, CInv, ClientTypeOK, HandshakeHasListener, UpIsAnnounced, Asking, AwaitingOps, Ops
<1> QED  BY <1>1, <1>2, <1>3, <1>4, <1>5 DEF CInv

LEMMA ClosedKeepsCInv ==
  ASSUME CInv, Closed
  PROVE  CInv'
<1>1. ClientTypeOK'
  BY UsersAssumption DEF Closed, Quiet, CInv, ClientTypeOK, Ops, Steps
<1>2. AwaitingIsAHandshake'
  BY UsersAssumption DEF Closed, Quiet, CInv, ClientTypeOK, AwaitingIsAHandshake, AwaitingOps, Ops
<1>3. ResumersListen'
  BY UsersAssumption DEF Closed, Quiet, CInv, ClientTypeOK, ResumersListen, AwaitingIsAHandshake, AwaitingOps, Ops
<1>4. HandshakeHasListener'
  BY UsersAssumption DEF Closed, Quiet, CInv, ClientTypeOK, HandshakeHasListener, ResumersListen, AwaitingOps, Ops
<1>5. UpIsAnnounced'
  BY UsersAssumption DEF Closed, Quiet, CInv, ClientTypeOK, HandshakeHasListener, UpIsAnnounced, Asking, AwaitingOps, Ops
<1> QED  BY <1>1, <1>2, <1>3, <1>4, <1>5 DEF CInv

\* Every step keeps it.
LEMMA NextKeepsCInv == CInv /\ [ClientNext]_clientVars => CInv'
<1> SUFFICES ASSUME CInv, [ClientNext]_clientVars PROVE CInv'
  OBVIOUS
<1>1. ASSUME NEW c \in Users, Connect(c) \/ ServerInfo(c) \/ ServerInfoFails(c)
      PROVE  CInv'
  BY <1>1, ConnectKeepsCInv, ServerInfoKeepsCInv, ServerInfoFailsKeepsCInv
<1>2. ASSUME NEW k \in Retries, Reconnect(k) \/ Resume(k) \/ PingFails(k)
      PROVE  CInv'
  BY <1>2, ReconnectKeepsCInv, ResumeKeepsCInv, PingFailsKeepsCInv
<1>3. CASE UNCHANGED clientVars
  BY <1>3 DEF clientVars, CInv, ClientTypeOK, AwaitingIsAHandshake, AwaitingOps,
              ResumersListen, HandshakeHasListener, UpIsAnnounced, Asking
<1> QED
  BY <1>1, <1>2, <1>3, DisconnectKeepsCInv, HandshakeFailsKeepsCInv, OpenedKeepsCInv,
     PeerClosesKeepsCInv, ClosedKeepsCInv DEF ClientNext

\* CInv always holds.
THEOREM CInvHolds == ClientSpec => []CInv
  BY InitCInv, NextKeepsCInv, PTL DEF ClientSpec

\* Every variable keeps its type.
THEOREM ClientTypeCorrect == ClientSpec => []ClientTypeOK
<1>1. CInv => ClientTypeOK  BY DEF CInv
<1> QED  BY <1>1, CInvHolds, PTL

\* A handshake always has somebody who will announce its end: the reconnect's
\* listener survives every call of connect() and disconnect() around it.
THEOREM HandshakesHaveListeners == ClientSpec => []HandshakeHasListener
<1>1. CInv => HandshakeHasListener  BY DEF CInv
<1> QED  BY <1>1, CInvHolds, PTL

\* A link that is up, with nobody asking for its network, has been announced.
THEOREM LinksAreAnnounced == ClientSpec => []UpIsAnnounced
<1>1. CInv => UpIsAnnounced  BY DEF CInv
<1> QED  BY <1>1, CInvHolds, PTL

-----------------------------------------------------------------------------
(* The client implements ConnectionLink.                                   *)

LEMMA ConnectIsLink ==
  ASSUME CInv, NEW o \in Ops, NEW w \in {"asking", "done"}, step[o] \in {"idle", "resuming"},
         CallConnect(o, w)
  PROVE  [Link!Next]_(Link!vars)
<1>1. CASE link = "down"
  <2>1. AwaitingOps = {}  BY <1>1 DEF CInv, AwaitingIsAHandshake
  <2>2. link' = "handshake" /\ AwaitingOps' = {o}
    BY <1>1, <2>1 DEF CallConnect, AwaitingOps, CInv, ClientTypeOK
  <2> QED  BY <1>1, <2>2 DEF Link!Next, Link!Dial
<1>2. CASE link = "handshake"
  <2>1. link' = link /\ AwaitingOps' = AwaitingOps \cup {o}
    BY <1>2 DEF CallConnect, AwaitingOps, CInv, ClientTypeOK
  <2> QED  BY <1>2, <2>1 DEF Link!Next, Link!Join
<1>3. CASE link \in {"up", "closing", "aborting"}
  <2>1. link' = link /\ AwaitingOps' = AwaitingOps
    BY <1>3 DEF CallConnect, AwaitingOps, CInv, ClientTypeOK
  <2> QED  BY <2>1 DEF Link!vars
<1> QED  BY <1>1, <1>2, <1>3 DEF CInv, ClientTypeOK

LEMMA DisconnectIsLink ==
  ASSUME CInv, NEW after \in [Ops -> Steps], CallDisconnect(after),
         \A o \in Ops : after[o] = "awaiting" <=> step[o] = "awaiting"
  PROVE  [Link!Next]_(Link!vars)
<1>1. AwaitingOps' = AwaitingOps
  BY DEF CallDisconnect, AwaitingOps, CInv, ClientTypeOK
<1>2. \/ UNCHANGED link
      \/ link = "up" /\ link' = "closing"
      \/ link = "handshake" /\ link' = "aborting"
  BY DEF CallDisconnect
<1> QED  BY <1>1, <1>2 DEF Link!Next, Link!vars, Link!Abort, Link!BeginClose

LEMMA HandshakeIsLink ==
  ASSUME CInv, HandshakeFails \/ Opened
  PROVE  [Link!Next]_(Link!vars)
<1>1. AwaitingOps' = {}
  BY DEF HandshakeFails, Opened, AwaitingOps, CInv, ClientTypeOK
<1> QED
  BY <1>1 DEF HandshakeFails, Opened, Link!Next, Link!Fail, Link!Open, Link!OpenAndClose

LEMMA CloseIsLink ==
  ASSUME CInv, PeerCloses \/ Closed \/ (\E k \in Retries : PingFails(k))
               \/ (\E c \in Users : ServerInfo(c) \/ ServerInfoFails(c))
  PROVE  [Link!Next]_(Link!vars)
<1>1. AwaitingOps' = AwaitingOps
  BY DEF PeerCloses, Closed, PingFails, ServerInfo, ServerInfoFails, AwaitingOps, CInv, ClientTypeOK
<1> QED
  BY <1>1 DEF PeerCloses, Closed, PingFails, ServerInfo, ServerInfoFails,
              Link!Next, Link!vars, Link!BeginClose, Link!Closed

\* Whatever the client does, its link is dialled, opened and closed as a connection
\* is, and no connect() waits for a handshake that is over.
THEOREM ClientKeepsToLink == ClientSpec => Link!Init /\ [][Link!Next]_(Link!vars)
<1>1. ClientInit => Link!Init
  BY DEF ClientInit, Link!Init, AwaitingOps
<1>2. CInv /\ [ClientNext]_clientVars => [Link!Next]_(Link!vars)
  <2> SUFFICES ASSUME CInv, [ClientNext]_clientVars PROVE [Link!Next]_(Link!vars)
    OBVIOUS
  <2>1. ASSUME NEW c \in Users, Connect(c) PROVE [Link!Next]_(Link!vars)
    BY <2>1, ConnectIsLink DEF Connect, Ops
  <2>2. ASSUME NEW k \in Retries, Resume(k) PROVE [Link!Next]_(Link!vars)
    BY <2>2, ConnectIsLink DEF Resume, Ops
  <2>3. CASE Disconnect
    BY <2>3, DisconnectIsLink DEF Disconnect, CInv, ClientTypeOK
  <2>4. ASSUME NEW k \in Retries, Reconnect(k) PROVE [Link!Next]_(Link!vars)
    <3> DEFINE after == [step EXCEPT ![k] = CASE link = "down" -> "resuming"
                                             [] link \in {"up", "closing"} -> "closing"
                                             [] OTHER -> "done"]
    <3>1. after \in [Ops -> Steps]
      BY DEF CInv, ClientTypeOK, Steps
    <3>2. \A o \in Ops : after[o] = "awaiting" <=> step[o] = "awaiting"
      BY <2>4 DEF Reconnect, CInv, ClientTypeOK
    <3>3. CallDisconnect(after)
      BY <2>4 DEF Reconnect
    <3> HIDE DEF after
    <3> QED  BY <3>1, <3>2, <3>3, DisconnectIsLink
  <2>5. CASE UNCHANGED clientVars
    BY <2>5 DEF clientVars, Link!vars, AwaitingOps
  <2> QED
    BY <2>1, <2>2, <2>3, <2>4, <2>5, HandshakeIsLink, CloseIsLink DEF ClientNext
<1> QED  BY <1>1, <1>2, CInvHolds, PTL DEF ClientSpec

-----------------------------------------------------------------------------
(* requestAll.                                                             *)

\* A page is asked for only while more are wanted, or nothing was collected yet; and
\* what is collected is what lies between the caller's marker and the next.
RAInv ==
  /\ RATypeOK
  /\ first <= marker
  /\ PagesAreConsecutive
  /\ raState = "asking" => count = 0 \/ WantsMore(count)
  /\ raOutcome = "resolved" => raState = "done"
  /\ raState = "idle" => count = 0 /\ first = 0 /\ marker = 0
  /\ LimitMet

LEMMA RAInitInv == RAInit => RAInv
  BY TotalAssumption DEF RAInit, RAInv, RATypeOK, PagesAreConsecutive, LimitMet

\* A page goes on from the marker, and is no longer than the clamp allows.
LEMMA PageKeepsInv ==
  ASSUME RAInv, NEW n \in 0..MAX_LIMIT, Page(n)
  PROVE  RAInv'
<1> USE LimitsAssumption, NoLimitAssumption, ClampAssumption, TotalAssumption
<1>1. /\ raState = "asking" /\ n <= CountRemaining /\ n <= Total - marker
      /\ seen' = seen \cup (marker + 1)..(marker + n)
      /\ count' = count + n /\ marker' = marker + n
      /\ UNCHANGED <<limit, first>>
      /\ n \in Nat /\ marker \in Nat /\ first \in Nat /\ count \in Nat /\ Total \in Nat
      /\ limit # NoLimit => limit \in Nat
      /\ count = marker - first /\ first <= marker
  BY DEF RAInv, RATypeOK, Page, PagesAreConsecutive
<1>2. RATypeOK'
  BY <1>1 DEF RAInv, RATypeOK, Page, PagesAreConsecutive
<1>3. PagesAreConsecutive' /\ (first <= marker)'
  BY <1>1 DEF RAInv, PagesAreConsecutive
<1>4. (raState = "asking" => count = 0 \/ WantsMore(count))'
  BY <1>1 DEF Page, WantsMore
<1>5. (raOutcome = "resolved" => raState = "done")' /\ (raState # "idle")'
  BY <1>1 DEF Page, RAInv
<1>6. LimitMet'
  <2> SUFFICES ASSUME raOutcome' = "resolved"
               PROVE  /\ limit = NoLimit \/ count' < limit => marker' = Total
                      /\ limit # NoLimit => count' < limit + MIN_LIMIT
                                            \/ (limit = 0 /\ count' <= MIN_LIMIT)
    BY <1>1 DEF LimitMet
  <2>1. ~(marker' < Total /\ WantsMore(count'))
    BY <1>1 DEF Page, RAInv
  <2>2. limit = NoLimit \/ count' < limit => marker' = Total
    BY <2>1, <1>1 DEF WantsMore
  <2>3. ASSUME limit # NoLimit
        PROVE  count' < limit + MIN_LIMIT \/ (limit = 0 /\ count' <= MIN_LIMIT)
    <3>1. count = 0 \/ count < limit
      BY <2>3, <1>1 DEF RAInv, WantsMore
    <3>2. n <= MIN_LIMIT \/ n <= limit - count
      BY <2>3, <1>1 DEF CountRemaining, Smaller
    <3> QED  BY <3>1, <3>2, <2>3, <1>1
  <2> QED  BY <2>2, <2>3
<1> QED  BY <1>2, <1>3, <1>4, <1>5, <1>6 DEF RAInv

LEMMA EmptyRange == 1..0 = {} /\ \A n \in Nat : (n + 1)..n = {} /\ 0 = n - n /\ n <= n
  OBVIOUS

LEMMA RANextInv == RAInv /\ [RANext]_raVars => RAInv'
<1> SUFFICES ASSUME RAInv, [RANext]_raVars PROVE RAInv'
  OBVIOUS
<1> USE LimitsAssumption, NoLimitAssumption, ClampAssumption, TotalAssumption
<1>1. CASE CallRequestAll
  <2>1. raState = "idle" /\ count = 0 /\ first = 0 /\ marker = 0
    BY <1>1 DEF CallRequestAll, RAInv
  <2>2. seen = 1..0
    BY <2>1 DEF RAInv, PagesAreConsecutive
  <2>3. /\ first' \in 0..Total /\ marker' = first' /\ limit' \in Limits \cup {NoLimit}
        /\ raState' = "asking" /\ UNCHANGED <<count, empty, seen, raOutcome>>
    BY <1>1 DEF CallRequestAll
  <2>4. seen' = (first' + 1)..marker' /\ count' = marker' - first' /\ first' <= marker'
    <3>1. first' \in Nat /\ marker' = first' /\ count' = 0 /\ seen' = 1..0
      BY <2>1, <2>2, <2>3
    <3>2. 1..0 = {} /\ (first' + 1)..first' = {}
      BY <3>1, EmptyRange
    <3>3. seen' = (first' + 1)..marker'
      BY <3>1, <3>2, Zenon
    <3>4. count' = marker' - first' /\ first' <= marker'
      BY <3>1, EmptyRange, Zenon
    <3> QED  BY <3>3, <3>4
  <2>5. raOutcome' # "resolved"
    BY <2>1, <2>3 DEF RAInv
  <2>6. RATypeOK'
    BY <2>3 DEF RAInv, RATypeOK
  <2> QED
    <3>1. PagesAreConsecutive' /\ LimitMet'
      BY <2>4, <2>5 DEF PagesAreConsecutive, LimitMet
    <3>2. (raState = "asking" => count = 0 \/ WantsMore(count))'
      BY <2>1, <2>3
    <3> QED  BY <2>3, <2>4, <2>5, <2>6, <3>1, <3>2 DEF RAInv
<1>2. CASE NoCollectKey
  BY <1>2 DEF NoCollectKey, RAInv, RATypeOK, PagesAreConsecutive, LimitMet
<1>3. CASE PageFails
  BY <1>3 DEF PageFails, RAInv, RATypeOK, PagesAreConsecutive, LimitMet
<1>4. CASE UNCHANGED raVars
  BY <1>4 DEF raVars, RAInv, RATypeOK, PagesAreConsecutive, LimitMet, WantsMore
<1> QED  BY <1>1, <1>2, <1>3, <1>4, PageKeepsInv DEF RANext

LEMMA RAInvHolds == RASpec => []RAInv
  BY RAInitInv, RANextInv, PTL DEF RASpec

\* Every variable of requestAll keeps its type.
THEOREM RATypeCorrect == RASpec => []RATypeOK
<1>1. RAInv => RATypeOK  BY DEF RAInv
<1> QED  BY <1>1, RAInvHolds, PTL

\* requestAll leaves nothing out and collects nothing twice.
THEOREM PagesFollowEachOther == RASpec => []PagesAreConsecutive
<1>1. RAInv => PagesAreConsecutive  BY DEF RAInv
<1> QED  BY <1>1, RAInvHolds, PTL

\* The limit is met, and overrun by less than MIN_LIMIT.
THEOREM LimitsAreMet == RASpec => []LimitMet
<1>1. RAInv => LimitMet  BY DEF RAInv
<1> QED  BY <1>1, RAInvHolds, PTL

\* Both: what was collected is the next pages, and as many of them as were wanted.
THEOREM PagesAlwaysMeetLimit == RASpec => []PagesMeetLimit
<1>1. PagesAreConsecutive /\ LimitMet => PagesMeetLimit  BY DEF PagesMeetLimit
<1> QED  BY <1>1, PagesFollowEachOther, LimitsAreMet, PTL

-----------------------------------------------------------------------------
(* fundWallet.                                                             *)

\* Nothing is polled before the faucet has answered.
Unpolled == asking = 0 /\ polls = 0 /\ attempts = MAX_ATTEMPTS + 1 /\ \A b \in 0..Deposits : answers[b] = 0

\* As long as nobody paid, no balance is above the starting balance: neither the
\* account's, nor one that was answered and is still to be handled.
NotAboveStart ==
  balance <= startingBalance /\ \A b \in 0..Deposits : answers[b] > 0 => b <= startingBalance

\* The polls are counted by the attempts, and what is under way was polled.
PollsAreCounted ==
  /\ fwState \in {"idle", "starting", "funding"} => Unpolled
  /\ interval => polls = MAX_ATTEMPTS + 1 - attempts
  /\ \A b \in 0..Deposits : asking + answers[b] <= polls

PaymentsAreSeen ==
  /\ fwState \in {"idle", "starting"} => startingBalance = 0 /\ ~misread
  /\ fwState \in {"funding", "polling"} /\ ~paid /\ ~misread => NotAboveStart
  /\ FundedMeansPaid

FWInv == FWTypeOK /\ PollingStops /\ PollsAreCounted /\ PaymentsAreSeen

LEMMA FWInitInv == FWInit => FWInv
<1> SUFFICES ASSUME FWInit PROVE FWInv
  OBVIOUS
<1> USE PollAttemptsAssumption, DepositsAssumption DEF FWInit
<1>1. 0 \in 0..MaxPolls /\ 0 \in 0..Deposits
  BY DEF MaxPolls
<1>2. FWTypeOK
  <2>1. answers \in [0..Deposits -> 0..MaxPolls]
    BY <1>1
  <2>2. MAX_ATTEMPTS + 1 \in 0..(MAX_ATTEMPTS + 1)
    OBVIOUS
  <2> QED  BY <1>1, <2>1, <2>2 DEF FWTypeOK, FWStates
<1>3. PollingStops /\ PaymentsAreSeen
  BY DEF PollingStops, PaymentsAreSeen, FundedMeansPaid
<1>4. PollsAreCounted
  BY DEF PollsAreCounted, Unpolled
<1> QED  BY <1>2, <1>3, <1>4 DEF FWInv

\* The steps before a poll.
LEMMA FundingKeepsInv ==
  ASSUME FWInv, NotConnected \/ StartNew \/ StartExisting \/ StartingBalance \/ FaucetAnswers
  PROVE  FWInv'
<1> USE PollAttemptsAssumption, DepositsAssumption
<1>0. FWTypeOK /\ PollingStops /\ PollsAreCounted /\ PaymentsAreSeen
  BY DEF FWInv
<1>1. CASE NotConnected
  <2>1. FWTypeOK'
    BY <1>0, <1>1 DEF NotConnected, FWTypeOK, FWStates, MaxPolls
  <2>2. PollingStops'
    BY <1>0, <1>1 DEF NotConnected, PollingStops
  <2>3. PollsAreCounted'
    BY <1>0, <1>1 DEF NotConnected, FWTypeOK, PollingStops, PollsAreCounted, Unpolled
  <2>4. PaymentsAreSeen'
    BY <1>0, <1>1 DEF NotConnected, FWTypeOK, PollingStops, PollsAreCounted,
            Unpolled, PaymentsAreSeen, NotAboveStart, FundedMeansPaid
  <2> QED  BY <2>1, <2>2, <2>3, <2>4 DEF FWInv
<1>2. CASE StartNew
  <2>1. FWTypeOK'
    BY <1>0, <1>2 DEF StartNew, FWTypeOK, FWStates, MaxPolls
  <2>2. PollingStops'
    BY <1>0, <1>2 DEF StartNew, PollingStops
  <2>3. PollsAreCounted'
    BY <1>0, <1>2 DEF StartNew, FWTypeOK, PollingStops, PollsAreCounted, Unpolled
  <2>4. PaymentsAreSeen'
    BY <1>0, <1>2 DEF StartNew, FWTypeOK, PollingStops, PollsAreCounted,
            Unpolled, PaymentsAreSeen, NotAboveStart, FundedMeansPaid
  <2> QED  BY <2>1, <2>2, <2>3, <2>4 DEF FWInv
<1>3. CASE StartExisting
  <2>1. FWTypeOK'
    BY <1>0, <1>3 DEF StartExisting, FWTypeOK, FWStates, MaxPolls
  <2>2. PollingStops'
    BY <1>0, <1>3 DEF StartExisting, PollingStops
  <2>3. PollsAreCounted'
    BY <1>0, <1>3 DEF StartExisting, FWTypeOK, PollingStops, PollsAreCounted, Unpolled
  <2>4. PaymentsAreSeen'
    BY <1>0, <1>3 DEF StartExisting, FWTypeOK, PollingStops, PollsAreCounted,
            Unpolled, PaymentsAreSeen, NotAboveStart, FundedMeansPaid
  <2> QED  BY <2>1, <2>2, <2>3, <2>4 DEF FWInv
<1>4. CASE StartingBalance
  <2>1. FWTypeOK'
    BY <1>0, <1>4 DEF StartingBalance, FWTypeOK, FWStates, MaxPolls
  <2>2. PollingStops'
    BY <1>0, <1>4 DEF StartingBalance, PollingStops
  <2>3. PollsAreCounted'
    BY <1>0, <1>4 DEF StartingBalance, FWTypeOK, PollingStops, PollsAreCounted, Unpolled
  <2>4. PaymentsAreSeen'
    <3>1. /\ fwState = "starting" /\ fwState' = "funding" /\ balance' = balance /\ answers' = answers
          /\ startingBalance' = balance \/ misread'
      BY <1>4 DEF StartingBalance
    <3>2. balance \in Nat /\ \A b \in 0..Deposits : answers[b] = 0
      BY <1>0, <3>1 DEF FWTypeOK, PollsAreCounted, Unpolled
    <3>3. misread' \/ NotAboveStart'
      BY <3>1, <3>2 DEF NotAboveStart
    <3> QED  BY <3>1, <3>3 DEF PaymentsAreSeen, FundedMeansPaid
  <2> QED  BY <2>1, <2>2, <2>3, <2>4 DEF FWInv
<1>5. CASE FaucetAnswers
  <2>1. FWTypeOK'
    BY <1>0, <1>5 DEF FaucetAnswers, FWTypeOK, FWStates, MaxPolls
  <2>2. PollingStops'
    BY <1>0, <1>5 DEF FaucetAnswers, PollingStops
  <2>3. PollsAreCounted'
    BY <1>0, <1>5 DEF FaucetAnswers, FWTypeOK, PollingStops, PollsAreCounted, Unpolled
  <2>4. PaymentsAreSeen'
    BY <1>0, <1>5 DEF FaucetAnswers, FWTypeOK, PollingStops, PollsAreCounted,
            Unpolled, PaymentsAreSeen, NotAboveStart, FundedMeansPaid
  <2> QED  BY <2>1, <2>2, <2>3, <2>4 DEF FWInv
<1> QED  BY <1>1, <1>2, <1>3, <1>4, <1>5

\* The payments, whoever makes them.
LEMMA PaymentsKeepInv ==
  ASSUME FWInv, Deposit \/ Spend
  PROVE  FWInv'
<1> USE PollAttemptsAssumption, DepositsAssumption
<1>0. FWTypeOK /\ PollingStops /\ PollsAreCounted /\ PaymentsAreSeen
  BY DEF FWInv
<1>1. CASE Deposit
  <2>1. FWTypeOK'
    BY <1>0, <1>1 DEF Deposit, FWTypeOK, FWStates, MaxPolls
  <2>2. PollingStops'
    BY <1>0, <1>1 DEF Deposit, PollingStops
  <2>3. PollsAreCounted'
    BY <1>0, <1>1 DEF Deposit, FWTypeOK, PollingStops, PollsAreCounted, Unpolled
  <2>4. PaymentsAreSeen'
    BY <1>0, <1>1 DEF Deposit, FWTypeOK, PollingStops, PollsAreCounted,
            Unpolled, PaymentsAreSeen, NotAboveStart, FundedMeansPaid
  <2> QED  BY <2>1, <2>2, <2>3, <2>4 DEF FWInv
<1>2. CASE Spend
  <2>1. FWTypeOK'
    BY <1>0, <1>2 DEF Spend, FWTypeOK, FWStates, MaxPolls
  <2>2. PollingStops'
    BY <1>0, <1>2 DEF Spend, PollingStops
  <2>3. PollsAreCounted'
    BY <1>0, <1>2 DEF Spend, FWTypeOK, PollingStops, PollsAreCounted, Unpolled
  <2>4. PaymentsAreSeen'
    BY <1>0, <1>2 DEF Spend, FWTypeOK, PollingStops, PollsAreCounted,
            Unpolled, PaymentsAreSeen, NotAboveStart, FundedMeansPaid
  <2> QED  BY <2>1, <2>2, <2>3, <2>4 DEF FWInv
<1> QED  BY <1>1, <1>2

\* The callback of the interval.
LEMMA TickKeepsInv ==
  ASSUME FWInv, Tick
  PROVE  FWInv'
<1> USE PollAttemptsAssumption, DepositsAssumption
<1>0. FWTypeOK /\ PollingStops /\ PollsAreCounted /\ PaymentsAreSeen
  BY DEF FWInv
<1>1. /\ interval /\ fwState = "polling" /\ polls = MAX_ATTEMPTS + 1 - attempts
      /\ asking' = asking + 1 /\ polls' = polls + 1
      /\ UNCHANGED <<startingBalance, misread, balance, paid, answers>>
  BY <1>0 DEF Tick, PollingStops, PollsAreCounted
<1>2. 0 \in 0..Deposits /\ asking + answers[0] <= polls /\ answers[0] \in Nat
  BY <1>0 DEF FWTypeOK, PollsAreCounted, MaxPolls
<1>3. asking' \in 0..MaxPolls /\ polls' \in 0..MaxPolls
  BY <1>0, <1>1, <1>2 DEF FWTypeOK, MaxPolls
<1>4. \A b \in 0..Deposits : asking' + answers'[b] <= polls'
  BY <1>0, <1>1 DEF FWTypeOK, PollsAreCounted, MaxPolls
<1>5. CASE attempts = 0
  <2>1. interval' = FALSE /\ fwState' = "notFunded" /\ result' = startingBalance /\ attempts' = attempts
    BY <1>0, <1>1, <1>5 DEF Tick, Resolve, FWTypeOK
  <2>2. FWTypeOK'
    BY <1>0, <1>1, <1>3, <2>1 DEF FWTypeOK, FWStates
  <2> QED
    BY <1>1, <1>4, <2>1, <2>2
       DEF FWInv, PollingStops, PollsAreCounted, PaymentsAreSeen, FundedMeansPaid
<1>6. CASE attempts # 0
  <2>1. attempts' = attempts - 1 /\ UNCHANGED <<interval, fwState, result>>
    BY <1>6 DEF Tick
  <2>2. FWTypeOK' /\ polls' = MAX_ATTEMPTS + 1 - attempts'
    BY <1>0, <1>1, <1>3, <1>6, <2>1 DEF FWTypeOK
  <2>3. PaymentsAreSeen'
    BY <1>0, <1>1, <2>1 DEF PaymentsAreSeen, NotAboveStart, FundedMeansPaid
  <2> QED
    BY <1>1, <1>4, <2>1, <2>2, <2>3 DEF FWInv, PollingStops, PollsAreCounted
<1> QED  BY <1>5, <1>6

\* A poll is answered, or fails.
LEMMA PollKeepsInv ==
  ASSUME FWInv, PollAnswered \/ PollFails
  PROVE  FWInv'
<1> USE PollAttemptsAssumption, DepositsAssumption
<1>0. FWTypeOK /\ PollingStops /\ PollsAreCounted /\ PaymentsAreSeen
  BY DEF FWInv
<1>1. CASE PollAnswered
  <2>1. /\ asking > 0 /\ asking' = asking - 1
        /\ UNCHANGED <<fwState, startingBalance, misread, balance, paid>>
        /\ UNCHANGED <<attempts, interval, polls, result>>
    BY <1>1 DEF PollAnswered
  <2>2. \A b \in 0..Deposits :
          /\ answers'[b] = IF b = balance THEN answers[b] + 1 ELSE answers[b]
          /\ answers[b] \in Nat /\ asking + answers[b] <= polls
    BY <1>0, <1>1 DEF PollAnswered, FWTypeOK, PollsAreCounted, MaxPolls
  <2>3. polls \in 0..MaxPolls /\ asking \in 0..MaxPolls /\ MaxPolls \in Nat
    BY <1>0 DEF FWTypeOK, MaxPolls
  <2>4. \A b \in 0..Deposits : asking' + answers'[b] <= polls' /\ answers'[b] \in 0..MaxPolls
    BY <2>1, <2>2, <2>3
  <2>5. answers' = [b \in 0..Deposits |-> answers'[b]]
    BY <1>0, <1>1 DEF PollAnswered, FWTypeOK
  <2>6. FWTypeOK'
    <3>1. answers' \in [0..Deposits -> 0..MaxPolls]
      BY <2>4, <2>5
    <3>2. asking' \in 0..MaxPolls /\ polls' \in 0..MaxPolls
      BY <2>1, <2>3
    <3> QED  BY <1>0, <2>1, <3>1, <3>2 DEF FWTypeOK
  <2>7. PollsAreCounted'
    BY <1>0, <2>1, <2>3, <2>4 DEF PollsAreCounted, Unpolled
  <2>8. PaymentsAreSeen'
    BY <1>0, <2>1, <2>2 DEF FWTypeOK, PaymentsAreSeen, NotAboveStart, FundedMeansPaid
  <2> QED  BY <1>0, <2>1, <2>6, <2>7, <2>8 DEF FWInv, PollingStops
<1>2. CASE PollFails
  <2>1. FWTypeOK'
    BY <1>0, <1>2 DEF PollFails, FWTypeOK, FWStates, MaxPolls
  <2>2. PollingStops'
    BY <1>0, <1>2 DEF PollFails, PollingStops
  <2>3. PollsAreCounted'
    BY <1>0, <1>2 DEF PollFails, FWTypeOK, PollingStops, PollsAreCounted, Unpolled
  <2>4. PaymentsAreSeen'
    BY <1>0, <1>2 DEF PollFails, FWTypeOK, PollingStops, PollsAreCounted,
            Unpolled, PaymentsAreSeen, NotAboveStart, FundedMeansPaid
  <2> QED  BY <2>1, <2>2, <2>3, <2>4 DEF FWInv
<1> QED  BY <1>1, <1>2

\* An answer is handled, whenever that is.
LEMMA HandleKeepsInv ==
  ASSUME FWInv, NEW b \in 0..Deposits, HandlePoll(b)
  PROVE  FWInv'
<1> USE PollAttemptsAssumption, DepositsAssumption
<1>0. FWTypeOK /\ PollingStops /\ PollsAreCounted /\ PaymentsAreSeen
  BY DEF FWInv
<1>1. /\ answers[b] > 0
      /\ UNCHANGED <<startingBalance, misread, balance, paid, attempts, asking, polls>>
  BY DEF HandlePoll
<1>2. MaxPolls \in Nat /\ \A c \in 0..Deposits : answers[c] \in 0..MaxPolls
  BY <1>0 DEF FWTypeOK, MaxPolls
<1>3. \A c \in 0..Deposits : answers'[c] = IF c = b THEN answers[c] - 1 ELSE answers[c]
  BY <1>0 DEF HandlePoll, FWTypeOK
<1>4. \A c \in 0..Deposits : answers'[c] \in 0..MaxPolls /\ answers'[c] <= answers[c]
  BY <1>1, <1>2, <1>3
<1>5. answers' = [c \in 0..Deposits |-> answers'[c]]
  BY <1>0 DEF HandlePoll, FWTypeOK
<1>6. answers' \in [0..Deposits -> 0..MaxPolls]
  BY <1>4, <1>5
<1>7. ~Unpolled
  BY <1>1 DEF Unpolled
<1>8. \A c \in 0..Deposits : asking' + answers'[c] <= polls'
  BY <1>0, <1>1, <1>2, <1>4 DEF FWTypeOK, PollsAreCounted
<1>9. CASE b > startingBalance /\ fwState = "polling"
  <2>1. interval' = FALSE /\ fwState' = "funded" /\ result' = b
    BY <1>9 DEF HandlePoll, Resolve
  <2>2. paid \/ misread
    BY <1>0, <1>1, <1>9 DEF FWTypeOK, PaymentsAreSeen, NotAboveStart
  <2>3. FWTypeOK'
    BY <1>0, <1>1, <1>6, <2>1 DEF FWTypeOK, FWStates
  <2> QED
    BY <1>1, <1>8, <1>9, <2>1, <2>2, <2>3
       DEF FWInv, PollingStops, PollsAreCounted, PaymentsAreSeen, FundedMeansPaid
<1>10. CASE ~(b > startingBalance /\ fwState = "polling")
  <2>1. fwState' = fwState /\ result' = result /\ interval' = interval
    BY <1>0, <1>10 DEF HandlePoll, Resolve, FWTypeOK, PollingStops
  <2>2. FWTypeOK'
    BY <1>0, <1>1, <1>6, <2>1 DEF FWTypeOK
  <2>3. PollsAreCounted'
    BY <1>0, <1>1, <1>7, <1>8, <2>1 DEF PollsAreCounted
  <2>4. PaymentsAreSeen'
    BY <1>0, <1>1, <1>2, <1>4, <2>1 DEF PaymentsAreSeen, NotAboveStart, FundedMeansPaid
  <2> QED  BY <1>0, <2>1, <2>2, <2>3, <2>4 DEF FWInv, PollingStops
<1> QED  BY <1>9, <1>10

LEMMA FWNextInv == FWInv /\ [FWNext]_fwVars => FWInv'
<1>1. ASSUME FWInv, UNCHANGED fwVars PROVE FWInv'
  BY <1>1 DEF fwVars, FWInv, FWTypeOK, PollingStops, PollsAreCounted, Unpolled, PaymentsAreSeen,
              NotAboveStart, FundedMeansPaid
<1> QED
  BY <1>1, FundingKeepsInv, PaymentsKeepInv, TickKeepsInv, PollKeepsInv, HandleKeepsInv DEF FWNext

LEMMA FWInvHolds == FWSpec => []FWInv
  BY FWInitInv, FWNextInv, PTL DEF FWSpec

\* Every variable of fundWallet keeps its type: however polls overlap, there are never
\* more than MAX_ATTEMPTS + 2.
THEOREM FWTypeCorrect == FWSpec => []FWTypeOK
<1>1. FWInv => FWTypeOK  BY DEF FWInv
<1> QED  BY <1>1, FWInvHolds, PTL

\* Who is told that the wallet was funded was paid, unless the starting balance was
\* misread.
THEOREM FundedWalletsWerePaid == FWSpec => []FundedMeansPaid
<1>1. FWInv => FundedMeansPaid  BY DEF FWInv, PaymentsAreSeen
<1> QED  BY <1>1, FWInvHolds, PTL

\* No interval is left behind.
THEOREM IntervalsAreCleared == FWSpec => []PollingStops
<1>1. FWInv => PollingStops  BY DEF FWInv
<1> QED  BY <1>1, FWInvHolds, PTL

-----------------------------------------------------------------------------
(* loadWasmModule.                                                         *)

Live(l) == loadState[l] \notin {"none", "rejected"}

\* The cached load is the one that is alive, loads are begun in order, and who got an
\* error waited for a load that is over.
LoadsInOrder ==
  /\ \A l \in Loads : Live(l) => l = cached
  /\ \A l \in Loads : loadState[l] = "none" <=> l > loads
  /\ cached # 0 => Live(cached)
  /\ \A c \in Callers : holds[c] <= loads
  /\ \A c \in Callers : got[c] = "error" => holds[c] # 0 /\ loadState[holds[c]] = "rejected"

AttemptsLeft == \A l \in Loads : loadState[l] = "backoff" => attempt[l] < MAX_LOAD_ATTEMPTS

MLInv == MLTypeOK /\ LoadsInOrder /\ AttemptsLeft

LEMMA MLInitInv == MLInit => MLInv
<1> SUFFICES ASSUME MLInit PROVE MLInv
  OBVIOUS
<1> USE LoadAttemptsAssumption, MaxLoadsAssumption DEF MLInit, Loads
<1>1. 0 \in 0..MAX_LOAD_ATTEMPTS /\ 0 \in 0..MaxLoads
  OBVIOUS
<1>2. MLTypeOK
  BY <1>1 DEF MLTypeOK, LoadStates
<1>3. LoadsInOrder /\ AttemptsLeft
  BY DEF LoadsInOrder, AttemptsLeft, Live
<1> QED  BY <1>2, <1>3 DEF MLInv

\* A call takes the cached load, or begins one.
LEMMA CallKeepsInv ==
  ASSUME MLInv, NEW c \in Callers, LoadWasmModule(c)
  PROVE  MLInv'
<1> USE LoadAttemptsAssumption, MaxLoadsAssumption DEF Loads
<1>0. MLTypeOK /\ LoadsInOrder /\ AttemptsLeft
  BY DEF MLInv
<1>1. holds[c] = 0 /\ got' = got
  BY DEF LoadWasmModule
<1>2. CASE cached # 0 /\ holds' = [holds EXCEPT ![c] = cached]
           /\ UNCHANGED <<cached, loads, loadState, attempt>>
  <2>1. cached \in Loads /\ cached <= loads
    BY <1>0, <1>2 DEF MLTypeOK, LoadsInOrder, Live
  <2>2. \A d \in Callers : holds'[d] = IF d = c THEN cached ELSE holds[d]
    BY <1>0, <1>2 DEF MLTypeOK
  <2>3. MLTypeOK'
    BY <1>0, <1>1, <1>2 DEF MLTypeOK
  <2>4. LoadsInOrder'
    BY <1>0, <1>1, <1>2, <2>1, <2>2 DEF LoadsInOrder, Live
  <2>5. AttemptsLeft'
    BY <1>0, <1>2 DEF AttemptsLeft
  <2> QED  BY <2>3, <2>4, <2>5 DEF MLInv
<1>3. CASE /\ cached = 0 /\ loads < MaxLoads /\ loads' = loads + 1 /\ cached' = loads'
           /\ LoadBecomes(loads', "trying") /\ attempt' = [attempt EXCEPT ![loads'] = 1]
           /\ holds' = [holds EXCEPT ![c] = loads']
  <2>1. loads' \in Loads /\ loads' \in 0..MaxLoads /\ 1 \in 0..MAX_LOAD_ATTEMPTS /\ loads \in Nat
    BY <1>0, <1>3 DEF MLTypeOK
  <2>2. \A l \in Loads : loadState'[l] = IF l = loads' THEN "trying" ELSE loadState[l]
    BY <1>0, <1>3 DEF MLTypeOK, LoadBecomes
  <2>3. \A d \in Callers : holds'[d] = IF d = c THEN loads' ELSE holds[d]
    BY <1>0, <1>3 DEF MLTypeOK
  <2>4. MLTypeOK'
    <3>1. loadState' \in [Loads -> LoadStates]
      BY <1>0, <1>3 DEF MLTypeOK, LoadBecomes, LoadStates
    <3>2. attempt' \in [Loads -> 0..MAX_LOAD_ATTEMPTS]
      BY <1>0, <1>3, <2>1 DEF MLTypeOK
    <3>3. holds' \in [Callers -> 0..MaxLoads]
      BY <1>0, <1>3, <2>1 DEF MLTypeOK
    <3> QED  BY <1>0, <1>1, <1>3, <2>1, <3>1, <3>2, <3>3 DEF MLTypeOK
  <2>5. LoadsInOrder'
    <3>1. \A l \in Loads : l \in Nat /\ (l > loads' <=> l > loads /\ l # loads')
      BY <1>3, <2>1
    <3>2. \A l \in Loads : (loadState'[l] \notin {"none", "rejected"}) => l = cached'
      BY <1>0, <1>3, <2>1, <2>2 DEF LoadsInOrder, Live, MLTypeOK
    <3>3. \A l \in Loads : loadState'[l] = "none" <=> l > loads'
      BY <1>0, <2>1, <2>2, <3>1 DEF LoadsInOrder
    <3>4. \A d \in Callers : holds'[d] <= loads'
      BY <1>0, <1>3, <2>1, <2>3 DEF LoadsInOrder, MLTypeOK
    <3>5. \A d \in Callers : got'[d] = "error" => holds'[d] # 0 /\ loadState'[holds'[d]] = "rejected"
      <4> SUFFICES ASSUME NEW d \in Callers, got[d] = "error"
                   PROVE  holds'[d] # 0 /\ loadState'[holds'[d]] = "rejected"
        BY <1>1
      <4>1. holds[d] # 0 /\ loadState[holds[d]] = "rejected" /\ d # c
        BY <1>0, <1>1 DEF LoadsInOrder
      <4>2. holds[d] \in Loads /\ holds[d] # loads' /\ holds'[d] = holds[d]
        BY <1>0, <1>3, <2>1, <2>3, <4>1 DEF LoadsInOrder, MLTypeOK
      <4> QED  BY <2>2, <4>1, <4>2
    <3>6. loadState'[cached'] = "trying"
      BY <1>3, <2>1, <2>2
    <3> QED  BY <3>2, <3>3, <3>4, <3>5, <3>6 DEF LoadsInOrder, Live
  <2>6. AttemptsLeft'
    BY <1>0, <1>3, <2>1, <2>2 DEF AttemptsLeft, MLTypeOK
  <2> QED  BY <2>4, <2>5, <2>6 DEF MLInv
<1> QED  BY <1>2, <1>3 DEF LoadWasmModule

\* A load goes on: none but a load that is over leaves the cache.
LEMMA LoadKeepsInv ==
  ASSUME MLInv, NEW l \in Loads,
         LoadOnceSucceeds(l) \/ LoadOnceFails(l) \/ Retry(l) \/ CatchLoad(l)
  PROVE  MLInv'
<1> USE LoadAttemptsAssumption, MaxLoadsAssumption DEF Loads
<1>0. MLTypeOK /\ LoadsInOrder /\ AttemptsLeft
  BY DEF MLInv
<1>1. l = cached /\ l # 0 /\ l <= loads /\ UNCHANGED <<loads, holds, got>>
  BY <1>0 DEF LoadOnceSucceeds, LoadOnceFails, Retry, CatchLoad, LoadsInOrder, Live, MLTypeOK
<1>2. ASSUME NEW s \in LoadStates \ {"none", "rejected"}, LoadBecomes(l, s), UNCHANGED cached,
             attempt' \in [Loads -> 0..MAX_LOAD_ATTEMPTS],
             s = "backoff" => attempt'[l] < MAX_LOAD_ATTEMPTS,
             \A m \in Loads \ {l} : attempt'[m] = attempt[m]
      PROVE  MLInv'
  <2>1. \A m \in Loads : loadState'[m] = IF m = l THEN s ELSE loadState[m]
    BY <1>0, <1>2 DEF MLTypeOK, LoadBecomes
  <2>2. MLTypeOK'
    BY <1>0, <1>1, <1>2 DEF MLTypeOK, LoadBecomes
  <2>3. \A d \in Callers : got[d] = "error" => holds[d] \in Loads /\ holds[d] # l
    BY <1>0, <1>1 DEF LoadsInOrder, Live, MLTypeOK
  <2>4. LoadsInOrder'
    BY <1>0, <1>1, <1>2, <2>1, <2>3 DEF LoadsInOrder, Live, LoadStates
  <2>5. AttemptsLeft'
    BY <1>0, <1>2, <2>1 DEF AttemptsLeft
  <2> QED  BY <2>2, <2>4, <2>5 DEF MLInv
<1>3. CASE LoadOnceSucceeds(l)
  BY <1>0, <1>2, <1>3 DEF LoadOnceSucceeds, LoadStates, MLTypeOK
<1>4. CASE LoadOnceFails(l)
  <2>1. attempt[l] \in Nat
    BY <1>0 DEF MLTypeOK
  <2> QED  BY <1>0, <1>2, <1>4, <2>1 DEF LoadOnceFails, LoadStates, MLTypeOK
<1>5. CASE Retry(l)
  <2>1. attempt[l] + 1 \in 0..MAX_LOAD_ATTEMPTS
    BY <1>0, <1>5 DEF Retry, AttemptsLeft, MLTypeOK
  <2>2. attempt' \in [Loads -> 0..MAX_LOAD_ATTEMPTS]
    BY <1>0, <1>5, <2>1 DEF Retry, MLTypeOK
  <2> QED  BY <1>0, <1>2, <1>5, <2>2 DEF Retry, LoadStates, MLTypeOK
<1>6. CASE CatchLoad(l)
  <2>1. /\ cached' = 0
        /\ \A m \in Loads : loadState'[m] = IF m = l THEN "rejected" ELSE loadState[m]
    BY <1>0, <1>6 DEF CatchLoad, MLTypeOK, LoadBecomes
  <2>2. MLTypeOK'
    BY <1>0, <1>1, <1>6 DEF CatchLoad, MLTypeOK, LoadBecomes, LoadStates
  <2>3. LoadsInOrder'
    BY <1>0, <1>1, <1>6, <2>1 DEF CatchLoad, LoadsInOrder, Live, MLTypeOK
  <2>4. AttemptsLeft'
    BY <1>0, <1>6, <2>1 DEF CatchLoad, AttemptsLeft
  <2> QED  BY <2>2, <2>3, <2>4 DEF MLInv
<1> QED  BY <1>3, <1>4, <1>5, <1>6

LEMMA MLNextInv == MLInv /\ [MLNext]_mlVars => MLInv'
<1> SUFFICES ASSUME MLInv, [MLNext]_mlVars PROVE MLInv'
  OBVIOUS
<1>1. ASSUME NEW c \in Callers, SettleCaller(c) PROVE MLInv'
  <2>1. /\ holds[c] # 0 /\ UNCHANGED <<cached, loads, loadState, attempt, holds>>
        /\ \/ loadState[holds[c]] = "ready" /\ got' = [got EXCEPT ![c] = "module"]
           \/ loadState[holds[c]] = "rejected" /\ got' = [got EXCEPT ![c] = "error"]
    BY <1>1 DEF SettleCaller
  <2> QED
    BY <2>1 DEF MLInv, MLTypeOK, LoadsInOrder, Live, AttemptsLeft
<1>2. ASSUME UNCHANGED mlVars PROVE MLInv'
  BY <1>2 DEF mlVars, MLInv, MLTypeOK, LoadsInOrder, Live, AttemptsLeft
<1> QED  BY <1>1, <1>2, CallKeepsInv, LoadKeepsInv DEF MLNext

LEMMA MLInvHolds == MLSpec => []MLInv
  BY MLInitInv, MLNextInv, PTL DEF MLSpec

\* Every variable of the loader keeps its type.
THEOREM MLTypeCorrect == MLSpec => []MLTypeOK
<1>1. MLInv => MLTypeOK  BY DEF MLInv
<1> QED  BY <1>1, MLInvHolds, PTL

\* There is never a second instance of the module.
THEOREM ModuleIsInstantiatedOnce == MLSpec => []OneInstance
<1>1. MLInv => OneInstance  BY DEF MLInv, LoadsInOrder, Live, OneInstance
<1> QED  BY <1>1, MLInvHolds, PTL

\* No later caller is given a load that failed.
THEOREM FailuresAreForgotten == MLSpec => FailureNotCached
<1>1. ASSUME MLInv, [MLNext]_mlVars, NEW c \in Callers, NEW d \in Callers,
             holds[c] = 0, holds'[c] # 0
      PROVE  /\ loadState[holds'[c]] # "rejected"
             /\ got[d] = "error" => holds'[c] # holds[d]
  <2>0. MLTypeOK /\ LoadsInOrder
    BY <1>1 DEF MLInv
  <2>1. LoadWasmModule(c)
    <3>1. ASSUME NEW e \in Callers, LoadWasmModule(e) PROVE e = c
      BY <1>1, <2>0, <3>1 DEF LoadWasmModule, MLTypeOK
    <3> QED
      BY <1>1, <3>1
         DEF MLNext, SettleCaller, LoadOnceSucceeds, LoadOnceFails, Retry, CatchLoad, mlVars
  <2>2. loadState[holds'[c]] # "rejected"
    <3>1. CASE cached # 0 /\ holds' = [holds EXCEPT ![c] = cached]
      BY <2>0, <3>1 DEF MLTypeOK, LoadsInOrder, Live
    <3>2. CASE loads < MaxLoads /\ loads' = loads + 1 /\ holds' = [holds EXCEPT ![c] = loads']
      <4>1. loads' \in Loads /\ loads' > loads /\ holds'[c] = loads'
        BY <2>0, <3>2, MaxLoadsAssumption DEF MLTypeOK, Loads
      <4> QED  BY <2>0, <4>1 DEF LoadsInOrder
    <3> QED  BY <2>1, <3>1, <3>2 DEF LoadWasmModule
  <2> QED  BY <2>0, <2>2 DEF LoadsInOrder
<1>2. MLInv /\ [MLNext]_mlVars
      => [\A c, d \in Callers :
            holds[c] = 0 /\ holds'[c] # 0 =>
              /\ loadState[holds'[c]] # "rejected"
              /\ got[d] = "error" => holds'[c] # holds[d]]_mlVars
  BY <1>1
<1> QED  BY <1>2, MLInvHolds, PTL DEF MLSpec, FailureNotCached

-----------------------------------------------------------------------------
(* Sponsorship.                                                            *)

\* The entry is one that a ledger can hold; a verdict on the entry as it is now is
\* what the ledger's would be, and only a transaction found valid has a fate.
SPInv ==
  /\ entry \in AtMostOne(Entry) /\ version \in Nat
  /\ demand = [t \in Sponsored |-> demand[t]] /\ verdict = [t \in Sponsored |-> verdict[t]]
  /\ readAt = [t \in Sponsored |-> readAt[t]] /\ fate = [t \in Sponsored |-> fate[t]]
  /\ \A t \in Sponsored :
       /\ verdict[t] # "none" => demand[t][1] \in Demands
       /\ readAt[t] \in 0..version
       /\ verdict[t] \in {"valid", "invalid"} /\ readAt[t] = version =>
            (verdict[t] = "valid" <=> Valid(demand[t][1]))
       /\ fate[t] # "none" => verdict[t] = "valid"
       /\ fate[t] = "refused" => readAt[t] # version

\* An optional value that is there is a value.
LEMMA OptionalValue ==
  ASSUME NEW S, NEW s \in AtMostOne(S), s # <<>>
  PROVE  s[1] \in S /\ DOMAIN s = {1}
<1>1. s \in Seq(S) /\ Len(s) \in Nat /\ Len(s) <= 1 /\ DOMAIN s = 1..Len(s)
  BY DEF AtMostOne
<1>2. Len(s) # 0
  BY <1>1
<1>3. DOMAIN s = {1}
  BY <1>1, <1>2
<1> QED BY <1>1, <1>3

LEMMA OptionalOne ==
  ASSUME NEW S, NEW x \in S
  PROVE  <<x>> \in AtMostOne(S) /\ <<x>> # <<>> /\ <<x>>[1] = x
  BY DEF AtMostOne

\* validateSponsorship decides by the ledger's rules.
LEMMA ValidIsTheLedgers ==
  ASSUME entry \in AtMostOne(Entry), NEW d \in Demands
  PROVE  Valid(d) <=> Authorized(d) /\ WithinBudget(d)
<1>1. /\ d.fee \in Nat /\ d.ofFee \in BOOLEAN /\ d.ofReserve \in BOOLEAN /\ d.coSigned \in BOOLEAN
  BY SponsorshipAssumption
<1>2. CASE entry = <<>>
  BY <1>1, <1>2 DEF Valid, Authorized, WithinBudget
<1>3. CASE entry # <<>>
  <2>1. entry[1] \in Entry
    BY <1>3, OptionalValue
  <2>2. /\ entry[1].feeAmount \in AtMostOne(Nat) /\ entry[1].maxFee \in AtMostOne(Nat)
        /\ entry[1].owners \in Nat
        /\ entry[1].signFee \in BOOLEAN /\ entry[1].signReserve \in BOOLEAN
    BY <2>1 DEF Entry
  <2>3. entry[1].feeAmount # <<>> => entry[1].feeAmount[1] \in Nat
    BY <2>2, OptionalValue
  <2>4. (entry[1].maxFee # <<>> => d.fee <= entry[1].maxFee[1])
          <=> \A i \in DOMAIN entry[1].maxFee : d.fee <= entry[1].maxFee[i]
    <3>1. CASE entry[1].maxFee = <<>>
      BY <3>1
    <3>2. CASE entry[1].maxFee # <<>>
      BY <2>2, <3>2, OptionalValue
    <3> QED BY <3>1, <3>2
  <2>5. (d.ofFee => /\ entry[1].feeAmount # <<>> /\ d.fee <= entry[1].feeAmount[1]
                    /\ entry[1].maxFee # <<>> => d.fee <= entry[1].maxFee[1])
          <=> (d.ofFee => \E budget \in {entry[1].feeAmount} :
                 budget # <<>> /\ budget[1] - d.fee >= 0
                 /\ \A i \in DOMAIN entry[1].maxFee : d.fee <= entry[1].maxFee[i])
    BY <1>1, <2>3, <2>4
  <2>6. (d.ofReserve => entry[1].owners >= 1) <=> (d.ofReserve => entry[1].owners > 0)
    BY <1>1, <2>2
  <2> QED BY <1>1, <1>3, <2>2, <2>5, <2>6 DEF Valid, Authorized, WithinBudget
<1> QED BY <1>2, <1>3

\* What is charged leaves an entry.
LEMMA ChargedIsEntry ==
  ASSUME entry \in AtMostOne(Entry), entry # <<>>, NEW d \in Demands, WithinBudget(d)
  PROVE  Charged(entry[1], d) \in Entry
<1>1. /\ d.fee \in Nat /\ d.ofFee \in BOOLEAN /\ d.ofReserve \in BOOLEAN
  BY SponsorshipAssumption
<1>2. entry[1] \in Entry
  BY OptionalValue
<1>3. /\ entry[1].feeAmount \in AtMostOne(Nat) /\ entry[1].maxFee \in AtMostOne(Nat)
      /\ entry[1].owners \in Nat
      /\ entry[1].signFee \in BOOLEAN /\ entry[1].signReserve \in BOOLEAN
  BY <1>2 DEF Entry
<1>4. d.ofFee => <<entry[1].feeAmount[1] - d.fee>> \in AtMostOne(Nat)
  <2> SUFFICES ASSUME d.ofFee PROVE <<entry[1].feeAmount[1] - d.fee>> \in AtMostOne(Nat)
    OBVIOUS
  <2>1. entry[1].feeAmount # <<>> /\ entry[1].feeAmount[1] - d.fee >= 0
    BY DEF WithinBudget
  <2>2. entry[1].feeAmount[1] \in Nat
    BY <1>3, <2>1, OptionalValue
  <2>3. entry[1].feeAmount[1] - d.fee \in Nat
    BY <1>1, <2>1, <2>2
  <2> QED BY <2>3, OptionalOne
<1>5. d.ofReserve => entry[1].owners - 1 \in Nat
  BY <1>3 DEF WithinBudget
<1> QED BY <1>1, <1>3, <1>4, <1>5 DEF Charged, Entry

LEMMA SPInitInv == SPInit => SPInv
  BY SponsorshipAssumption DEF SPInit, SPInv

LEMMA EntryIsReadInv ==
  ASSUME SPInv, NEW t \in Sponsored, EntryIsRead(t)
  PROVE  SPInv'
<1>1. \A u \in Sponsored : Valid(demand[u][1])' <=> Valid(demand[u][1])
  BY DEF EntryIsRead, Valid
<1>2. /\ verdict[t] = "asked" /\ readAt' = [readAt EXCEPT ![t] = version]
      /\ verdict' = [verdict EXCEPT ![t] = IF Valid(demand[t][1]) THEN "valid" ELSE "invalid"]
      /\ UNCHANGED <<entry, version, demand, fate>>
  BY DEF EntryIsRead
<1>3. \A u \in Sponsored \ {t} : readAt'[u] = readAt[u] /\ verdict'[u] = verdict[u]
  BY <1>2 DEF SPInv
<1>4. /\ readAt'[t] = version
      /\ verdict'[t] = IF Valid(demand[t][1]) THEN "valid" ELSE "invalid"
      /\ readAt' = [u \in Sponsored |-> readAt'[u]] /\ verdict' = [u \in Sponsored |-> verdict'[u]]
  BY <1>2 DEF SPInv
<1> QED BY <1>1, <1>2, <1>3, <1>4 DEF SPInv

\* A transaction that is applied makes another version of the entry; one that is
\* refused was not found valid for this one.
LEMMA SubmitSponsoredInv ==
  ASSUME SPInv, NEW t \in Sponsored, SubmitSponsored(t)
  PROVE  SPInv'
<1> DEFINE d == demand[t][1]
<1>1. verdict[t] = "valid" /\ d \in Demands /\ UNCHANGED <<demand, verdict, readAt>>
  BY DEF SubmitSponsored, SPInv
<1>2. CASE Authorized(d) /\ WithinBudget(d)
  <2>1. /\ fate' = [fate EXCEPT ![t] = "applied"] /\ version' = version + 1
        /\ entry' = IF entry = <<>> THEN <<>> ELSE <<Charged(entry[1], d)>>
    BY <1>2 DEF SubmitSponsored
  <2>2. entry' \in AtMostOne(Entry)
    <3>1. CASE entry = <<>>
      BY <2>1, <3>1 DEF SPInv
    <3>2. CASE entry # <<>>
      BY <1>1, <1>2, <2>1, <3>2, ChargedIsEntry, OptionalOne DEF SPInv
    <3> QED BY <3>1, <3>2
  <2> QED BY <1>1, <2>1, <2>2 DEF SPInv
<1>3. CASE ~(Authorized(d) /\ WithinBudget(d))
  <2>1. fate' = [fate EXCEPT ![t] = "refused"] /\ UNCHANGED <<entry, version>>
    BY <1>3 DEF SubmitSponsored
  <2>2. readAt[t] # version
    BY <1>1, <1>3, ValidIsTheLedgers DEF SPInv
  <2>3. \A u \in Sponsored : Valid(demand[u][1])' <=> Valid(demand[u][1])
    BY <1>1, <2>1 DEF Valid
  <2> QED BY <1>1, <2>1, <2>2, <2>3 DEF SPInv
<1> QED BY <1>2, <1>3

LEMMA SPNextInv == SPInv /\ [SPNext]_spVars => SPInv'
<1> SUFFICES ASSUME SPInv, [SPNext]_spVars PROVE SPInv'
  OBVIOUS
<1>1. ASSUME NEW t \in Sponsored, NEW d \in Demands, ValidateSponsorship(t, d) PROVE SPInv'
  <2>1. \A u \in Sponsored : u # t => (Valid(demand[u][1])' <=> Valid(demand[u][1]))
    BY <1>1 DEF ValidateSponsorship, Valid, SPInv
  <2> QED BY <1>1, <2>1 DEF SPInv, ValidateSponsorship
<1>2. ASSUME NEW t \in Sponsored, EntryIsRead(t) PROVE SPInv'
  BY <1>2, EntryIsReadInv
<1>3. ASSUME NEW t \in Sponsored, RequestFails(t) PROVE SPInv'
  <2>1. \A u \in Sponsored : Valid(demand[u][1])' <=> Valid(demand[u][1])
    BY <1>3 DEF RequestFails, Valid
  <2> QED BY <1>3, <2>1 DEF SPInv, RequestFails
<1>4. ASSUME NEW t \in Sponsored, SubmitSponsored(t) PROVE SPInv'
  BY <1>4, SubmitSponsoredInv
<1>5. ASSUME NEW e \in Entries, SponsorChanges(e) PROVE SPInv'
  BY <1>5, SponsorshipAssumption DEF SPInv, SponsorChanges
<1>6. CASE UNCHANGED spVars
  <2>1. \A u \in Sponsored : Valid(demand[u][1])' <=> Valid(demand[u][1])
    BY <1>6 DEF spVars, Valid
  <2> QED BY <1>6, <2>1 DEF SPInv, spVars
<1> QED BY <1>1, <1>2, <1>3, <1>4, <1>5, <1>6 DEF SPNext

\* The verdict is the ledger's on the entry that was read, for any demands, entries and
\* number of transactions on one sponsorship.
THEOREM VerdictsAreAlwaysTheLedgers == SPSpec => []VerdictsAreTheLedgers
<1>1. SPInv => VerdictsAreTheLedgers
  <2> SUFFICES ASSUME SPInv, NEW t \in Sponsored, verdict[t] = "invalid", readAt[t] = version
               PROVE  ~(Authorized(demand[t][1]) /\ WithinBudget(demand[t][1]))
    BY DEF SPInv, VerdictsAreTheLedgers, RefusedOnlyIfStale, InvalidIsRefused
  <2> QED BY ValidIsTheLedgers DEF SPInv
<1> QED BY <1>1, SPInitInv, SPNextInv, PTL DEF SPSpec

=====================================================================================
