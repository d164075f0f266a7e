------------------------------ MODULE ConnectionLink ------------------------------
(***************************************************************************)
(* What the layer above sees of a connection: one link that is dialled,    *)
(* opened, closed or given up, and the calls of connect() that wait for    *)
(* the handshake under way.  Connection implements this, and Client is     *)
(* built on it.                                                            *)
(***************************************************************************)
CONSTANT Ops  \* whoever may call connect()

VARIABLES
  link,     \* "down", "handshake", "aborting" (a handshake given up), "up", "closing"
  awaiting  \* calls of connect() that wait for the end of the handshake

vars == <<link, awaiting>>

Links == {"down", "handshake", "aborting", "up", "closing"}

Init == link = "down" /\ awaiting = {}

Dial(o) == link = "down" /\ link' = "handshake" /\ awaiting' = {o}
Join(o) == link = "handshake" /\ awaiting' = awaiting \cup {o} /\ UNCHANGED link
Abort == link = "handshake" /\ link' = "aborting" /\ UNCHANGED awaiting

\* The handshake ends, for every call that waits for it.
Fail == link \in {"handshake", "aborting"} /\ link' = "down" /\ awaiting' = {}
Open == link = "handshake" /\ link' = "up" /\ awaiting' = {}

\* A listener of 'connected' threw: what has just been opened is closed.
OpenAndClose == link = "handshake" /\ link' = "closing" /\ awaiting' = {}

BeginClose == link = "up" /\ link' = "closing" /\ UNCHANGED awaiting
Closed == link = "closing" /\ link' = "down" /\ UNCHANGED awaiting

Next ==
  \/ \E o \in Ops : Dial(o) \/ Join(o)
  \/ Abort \/ Fail \/ Open \/ OpenAndClose \/ BeginClose \/ Closed

\* A handshake ends, if only by its timeout; a close is finished.
Fairness == WF_vars(Fail \/ Open \/ OpenAndClose) /\ WF_vars(Closed)

Spec == Init /\ [][Next]_vars /\ Fairness

=============================================================================
