------------------------------ MODULE RequestService ------------------------------
(***************************************************************************)
(* What a caller of Connection.request is promised: each call is refused   *)
(* or settled once, by the answer to that very call, by its own timeout,   *)
(* by the failure of its own send, or by the close of the websocket.  No   *)
(* ids, no table, no timers: RequestManager implements this.               *)
(***************************************************************************)
CONSTANT Calls

VARIABLES
  outcome,  \* how the promise of each call stands
  asked     \* calls whose answer may still come

vars == <<outcome, asked>>

Pending(r) == outcome[r] = "pending"
Becomes(r, o) == outcome' = [outcome EXCEPT ![r] = o]

Init ==
  /\ outcome = [r \in Calls |-> "idle"]
  /\ asked = {}

\* The message reaches the server, or is lost on the way.
Issue(r) ==
  /\ outcome[r] = "idle"
  /\ Becomes(r, "pending")
  /\ asked' \in {asked, asked \cup {r}}

Refuse(r) ==
  /\ outcome[r] = "idle"
  /\ \E o \in {"duplicate", "notConnected"} : Becomes(r, o)
  /\ UNCHANGED asked

\* The server's answer settles the call it answers ...
Answer(r) ==
  /\ r \in asked
  /\ Pending(r)
  /\ \E o \in {"resolved", "rippledError", "formatError"} : Becomes(r, o)
  /\ asked' = asked \ {r}

\* ... or comes too late and settles nothing.
AnswerTooLate(r) ==
  /\ r \in asked
  /\ ~Pending(r)
  /\ asked' = asked \ {r}
  /\ UNCHANGED outcome

Expire(r) ==
  /\ Pending(r)
  /\ Becomes(r, "timeout")
  /\ UNCHANGED asked

\* A message that could not be sent is not answered.
SendError(r) ==
  /\ Pending(r)
  /\ r \notin asked
  /\ Becomes(r, "sendError")
  /\ UNCHANGED asked

CloseAll ==
  /\ outcome' = [r \in Calls |-> IF Pending(r) THEN "disconnected" ELSE outcome[r]]
  /\ asked' = {}

Next ==
  \/ \E r \in Calls :
       \/ Issue(r)
       \/ Refuse(r)
       \/ Answer(r)
       \/ AnswerTooLate(r)
       \/ Expire(r)
       \/ SendError(r)
  \/ CloseAll

Spec == Init /\ [][Next]_vars /\ \A r \in Calls : WF_vars(Expire(r))

=============================================================================
