------------------------------ MODULE RequestManager ------------------------------
(***************************************************************************)
(* The table of requests that await a response (client/RequestManager.ts)  *)
(* together with the callers of Connection.request and the server that     *)
(* answers them.  A request and a response are their id and, for a         *)
(* response, its status; the payload is abstracted away.                   *)
(*                                                                         *)
(* The program is single threaded: a step is one call, timer callback or   *)
(* message handler, run to completion.                                     *)
(***************************************************************************)
EXTENDS Naturals, Functions

CONSTANTS
  Calls,   \* the calls of Connection.request
  ReqId,   \* ReqId[r] is the id the caller put in the request, NoId if none
  NoId,    \* request.id == null
  NoCall   \* no call at all

ASSUME ReqIdAssumption == DOMAIN ReqId = Calls
ASSUME NoCallAssumption == NoCall \notin Calls

VARIABLES
  nextId,                    \* this.nextId
  promisesAwaitingResponse,  \* the Map: id |-> the call whose promise it holds
  timers,                    \* calls whose timeout is armed
  idOf,                      \* newId, as the closures of each call captured it
  outcome,                   \* how the promise of each call stands
  settledBy,                 \* the call whose response or send error settled it
  thrown,                    \* what the last callback threw
  wire,                      \* calls whose response may still come
  failing                    \* calls whose ws.send is going to report an error

rmVars == <<nextId, promisesAwaitingResponse, timers, idOf, outcome, settledBy,
            thrown, wire, failing>>

Ids == Nat \cup {ReqId[r] : r \in Calls}
Awaiting == DOMAIN promisesAwaitingResponse
Status == {"success", "error", "none", "other"}
Answered == {"resolved", "rippledError", "formatError"}
Refused == {"duplicate", "notConnected"}
Outcomes == {"idle", "pending", "timeout", "disconnected", "sendError"}
              \cup Answered \cup Refused
Fates == {"delivered", "lost", "failing"}  \* what becomes of a message sent

RMInit ==
  /\ nextId = 0
  /\ promisesAwaitingResponse = [i \in {} |-> NoCall]
  /\ timers = {}
  /\ idOf = [r \in Calls |-> NoId]
  /\ outcome = [r \in Calls |-> "idle"]
  /\ settledBy = [r \in Calls |-> NoCall]
  /\ thrown = "none"
  /\ wire = {}
  /\ failing = {}

-----------------------------------------------------------------------------
(* The helpers of the class.                                               *)

NewId(r) == IF ReqId[r] = NoId THEN nextId ELSE ReqId[r]

\* Mutant: the counter is not advanced.
NextIdAfter_Stuck(r) == nextId

NextIdAfter(r) == IF ReqId[r] = NoId THEN nextId + 1 ELSE nextId

\* What handleResponse does to the promise, by the status of the response.
Verdict(status) == CASE status = "success" -> "resolved"
                     [] status = "error" -> "rippledError"
                     [] OTHER -> "formatError"

\* Mutant: the promise is settled but its timer stays armed.
Settle_TimerStaysArmed(id, o, by, armed) ==
  LET r == promisesAwaitingResponse[id] IN
  /\ promisesAwaitingResponse' = Restrict(promisesAwaitingResponse, Awaiting \ {id})
  /\ timers' = armed
  /\ outcome' = [outcome EXCEPT ![r] = o]
  /\ settledBy' = [settledBy EXCEPT ![r] = by]

\* resolve(id, _) and reject(id, _) when the id is in the table: the timer of
\* the entry is cleared, its promise settled, the entry deleted.  "armed" are
\* the timers armed just before, "by" the call whose message caused it.
Settle(id, o, by, armed) ==
  LET r == promisesAwaitingResponse[id] IN
  /\ promisesAwaitingResponse' = Restrict(promisesAwaitingResponse, Awaiting \ {id})
  /\ timers' = armed \ {r}
  /\ outcome' = [outcome EXCEPT ![r] = o]
  /\ settledBy' = [settledBy EXCEPT ![r] = by]

-----------------------------------------------------------------------------
(* Connection.request and createRequest.                                   *)

\* The id is free: entry and timer are made and the message is sent.
CreateRequest(r, fate) ==
  LET id == NewId(r) IN
  /\ outcome[r] = "idle"
  /\ id \notin Awaiting
  /\ nextId' = NextIdAfter(r)
  /\ promisesAwaitingResponse' = [i \in Awaiting \cup {id} |->
                                    IF i = id THEN r ELSE promisesAwaitingResponse[i]]
  /\ timers' = timers \cup {r}
  /\ idOf' = [idOf EXCEPT ![r] = id]
  /\ outcome' = [outcome EXCEPT ![r] = "pending"]
  /\ wire' = IF fate = "delivered" THEN wire \cup {r} ELSE wire
  /\ failing' = IF fate = "failing" THEN failing \cup {r} ELSE failing
  /\ thrown' = "none"
  /\ UNCHANGED settledBy

\* Mutant: the timer that is cleared is the one of the entry in the table.
RefuseDuplicate_ClearsWrongTimer(r) ==
  /\ outcome[r] = "idle"
  /\ NewId(r) \in Awaiting
  /\ nextId' = NextIdAfter(r)
  /\ outcome' = [outcome EXCEPT ![r] = "duplicate"]
  /\ timers' = timers \ {promisesAwaitingResponse[NewId(r)]}
  /\ thrown' = "none"
  /\ UNCHANGED <<promisesAwaitingResponse, idOf, settledBy, wire, failing>>

\* The id is taken: the new timer is cleared again and createRequest throws,
\* after nextId was advanced.
RefuseDuplicate(r) ==
  /\ outcome[r] = "idle"
  /\ NewId(r) \in Awaiting
  /\ nextId' = NextIdAfter(r)
  /\ outcome' = [outcome EXCEPT ![r] = "duplicate"]
  /\ thrown' = "none"
  /\ UNCHANGED <<promisesAwaitingResponse, timers, idOf, settledBy, wire, failing>>

\* There is no websocket: request throws before it reaches the manager.
RefuseNotConnected(r) ==
  /\ outcome[r] = "idle"
  /\ outcome' = [outcome EXCEPT ![r] = "notConnected"]
  /\ thrown' = "none"
  /\ UNCHANGED <<nextId, promisesAwaitingResponse, timers, idOf, settledBy, wire, failing>>

-----------------------------------------------------------------------------
(* The events that settle a request.                                       *)

\* The timeout calls reject(newId, _), which throws if the id is not awaited;
\* nothing catches an exception of a timer callback.
TimerFires(r) ==
  /\ r \in timers
  /\ \/ /\ idOf[r] \in Awaiting
        /\ Settle(idOf[r], "timeout", r, timers \ {r})
        /\ thrown' = "none"
     \/ /\ idOf[r] \notin Awaiting
        /\ timers' = timers \ {r}
        /\ thrown' = "uncaught"
        /\ UNCHANGED <<promisesAwaitingResponse, outcome, settledBy>>
  /\ UNCHANGED <<nextId, idOf, wire, failing>>

\* The callback of ws.send reports an error: reject(id, _), whose exception,
\* if the id is not awaited any more, is caught and traced.
SendFails(r) ==
  /\ r \in failing
  /\ failing' = failing \ {r}
  /\ \/ /\ idOf[r] \in Awaiting
        /\ Settle(idOf[r], "sendError", r, timers)
     \/ /\ idOf[r] \notin Awaiting
        /\ UNCHANGED <<promisesAwaitingResponse, timers, outcome, settledBy>>
  /\ thrown' = "none"
  /\ UNCHANGED <<nextId, idOf, wire>>

\* A response to r finds its id in the table.  Without a status the entry is
\* rejected twice, and the second reject throws for want of the entry.
HandleResponse(r, status) ==
  /\ r \in wire
  /\ wire' = wire \ {r}
  /\ idOf[r] \in Awaiting
  /\ Settle(idOf[r], Verdict(status), r, timers)
  /\ thrown' = IF status = "none" THEN "XrplError" ELSE "none"
  /\ UNCHANGED <<nextId, idOf, failing>>

\* A response whose id is not in the table is dropped.
IgnoreResponse(r) ==
  /\ r \in wire
  /\ wire' = wire \ {r}
  /\ idOf[r] \notin Awaiting
  /\ thrown' = "none"
  /\ UNCHANGED <<nextId, promisesAwaitingResponse, timers, idOf, outcome, settledBy, failing>>

\* A response without an id that is a string or a number.
BadResponse ==
  /\ thrown' = "ResponseFormatError"
  /\ UNCHANGED <<nextId, promisesAwaitingResponse, timers, idOf, outcome, settledBy,
                 wire, failing>>

\* Mutants: the table is cleared and nothing else; the numbering starts again.
RejectAll_JustClears ==
  /\ promisesAwaitingResponse' = [i \in {} |-> NoCall]
  /\ wire' = {}
  /\ thrown' = "none"
  /\ UNCHANGED <<nextId, timers, idOf, outcome, settledBy, failing>>

RejectAll_RestartsIds ==
  LET entries == Range(promisesAwaitingResponse) IN
  /\ promisesAwaitingResponse' = [i \in {} |-> NoCall]
  /\ timers' = timers \ entries
  /\ outcome' = [r \in Calls |-> IF r \in entries THEN "disconnected" ELSE outcome[r]]
  /\ wire' = {}
  /\ nextId' = 0
  /\ thrown' = "none"
  /\ UNCHANGED <<idOf, settledBy, failing>>

\* The websocket was closed: every entry is rejected, and no response comes
\* any more to a request that was sent on it.
RejectAll ==
  LET entries == Range(promisesAwaitingResponse) IN
  /\ promisesAwaitingResponse' = [i \in {} |-> NoCall]
  /\ timers' = timers \ entries
  /\ outcome' = [r \in Calls |-> IF r \in entries THEN "disconnected" ELSE outcome[r]]
  /\ wire' = {}
  /\ thrown' = "none"
  /\ UNCHANGED <<nextId, idOf, settledBy, failing>>

-----------------------------------------------------------------------------

RMNext ==
  \/ \E r \in Calls :
       \/ \E fate \in Fates : CreateRequest(r, fate)
       \/ RefuseDuplicate(r)
       \/ RefuseNotConnected(r)
       \/ TimerFires(r)
       \/ SendFails(r)
       \/ \E status \in Status : HandleResponse(r, status)
       \/ IgnoreResponse(r)
  \/ BadResponse
  \/ RejectAll

\* An armed timer fires, unless it is cleared first.
RMFairness == \A r \in Calls : WF_rmVars(TimerFires(r))

RMSpec == RMInit /\ [][RMNext]_rmVars /\ RMFairness

-----------------------------------------------------------------------------
(* What the manager promises.                                              *)

\* Every variable keeps its type.
RMTypeOK ==
  /\ nextId \in Nat
  /\ Awaiting \subseteq Ids
  /\ promisesAwaitingResponse \in [Awaiting -> Calls]
  /\ timers \subseteq Calls
  /\ idOf \in [Calls -> Ids \cup {NoId}]
  /\ outcome \in [Calls -> Outcomes]
  /\ settledBy \in [Calls -> Calls \cup {NoCall}]
  /\ thrown \in {"none", "ResponseFormatError", "XrplError", "uncaught"}
  /\ wire \subseteq Calls
  /\ failing \subseteq Calls

\* The table, the armed timeouts and the promises that are still pending are
\* the same calls: no promise is forgotten, none keeps a timer once it is
\* settled, and each entry is found under the id its own timer will use.
TableConsistent ==
  /\ timers = Range(promisesAwaitingResponse)
  /\ \A r \in Calls : outcome[r] = "pending" <=> r \in Range(promisesAwaitingResponse)
  /\ \A i \in Awaiting : idOf[promisesAwaitingResponse[i]] = i

\* The reject of a timeout callback, which nothing would catch, finds its entry.
TimersNeverThrow == thrown # "uncaught"

\* Callers that choose ids choose strings, which no value of nextId equals.
ExplicitIdsAreNotNumbers == \A r \in Calls : ReqId[r] \notin Nat

\* No other call carries the id of r: r has none, or one of its own.
Unshared(r) == \A q \in Calls \ {r} : ReqId[q] = ReqId[r] => ReqId[r] = NoId

\* A late response, a late send error or a timeout of one call never settles
\* another one, as long as callers do not use an id twice.
OwnEventsOnly ==
  ExplicitIdsAreNotNumbers =>
    \A r \in Calls : Unshared(r) => settledBy[r] \in {r, NoCall}

\* A request that leaves its id to the manager is never refused as a duplicate.
AutoNeverRefused ==
  ExplicitIdsAreNotNumbers =>
    \A r \in Calls : ReqId[r] = NoId => outcome[r] # "duplicate"

\* Each promise is settled in the end, if only by its timeout.
RequestsSettle == \A r \in Calls : outcome[r] = "pending" ~> outcome[r] # "pending"

\* To the calls whose ids are not shared, whatever ids the others use, the manager
\* is a request service: each is settled once, by its own answer, timeout or send
\* error, or by the close.
Own == {r \in Calls : Unshared(r)}
Service == INSTANCE RequestService
             WITH Calls <- Own, outcome <- Restrict(outcome, Own), asked <- wire \cap Own
ServiceSpec == Service!Spec

=============================================================================
