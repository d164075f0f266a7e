-------------------------------- MODULE RequestAll --------------------------------
(***************************************************************************)
(* Client.requestAll (client/index.ts): one request after the other, each  *)
(* from the marker the last one returned, until the limit is reached or    *)
(* there is no marker.  A resource is its position in the server's list;   *)
(* the server is external: it returns at most as many as asked for, may    *)
(* return fewer, or none, or no list at all, and a marker while some are   *)
(* left.  A marker is the number of resources before it.                   *)
(***************************************************************************)
EXTENDS Integers

CONSTANTS
  Limits,    \* the limits callers ask for
  NoLimit,   \* request.limit is not given: Infinity
  MIN_LIMIT, MAX_LIMIT,
  Total,     \* bound: the resources the server has
  MaxEmpty   \* bound: pages without a resource

ASSUME LimitsAssumption == Limits \subseteq Nat
ASSUME NoLimitAssumption == NoLimit \notin Limits
ASSUME ClampAssumption == MIN_LIMIT \in Nat \ {0} /\ MAX_LIMIT \in Nat /\ MIN_LIMIT <= MAX_LIMIT
ASSUME TotalAssumption == Total \in Nat /\ MaxEmpty \in Nat

VARIABLES
  raState,   \* "idle", "asking", "done"
  limit,     \* request.limit
  first,     \* request.marker, 0 for none
  marker,    \* where the next page begins
  count,     \* resources collected
  empty,     \* pages without a resource so far
  seen,      \* the positions collected so far
  raOutcome  \* "none", "resolved", "rejected"

raVars == <<raState, limit, first, marker, count, empty, seen, raOutcome>>

RAInit ==
  /\ raState = "idle" /\ limit = 0 /\ first = 0 /\ marker = 0
  /\ count = 0 /\ empty = 0 /\ seen = {} /\ raOutcome = "none"

Smaller(a, b) == IF a <= b THEN a ELSE b

\* clamp(countTo - count, MIN_LIMIT, MAX_LIMIT)
CountRemaining ==
  IF limit = NoLimit THEN MAX_LIMIT
  ELSE IF limit - count < MIN_LIMIT THEN MIN_LIMIT ELSE Smaller(limit - count, MAX_LIMIT)

\* Mutant: <=.
WantsMore_OneTooMany(n) == limit = NoLimit \/ n <= limit

\* count < countTo
WantsMore(n) == limit = NoLimit \/ n < limit

CallRequestAll ==
  /\ raState = "idle"
  /\ limit' \in Limits \cup {NoLimit}
  /\ first' \in 0..Total
  /\ marker' = first'
  /\ raState' = "asking"
  /\ UNCHANGED <<count, empty, seen, raOutcome>>

\* No key to collect is known for the command, or the caller gave none.
NoCollectKey ==
  /\ raState = "idle"
  /\ raState' = "done" /\ raOutcome' = "rejected"
  /\ UNCHANGED <<limit, first, marker, count, empty, seen>>

\* A page of n resources; the server gives a marker while any are left.
Page(n) ==
  /\ raState = "asking"
  /\ n <= CountRemaining /\ n <= Total - marker
  /\ n = 0 => empty < MaxEmpty
  /\ seen' = seen \cup (marker + 1)..(marker + n)
  /\ count' = count + n
  /\ empty' = IF n = 0 THEN empty + 1 ELSE empty
  /\ marker' = marker + n
  /\ IF marker' < Total /\ WantsMore(count')
       THEN UNCHANGED <<raState, raOutcome>>
       ELSE raState' = "done" /\ raOutcome' = "resolved"
  /\ UNCHANGED <<limit, first>>

\* A request is rejected, or the key is not in the result: what was collected is lost.
PageFails ==
  /\ raState = "asking"
  /\ raState' = "done" /\ raOutcome' = "rejected"
  /\ UNCHANGED <<limit, first, marker, count, empty, seen>>

RANext == CallRequestAll \/ NoCollectKey \/ (\E n \in 0..MAX_LIMIT : Page(n)) \/ PageFails

\* Every request is settled (RequestManager!RequestsSettle).
RAFairness == WF_raVars((\E n \in 0..MAX_LIMIT : Page(n)) \/ PageFails)

RASpec == RAInit /\ [][RANext]_raVars /\ RAFairness

-----------------------------------------------------------------------------
(* What requestAll promises.                                               *)

\* Every variable keeps its type.
RATypeOK ==
  /\ raState \in {"idle", "asking", "done"} /\ raOutcome \in {"none", "resolved", "rejected"}
  /\ limit \in Limits \cup {NoLimit, 0}
  /\ first \in 0..Total /\ marker \in 0..Total
  /\ count \in 0..Total /\ empty \in 0..MaxEmpty
  /\ seen \subseteq 1..Total

\* The pages are consecutive from the caller's marker on: nothing is left out and
\* nothing is collected twice.
PagesAreConsecutive == seen = (first + 1)..marker /\ count = marker - first

\* A limit is met, unless the server has no more, and overrun by less than
\* MIN_LIMIT: the clamp asks for more than is missing, of the last page only.  Without
\* a limit everything is fetched, as the comment within the code says (490-491).
LimitMet ==
  raOutcome = "resolved" =>
    /\ limit = NoLimit \/ count < limit => marker = Total
    /\ limit # NoLimit => count < limit + MIN_LIMIT \/ (limit = 0 /\ count <= MIN_LIMIT)

\* What was collected is the next pages, and as many of them as were wanted.
PagesMeetLimit == PagesAreConsecutive /\ LimitMet

\* What the documentation of requestAll says instead of a call without a limit: "a
\* single request will be made" (client/index.ts:450-451).  A call that is still asking
\* is at its first request: no page has come yet.
SingleRequest == raState = "asking" /\ limit = NoLimit => marker = first /\ empty = 0

\* requestAll settles, as long as the server does not send empty pages for ever.
RequestAllEnds == raState = "asking" ~> raState = "done"

=============================================================================
