--------------------------- MODULE RequestManagerProofs ---------------------------
(***************************************************************************)
(* Proofs about RequestManager, for every set of calls and every choice of *)
(* ids.                                                                    *)
(***************************************************************************)
EXTENDS RequestManager, TLAPS

\* r has been handed to the manager and was not refused.
Issued(r) == outcome[r] \notin {"idle"} \cup Refused

\* An event of another call can settle r only if that call carries r's id.
SettledUnderItsId(r) ==
  settledBy[r] \in Calls =>
    Issued(r) /\ Issued(settledBy[r]) /\ idOf[settledBy[r]] = idOf[r]

\* Ids given out: an automatic one is below the counter and not given twice,
\* an explicit one is the caller's.  No message is both sent and failing.
IdsConsistent ==
  /\ \A r \in Calls : Issued(r) =>
       IF ReqId[r] = NoId THEN idOf[r] \in Nat /\ idOf[r] < nextId
                          ELSE idOf[r] = ReqId[r]
  /\ \A r, q \in Calls :
       Issued(r) /\ Issued(q) /\ ReqId[r] = NoId /\ ReqId[q] = NoId /\ idOf[r] = idOf[q]
         => r = q
  /\ \A r \in wire \cup failing : Issued(r)
  /\ wire \cap failing = {}
  /\ \A r \in Calls : SettledUnderItsId(r)

\* The inductive invariant: TypesAndTable is inductive by itself, the rest
\* needs it.
TypesAndTable == RMTypeOK /\ TableConsistent /\ TimersNeverThrow

RMInv == TypesAndTable /\ IdsConsistent /\ AutoNeverRefused

-----------------------------------------------------------------------------
(* The table.                                                              *)

\* A call has at most one entry.
LEMMA EntryUnique ==
  ASSUME TableConsistent, NEW i \in Awaiting, NEW j \in Awaiting,
         promisesAwaitingResponse[i] = promisesAwaitingResponse[j]
  PROVE  i = j
  BY DEF TableConsistent

\* The entry of an armed timer is found under the id its closure holds.
LEMMA ArmedHasEntry ==
  ASSUME TableConsistent, NEW r \in timers
  PROVE  idOf[r] \in Awaiting /\ promisesAwaitingResponse[idOf[r]] = r
<1>1. PICK i \in Awaiting : promisesAwaitingResponse[i] = r
  BY DEF TableConsistent, Range, Awaiting
<1>2. idOf[r] = i
  BY <1>1 DEF TableConsistent
<1>3. QED
  BY <1>1, <1>2

\* A call found in the table is pending and its id is the one it is found under.
LEMMA EntryIsPending ==
  ASSUME RMTypeOK, TableConsistent, NEW i \in Awaiting
  PROVE  /\ promisesAwaitingResponse[i] \in Calls
         /\ outcome[promisesAwaitingResponse[i]] = "pending"
         /\ idOf[promisesAwaitingResponse[i]] = i
<1>1. promisesAwaitingResponse[i] \in Calls
  BY DEF RMTypeOK
<1>2. promisesAwaitingResponse[i] \in Range(promisesAwaitingResponse)
  BY DEF Range, Awaiting
<1>3. QED
  BY <1>1, <1>2 DEF TableConsistent

\* Settling an entry takes exactly its call out of the table and the timers.
LEMMA SettleTable ==
  ASSUME RMTypeOK, TableConsistent, UNCHANGED idOf,
         NEW id \in Awaiting, NEW o \in Outcomes \ {"idle", "pending"},
         NEW by \in Calls, NEW armed \in {timers, timers \ {promisesAwaitingResponse[id]}},
         Settle(id, o, by, armed)
  PROVE  /\ Awaiting' \subseteq Ids
         /\ promisesAwaitingResponse' \in [Awaiting' -> Calls]
         /\ timers' \subseteq Calls
         /\ outcome' \in [Calls -> Outcomes]
         /\ settledBy' \in [Calls -> Calls \cup {NoCall}]
         /\ TableConsistent'
<1> DEFINE r == promisesAwaitingResponse[id]
<1>1. r \in Calls /\ idOf[r] = id /\ outcome[r] = "pending"
  BY EntryIsPending
<1>2. promisesAwaitingResponse' = [i \in Awaiting \ {id} |-> promisesAwaitingResponse[i]]
  BY DEF Settle, Restrict
<1>3. Awaiting' = Awaiting \ {id}
  BY <1>2 DEF Awaiting
<1>4. /\ outcome' = [outcome EXCEPT ![r] = o]
      /\ settledBy' = [settledBy EXCEPT ![r] = by]
      /\ timers' = timers \ {r}
  BY DEF Settle
<1>5. Range(promisesAwaitingResponse') = Range(promisesAwaitingResponse) \ {r}
  <2>1. \A i \in Awaiting \ {id} : promisesAwaitingResponse[i] # r
    BY EntryUnique
  <2>2. QED
    BY <1>2, <1>3, <2>1 DEF Range, Awaiting
<1>6. /\ Awaiting' \subseteq Ids
      /\ promisesAwaitingResponse' \in [Awaiting' -> Calls]
  BY <1>2, <1>3 DEF RMTypeOK
<1>7. /\ timers' \subseteq Calls
      /\ outcome' \in [Calls -> Outcomes]
      /\ settledBy' \in [Calls -> Calls \cup {NoCall}]
  BY <1>1, <1>4 DEF RMTypeOK
<1>8. timers' = Range(promisesAwaitingResponse')
  BY <1>4, <1>5 DEF TableConsistent
<1>9. \A q \in Calls : outcome'[q] = "pending" <=> q \in Range(promisesAwaitingResponse')
  BY <1>4, <1>5 DEF TableConsistent, RMTypeOK
<1>10. \A i \in Awaiting' : idOf'[promisesAwaitingResponse'[i]] = i
  BY <1>2, <1>3 DEF TableConsistent
<1>11. QED
  BY <1>6, <1>7, <1>8, <1>9, <1>10 DEF TableConsistent

-----------------------------------------------------------------------------
(* Types, the table and the timers.                                        *)

LEMMA CreateRequestTypes ==
  ASSUME TypesAndTable, NEW r \in Calls, NEW fate \in Fates, CreateRequest(r, fate)
  PROVE  TypesAndTable'
<1> DEFINE id == NewId(r)
<1> USE DEF TypesAndTable
<1>1. id \in Ids /\ nextId' \in Nat
  BY DEF CreateRequest, NewId, NextIdAfter, RMTypeOK, Ids
<1>2. /\ Awaiting' = Awaiting \cup {id}
      /\ promisesAwaitingResponse' = [i \in Awaiting \cup {id} |->
                                        IF i = id THEN r ELSE promisesAwaitingResponse[i]]
  BY DEF CreateRequest, Awaiting
<1>3. id \notin Awaiting /\ outcome[r] = "idle"
  BY DEF CreateRequest
<1>4. promisesAwaitingResponse' \in [Awaiting' -> Calls] /\ Awaiting' \subseteq Ids
  BY <1>1, <1>2 DEF RMTypeOK
<1>5. RMTypeOK'
  <2>1. idOf' \in [Calls -> Ids \cup {NoId}] /\ outcome' \in [Calls -> Outcomes]
    BY <1>1 DEF CreateRequest, RMTypeOK, Outcomes
  <2>2. /\ timers' \subseteq Calls /\ wire' \subseteq Calls /\ failing' \subseteq Calls
        /\ settledBy' \in [Calls -> Calls \cup {NoCall}] /\ thrown' = "none"
    BY DEF CreateRequest, RMTypeOK
  <2>3. Ids' = Ids
    BY DEF Ids
  <2>4. QED
    BY <1>1, <1>4, <2>1, <2>2, <2>3 DEF RMTypeOK
<1>6. Range(promisesAwaitingResponse') = Range(promisesAwaitingResponse) \cup {r}
  BY <1>2, <1>3 DEF Range, Awaiting
<1>7. TableConsistent'
  <2>1. timers' = timers \cup {r} /\ outcome' = [outcome EXCEPT ![r] = "pending"]
        /\ idOf' = [idOf EXCEPT ![r] = id]
    BY DEF CreateRequest
  <2>2. timers' = Range(promisesAwaitingResponse')
    BY <1>6, <2>1 DEF TableConsistent
  <2>3. \A q \in Calls : outcome'[q] = "pending" <=> q \in Range(promisesAwaitingResponse')
    BY <1>6, <2>1 DEF TableConsistent, RMTypeOK
  <2>4. \A i \in Awaiting : promisesAwaitingResponse[i] # r
    BY <1>3, EntryIsPending
  <2>5. \A i \in Awaiting' : idOf'[promisesAwaitingResponse'[i]] = i
    BY <1>2, <1>3, <2>1, <2>4 DEF TableConsistent, RMTypeOK
  <2>6. QED
    BY <2>2, <2>3, <2>5 DEF TableConsistent
<1>8. QED
  BY <1>5, <1>7 DEF CreateRequest, TimersNeverThrow

LEMMA SettlingTypes ==
  ASSUME TypesAndTable, NEW r \in Calls,
         \/ TimerFires(r)
         \/ SendFails(r)
         \/ \E status \in Status : HandleResponse(r, status)
  PROVE  TypesAndTable'
<1> USE DEF TypesAndTable
<1>0. Ids' = Ids
  BY DEF Ids
<1>1. CASE TimerFires(r)
  <2>1. idOf[r] \in Awaiting /\ promisesAwaitingResponse[idOf[r]] = r
    BY <1>1, ArmedHasEntry DEF TimerFires
  <2>2. Settle(idOf[r], "timeout", r, timers \ {r}) /\ thrown' = "none"
        /\ UNCHANGED <<nextId, idOf, wire, failing>>
    BY <1>1, <2>1 DEF TimerFires
  <2>3. "timeout" \in Outcomes \ {"idle", "pending"}
    BY DEF Outcomes
  <2>4. /\ Awaiting' \subseteq Ids
        /\ promisesAwaitingResponse' \in [Awaiting' -> Calls]
        /\ timers' \subseteq Calls
        /\ outcome' \in [Calls -> Outcomes]
        /\ settledBy' \in [Calls -> Calls \cup {NoCall}]
        /\ TableConsistent'
    BY <2>1, <2>2, <2>3, SettleTable
  <2>5. QED
    BY <1>0, <2>2, <2>4 DEF RMTypeOK, TimersNeverThrow
<1>2. CASE SendFails(r)
  <2>1. CASE idOf[r] \in Awaiting
    <3>1. Settle(idOf[r], "sendError", r, timers) /\ thrown' = "none"
          /\ UNCHANGED <<nextId, idOf, wire>> /\ failing' \subseteq Calls
      BY <1>2, <2>1 DEF SendFails, RMTypeOK
    <3>2. "sendError" \in Outcomes \ {"idle", "pending"}
      BY DEF Outcomes
    <3>3. /\ Awaiting' \subseteq Ids
          /\ promisesAwaitingResponse' \in [Awaiting' -> Calls]
          /\ timers' \subseteq Calls
          /\ outcome' \in [Calls -> Outcomes]
          /\ settledBy' \in [Calls -> Calls \cup {NoCall}]
          /\ TableConsistent'
      BY <2>1, <3>1, <3>2, SettleTable
    <3>4. QED
      BY <1>0, <3>1, <3>3 DEF RMTypeOK, TimersNeverThrow
  <2>2. CASE idOf[r] \notin Awaiting
    BY <1>0, <1>2, <2>2 DEF SendFails, RMTypeOK, TableConsistent, TimersNeverThrow, Awaiting
  <2>3. QED
    BY <2>1, <2>2
<1>3. ASSUME NEW status \in Status, HandleResponse(r, status)
      PROVE  TypesAndTable'
  <2>1. idOf[r] \in Awaiting /\ Settle(idOf[r], Verdict(status), r, timers)
        /\ thrown' \in {"none", "XrplError"} /\ wire' \subseteq Calls
        /\ UNCHANGED <<nextId, idOf, failing>>
    BY <1>3 DEF HandleResponse, RMTypeOK
  <2>2. Verdict(status) \in Outcomes \ {"idle", "pending"}
    BY DEF Verdict, Outcomes, Answered
  <2>3. /\ Awaiting' \subseteq Ids
        /\ promisesAwaitingResponse' \in [Awaiting' -> Calls]
        /\ timers' \subseteq Calls
        /\ outcome' \in [Calls -> Outcomes]
        /\ settledBy' \in [Calls -> Calls \cup {NoCall}]
        /\ TableConsistent'
    BY <2>1, <2>2, SettleTable
  <2>4. QED
    BY <1>0, <2>1, <2>3 DEF RMTypeOK, TimersNeverThrow
<1>4. QED
  BY <1>1, <1>2, <1>3

LEMMA RejectAllTypes ==
  ASSUME TypesAndTable, RejectAll
  PROVE  TypesAndTable'
<1> USE DEF TypesAndTable
<1>1. /\ promisesAwaitingResponse' = [i \in {} |-> NoCall]
      /\ Awaiting' = {}
      /\ Range(promisesAwaitingResponse') = {}
  BY DEF RejectAll, Awaiting, Range
<1>2. timers' = {}
  BY DEF RejectAll, TableConsistent
<1>3. outcome' = [r \in Calls |-> IF r \in Range(promisesAwaitingResponse)
                                    THEN "disconnected" ELSE outcome[r]]
  BY DEF RejectAll
<1>4. Ids' = Ids
  BY DEF Ids
<1>5. RMTypeOK'
  BY <1>1, <1>2, <1>3, <1>4 DEF RejectAll, RMTypeOK, Outcomes
<1>6. TableConsistent'
  BY <1>1, <1>2, <1>3 DEF TableConsistent
<1>7. QED
  BY <1>5, <1>6 DEF RejectAll, TimersNeverThrow

\* The steps that leave the table and the timers alone.
LEMMA OtherTypes ==
  ASSUME TypesAndTable,
         \/ \E r \in Calls : RefuseDuplicate(r) \/ RefuseNotConnected(r) \/ IgnoreResponse(r)
         \/ BadResponse
         \/ UNCHANGED rmVars
  PROVE  TypesAndTable'
<1> USE DEF TypesAndTable
<1>0. Ids' = Ids
  BY DEF Ids
<1>1. ASSUME NEW r \in Calls, RefuseDuplicate(r) \/ RefuseNotConnected(r)
      PROVE  TypesAndTable'
  <2>1. /\ nextId' \in Nat /\ thrown' = "none"
        /\ UNCHANGED <<promisesAwaitingResponse, timers, idOf, settledBy, wire, failing>>
    BY <1>1 DEF RefuseDuplicate, RefuseNotConnected, NextIdAfter, RMTypeOK
  <2>2. PICK o \in Refused : outcome' = [outcome EXCEPT ![r] = o] /\ outcome[r] = "idle"
    BY <1>1 DEF RefuseDuplicate, RefuseNotConnected, Refused
  <2>3. o \in Outcomes /\ o # "pending"
    BY DEF Outcomes, Refused
  <2>4. RMTypeOK'
    BY <1>0, <2>1, <2>2, <2>3 DEF RMTypeOK, Awaiting
  <2>5. TableConsistent'
    BY <2>1, <2>2, <2>3 DEF TableConsistent, RMTypeOK, Awaiting
  <2>6. QED
    BY <2>1, <2>4, <2>5 DEF TimersNeverThrow
<1>2. CASE \/ \E r \in Calls : IgnoreResponse(r)
           \/ BadResponse
           \/ UNCHANGED rmVars
  BY <1>0, <1>2 DEF IgnoreResponse, BadResponse, rmVars, RMTypeOK, TableConsistent,
                    TimersNeverThrow, Awaiting
<1>3. QED
  BY <1>1, <1>2

LEMMA TypesStep ==
  ASSUME TypesAndTable, [RMNext]_rmVars
  PROVE  TypesAndTable'
  BY CreateRequestTypes, SettlingTypes, RejectAllTypes, OtherTypes DEF RMNext

LEMMA TypesInit == RMInit => TypesAndTable
  BY DEF RMInit, TypesAndTable, RMTypeOK, TableConsistent, TimersNeverThrow, Awaiting, Range,
         Outcomes, Ids

\* Every variable keeps its type, for all calls and all ids.
THEOREM TypeCorrect == RMSpec => []RMTypeOK
<1>1. RMSpec => []TypesAndTable
  BY TypesInit, TypesStep, PTL DEF RMSpec
<1>2. TypesAndTable => RMTypeOK
  BY DEF TypesAndTable
<1>3. QED
  BY <1>1, <1>2, PTL

\* The entries of the table, the armed timers and the pending promises agree.
THEOREM TableAlwaysConsistent == RMSpec => []TableConsistent
<1>1. RMSpec => []TypesAndTable
  BY TypesInit, TypesStep, PTL DEF RMSpec
<1>2. TypesAndTable => TableConsistent
  BY DEF TypesAndTable
<1>3. QED
  BY <1>1, <1>2, PTL

\* No timeout callback throws, whatever ids the callers choose.
THEOREM NoTimerThrows == RMSpec => []TimersNeverThrow
<1>1. RMSpec => []TypesAndTable
  BY TypesInit, TypesStep, PTL DEF RMSpec
<1>2. TypesAndTable => TimersNeverThrow
  BY DEF TypesAndTable
<1>3. QED
  BY <1>1, <1>2, PTL

-----------------------------------------------------------------------------
(* The ids.                                                                *)

\* A step that settles one call of the table, on behalf of a call with its id.
LEMMA SettleIds ==
  ASSUME TypesAndTable, IdsConsistent, UNCHANGED <<nextId, idOf>>,
         NEW r \in Calls, Issued(r), idOf[r] \in Awaiting,
         NEW o \in Outcomes \ ({"idle"} \cup Refused), NEW armed,
         Settle(idOf[r], o, r, armed),
         wire' \subseteq wire, failing' \subseteq failing
  PROVE  IdsConsistent'
<1> DEFINE p == promisesAwaitingResponse[idOf[r]]
<1>1. p \in Calls /\ outcome[p] = "pending" /\ idOf[p] = idOf[r]
  BY EntryIsPending DEF TypesAndTable
<1>2. /\ outcome' = [outcome EXCEPT ![p] = o]
      /\ settledBy' = [settledBy EXCEPT ![p] = r]
  BY DEF Settle
<1>3. \A q \in Calls : Issued(q)' <=> Issued(q)
  BY <1>1, <1>2 DEF Issued, Refused, TypesAndTable, RMTypeOK
<1>4. \A q \in Calls : settledBy'[q] \in Calls =>
        Issued(q) /\ Issued(settledBy'[q]) /\ idOf[settledBy'[q]] = idOf[q]
  <2>1. Issued(p)
    BY <1>1 DEF Issued, Refused
  <2>2. QED
    BY <1>1, <1>2, <2>1 DEF IdsConsistent, SettledUnderItsId, TypesAndTable, RMTypeOK
<1>5. \A q \in wire' \cup failing' : Issued(q)'
  BY <1>3 DEF IdsConsistent, TypesAndTable, RMTypeOK
<1>6. \A q \in Calls : SettledUnderItsId(q)'
  <2>1. \A q \in Calls : outcome'[q] \notin {"idle"} \cup Refused <=> Issued(q)
    BY <1>3 DEF Issued
  <2>2. QED
    BY <1>4, <2>1 DEF SettledUnderItsId, Issued
<1>7. QED
  BY <1>3, <1>5, <1>6 DEF IdsConsistent

LEMMA IdsStep ==
  ASSUME RMInv, [RMNext]_rmVars
  PROVE  IdsConsistent'
<1> USE DEF RMInv
<1>1. ASSUME NEW r \in Calls, NEW fate \in Fates, CreateRequest(r, fate)
      PROVE  IdsConsistent'
  <2>1. /\ outcome[r] = "idle"
        /\ outcome' = [outcome EXCEPT ![r] = "pending"]
        /\ idOf' = [idOf EXCEPT ![r] = NewId(r)]
        /\ settledBy' = settledBy
        /\ nextId' = NextIdAfter(r)
    BY <1>1 DEF CreateRequest
  <2>2. /\ \A q \in Calls \ {r} : (Issued(q)' <=> Issued(q)) /\ idOf'[q] = idOf[q]
        /\ ~Issued(r) /\ Issued(r)' /\ idOf'[r] = NewId(r)
    BY <2>1 DEF Issued, Refused, TypesAndTable, RMTypeOK
  <2>3. nextId \in Nat /\ nextId' \in Nat /\ nextId <= nextId'
        /\ (ReqId[r] = NoId => NewId(r) = nextId /\ nextId' = nextId + 1)
        /\ (ReqId[r] # NoId => NewId(r) = ReqId[r])
    BY <2>1 DEF NewId, NextIdAfter, TypesAndTable, RMTypeOK
  <2>4. \A q \in Calls : Issued(q)' =>
          IF ReqId[q] = NoId THEN idOf'[q] \in Nat /\ idOf'[q] < nextId'
                             ELSE idOf'[q] = ReqId[q]
    <3> SUFFICES ASSUME NEW q \in Calls, Issued(q)'
                 PROVE  IF ReqId[q] = NoId THEN idOf'[q] \in Nat /\ idOf'[q] < nextId'
                                           ELSE idOf'[q] = ReqId[q]
      OBVIOUS
    <3>1. CASE q = r
      BY <2>2, <2>3, <3>1
    <3>2. CASE q # r
      BY <2>2, <2>3, <3>2 DEF IdsConsistent
    <3>3. QED
      BY <3>1, <3>2
  <2>5. \A q, p \in Calls :
          Issued(q)' /\ Issued(p)' /\ ReqId[q] = NoId /\ ReqId[p] = NoId /\ idOf'[q] = idOf'[p]
            => q = p
    <3>1. \A q \in Calls \ {r} : Issued(q)' /\ ReqId[q] = NoId
            => idOf'[q] \in Nat /\ idOf'[q] < nextId
      BY <2>2 DEF IdsConsistent
    <3>2. \A q \in Calls \ {r} : Issued(q)' /\ ReqId[q] = NoId /\ ReqId[r] = NoId
            => idOf'[q] # idOf'[r]
      BY <2>2, <2>3, <3>1
    <3>3. \A q, p \in Calls \ {r} :
            Issued(q)' /\ Issued(p)' /\ ReqId[q] = NoId /\ ReqId[p] = NoId /\ idOf'[q] = idOf'[p]
              => q = p
      BY <2>2 DEF IdsConsistent
    <3>4. QED
      BY <3>2, <3>3
  <2>6. \A q \in wire' \cup failing' : Issued(q)'
    BY <1>1, <2>2 DEF CreateRequest, IdsConsistent, TypesAndTable, RMTypeOK
  <2>7. wire' \cap failing' = {}
    BY <1>1, <2>2 DEF CreateRequest, IdsConsistent
  <2>8. \A q \in Calls : SettledUnderItsId(q)'
    <3> SUFFICES ASSUME NEW q \in Calls, settledBy[q] \in Calls
                 PROVE  (Issued(q) /\ Issued(settledBy[q]) /\ idOf[settledBy[q]] = idOf[q])'
      BY <2>1 DEF SettledUnderItsId
    <3>1. Issued(q) /\ Issued(settledBy[q]) /\ idOf[settledBy[q]] = idOf[q]
      BY DEF IdsConsistent, SettledUnderItsId
    <3>2. q # r /\ settledBy[q] # r
      BY <2>2, <3>1
    <3>3. Issued(q)' /\ idOf'[q] = idOf[q] /\ idOf'[settledBy[q]] = idOf[settledBy[q]]
      BY <2>2, <3>1, <3>2
    <3>4. outcome'[settledBy[q]] = outcome[settledBy[q]]
      BY <2>1, <3>2 DEF TypesAndTable, RMTypeOK
    <3>5. QED
      BY <3>1, <3>3, <3>4, <2>1 DEF Issued
  <2>9. QED
    BY <2>4, <2>5, <2>6, <2>7, <2>8 DEF IdsConsistent
<1>2. ASSUME NEW r \in Calls, TimerFires(r)
      PROVE  IdsConsistent'
  <2>1. idOf[r] \in Awaiting /\ promisesAwaitingResponse[idOf[r]] = r
    BY <1>2, ArmedHasEntry DEF TimerFires, TypesAndTable
  <2>2. Issued(r)
    BY <2>1, EntryIsPending DEF Issued, Refused, TypesAndTable
  <2>3. Settle(idOf[r], "timeout", r, timers \ {r}) /\ UNCHANGED <<nextId, idOf, wire, failing>>
    BY <1>2, <2>1 DEF TimerFires
  <2>4. "timeout" \in Outcomes \ ({"idle"} \cup Refused)
    BY DEF Outcomes, Refused
  <2>5. QED
    BY <2>1, <2>2, <2>3, <2>4, SettleIds
<1>3. ASSUME NEW r \in Calls, SendFails(r)
      PROVE  IdsConsistent'
  <2>1. Issued(r) /\ failing' \subseteq failing /\ UNCHANGED <<nextId, idOf, wire>>
    BY <1>3 DEF SendFails, IdsConsistent
  <2>2. CASE idOf[r] \in Awaiting
    <3>1. Settle(idOf[r], "sendError", r, timers)
      BY <1>3, <2>2 DEF SendFails
    <3>2. "sendError" \in Outcomes \ ({"idle"} \cup Refused)
      BY DEF Outcomes, Refused
    <3>3. QED
      BY <2>1, <2>2, <3>1, <3>2, SettleIds
  <2>3. CASE idOf[r] \notin Awaiting
    BY <1>3, <2>1, <2>3 DEF SendFails, IdsConsistent, SettledUnderItsId, Issued
  <2>4. QED
    BY <2>2, <2>3
<1>4. ASSUME NEW r \in Calls, NEW status \in Status, HandleResponse(r, status)
      PROVE  IdsConsistent'
  <2>1. /\ Issued(r) /\ idOf[r] \in Awaiting
        /\ Settle(idOf[r], Verdict(status), r, timers)
        /\ wire' \subseteq wire /\ UNCHANGED <<nextId, idOf, failing>>
    BY <1>4 DEF HandleResponse, IdsConsistent
  <2>2. Verdict(status) \in Outcomes \ ({"idle"} \cup Refused)
    BY DEF Verdict, Outcomes, Answered, Refused
  <2>3. QED
    BY <2>1, <2>2, SettleIds
<1>5. ASSUME NEW r \in Calls, RefuseDuplicate(r) \/ RefuseNotConnected(r)
      PROVE  IdsConsistent'
  <2>1. /\ nextId \in Nat /\ nextId' \in Nat /\ nextId <= nextId'
        /\ UNCHANGED <<idOf, settledBy, wire, failing>>
    BY <1>5 DEF RefuseDuplicate, RefuseNotConnected, NextIdAfter, TypesAndTable, RMTypeOK
  <2>2. PICK o \in Refused : outcome' = [outcome EXCEPT ![r] = o] /\ outcome[r] = "idle"
    BY <1>5 DEF RefuseDuplicate, RefuseNotConnected, Refused
  <2>3. \A q \in Calls : Issued(q)' <=> Issued(q)
    BY <2>2 DEF Issued, TypesAndTable, RMTypeOK
  <2>4. \A q \in Calls : Issued(q)' =>
          IF ReqId[q] = NoId THEN idOf'[q] \in Nat /\ idOf'[q] < nextId'
                             ELSE idOf'[q] = ReqId[q]
    BY <2>1, <2>3 DEF IdsConsistent
  <2>5. \A q \in Calls : SettledUnderItsId(q)'
    BY <2>1, <2>3 DEF IdsConsistent, SettledUnderItsId, Issued
  <2>6. \A q \in wire' \cup failing' : Issued(q)'
    BY <2>1, <2>3 DEF IdsConsistent, TypesAndTable, RMTypeOK
  <2>7. QED
    BY <2>1, <2>3, <2>4, <2>5, <2>6 DEF IdsConsistent
<1>6. CASE RejectAll
  <2>1. /\ UNCHANGED <<nextId, idOf, settledBy, failing>> /\ wire' = {}
        /\ outcome' = [r \in Calls |-> IF r \in Range(promisesAwaitingResponse)
                                         THEN "disconnected" ELSE outcome[r]]
    BY <1>6 DEF RejectAll
  <2>2. \A q \in Calls : Issued(q)' <=> Issued(q)
    BY <2>1 DEF Issued, Refused, TypesAndTable, TableConsistent
  <2>3. \A q \in Calls : SettledUnderItsId(q)'
    BY <2>1, <2>2 DEF IdsConsistent, SettledUnderItsId, Issued
  <2>4. \A q \in wire' \cup failing' : Issued(q)'
    BY <2>1, <2>2 DEF IdsConsistent, TypesAndTable, RMTypeOK
  <2>5. QED
    BY <2>1, <2>2, <2>3, <2>4 DEF IdsConsistent
<1>7. CASE (\E r \in Calls : IgnoreResponse(r)) \/ BadResponse \/ UNCHANGED rmVars
  BY <1>7 DEF IgnoreResponse, BadResponse, rmVars, IdsConsistent, SettledUnderItsId, Issued
<1>8. QED
  BY <1>1, <1>2, <1>3, <1>4, <1>5, <1>6, <1>7 DEF RMNext

-----------------------------------------------------------------------------
(* The invariant.                                                          *)

LEMMA AutoStep ==
  ASSUME RMInv, [RMNext]_rmVars
  PROVE  AutoNeverRefused'
<1> SUFFICES ASSUME ExplicitIdsAreNotNumbers, NEW q \in Calls, ReqId[q] = NoId
             PROVE  outcome'[q] # "duplicate"
  BY DEF AutoNeverRefused, ExplicitIdsAreNotNumbers
<1> USE DEF RMInv
<1>0. outcome[q] # "duplicate"
  BY DEF AutoNeverRefused
<1>1. ASSUME NEW r \in Calls, RefuseDuplicate(r)
      PROVE  outcome'[q] # "duplicate"
  <2>1. CASE r # q
    BY <1>0, <1>1, <2>1 DEF RefuseDuplicate, TypesAndTable, RMTypeOK
  <2>2. CASE r = q
    <3> DEFINE p == promisesAwaitingResponse[nextId]
    <3>1. nextId \in Awaiting /\ nextId \in Nat
      BY <1>1, <2>2 DEF RefuseDuplicate, NewId, TypesAndTable, RMTypeOK
    <3>2. p \in Calls /\ Issued(p) /\ idOf[p] = nextId
      BY <3>1, EntryIsPending DEF Issued, Refused, TypesAndTable
    <3>3. IF ReqId[p] = NoId THEN nextId < nextId ELSE nextId = ReqId[p]
      BY <3>2 DEF IdsConsistent
    <3>4. ReqId[p] \notin Nat
      BY <3>2 DEF ExplicitIdsAreNotNumbers
    <3>5. QED
      BY <3>1, <3>3, <3>4
  <2>3. QED
    BY <2>1, <2>2
<1>2. ASSUME NEW id \in Awaiting, NEW o \in Outcomes \ {"duplicate"}, NEW by, NEW armed,
             Settle(id, o, by, armed)
      PROVE  outcome'[q] # "duplicate"
  BY <1>0, <1>2 DEF Settle, TypesAndTable, RMTypeOK
<1>3. ASSUME NEW r \in Calls, TimerFires(r) \/ SendFails(r)
      PROVE  outcome'[q] # "duplicate"
  BY <1>0, <1>2, <1>3 DEF TimerFires, SendFails, Outcomes
<1>4. ASSUME NEW r \in Calls, NEW status \in Status, HandleResponse(r, status)
      PROVE  outcome'[q] # "duplicate"
  <2>1. Verdict(status) \in Outcomes \ {"duplicate"}
    BY DEF Verdict, Outcomes, Answered
  <2>2. QED
    BY <1>2, <1>4, <2>1 DEF HandleResponse
<1>5. ASSUME NEW r \in Calls,
             \/ \E fate \in Fates : CreateRequest(r, fate)
             \/ RefuseNotConnected(r)
             \/ IgnoreResponse(r)
      PROVE  outcome'[q] # "duplicate"
  BY <1>0, <1>5 DEF CreateRequest, RefuseNotConnected, IgnoreResponse, TypesAndTable, RMTypeOK
<1>6. CASE RejectAll \/ BadResponse \/ UNCHANGED rmVars
  BY <1>0, <1>6 DEF RejectAll, BadResponse, rmVars
<1>7. QED
  BY <1>1, <1>3, <1>4, <1>5, <1>6 DEF RMNext

LEMMA RMInvInit == RMInit => RMInv
<1> SUFFICES ASSUME RMInit PROVE RMInv
  OBVIOUS
<1>1. \A r \in Calls : ~Issued(r) /\ settledBy[r] \notin Calls
  BY NoCallAssumption DEF RMInit, Issued
<1>2. IdsConsistent
  BY <1>1 DEF RMInit, IdsConsistent, SettledUnderItsId
<1>3. AutoNeverRefused
  BY DEF RMInit, AutoNeverRefused
<1>4. QED
  BY <1>2, <1>3, TypesInit DEF RMInv

LEMMA RMInvStep ==
  ASSUME RMInv, [RMNext]_rmVars
  PROVE  RMInv'
<1>1. TypesAndTable'
  BY TypesStep DEF RMInv
<1>2. QED
  BY <1>1, IdsStep, AutoStep DEF RMInv

LEMMA RMInvariant == RMSpec => []RMInv
  BY RMInvInit, RMInvStep, PTL DEF RMSpec

\* A request that leaves its id to the manager is never refused.
THEOREM AutoIdsAreFree == RMSpec => []AutoNeverRefused
<1>1. RMInv => AutoNeverRefused
  BY DEF RMInv
<1>2. QED
  BY <1>1, RMInvariant, PTL

\* With RMInv, two issued calls with the same id are one, if ids are not shared.
LEMMA SameIdSameCall ==
  ASSUME RMInv, ExplicitIdsAreNotNumbers,
         NEW r \in Calls, NEW q \in Calls, Issued(r), Issued(q), idOf[q] = idOf[r],
         Unshared(r)
  PROVE  q = r
<1>1. /\ IF ReqId[r] = NoId THEN idOf[r] \in Nat ELSE idOf[r] = ReqId[r]
      /\ IF ReqId[q] = NoId THEN idOf[q] \in Nat ELSE idOf[q] = ReqId[q]
  BY DEF RMInv, IdsConsistent
<1>2. ReqId[r] \notin Nat /\ ReqId[q] \notin Nat
  BY DEF ExplicitIdsAreNotNumbers
<1>3. CASE ReqId[r] = NoId
  <2>1. ReqId[q] = NoId
    BY <1>1, <1>2, <1>3
  <2>2. QED
    BY <1>3, <2>1 DEF RMInv, IdsConsistent
<1>4. CASE ReqId[r] # NoId
  BY <1>1, <1>2, <1>4 DEF Unshared
<1>5. QED
  BY <1>3, <1>4

\* No event of one call settles another whose id is its own.
THEOREM EventsStayWithTheirCall == RMSpec => []OwnEventsOnly
<1>1. RMInv => OwnEventsOnly
  <2> SUFFICES ASSUME RMInv, ExplicitIdsAreNotNumbers, NEW r \in Calls, Unshared(r)
               PROVE  settledBy[r] \in {r, NoCall}
    BY DEF OwnEventsOnly
  <2>1. CASE settledBy[r] \in Calls
    <3>1. Issued(r) /\ Issued(settledBy[r]) /\ idOf[settledBy[r]] = idOf[r]
      BY <2>1 DEF RMInv, IdsConsistent, SettledUnderItsId
    <3>2. settledBy[r] = r
      BY <2>1, <3>1, SameIdSameCall
    <3>3. QED
      BY <3>2
  <2>2. CASE settledBy[r] \notin Calls
    BY <2>2 DEF RMInv, TypesAndTable, RMTypeOK
  <2>3. QED
    BY <2>1, <2>2
<1>2. QED
  BY <1>1, RMInvariant, PTL

-----------------------------------------------------------------------------
(* To the calls whose ids are not shared RequestManager is RequestService.  *)

\* The settled entry is the one of the call whose event it is.
LEMMA OwnEntry ==
  ASSUME RMInv, ExplicitIdsAreNotNumbers, NEW r \in Own, Issued(r), idOf[r] \in Awaiting
  PROVE  promisesAwaitingResponse[idOf[r]] = r /\ outcome[r] = "pending"
<1> DEFINE p == promisesAwaitingResponse[idOf[r]]
<1>1. p \in Calls /\ outcome[p] = "pending" /\ idOf[p] = idOf[r]
  BY EntryIsPending DEF RMInv, TypesAndTable
<1>2. Issued(p)
  BY <1>1 DEF Issued, Refused
<1>3. p = r
  BY <1>1, <1>2, SameIdSameCall DEF Own
<1>4. QED
  BY <1>1, <1>3

\* An event of a call whose id is shared settles none whose id is not.
LEMMA ForeignEntry ==
  ASSUME RMInv, ExplicitIdsAreNotNumbers, NEW q \in Calls \ Own, Issued(q),
         idOf[q] \in Awaiting
  PROVE  promisesAwaitingResponse[idOf[q]] \in Calls \ Own
<1> DEFINE p == promisesAwaitingResponse[idOf[q]]
<1>1. p \in Calls /\ outcome[p] = "pending" /\ idOf[p] = idOf[q]
  BY EntryIsPending DEF RMInv, TypesAndTable
<1>2. Issued(p)
  BY <1>1 DEF Issued, Refused
<1>3. p \in Own => q = p
  BY <1>1, <1>2, SameIdSameCall DEF Own
<1>4. QED
  BY <1>1, <1>3

\* A step that settles no call of Own and answers none is no step of the service.
LEMMA ForeignStep ==
  ASSUME NEW q \in Calls \ Own, NEW o,
         outcome \in [Calls -> Outcomes],
         outcome' = outcome \/ outcome' = [outcome EXCEPT ![q] = o],
         wire' = wire \/ wire' = wire \ {q} \/ wire' = wire \cup {q}
  PROVE  UNCHANGED Service!vars
<1>1. \A r \in Own : outcome'[r] = outcome[r]
  BY DEF Own
<1>2. Restrict(outcome, Own)' = Restrict(outcome, Own)
  BY <1>1 DEF Restrict, Own, Unshared
<1>3. (wire \cap Own)' = wire \cap Own
  BY DEF Own, Unshared
<1>4. QED
  BY <1>2, <1>3 DEF Service!vars

\* A call of Own is settled or refused in the table of the service too.
LEMMA OwnStep ==
  ASSUME NEW r \in Own, NEW o, outcome \in [Calls -> Outcomes],
         outcome' = [outcome EXCEPT ![r] = o]
  PROVE  Service!Becomes(r, o)
<1>1. Own \subseteq Calls /\ Own' = Own
  BY DEF Own, Unshared
<1>2. QED
  BY <1>1 DEF Restrict, Service!Becomes

\* Every step of the manager is a step of the service, or stutters.
LEMMA ServiceStep ==
  ASSUME ExplicitIdsAreNotNumbers, RMInv, [RMNext]_rmVars
  PROVE  [Service!Next]_(Service!vars)
<1>types. outcome \in [Calls -> Outcomes] /\ wire \subseteq Calls
  BY DEF RMInv, TypesAndTable, RMTypeOK
<1>own. Own \subseteq Calls /\ Own' = Own
  BY DEF Own, Unshared
<1>stand. \A r \in Own : Restrict(outcome, Own)[r] = outcome[r]
  BY DEF Restrict
<1>1. ASSUME NEW r \in Calls, NEW fate \in Fates, CreateRequest(r, fate)
      PROVE  [Service!Next]_(Service!vars)
  <2>0. outcome[r] = "idle" /\ outcome' = [outcome EXCEPT ![r] = "pending"]
        /\ wire' \in {wire, wire \cup {r}}
    BY <1>1 DEF CreateRequest
  <2>1. CASE r \in Own
    <3>1. Service!Issue(r)
      BY <2>0, <2>1, <1>types, <1>own, <1>stand, OwnStep DEF Service!Issue
    <3>2. QED
      BY <2>1, <3>1 DEF Service!Next
  <2>2. CASE r \notin Own
    BY <2>0, <2>2, <1>types, ForeignStep
  <2>3. QED
    BY <2>1, <2>2
<1>2. ASSUME NEW r \in Calls, RefuseDuplicate(r) \/ RefuseNotConnected(r)
      PROVE  [Service!Next]_(Service!vars)
  <2>0. /\ outcome[r] = "idle" /\ wire' = wire
        /\ \E o \in {"duplicate", "notConnected"} : outcome' = [outcome EXCEPT ![r] = o]
    BY <1>2 DEF RefuseDuplicate, RefuseNotConnected
  <2>1. CASE r \in Own
    <3>1. Service!Refuse(r)
      BY <2>0, <2>1, <1>types, <1>own, <1>stand, OwnStep DEF Service!Refuse
    <3>2. QED
      BY <2>1, <3>1 DEF Service!Next
  <2>2. CASE r \notin Own
    BY <2>0, <2>2, <1>types, ForeignStep
  <2>3. QED
    BY <2>1, <2>2
<1>3. ASSUME NEW r \in Calls, TimerFires(r)
      PROVE  [Service!Next]_(Service!vars)
  <2>0. idOf[r] \in Awaiting /\ promisesAwaitingResponse[idOf[r]] = r
    BY <1>3, ArmedHasEntry DEF TimerFires, RMInv, TypesAndTable
  <2>1. outcome[r] = "pending"
    BY <2>0, EntryIsPending DEF RMInv, TypesAndTable
  <2>2. wire' = wire /\ outcome' = [outcome EXCEPT ![r] = "timeout"]
    BY <1>3, <2>0 DEF TimerFires, Settle
  <2>3. CASE r \in Own
    <3>1. Service!Expire(r)
      BY <2>1, <2>2, <2>3, <1>types, <1>own, <1>stand, OwnStep
      DEF Service!Expire, Service!Pending
    <3>2. QED
      BY <2>3, <3>1 DEF Service!Next
  <2>4. CASE r \notin Own
    BY <2>2, <2>4, <1>types, ForeignStep
  <2>5. QED
    BY <2>3, <2>4
<1>4. ASSUME NEW r \in Calls, SendFails(r)
      PROVE  [Service!Next]_(Service!vars)
  <2>1. Issued(r) /\ r \notin wire /\ wire' = wire
    BY <1>4 DEF SendFails, RMInv, IdsConsistent
  <2>2. CASE idOf[r] \in Awaiting /\ r \in Own
    <3>1. outcome[r] = "pending" /\ outcome' = [outcome EXCEPT ![r] = "sendError"]
      BY <1>4, <2>1, <2>2, OwnEntry DEF SendFails, Settle
    <3>2. Service!SendError(r)
      BY <2>1, <2>2, <3>1, <1>types, <1>own, <1>stand, OwnStep
      DEF Service!SendError, Service!Pending
    <3>3. QED
      BY <2>2, <3>2 DEF Service!Next
  <2>3. CASE idOf[r] \in Awaiting /\ r \notin Own
    <3>1. promisesAwaitingResponse[idOf[r]] \in Calls \ Own
      BY <2>1, <2>3, ForeignEntry
    <3>2. outcome' = [outcome EXCEPT ![promisesAwaitingResponse[idOf[r]]] = "sendError"]
      BY <1>4, <2>3 DEF SendFails, Settle
    <3>3. QED
      BY <2>1, <3>1, <3>2, <1>types, ForeignStep
  <2>4. CASE idOf[r] \notin Awaiting
    BY <1>4, <2>1, <2>4, <1>own DEF SendFails, Service!vars
  <2>5. QED
    BY <2>2, <2>3, <2>4
<1>5. ASSUME NEW r \in Calls, NEW status \in Status, HandleResponse(r, status)
      PROVE  [Service!Next]_(Service!vars)
  <2> DEFINE p == promisesAwaitingResponse[idOf[r]]
  <2>1. Issued(r) /\ idOf[r] \in Awaiting /\ r \in wire /\ wire' = wire \ {r}
    BY <1>5 DEF HandleResponse, RMInv, IdsConsistent
  <2>2. outcome' = [outcome EXCEPT ![p] = Verdict(status)]
    BY <1>5 DEF HandleResponse, Settle
  <2>3. CASE r \in Own
    <3>1. p = r /\ outcome[r] = "pending"
      BY <2>1, <2>3, OwnEntry
    <3>2. Verdict(status) \in {"resolved", "rippledError", "formatError"}
      BY DEF Verdict
    <3>3. Service!Becomes(r, Verdict(status))
      BY <2>2, <2>3, <3>1, <1>types, OwnStep
    <3>4. Service!Answer(r)
      BY <2>1, <2>3, <3>1, <3>2, <3>3, <1>own, <1>stand DEF Service!Answer, Service!Pending
    <3>5. QED
      BY <2>3, <3>4 DEF Service!Next
  <2>4. CASE r \notin Own
    <3>1. p \in Calls \ Own
      BY <2>1, <2>4, ForeignEntry
    <3>2. Restrict(outcome, Own)' = Restrict(outcome, Own)
      BY <2>2, <3>1, <1>types, <1>own DEF Restrict
    <3>3. (wire \cap Own)' = wire \cap Own
      BY <2>1, <2>4, <1>own
    <3>4. QED
      BY <3>2, <3>3 DEF Service!vars
  <2>5. QED
    BY <2>3, <2>4
<1>6. ASSUME NEW r \in Calls, IgnoreResponse(r)
      PROVE  [Service!Next]_(Service!vars)
  <2>1. outcome[r] # "pending"
    <3>1. \A i \in Awaiting : promisesAwaitingResponse[i] # r
      BY <1>6 DEF IgnoreResponse, RMInv, TypesAndTable, TableConsistent
    <3>2. QED
      BY <3>1 DEF RMInv, TypesAndTable, TableConsistent, Range, Awaiting
  <2>2. r \in wire /\ wire' = wire \ {r} /\ outcome' = outcome
    BY <1>6 DEF IgnoreResponse
  <2>3. CASE r \in Own
    <3>1. Service!AnswerTooLate(r)
      BY <2>1, <2>2, <2>3, <1>own, <1>stand DEF Service!AnswerTooLate, Service!Pending
    <3>2. QED
      BY <2>3, <3>1 DEF Service!Next
  <2>4. CASE r \notin Own
    BY <2>2, <2>4, <1>types, ForeignStep
  <2>5. QED
    BY <2>3, <2>4
<1>7. CASE RejectAll
  <2>1. \A r \in Calls : outcome'[r] = IF outcome[r] = "pending" THEN "disconnected"
                                       ELSE outcome[r]
    BY <1>7 DEF RejectAll, RMInv, TypesAndTable, TableConsistent
  <2>2. Service!CloseAll
    BY <1>7, <2>1, <1>own, <1>stand DEF RejectAll, Restrict, Service!CloseAll, Service!Pending
  <2>3. QED
    BY <2>2 DEF Service!Next
<1>8. CASE BadResponse \/ UNCHANGED rmVars
  BY <1>8, <1>own DEF BadResponse, rmVars, Service!vars
<1>9. QED
  BY <1>1, <1>2, <1>3, <1>4, <1>5, <1>6, <1>7, <1>8 DEF RMNext

\* The manager implements the service's initial states and steps (its fairness
\* is checked by TLC only).
THEOREM ImplementsService ==
  ASSUME ExplicitIdsAreNotNumbers
  PROVE  RMSpec => Service!Init /\ [][Service!Next]_(Service!vars)
<1>1. RMInit => Service!Init
  BY DEF RMInit, Service!Init, Restrict, Own
<1>2. RMInv /\ [RMNext]_rmVars => [Service!Next]_(Service!vars)
  BY ServiceStep
<1>3. QED
  BY <1>1, <1>2, RMInvariant, PTL DEF RMSpec

=============================================================================
