------------------------- MODULE ReliableSubmissionProofs -------------------------
(***************************************************************************)
(* Proofs about ReliableSubmission, for any number of calls, any ledgers   *)
(* and every LEDGER_OFFSET.                                                *)
(***************************************************************************)
EXTENDS ReliableSubmission, TLAPS

Sent(t) == pc[t] \notin {"idle", "autofill"}

\* The transaction may still get into a ledger by way of this server.
Held(t) == t \in open \cup queue \cup inFlight

\* Its Sequence is not the account's next one any more, or will never matter.
Settled(t) == t \in open \/ Dead(t) \/ seq[t] < nextSeq

\* A call fixes Sequence and LastLedgerSequence before it sends anything, and
\* waits only for a transaction that has the latter.
CallInv ==
  \A t \in Txs :
    /\ pc[t] = "idle" => seq[t] = 0 /\ lls[t] = 0 /\ ackedBefore[t] = {}
    /\ ~Sent(t) => reply[t] = "none" /\ ~Held(t) /\ ledgerOf[t] = 0
    /\ reply[t] # "none" => seq[t] # 0
    /\ outcome[t] # "none" => pc[t] = "done"
    /\ outcome[t] \in {"validated", "expired"} => lls[t] # 0
    /\ pc[t] = "submitting" /\ t \in Awaited => lls[t] # 0
    /\ pc[t] \in Waiting => lls[t] # 0 /\ reply[t] # "none" /\ t \notin inFlight

\* What the answers say of the ledger.
LedgerInv ==
  \A t \in Txs :
    /\ latest[t] <= ledger
    /\ reply[t] = "tem" => ~Held(t) /\ ledgerOf[t] = 0
    /\ t \in inFlight => reply[t] = "none" /\ t \notin open \cup queue
    /\ Held(t) => ledgerOf[t] = 0
    /\ ledgerOf[t] # 0 => seq[t] < nextSeq /\ (lls[t] # 0 => ledgerOf[t] <= lls[t])
    /\ pc[t] = "gotTx" /\ reply[t] = "validated" => ledgerOf[t] # 0
    /\ outcome[t] = "malformed" => ~Held(t)
    /\ outcome[t] = "expired" => Dead(t)
    /\ outcome[t] = "validated" => ledgerOf[t] # 0

SequenceInv ==
  /\ \A t \in Txs : reply[t] = "tes" => Settled(t)
  /\ \A t \in acked : Settled(t) /\ Sent(t) /\ seq[t] # 0
  /\ \A t \in Txs : ackedBefore[t] \subseteq acked
  /\ NoSequenceReuse

RSInv == RSTypeOK /\ CallInv /\ LedgerInv /\ SequenceInv

-----------------------------------------------------------------------------

LEMMA InitRSInv == RSInit => RSInv
BY DEF RSInit, RSInv, RSTypeOK, CallInv, LedgerInv, SequenceInv, NoSequenceReuse, PCs, Outcomes,
       Replies, Sent, Held, Settled, Dead, Waiting, Asking

LEMMA TypesKept == RSTypeOK /\ [RSNext]_rsVars => RSTypeOK'
<1> SUFFICES ASSUME RSTypeOK, [RSNext]_rsVars
             PROVE  RSTypeOK'
  OBVIOUS
<1> USE OffsetAssumption, BoundsAssumption
    DEF RSTypeOK, GoTo, End, callVars, serverVars, PCs, Outcomes, Replies, EngineResults, Asking, Waiting
<1>1. ASSUME NEW t \in Txs, StartAutofill(t) \/ StartSigned(t) \/ Refuse(t)
      PROVE  RSTypeOK'
  BY <1>1 DEF StartAutofill, StartSigned, Refuse
<1>2. ASSUME NEW t \in Txs, AutofillSequence(t) \/ AutofillLedger(t)
      PROVE  RSTypeOK'
  <2>1. AutofillSequence(t) => seq' \in [Txs -> Nat] /\ \A q \in inFlight : seq'[q] # 0
    BY DEF AutofillSequence, IsCurrent
  <2>2. QED
    BY <1>2, <2>1 DEF AutofillSequence, AutofillLedger
<1>3. ASSUME NEW t \in Txs, SubmitAnswered(t) \/ LedgerAnswered(t) \/ TxAnswered(t) \/ RequestFails(t)
      PROVE  RSTypeOK'
  BY <1>3 DEF SubmitAnswered, LedgerAnswered, TxAnswered, RequestFails
<1>4. ASSUME NEW t \in Txs, Continue(t)
      PROVE  RSTypeOK'
  BY <1>4 DEF Continue, SignAndSubmit, WakeUp, JudgeLedger, Conclude
<1>5. ASSUME NEW t \in Txs, ServerReceives(t)
      PROVE  RSTypeOK'
  BY <1>5 DEF ServerReceives
<1>6. CASE CloseLedger
  <2>1. outpaced' \subseteq Txs
    BY <1>6, AwaitedAssumption DEF CloseLedger
  <2>2. nextSeq' \in Nat /\ ledgerOf' \in [Txs -> Nat] /\ ledger' \in Nat
    BY <1>6 DEF CloseLedger
  <2>3. open' \subseteq Txs /\ queue' \subseteq Txs
    BY <1>6 DEF CloseLedger
  <2>4. UNCHANGED <<callVars, inFlight>>
    BY <1>6 DEF CloseLedger
  <2>5. QED
    BY <2>1, <2>2, <2>3, <2>4
<1>7. CASE UNCHANGED rsVars
  BY <1>7 DEF rsVars
<1>8. QED
  BY <1>1, <1>2, <1>3, <1>4, <1>5, <1>6, <1>7 DEF RSNext, Answered

\* The server takes a transaction in at most once, and answers it.
LEMMA Receives ==
  ASSUME RSTypeOK, NEW t \in Txs, ServerReceives(t)
  PROVE  \E r \in EngineResults :
           /\ reply' = [reply EXCEPT ![t] = r]
           /\ open' \subseteq open \cup {t} /\ open \subseteq open'
           /\ queue' \subseteq queue \cup {t}
           /\ r = "tem" => open' = open /\ queue' = queue
           /\ r = "tes" => t \in open'
           /\ inFlight' = inFlight \ {t} /\ t \in inFlight
           /\ UNCHANGED <<pc, seq, lls, latest, outcome, acked, ackedBefore, ledger, nextSeq,
                          ledgerOf, outpaced>>
<1>1. queue' \subseteq queue \cup {t}
  BY DEF ServerReceives
<1>2. QED
  BY <1>1 DEF ServerReceives, EngineResults

LEMMA CallInvKept ==
  ASSUME RSTypeOK, CallInv, LedgerInv, [RSNext]_rsVars
  PROVE  CallInv'
<1> USE OffsetAssumption DEF RSTypeOK, CallInv, Sent, Held, GoTo, End, callVars, serverVars, Asking, Waiting
<1>1. ASSUME NEW t \in Txs, StartAutofill(t) \/ StartSigned(t) \/ Refuse(t)
      PROVE  CallInv'
  BY <1>1 DEF StartAutofill, StartSigned, Refuse
<1>2. ASSUME NEW t \in Txs, AutofillSequence(t) \/ AutofillLedger(t)
      PROVE  CallInv'
  BY <1>2 DEF AutofillSequence, AutofillLedger
<1>3. ASSUME NEW t \in Txs, SubmitAnswered(t) \/ LedgerAnswered(t) \/ TxAnswered(t) \/ RequestFails(t)
      PROVE  CallInv'
  BY <1>3 DEF SubmitAnswered, LedgerAnswered, TxAnswered, RequestFails, LedgerInv
<1>4. ASSUME NEW t \in Txs, Continue(t)
      PROVE  CallInv'
  BY <1>4 DEF Continue, SignAndSubmit, WakeUp, JudgeLedger, Conclude
<1>5. ASSUME NEW t \in Txs, ServerReceives(t)
      PROVE  CallInv'
  BY <1>5, Receives
<1>6. CASE CloseLedger
  BY <1>6 DEF CloseLedger
<1>7. CASE UNCHANGED rsVars
  BY <1>7 DEF rsVars
<1>8. QED
  BY <1>1, <1>2, <1>3, <1>4, <1>5, <1>6, <1>7 DEF RSNext, Answered

LEMMA LedgerInvKept ==
  ASSUME RSTypeOK, CallInv, LedgerInv, [RSNext]_rsVars
  PROVE  LedgerInv'
<1> USE OffsetAssumption DEF RSTypeOK, CallInv, LedgerInv, Sent, Held, Dead, GoTo, End, callVars, serverVars,
        Asking, Waiting
<1>1. ASSUME NEW t \in Txs, StartAutofill(t) \/ StartSigned(t) \/ Refuse(t)
      PROVE  LedgerInv'
  BY <1>1 DEF StartAutofill, StartSigned, Refuse
<1>2. ASSUME NEW t \in Txs, AutofillSequence(t) \/ AutofillLedger(t)
      PROVE  LedgerInv'
  BY <1>2 DEF AutofillSequence, AutofillLedger
<1>3. ASSUME NEW t \in Txs, SubmitAnswered(t) \/ LedgerAnswered(t) \/ TxAnswered(t) \/ RequestFails(t)
      PROVE  LedgerInv'
  BY <1>3 DEF SubmitAnswered, LedgerAnswered, TxAnswered, RequestFails
<1>4. ASSUME NEW t \in Txs, Continue(t)
      PROVE  LedgerInv'
  BY <1>4 DEF Continue, SignAndSubmit, WakeUp, JudgeLedger, Conclude, TooLate, Conclusive
<1>5. ASSUME NEW t \in Txs, ServerReceives(t)
      PROVE  LedgerInv'
  BY <1>5, Receives DEF EngineResults
<1>6. CASE CloseLedger
  <2>1. PICK S \in SUBSET (open \cup queue) :
           /\ \A t \in S : ~Dead(t)
           /\ nextSeq' \in {nextSeq} \cup {seq[q] + 1 : q \in S}
           /\ {seq[q] : q \in S} = nextSeq..(nextSeq' - 1)
           /\ ledgerOf' = [t \in Txs |-> IF t \in S THEN ledger' ELSE ledgerOf[t]]
           /\ open' \subseteq open \ S /\ queue' \subseteq queue \ S
    BY <1>6 DEF CloseLedger
  <2>2. nextSeq' \in Nat /\ nextSeq <= nextSeq' /\ \A q \in S : seq[q] < nextSeq'
    BY <2>1
  <2>3. /\ UNCHANGED <<pc, seq, lls, latest, reply, outcome, inFlight>>
        /\ ledger' = ledger + 1
    BY <1>6 DEF CloseLedger
  <2>4. \A t \in Txs : /\ ledgerOf'[t] = IF t \in S THEN ledger + 1 ELSE ledgerOf[t]
                       /\ t \in S => (lls[t] # 0 => ledger + 1 <= lls[t])
    BY <2>1, <2>3
  <2>5. \A t \in Txs : /\ ledgerOf'[t] # 0 => seq[t] < nextSeq' /\ (lls[t] # 0 => ledgerOf'[t] <= lls[t])
                       /\ ledgerOf[t] # 0 => ledgerOf'[t] # 0
    BY <2>2, <2>4
  <2>6. \A t \in Txs : /\ Held(t)' => Held(t) /\ ledgerOf'[t] = 0
                       /\ ~Held(t) => ledgerOf'[t] = ledgerOf[t]
    BY <2>1, <2>3, <2>4
  <2>7. ASSUME NEW t \in Txs
        PROVE  /\ latest'[t] <= ledger'
               /\ reply'[t] = "tem" => ~Held(t)' /\ ledgerOf'[t] = 0
               /\ t \in inFlight' => reply'[t] = "none" /\ t \notin open' \cup queue'
               /\ outcome'[t] = "expired" => Dead(t)'
    <3>1. latest[t] \in Nat /\ lls[t] \in Nat /\ ledger \in Nat
      OBVIOUS
    <3>2. QED
      BY <2>1, <2>3, <2>6, <3>1
  <2>8. QED
    BY <2>3, <2>5, <2>6, <2>7
<1>7. CASE UNCHANGED rsVars
  BY <1>7 DEF rsVars
<1>8. QED
  BY <1>1, <1>2, <1>3, <1>4, <1>5, <1>6, <1>7 DEF RSNext, Answered

\* A ledger that closes settles what it takes and what it drops.
LEMMA CloseSettles ==
  ASSUME RSTypeOK, CloseLedger, NEW t \in Txs, Settled(t)
  PROVE  Settled(t)'
<1> USE DEF RSTypeOK, CloseLedger, callVars, Dead, Settled
<1>1. PICK S \in SUBSET (open \cup queue) :
         /\ nextSeq' \in {nextSeq} \cup {seq[q] + 1 : q \in S}
         /\ {seq[q] : q \in S} = nextSeq..(nextSeq' - 1)
         /\ open' = {q \in open : /\ q \notin S /\ seq[q] >= nextSeq'
                                  /\ lls[q] # 0 => lls[q] > ledger'}
  BY Zenon
<1>2. nextSeq' \in Nat /\ nextSeq <= nextSeq' /\ \A q \in S : seq[q] < nextSeq'
  BY <1>1
<1>3. QED
  BY <1>1, <1>2

LEMMA SequenceInvKept ==
  ASSUME RSTypeOK, CallInv, LedgerInv, SequenceInv, [RSNext]_rsVars
  PROVE  SequenceInv'
<1> USE OffsetAssumption DEF RSTypeOK, CallInv, SequenceInv, NoSequenceReuse, Sent, Settled, Dead, GoTo, End,
        callVars, serverVars, Asking, Waiting
<1>1. ASSUME NEW t \in Txs, StartAutofill(t) \/ StartSigned(t) \/ Refuse(t)
      PROVE  SequenceInv'
  BY <1>1 DEF StartAutofill, StartSigned, Refuse
<1>2. ASSUME NEW t \in Txs, AutofillSequence(t)
      PROVE  SequenceInv'
  <2>1. PICK n \in Nat : IsCurrent(n) /\ seq' = [seq EXCEPT ![t] = n]
    <3>1. PICK n \in {nextSeq} \cup {seq[q] + 1 : q \in open} :
             IsCurrent(n) /\ seq' = [seq EXCEPT ![t] = n]
      BY <1>2, Zenon DEF AutofillSequence
    <3>2. n \in Nat
      BY <3>1
    <3>3. QED
      BY <3>1, <3>2
  <2>2. \A q \in ackedBefore[t] :
          q # t /\ (seq[q] = n => ledgerOf[q] = 0 /\ Dead(q))
    BY <1>2, <2>1 DEF AutofillSequence, IsCurrent, LedgerInv
  <2>3. QED
    BY <1>2, <2>1, <2>2 DEF AutofillSequence
<1>3. ASSUME NEW t \in Txs, AutofillLedger(t)
      PROVE  SequenceInv'
  BY <1>3 DEF AutofillLedger
<1>4. ASSUME NEW t \in Txs, SubmitAnswered(t) \/ LedgerAnswered(t) \/ TxAnswered(t) \/ RequestFails(t)
      PROVE  SequenceInv'
  BY <1>4 DEF SubmitAnswered, LedgerAnswered, TxAnswered, RequestFails
<1>5. ASSUME NEW t \in Txs, Continue(t)
      PROVE  SequenceInv'
  BY <1>5 DEF Continue, SignAndSubmit, WakeUp, JudgeLedger, Conclude
<1>6. ASSUME NEW t \in Txs, ServerReceives(t)
      PROVE  SequenceInv'
  BY <1>6, Receives DEF EngineResults
<1>7. CASE CloseLedger
  <2>1. \A t \in Txs : Settled(t) => Settled(t)'
    BY <1>7, CloseSettles
  <2>2. \A q \in Txs : Dead(q) => Dead(q)' /\ ledgerOf'[q] = ledgerOf[q]
    BY <1>7 DEF CloseLedger
  <2>3. QED
    BY <1>7, <2>1, <2>2 DEF CloseLedger
<1>8. CASE UNCHANGED rsVars
  BY <1>8 DEF rsVars
<1>9. QED
  BY <1>1, <1>2, <1>3, <1>4, <1>5, <1>6, <1>7, <1>8 DEF RSNext, Answered

LEMMA RSInvKept == RSInv /\ [RSNext]_rsVars => RSInv'
BY TypesKept, CallInvKept, LedgerInvKept, SequenceInvKept DEF RSInv

LEMMA RSInvariant == RSSpec => []RSInv
BY InitRSInv, RSInvKept, PTL DEF RSSpec

-----------------------------------------------------------------------------

\* Every variable keeps its type, and nothing is sent before it is filled in
\* (sugar/submit.ts getSignedTx, Client.autofill).
THEOREM SubmissionTypeCorrect == RSSpec => []RSTypeOK
BY RSInvariant, PTL DEF RSInv

\* submitAndWait resolves only with a transaction in a validated ledger no later
\* than its LastLedgerSequence.
THEOREM ResolvedAlwaysValidated == RSSpec => []ResolvedIsValidated
<1>1. RSInv => ResolvedIsValidated
  BY DEF RSInv, RSTypeOK, CallInv, LedgerInv, ResolvedIsValidated
<1>2. QED
  BY <1>1, RSInvariant, PTL

\* Calls made one after the other do not compete for a Sequence
\* (sugar/autofill.ts getNextValidSequenceNumber).
THEOREM SequencesDoNotCollide == RSSpec => []NoSequenceReuse
BY RSInvariant, PTL DEF RSInv, SequenceInv

\* Once submitAndWait has given its verdict, the fate of the transaction does not
\* change any more.
THEOREM OutcomesAreFinal == RSSpec => OutcomeIsFinal
<1> DEFINE Final(t) == outcome[t] \in {"validated", "expired", "malformed"}
<1>1. ASSUME RSInv, [RSNext]_rsVars, NEW t \in Txs, Final(t)
      PROVE  ledgerOf'[t] = ledgerOf[t]
  <2>1. CASE CloseLedger
    BY <1>1, <2>1 DEF CloseLedger, RSInv, RSTypeOK, LedgerInv, Held, Dead
  <2>2. CASE UNCHANGED rsVars
    BY <2>2 DEF rsVars, serverVars
  <2>3. ASSUME NEW q \in Txs,
               \/ StartAutofill(q) \/ StartSigned(q) \/ Refuse(q)
               \/ Answered(q) \/ RequestFails(q) \/ Continue(q) \/ ServerReceives(q)
        PROVE  UNCHANGED ledgerOf
    BY <2>3 DEF StartAutofill, StartSigned, Refuse, Answered, AutofillSequence, AutofillLedger,
                SubmitAnswered, LedgerAnswered, TxAnswered, RequestFails, Continue, SignAndSubmit,
                WakeUp, JudgeLedger, Conclude, ServerReceives, serverVars
  <2>4. QED
    BY <1>1, <2>1, <2>2, <2>3 DEF RSNext
<1>2. RSInv /\ [RSNext]_rsVars
        => [\A t \in Txs : Final(t) => ledgerOf'[t] = ledgerOf[t]]_rsVars
  BY <1>1
<1>3. QED
  BY <1>2, RSInvariant, PTL DEF RSSpec, OutcomeIsFinal

-----------------------------------------------------------------------------
(* Why a verdict on LastLedgerSequence is right when no ledger outpaced the *)
(* call: its last poll found every ledger but the one that closed since.    *)

PromptInv(t) ==
  /\ pc[t] \in {"idle", "autofill", "submitting"} => latest[t] = 0 /\ ledgerOf[t] = 0
  /\ pc[t] \in {"sleeping", "askLedger", "gotTx"} =>
       /\ latest[t] = 0 => ledgerOf[t] = 0
       /\ latest[t] # 0 => ledger <= latest[t] + 1 /\ latest[t] <= lls[t]
       /\ ledgerOf[t] # 0 => ledgerOf[t] > latest[t] \/ (pc[t] = "gotTx" /\ reply[t] = "validated")
  /\ pc[t] = "gotLedger" => latest[t] = ledger /\ (ledgerOf[t] # 0 => ledgerOf[t] >= latest[t])
  /\ pc[t] = "askTx" => latest[t] = ledger /\ latest[t] <= lls[t]
  /\ outcome[t] = "expired" => ledgerOf[t] = 0

OnlyAwaitedWait == \A t \in Txs \ Awaited : pc[t] \notin Waiting /\ outcome[t] # "expired"

RSPromptInv == ledger # 0 /\ OnlyAwaitedWait /\ \A t \in Awaited \ outpaced : PromptInv(t)

LEMMA OnlyAwaitedKept ==
  ASSUME RSTypeOK, OnlyAwaitedWait, [RSNext]_rsVars
  PROVE  OnlyAwaitedWait'
<1> USE DEF RSTypeOK, OnlyAwaitedWait, GoTo, End, callVars, serverVars, Waiting
<1>1. ASSUME NEW t \in Txs, StartAutofill(t) \/ StartSigned(t) \/ Refuse(t) \/ RequestFails(t)
      PROVE  OnlyAwaitedWait'
  BY <1>1 DEF StartAutofill, StartSigned, Refuse, RequestFails
<1>2. ASSUME NEW t \in Txs, Answered(t)
      PROVE  OnlyAwaitedWait'
  BY <1>2 DEF Answered, AutofillSequence, AutofillLedger, SubmitAnswered, LedgerAnswered, TxAnswered
<1>3. ASSUME NEW t \in Txs, Continue(t)
      PROVE  OnlyAwaitedWait'
  BY <1>3 DEF Continue, SignAndSubmit, WakeUp, JudgeLedger, Conclude
<1>4. ASSUME NEW t \in Txs, ServerReceives(t)
      PROVE  OnlyAwaitedWait'
  BY <1>4, Receives
<1>5. CASE CloseLedger
  BY <1>5 DEF CloseLedger
<1>6. CASE UNCHANGED rsVars
  BY <1>6 DEF rsVars
<1>7. QED
  BY <1>1, <1>2, <1>3, <1>4, <1>5, <1>6 DEF RSNext

\* A step of another call leaves t and the ledger alone.
LEMMA PromptUntouched ==
  ASSUME NEW t \in Txs, PromptInv(t), RSTypeOK,
         pc'[t] = pc[t], lls'[t] = lls[t], latest'[t] = latest[t], reply'[t] = reply[t],
         outcome'[t] = outcome[t], ledgerOf'[t] = ledgerOf[t], ledger' = ledger
  PROVE  PromptInv(t)'
BY DEF PromptInv

LEMMA PromptKept ==
  ASSUME RSInv, ledger # 0, [RSNext]_rsVars,
         NEW t \in Awaited \ outpaced, t \notin outpaced', PromptInv(t)
  PROVE  PromptInv(t)'
<1>t. t \in Txs
  BY AwaitedAssumption
<1> USE <1>t DEF RSInv, RSTypeOK, GoTo, End, callVars, serverVars
<1>1. ASSUME NEW q \in Txs, q # t,
             \/ StartAutofill(q) \/ StartSigned(q) \/ Refuse(q) \/ RequestFails(q)
             \/ Answered(q) \/ Continue(q)
      PROVE  PromptInv(t)'
  <2>1. /\ pc'[t] = pc[t] /\ lls'[t] = lls[t] /\ latest'[t] = latest[t] /\ reply'[t] = reply[t]
        /\ outcome'[t] = outcome[t] /\ ledgerOf'[t] = ledgerOf[t] /\ ledger' = ledger
    BY <1>1 DEF StartAutofill, StartSigned, Refuse, RequestFails, Answered, AutofillSequence,
                AutofillLedger, SubmitAnswered, LedgerAnswered, TxAnswered, Continue,
                SignAndSubmit, WakeUp, JudgeLedger, Conclude
  <2>2. QED
    BY <2>1, PromptUntouched
<1>2. CASE StartAutofill(t) \/ StartSigned(t) \/ Refuse(t) \/ RequestFails(t)
  BY <1>2 DEF StartAutofill, StartSigned, Refuse, RequestFails, PromptInv, CallInv, Asking
<1>3. CASE AutofillSequence(t) \/ AutofillLedger(t)
  BY <1>3 DEF AutofillSequence, AutofillLedger, PromptInv, CallInv
<1>4. CASE SubmitAnswered(t)
  BY <1>4 DEF SubmitAnswered, PromptInv, CallInv
<1>5. CASE LedgerAnswered(t)
  <2>1. latest'[t] = ledger /\ pc'[t] = "gotLedger" /\ outcome'[t] = outcome[t]
        /\ ledger' = ledger /\ ledgerOf' = ledgerOf /\ pc[t] = "askLedger"
    BY <1>5 DEF LedgerAnswered
  <2>2. ledgerOf[t] # 0 => ledgerOf[t] >= ledger
    BY <2>1 DEF PromptInv
  <2>3. outcome[t] = "none"
    BY <2>1 DEF CallInv
  <2>4. QED
    BY <2>1, <2>2, <2>3 DEF PromptInv
<1>6. CASE TxAnswered(t)
  <2>1. pc[t] = "askTx" /\ pc'[t] = "gotTx" /\ latest' = latest /\ lls' = lls
        /\ outcome' = outcome /\ ledger' = ledger /\ ledgerOf' = ledgerOf
        /\ (ledgerOf[t] # 0 => reply'[t] = "validated")
    BY <1>6 DEF TxAnswered
  <2>2. latest[t] = ledger /\ latest[t] <= lls[t] /\ outcome[t] = "none"
    BY <2>1 DEF PromptInv, CallInv
  <2>3. latest[t] = 0 => ledgerOf[t] = 0
    BY <2>2
  <2>4. QED
    BY <2>1, <2>2, <2>3 DEF PromptInv
<1>7. CASE SignAndSubmit(t) \/ WakeUp(t) \/ Conclude(t)
  BY <1>7 DEF SignAndSubmit, WakeUp, Conclude, Conclusive, PromptInv, CallInv
<1>8. CASE JudgeLedger(t)
  <2>1. pc[t] = "gotLedger" /\ latest[t] = ledger /\ (ledgerOf[t] # 0 => ledgerOf[t] >= latest[t])
        /\ lls[t] # 0
    BY <1>8 DEF JudgeLedger, PromptInv, CallInv, Waiting
  <2>2. ledgerOf[t] # 0 => ledgerOf[t] <= lls[t]
    BY <2>1 DEF LedgerInv
  <2>3. CASE TooLate(t)
    <3>1. ledgerOf[t] = 0
      BY <2>1, <2>2, <2>3 DEF TooLate
    <3>2. QED
      BY <1>8, <2>1, <2>3, <3>1 DEF JudgeLedger, PromptInv
  <2>4. CASE ~TooLate(t)
    BY <1>8, <2>1, <2>4 DEF JudgeLedger, TooLate, PromptInv, CallInv
  <2>5. QED
    BY <2>3, <2>4
<1>9. ASSUME NEW q \in Txs, ServerReceives(q)
      PROVE  PromptInv(t)'
  <2>1. CASE q # t
    <3>1. /\ pc'[t] = pc[t] /\ lls'[t] = lls[t] /\ latest'[t] = latest[t] /\ reply'[t] = reply[t]
          /\ outcome'[t] = outcome[t] /\ ledgerOf'[t] = ledgerOf[t] /\ ledger' = ledger
      BY <1>9, <2>1, Receives
    <3>2. QED
      BY <3>1, PromptUntouched
  <2>2. CASE q = t
    <3>1. /\ UNCHANGED <<pc, lls, latest, outcome, ledgerOf, ledger>> /\ t \in inFlight
      BY <1>9, <2>2, Receives
    <3>2. pc[t] \notin Waiting
      BY <3>1 DEF CallInv
    <3>3. pc[t] \notin {"sleeping", "askLedger", "gotLedger", "askTx", "gotTx"}
      BY <3>2 DEF Waiting
    <3>4. QED
      BY <3>1, <3>3 DEF PromptInv
  <2>3. QED
    BY <2>1, <2>2
<1>10. CASE CloseLedger
  <2>1. ledger' = ledger + 1 /\ UNCHANGED callVars /\ UpToDate(t)
    BY <1>10 DEF CloseLedger
  <2>2. ledgerOf'[t] = ledgerOf[t] \/ (ledgerOf'[t] = ledger + 1 /\ t \in open \cup queue /\ ~Dead(t))
    BY <1>10 DEF CloseLedger
  <2>3. CASE pc[t] \in {"idle", "autofill", "submitting"}
    <3>1. t \notin open \cup queue
      BY <2>1, <2>3 DEF UpToDate, CallInv, LedgerInv, Sent, Held
    <3>2. outcome[t] = "none"
      BY <2>3 DEF CallInv
    <3>3. QED
      BY <2>1, <2>2, <2>3, <3>1, <3>2 DEF PromptInv
  <2>4. CASE pc[t] \in Waiting
    <3>1. latest[t] = ledger /\ pc[t] \in {"gotTx", "sleeping"}
      BY <2>1, <2>4 DEF UpToDate
    <3>2. outcome[t] = "none"
      BY <2>4 DEF CallInv, Waiting
    <3>3. ledgerOf[t] # 0 => ledgerOf[t] > latest[t] \/ (pc[t] = "gotTx" /\ reply[t] = "validated")
      BY <3>1 DEF PromptInv
    <3>4. lls[t] # 0
      BY <2>4 DEF CallInv
    <3>5. ledger' <= latest'[t] + 1 /\ latest'[t] # 0
      BY <2>1, <3>1
    <3>6. latest[t] <= lls[t]
      BY <3>1 DEF PromptInv
    <3>7. ledgerOf'[t] # 0 =>
            ledgerOf'[t] > latest[t] \/ (pc[t] = "gotTx" /\ reply[t] = "validated")
      BY <2>2, <3>1, <3>3
    <3>8. QED
      BY <2>1, <3>1, <3>2, <3>5, <3>6, <3>7 DEF PromptInv
  <2>5. CASE pc[t] = "done"
    <3>1. outcome[t] = "expired" => Dead(t) /\ ledgerOf[t] = 0
      BY DEF LedgerInv, PromptInv
    <3>2. QED
      BY <2>1, <2>2, <2>5, <3>1 DEF PromptInv
  <2>6. QED
    BY <2>3, <2>4, <2>5 DEF PCs, Asking, Waiting
<1>11. CASE UNCHANGED rsVars
  BY <1>11, PromptUntouched DEF rsVars
<1>12. QED
  BY <1>1, <1>2, <1>3, <1>4, <1>5, <1>6, <1>7, <1>8, <1>9, <1>10, <1>11
  DEF RSNext, Answered, Continue

\* Whoever is told that LastLedgerSequence has passed may rely on it, unless a
\* ledger closed between two polls.
THEOREM PromptVerdictsAreRight == RSSpec => []PromptExpiryIsRight
<1>1. RSInit => RSPromptInv
  BY AwaitedAssumption DEF RSInit, RSPromptInv, OnlyAwaitedWait, PromptInv, Waiting
<1>2. RSInv /\ RSPromptInv /\ [RSNext]_rsVars => RSPromptInv'
  <2> SUFFICES ASSUME RSInv, RSPromptInv, [RSNext]_rsVars
               PROVE  RSPromptInv'
    OBVIOUS
  <2>1. outpaced \subseteq outpaced'
    BY DEF RSNext, StartAutofill, StartSigned, Refuse, RequestFails, Answered, AutofillSequence,
           AutofillLedger, SubmitAnswered, LedgerAnswered, TxAnswered, Continue, SignAndSubmit,
           WakeUp, JudgeLedger, Conclude, ServerReceives, CloseLedger, rsVars, serverVars
  <2>2. \A t \in Awaited \ outpaced' : PromptInv(t)'
    BY <2>1, PromptKept DEF RSPromptInv
  <2>3. ledger' = ledger \/ ledger' = ledger + 1
    BY DEF RSNext, StartAutofill, StartSigned, Refuse, RequestFails, Answered, AutofillSequence,
           AutofillLedger, SubmitAnswered, LedgerAnswered, TxAnswered, Continue, SignAndSubmit,
           WakeUp, JudgeLedger, Conclude, ServerReceives, CloseLedger, rsVars, serverVars
  <2>4. ledger' # 0
    BY <2>3 DEF RSInv, RSTypeOK, RSPromptInv
  <2>5. QED
    BY <2>2, <2>4, OnlyAwaitedKept DEF RSInv, RSPromptInv
<1>3. RSPromptInv => PromptExpiryIsRight
  BY DEF RSPromptInv, OnlyAwaitedWait, PromptInv, PromptExpiryIsRight
<1>4. QED
  BY <1>1, <1>2, <1>3, RSInvariant, PTL DEF RSSpec

=============================================================================
