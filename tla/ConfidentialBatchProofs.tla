------------------------- MODULE ConfidentialBatchProofs -------------------------
(***************************************************************************)
(* Proofs about ConfidentialBatch, for any holders, amounts and lists of   *)
(* inners: first that what is predicted is what the ledger will have, then *)
(* that the bound of the decryptions covers every balance, by the total of *)
(* what the holders hold.                                                  *)
(***************************************************************************)
EXTENDS ConfidentialBatch, TLAPS, SequenceTheorems, DataLemmas

\* How far the call is, next to the number of inners.
Progress ==
  /\ inners \in Seq(Inners)
  /\ stage = "called" => built = 0
  /\ stage = "building" => CountFits
  /\ stage = "assembled" => CountFits /\ built = Len(inners)

\* The tables have an entry for each holder.
Tables ==
  /\ predicted = [h \in Holders |-> predicted[h]]
  /\ token = [h \in Holders |-> token[h]]

\* Who has a balance, on the ledger or predicted, has a key.
BalancesHaveKeys ==
  /\ \A h \in Holders : \A b \in Balances : token[h].bal[b] # Absent => token[h].key
  /\ stage \in {"building", "assembled"} =>
       \A h \in Holders : \A b \in Balances : predicted[h].bal[b] # Absent => predicted[h].key

\* Whether there is a key is true or false.
KeysAreBoolean == \A h \in Holders : token[h].key \in BOOLEAN

\* The inductive invariant.
CBInv ==
  /\ CBTypeOK /\ Progress /\ Tables
  /\ BalancesHaveKeys /\ KeysAreBoolean
  /\ PredictionMatches
  /\ AcceptedByLedger

-----------------------------------------------------------------------------

\* What the fields of an inner are.
LEMMA InnerFields ==
  ASSUME NEW op \in Inners
  PROVE  /\ op.account \in Accounts
         /\ op.operation = "send" =>
              /\ op.account \in Holders /\ op.destination \in Holders
              /\ op.account # op.destination
         /\ op.operation \in {"convert", "convertBack", "mergeInbox"} => op.account \in Holders
         /\ op.operation = "clawback" => op.holder \in Holders
  BY DEF Inners, Accounts

\* The inner to be built is one of the caller's.
LEMMA CurrentIsInner ==
  ASSUME Progress, built \in 0..Len(inners), built < Len(inners)
  PROVE  Current \in Inners
  BY DEF Progress, Current

\* The first state.
LEMMA InitInv == Init => CBInv
<1> SUFFICES ASSUME Init PROVE CBInv
  OBVIOUS
<1>1. inners \in Seq(Inners)
  BY SeqDef, SizesAssumption DEF Init
<1>2. Progress
  BY <1>1 DEF Progress, Init
<1>3. CBTypeOK
  <2>1. Len(inners) \in Nat
    BY <1>1
  <2>2. sequence \in [Accounts -> Nat]
    BY FirstSeqAssumption DEF Init, LedgerInit, Accounts
  <2>3. rejected \in BOOLEAN
    BY DEF Init
  <2>4. next \in [Accounts -> Nat] /\ built \in 0..Len(inners)
    BY <2>1 DEF Init
  <2>5. QED
    BY <2>2, <2>3, <2>4 DEF CBTypeOK, Init
<1>4. Tables /\ BalancesHaveKeys /\ KeysAreBoolean
  <2>1. PICK registered \in SUBSET Holders :
          token = [h \in Holders |->
                     [bal |-> [b \in Balances |-> IF h \in registered THEN Old(h, b) ELSE Absent],
                      version |-> 0,
                      key |-> h \in registered]]
    BY DEF Init, LedgerInit
  <2>2. Tables
    BY <2>1 DEF Init, Tables
  <2>3. ASSUME NEW h \in Holders, NEW b \in Balances, token[h].bal[b] # Absent
        PROVE  token[h].key
    <3>1. token[h].bal[b] = IF h \in registered THEN Old(h, b) ELSE Absent
      BY <2>1
    <3>2. token[h].key = (h \in registered)
      BY <2>1, Zenon
    <3>3. QED
      BY <2>3, <3>1, <3>2, Zenon
  <2>4. BalancesHaveKeys
    BY <2>3 DEF Init, BalancesHaveKeys
  <2>5. KeysAreBoolean
    <3>1. ASSUME NEW h \in Holders PROVE token[h].key \in BOOLEAN
      <4>1. token[h].key = (h \in registered)
        BY <2>1, Zenon
      <4>2. (h \in registered) \in BOOLEAN
        OBVIOUS
      <4>3. QED
        BY <4>1, <4>2, Zenon
    <3>2. QED
      BY <3>1 DEF KeysAreBoolean
  <2>6. QED
    BY <2>2, <2>4, <2>5
<1>5. QED
  BY <1>2, <1>3, <1>4 DEF CBInv, Init, PredictionMatches, AcceptedByLedger

\* The ledger is read, and takes the Sequence of the outer Batch.
LEMMA LoadInv ==
  ASSUME CBInv, Load
  PROVE  CBInv'
<1>1. /\ stage = "called" /\ CountFits /\ stage' = "building" /\ predicted' = token
      /\ next' = [a \in Accounts |-> FirstInnerSeq(a)]
      /\ sequence' = [sequence EXCEPT ![batchAccount] = @ + 1]
      /\ UNCHANGED <<token, held, inners, batchAccount, why, built, rejected, restarted>>
  BY DEF Load, callVars
<1>2. next' = sequence'
  BY <1>1 DEF CBInv, CBTypeOK, FirstInnerSeq
<1>3. sequence' \in [Accounts -> Nat]
  BY <1>1 DEF CBInv, CBTypeOK
<1>4. CBTypeOK' /\ Progress' /\ Tables'
  BY <1>1, <1>2, <1>3 DEF CBInv, CBTypeOK, Progress, Tables, CountFits
<1>5. BalancesHaveKeys' /\ KeysAreBoolean'
  BY <1>1 DEF CBInv, BalancesHaveKeys, KeysAreBoolean
<1>6. PredictionMatches' /\ AcceptedByLedger'
  BY <1>1, <1>2 DEF CBInv, PredictionMatches, AcceptedByLedger
<1>7. QED
  BY <1>4, <1>5, <1>6 DEF CBInv

\* The call throws: nothing else changes.
LEMMA ThrowInv ==
  ASSUME CBInv, NEW reason \in Reasons, Throw(reason)
  PROVE  CBInv'
  BY DEF CBInv, CBTypeOK, Progress, Tables, BalancesHaveKeys, KeysAreBoolean,
         PredictionMatches, AcceptedByLedger, Throw, ledgerVars, callVars

\* An inner takes the next Sequence of its account, which is the ledger's.
LEMMA SequencedStep ==
  ASSUME CBInv, stage = "building", built < Len(inners), NEW accepted \in BOOLEAN,
         Sequenced(accepted)
  PROVE  /\ stage' \in {"building", "assembled"}
         /\ next' = sequence' /\ next' \in [Accounts -> Nat]
         /\ rejected' = (rejected \/ ~accepted)
         /\ built' \in 0..Len(inners') /\ Progress'
         /\ stage' = "assembled" => built' \in MIN_BATCH_INNERS..MAX_BATCH_INNERS
         /\ UNCHANGED <<inners, batchAccount, why, outstanding>>
<1>1. /\ built' = built + 1
      /\ stage' = IF built' = Len(inners) THEN "assembled" ELSE "building"
      /\ next' = [next EXCEPT ![Current.account] = @ + 1]
      /\ sequence' = [sequence EXCEPT ![Current.account] = @ + 1]
      /\ rejected' = (rejected \/ ~accepted \/ next[Current.account] # sequence[Current.account])
      /\ UNCHANGED <<inners, batchAccount, why, outstanding>>
  BY DEF Sequenced, callVars
<1>2. Len(inners) \in Nat /\ built \in 0..Len(inners) /\ CountFits
  BY DEF CBInv, CBTypeOK, Progress
<1>3. next = sequence /\ next \in [Accounts -> Nat]
  BY DEF CBInv, CBTypeOK, PredictionMatches
<1>4. next' = sequence' /\ rejected' = (rejected \/ ~accepted)
  BY <1>1, <1>3
<1>5. next' \in [Accounts -> Nat]
  <2>1. Current \in Inners
    BY <1>2, CurrentIsInner DEF CBInv
  <2>2. Current.account \in Accounts
    BY <2>1, InnerFields
  <2>3. QED
    BY <1>1, <1>3, <2>2
<1>6. built' \in 0..Len(inners') /\ Progress'
  BY <1>1, <1>2 DEF CBInv, Progress, CountFits
<1>7. stage' = "assembled" => built' \in MIN_BATCH_INNERS..MAX_BATCH_INNERS
  BY <1>1, <1>2 DEF CountFits
<1>8. QED
  BY <1>1, <1>4, <1>5, <1>6, <1>7

\* What is left to show for an inner that changes the balances of the holders
\* in S: each of them has a key, and its prediction is the ledger's.
LEMMA InnerInv ==
  ASSUME CBInv, stage = "building", built < Len(inners),
         NEW accepted \in BOOLEAN, Sequenced(accepted),
         NEW S \in SUBSET Holders,
         Tables',
         \A h \in Holders \ S : predicted'[h] = predicted[h] /\ token'[h] = token[h],
         \A h \in S : /\ predicted'[h].key = TRUE /\ token'[h].key = TRUE
                      /\ predicted'[h].version = token'[h].version
                      /\ h \notin restarted' =>
                           \A b \in Balances : predicted'[h].bal[b] \in {Absent, token'[h].bal[b]},
         restarted \subseteq restarted', restarted' \subseteq Holders,
         restarted' = {} => accepted
  PROVE  CBInv'
<1>1. /\ stage' \in {"building", "assembled"}
      /\ next' = sequence' /\ next' \in [Accounts -> Nat]
      /\ rejected' = (rejected \/ ~accepted)
      /\ built' \in 0..Len(inners') /\ Progress'
      /\ stage' = "assembled" => built' \in MIN_BATCH_INNERS..MAX_BATCH_INNERS
      /\ UNCHANGED <<inners, batchAccount, why, outstanding>>
  BY SequencedStep
<1>2. CBTypeOK'
  <2>1. rejected' \in BOOLEAN
    BY <1>1
  <2>2. QED
    BY <1>1, <2>1 DEF CBInv, CBTypeOK
<1>3. BalancesHaveKeys'
  <2>1. ASSUME NEW h \in Holders, NEW b \in Balances
        PROVE  /\ token'[h].bal[b] # Absent => token'[h].key
               /\ predicted'[h].bal[b] # Absent => predicted'[h].key
    <3>1. CASE h \in S
      BY <3>1
    <3>2. CASE h \notin S
      BY <3>2 DEF CBInv, BalancesHaveKeys
    <3>3. QED
      BY <3>1, <3>2
  <2>2. QED
    BY <2>1 DEF BalancesHaveKeys
<1>4. PredictionMatches'
  <2>1. ASSUME NEW h \in Holders
        PROVE  /\ predicted'[h].version = token'[h].version
               /\ predicted'[h].key = token'[h].key
               /\ h \notin restarted' =>
                    \A b \in Balances : predicted'[h].bal[b] \in {Absent, token'[h].bal[b]}
    <3>1. CASE h \in S
      BY <3>1
    <3>2. CASE h \notin S
      BY <3>2 DEF CBInv, PredictionMatches
    <3>3. QED
      BY <3>1, <3>2
  <2>2. QED
    BY <1>1, <2>1 DEF PredictionMatches
<1>5. AcceptedByLedger'
  BY <1>1 DEF CBInv, AcceptedByLedger
<1>6. KeysAreBoolean'
  <2>1. ASSUME NEW h \in Holders PROVE token'[h].key \in BOOLEAN
    <3>1. CASE h \in S
      BY <3>1
    <3>2. CASE h \notin S
      BY <3>2 DEF CBInv, KeysAreBoolean
    <3>3. QED
      BY <3>1, <3>2
  <2>2. QED
    BY <2>1 DEF KeysAreBoolean
<1>7. QED
  BY <1>1, <1>2, <1>3, <1>4, <1>5, <1>6 DEF CBInv

\* A debit that does not throw is the ledger's.
LEMMA SpendStep ==
  ASSUME CBInv, stage = "building", NEW h \in Holders, NEW amount, SpendFaults(h, amount) = {}
  PROVE  /\ predicted[h].key = TRUE /\ token[h].key = TRUE
         /\ predicted[h].version = token[h].version
         /\ h \notin restarted =>
              /\ \A b \in Balances \ {"inbox"} : predicted[h].bal[b] = token[h].bal[b]
              /\ predicted[h].bal["inbox"] \in {Absent, token[h].bal["inbox"]}
              /\ AcceptsSpend(h, predicted[h].bal["spending"], predicted[h].version)
<1>1. \A b \in Balances \ {"inbox"} : predicted[h].bal[b] # Absent
  <2>1. "reset" \in Reasons
    BY DEF Reasons
  <2>2. "reset" \notin SpendFaults(h, amount)
    OBVIOUS
  <2>3. QED
    BY <2>1, <2>2 DEF SpendFaults
<1>2. "spending" \in Balances \ {"inbox"} /\ "inbox" \in Balances
  BY DEF Balances
<1>3. /\ predicted[h].version = token[h].version /\ predicted[h].key = token[h].key
      /\ h \notin restarted =>
           \A b \in Balances : predicted[h].bal[b] \in {Absent, token[h].bal[b]}
  BY DEF CBInv, PredictionMatches
<1>4. /\ \A b \in Balances : predicted[h].bal[b] # Absent => predicted[h].key
      /\ \A b \in Balances : token[h].bal[b] # Absent => token[h].key
  BY DEF CBInv, BalancesHaveKeys
<1>5. predicted[h].key = TRUE /\ token[h].key = TRUE
  <2>1. token[h].key \in BOOLEAN
    BY DEF CBInv, KeysAreBoolean
  <2>2. QED
    BY <1>1, <1>2, <1>3, <1>4, <2>1
<1>6. QED
  BY <1>1, <1>2, <1>3, <1>5 DEF AcceptsSpend

LEMMA ConvertBackInv ==
  ASSUME CBInv, ConvertBack
  PROVE  CBInv'
<1> DEFINE h == Current.account
           faults == SpendFaults(h, Current.amount)
<1>1. Building("convertBack") /\ h \in Holders
  BY CurrentIsInner, InnerFields DEF CBInv, CBTypeOK, ConvertBack, Building
<1>2. CASE \E reason \in faults : Throw(reason)
  BY <1>2, ThrowInv DEF SpendFaults
<1>3. CASE /\ faults = {}
           /\ predicted' = [predicted EXCEPT ![h] = ApplyDebit(predicted[h], built + 1)]
           /\ token' = [token EXCEPT ![h] = AfterSpend(h, built + 1)]
           /\ Sequenced(AcceptsSpend(h, predicted[h].bal["spending"], predicted[h].version))
           /\ UNCHANGED restarted
  <2>1. Tables'
    BY <1>3 DEF CBInv, Tables
  <2>2. /\ predicted'[h] = ApplyDebit(predicted[h], built + 1)
        /\ token'[h] = AfterSpend(h, built + 1)
        /\ \A x \in Holders \ {h} : predicted'[x] = predicted[x] /\ token'[x] = token[x]
    BY <1>1, <1>3 DEF CBInv, Tables
  <2>3. /\ predicted[h].key = TRUE /\ token[h].key = TRUE
        /\ predicted[h].version = token[h].version
        /\ h \notin restarted =>
             /\ \A b \in Balances \ {"inbox"} : predicted[h].bal[b] = token[h].bal[b]
             /\ predicted[h].bal["inbox"] \in {Absent, token[h].bal["inbox"]}
             /\ AcceptsSpend(h, predicted[h].bal["spending"], predicted[h].version)
    BY <1>1, <1>3, SpendStep DEF Building
  <2>4. /\ predicted'[h].key = TRUE /\ token'[h].key = TRUE
        /\ predicted'[h].version = token'[h].version
        /\ h \notin restarted' =>
             \A b \in Balances : predicted'[h].bal[b] \in {Absent, token'[h].bal[b]}
    <3>1. /\ predicted'[h].key = predicted[h].key /\ token'[h].key = token[h].key
          /\ predicted'[h].version = predicted[h].version + 1
          /\ token'[h].version = token[h].version + 1
      BY <2>2 DEF ApplyDebit, AfterSpend
    <3>2. ASSUME NEW b \in Balances, h \notin restarted
          PROVE  predicted'[h].bal[b] \in {Absent, token'[h].bal[b]}
      <4>1. CASE b = "inbox"
        BY <2>2, <2>3, <3>2, <4>1 DEF ApplyDebit, AfterSpend
      <4>2. CASE b # "inbox"
        <5>1. /\ predicted'[h].bal[b] = Difference(predicted[h].bal[b], Encrypted(built + 1, b))
              /\ token'[h].bal[b] = Difference(token[h].bal[b], Encrypted(built + 1, b))
          BY <2>2, <4>2 DEF ApplyDebit, AfterSpend
        <5>2. predicted[h].bal[b] = token[h].bal[b]
          BY <2>3, <3>2, <4>2
        <5>3. QED
          BY <5>1, <5>2
      <4>3. QED
        BY <4>1, <4>2
    <3>3. QED
      BY <1>3, <2>3, <3>1, <3>2
  <2>5. AcceptsSpend(h, predicted[h].bal["spending"], predicted[h].version) \in BOOLEAN
    BY DEF AcceptsSpend
  <2>6. restarted \subseteq restarted' /\ restarted' \subseteq Holders
    BY <1>3 DEF CBInv, CBTypeOK
  <2>7. restarted' = {} => AcceptsSpend(h, predicted[h].bal["spending"], predicted[h].version)
    BY <1>3, <2>3
  <2>8. QED
    <3>1. \A x \in {h} : /\ predicted'[x].key = TRUE /\ token'[x].key = TRUE
                         /\ predicted'[x].version = token'[x].version
                         /\ x \notin restarted' =>
                              \A b \in Balances : predicted'[x].bal[b] \in {Absent, token'[x].bal[b]}
      BY <2>4
    <3>2. {h} \in SUBSET Holders /\ stage = "building" /\ built < Len(inners)
      BY <1>1 DEF Building
    <3>3. QED
      BY <1>3, <2>1, <2>2, <2>5, <2>6, <2>7, <3>1, <3>2, InnerInv
<1>4. QED
  BY <1>2, <1>3 DEF ConvertBack

LEMMA SendInv ==
  ASSUME CBInv, Send
  PROVE  CBInv'
<1> DEFINE h == Current.account
           d == Current.destination
           faults == SpendFaults(h, Current.amount) \cup ReceiptFaults(d)
           accepted == /\ AcceptsSpend(h, predicted[h].bal["spending"], predicted[h].version)
                       /\ token[d].key
<1>1. Building("send") /\ h \in Holders /\ d \in Holders /\ h # d
  BY CurrentIsInner, InnerFields DEF CBInv, CBTypeOK, Send, Building
<1>2. CASE \E reason \in faults : Throw(reason)
  BY <1>2, ThrowInv DEF SpendFaults, ReceiptFaults
<1>3. CASE /\ faults = {}
           /\ predicted' = [predicted EXCEPT ![h] = ApplyDebit(predicted[h], built + 1),
                                             ![d] = ApplyInboxCredit(predicted[d], built + 1)]
           /\ token' = [token EXCEPT ![h] = AfterSpend(h, built + 1),
                                     ![d] = AfterReceipt(d, built + 1)]
           /\ Sequenced(accepted)
           /\ UNCHANGED restarted
  <2>1. Tables'
    BY <1>3 DEF CBInv, Tables
  <2>2. /\ predicted'[h] = ApplyDebit(predicted[h], built + 1)
        /\ token'[h] = AfterSpend(h, built + 1)
        /\ predicted'[d] = ApplyInboxCredit(predicted[d], built + 1)
        /\ token'[d] = AfterReceipt(d, built + 1)
        /\ \A x \in Holders \ {h, d} : predicted'[x] = predicted[x] /\ token'[x] = token[x]
    BY <1>1, <1>3 DEF CBInv, Tables
  <2>3. /\ predicted[h].key = TRUE /\ token[h].key = TRUE
        /\ predicted[h].version = token[h].version
        /\ h \notin restarted =>
             /\ \A b \in Balances \ {"inbox"} : predicted[h].bal[b] = token[h].bal[b]
             /\ predicted[h].bal["inbox"] \in {Absent, token[h].bal["inbox"]}
             /\ AcceptsSpend(h, predicted[h].bal["spending"], predicted[h].version)
    BY <1>1, <1>3, SpendStep DEF Building
  <2>4. /\ predicted'[h].key = TRUE /\ token'[h].key = TRUE
        /\ predicted'[h].version = token'[h].version
        /\ h \notin restarted' =>
             \A b \in Balances : predicted'[h].bal[b] \in {Absent, token'[h].bal[b]}
    <3>1. /\ predicted'[h].key = predicted[h].key /\ token'[h].key = token[h].key
          /\ predicted'[h].version = predicted[h].version + 1
          /\ token'[h].version = token[h].version + 1
      BY <2>2 DEF ApplyDebit, AfterSpend
    <3>2. ASSUME NEW b \in Balances, h \notin restarted
          PROVE  predicted'[h].bal[b] \in {Absent, token'[h].bal[b]}
      <4>1. CASE b = "inbox"
        BY <2>2, <2>3, <3>2, <4>1 DEF ApplyDebit, AfterSpend
      <4>2. CASE b # "inbox"
        <5>1. /\ predicted'[h].bal[b] = Difference(predicted[h].bal[b], Encrypted(built + 1, b))
              /\ token'[h].bal[b] = Difference(token[h].bal[b], Encrypted(built + 1, b))
          BY <2>2, <4>2 DEF ApplyDebit, AfterSpend
        <5>2. predicted[h].bal[b] = token[h].bal[b]
          BY <2>3, <3>2, <4>2
        <5>3. QED
          BY <5>1, <5>2
      <4>3. QED
        BY <4>1, <4>2
    <3>3. QED
      BY <1>3, <2>3, <3>1, <3>2
  <2>5. /\ predicted[d].version = token[d].version /\ predicted[d].key = token[d].key
        /\ d \notin restarted =>
             \A b \in Balances : predicted[d].bal[b] \in {Absent, token[d].bal[b]}
    BY <1>1 DEF Building, CBInv, PredictionMatches
  <2>6. /\ predicted[d].key
        /\ \A b \in Balances \ {"spending"} : predicted[d].bal[b] # Absent
    <3>1. "key" \notin ReceiptFaults(d) /\ "reset" \notin ReceiptFaults(d)
      BY <1>3
    <3>2. QED
      BY <3>1 DEF ReceiptFaults, Reasons
  <2>7. predicted[d].key = TRUE /\ token[d].key = TRUE
    <3>1. token[d].key \in BOOLEAN
      BY <1>1 DEF CBInv, KeysAreBoolean
    <3>2. QED
      BY <2>5, <2>6, <3>1
  <2>8. /\ predicted'[d].key = TRUE /\ token'[d].key = TRUE
        /\ predicted'[d].version = token'[d].version
        /\ d \notin restarted' =>
             \A b \in Balances : predicted'[d].bal[b] \in {Absent, token'[d].bal[b]}
    <3>1. /\ predicted'[d].key = predicted[d].key /\ token'[d].key = token[d].key
          /\ predicted'[d].version = predicted[d].version
          /\ token'[d].version = token[d].version
      BY <2>2 DEF ApplyInboxCredit, AfterReceipt
    <3>2. ASSUME NEW b \in Balances, d \notin restarted
          PROVE  predicted'[d].bal[b] \in {Absent, token'[d].bal[b]}
      <4>1. CASE b = "spending"
        BY <2>2, <2>5, <3>2, <4>1 DEF ApplyInboxCredit, AfterReceipt
      <4>2. CASE b # "spending"
        <5> DEFINE credit == Sum(Encrypted(built + 1, b), Blinding(built + 1, b))
        <5>1. /\ predicted'[d].bal[b] = Sum(predicted[d].bal[b], credit)
              /\ token'[d].bal[b] = Sum(token[d].bal[b], credit)
          BY <2>2, <4>2 DEF ApplyInboxCredit, AfterReceipt
        <5>2. predicted[d].bal[b] = token[d].bal[b]
          BY <2>5, <2>6, <3>2, <4>2
        <5>3. QED
          BY <5>1, <5>2
      <4>3. QED
        BY <4>1, <4>2
    <3>3. QED
      BY <1>3, <2>5, <2>7, <3>1, <3>2
  <2>9. accepted \in BOOLEAN
    BY <2>7 DEF AcceptsSpend
  <2>10. restarted \subseteq restarted' /\ restarted' \subseteq Holders
    BY <1>3 DEF CBInv, CBTypeOK
  <2>11. restarted' = {} => accepted
    BY <1>3, <2>3, <2>7
  <2>12. QED
    <3>1. \A x \in {h, d} : /\ predicted'[x].key = TRUE /\ token'[x].key = TRUE
                            /\ predicted'[x].version = token'[x].version
                            /\ x \notin restarted' =>
                                 \A b \in Balances : predicted'[x].bal[b] \in {Absent, token'[x].bal[b]}
      BY <2>4, <2>8
    <3>2. {h, d} \in SUBSET Holders /\ stage = "building" /\ built < Len(inners)
      BY <1>1 DEF Building
    <3>3. Sequenced(accepted)
      BY <1>3
    <3> HIDE DEF accepted
    <3>4. QED
      BY <2>1, <2>2, <2>9, <2>10, <2>11, <3>1, <3>2, <3>3, InnerInv
<1>4. QED
  BY <1>2, <1>3 DEF Send

\* A Convert is accepted, since the prediction knows who has a key; a balance
\* that starts afresh, though the ledger's was reset, makes h restarted.
LEMMA ConvertInv ==
  ASSUME CBInv, Convert
  PROVE  CBInv'
<1> DEFINE h == Current.account
           fresh == \E b \in Balances \ {"spending"} :
                      predicted[h].bal[b] = Absent /\ token[h].bal[b] # Absent
<1>1. Building("convert") /\ h \in Holders
  BY CurrentIsInner, InnerFields DEF CBInv, CBTypeOK, Convert, Building
<1>2. /\ predicted' = [predicted EXCEPT ![h] = ApplyConvertCredit(predicted[h], built + 1)]
      /\ token' = [token EXCEPT ![h] = AfterConvert(h, built + 1)]
      /\ Sequenced(AcceptsConvert(h, RegisterKey(h)))
      /\ restarted' = IF fresh THEN restarted \cup {h} ELSE restarted
  BY DEF Convert
<1>3. Tables'
  BY <1>2 DEF CBInv, Tables
<1>4. /\ predicted'[h] = ApplyConvertCredit(predicted[h], built + 1)
      /\ token'[h] = AfterConvert(h, built + 1)
      /\ \A x \in Holders \ {h} : predicted'[x] = predicted[x] /\ token'[x] = token[x]
  BY <1>1, <1>2 DEF CBInv, Tables
<1>5. /\ predicted[h].version = token[h].version /\ predicted[h].key = token[h].key
      /\ h \notin restarted =>
           \A b \in Balances : predicted[h].bal[b] \in {Absent, token[h].bal[b]}
  BY <1>1 DEF Building, CBInv, PredictionMatches
<1>6. /\ predicted'[h].key = TRUE /\ token'[h].key = TRUE
      /\ predicted'[h].version = token'[h].version
  BY <1>4, <1>5 DEF ApplyConvertCredit, AfterConvert
<1>7. ASSUME NEW b \in Balances, h \notin restarted'
      PROVE  predicted'[h].bal[b] \in {Absent, token'[h].bal[b]}
  <2>1. h \notin restarted /\ ~fresh
    BY <1>2, <1>7
  <2>2. predicted[h].bal[b] \in {Absent, token[h].bal[b]}
    BY <1>5, <2>1
  <2>3. CASE b = "spending"
    <3>1. predicted'[h].bal[b] = predicted[h].bal[b]
      BY <1>4, <2>3 DEF ApplyConvertCredit
    <3>2. token[h].bal[b] # Absent => token'[h].bal[b] = token[h].bal[b]
      BY <1>4, <2>3 DEF AfterConvert
    <3>3. QED
      BY <2>2, <3>1, <3>2
  <2>4. CASE b # "spending"
    <3>1. predicted[h].bal[b] = token[h].bal[b]
      BY <2>1, <2>2, <2>4
    <3>2. /\ predicted'[h].bal[b] = IF predicted[h].bal[b] = Absent THEN Encrypted(built + 1, b)
                                    ELSE Sum(predicted[h].bal[b], Encrypted(built + 1, b))
          /\ token'[h].bal[b] = IF token[h].bal[b] = Absent THEN Encrypted(built + 1, b)
                                ELSE Sum(token[h].bal[b], Encrypted(built + 1, b))
      BY <1>4, <2>4 DEF ApplyConvertCredit, AfterConvert
    <3>3. QED
      BY <3>1, <3>2
  <2>5. QED
    BY <2>3, <2>4
<1>8. restarted \subseteq restarted' /\ restarted' \subseteq Holders
  BY <1>1, <1>2 DEF CBInv, CBTypeOK
<1>9. AcceptsConvert(h, RegisterKey(h)) = TRUE
  BY <1>5 DEF AcceptsConvert, RegisterKey
<1>10. QED
  <2>1. \A x \in {h} : /\ predicted'[x].key = TRUE /\ token'[x].key = TRUE
                       /\ predicted'[x].version = token'[x].version
                       /\ x \notin restarted' =>
                            \A b \in Balances : predicted'[x].bal[b] \in {Absent, token'[x].bal[b]}
    BY <1>6, <1>7
  <2>2. {h} \in SUBSET Holders /\ stage = "building" /\ built < Len(inners) /\ Sequenced(TRUE)
    BY <1>1, <1>2, <1>9 DEF Building
  <2>3. QED
    BY <1>3, <1>4, <1>8, <2>1, <2>2, InnerInv

\* Who can merge has an inbox, hence a key.
LEMMA MergeInboxInv ==
  ASSUME CBInv, MergeInbox
  PROVE  CBInv'
<1> DEFINE h == Current.account
<1>1. Building("mergeInbox") /\ h \in Holders
  BY CurrentIsInner, InnerFields DEF CBInv, CBTypeOK, MergeInbox, Building
<1>2. CASE Throw("reset")
  BY <1>2, ThrowInv DEF Reasons
<1>3. CASE /\ Absent \notin {predicted[h].bal["spending"], predicted[h].bal["inbox"]}
           /\ predicted' = [predicted EXCEPT ![h] = ApplyMerge(predicted[h])]
           /\ token' = [token EXCEPT ![h] = AfterMerge(h)]
           /\ Sequenced(TRUE)
           /\ UNCHANGED restarted
  <2>1. Tables'
    BY <1>3 DEF CBInv, Tables
  <2>2. /\ predicted'[h] = ApplyMerge(predicted[h]) /\ token'[h] = AfterMerge(h)
        /\ \A x \in Holders \ {h} : predicted'[x] = predicted[x] /\ token'[x] = token[x]
    BY <1>1, <1>3 DEF CBInv, Tables
  <2>3. /\ predicted[h].version = token[h].version /\ predicted[h].key = token[h].key
        /\ h \notin restarted =>
             \A b \in Balances : predicted[h].bal[b] \in {Absent, token[h].bal[b]}
    BY <1>1 DEF Building, CBInv, PredictionMatches
  <2>4. "spending" \in Balances /\ "inbox" \in Balances
    BY DEF Balances
  <2>5. predicted[h].key = TRUE /\ token[h].key = TRUE
    <3>1. predicted[h].key
      BY <1>1, <1>3, <2>4 DEF Building, CBInv, BalancesHaveKeys
    <3>2. token[h].key \in BOOLEAN
      BY <1>1 DEF CBInv, KeysAreBoolean
    <3>3. QED
      BY <2>3, <3>1, <3>2
  <2>6. /\ predicted'[h].key = TRUE /\ token'[h].key = TRUE
        /\ predicted'[h].version = token'[h].version
    BY <2>2, <2>3, <2>5 DEF ApplyMerge, AfterMerge
  <2>7. ASSUME NEW b \in Balances, h \notin restarted
        PROVE  predicted'[h].bal[b] \in {Absent, token'[h].bal[b]}
    <3>1. CASE b = "spending"
      <4>1. /\ predicted[h].bal["spending"] = token[h].bal["spending"]
            /\ predicted[h].bal["inbox"] = token[h].bal["inbox"]
        BY <1>3, <2>3, <2>4, <2>7
      <4>2. QED
        BY <2>2, <3>1, <4>1 DEF ApplyMerge, AfterMerge
    <3>2. CASE b = "inbox"
      BY <2>2, <3>2 DEF ApplyMerge
    <3>3. CASE b \notin {"spending", "inbox"}
      BY <2>2, <2>3, <2>7, <3>3 DEF ApplyMerge, AfterMerge
    <3>4. QED
      BY <3>1, <3>2, <3>3
  <2>8. QED
    <3>1. \A x \in {h} : /\ predicted'[x].key = TRUE /\ token'[x].key = TRUE
                         /\ predicted'[x].version = token'[x].version
                         /\ x \notin restarted' =>
                              \A b \in Balances : predicted'[x].bal[b] \in {Absent, token'[x].bal[b]}
      BY <1>3, <2>6, <2>7
    <3>2. /\ {h} \in SUBSET Holders /\ stage = "building" /\ built < Len(inners)
          /\ restarted \subseteq restarted' /\ restarted' \subseteq Holders
      BY <1>1, <1>3 DEF Building, CBInv, CBTypeOK
    <3>3. QED
      BY <1>3, <2>1, <2>2, <3>1, <3>2, InnerInv
<1>4. QED
  BY <1>2, <1>3 DEF MergeInbox

\* A Clawback binds the issuer's balance, and leaves no prediction behind.
LEMMA ClawbackInv ==
  ASSUME CBInv, Clawback
  PROVE  CBInv'
<1> DEFINE h == Current.holder
           faults == ClawbackFaults(h)
           accepted == AcceptsClawback(h, predicted[h].bal["issuer"])
<1>1. Building("clawback") /\ h \in Holders
  BY CurrentIsInner, InnerFields DEF CBInv, CBTypeOK, Clawback, Building
<1>2. CASE \E reason \in faults : Throw(reason)
  BY <1>2, ThrowInv DEF ClawbackFaults
<1>3. CASE /\ faults = {}
           /\ predicted' = [predicted EXCEPT ![h] = ApplyClawback(predicted[h])]
           /\ token' = [token EXCEPT ![h] = AfterClawback(h)]
           /\ Sequenced(accepted)
           /\ UNCHANGED restarted
  <2>1. Tables'
    BY <1>3 DEF CBInv, Tables
  <2>2. /\ predicted'[h] = ApplyClawback(predicted[h]) /\ token'[h] = AfterClawback(h)
        /\ \A x \in Holders \ {h} : predicted'[x] = predicted[x] /\ token'[x] = token[x]
    BY <1>1, <1>3 DEF CBInv, Tables
  <2>3. /\ predicted[h].version = token[h].version /\ predicted[h].key = token[h].key
        /\ h \notin restarted =>
             \A b \in Balances : predicted[h].bal[b] \in {Absent, token[h].bal[b]}
    BY <1>1 DEF Building, CBInv, PredictionMatches
  <2>4. "issuer" \in Balances
    BY MirrorsAssumption DEF Balances
  <2>5. predicted[h].key = TRUE /\ token[h].key = TRUE
    <3>1. predicted[h].bal["issuer"] # Absent
      BY <1>3 DEF ClawbackFaults, Reasons
    <3>2. predicted[h].key
      BY <1>1, <2>4, <3>1 DEF Building, CBInv, BalancesHaveKeys
    <3>3. token[h].key \in BOOLEAN
      BY <1>1 DEF CBInv, KeysAreBoolean
    <3>4. QED
      BY <2>3, <3>2, <3>3
  <2>6. /\ predicted'[h].key = TRUE /\ token'[h].key = TRUE
        /\ predicted'[h].version = token'[h].version
        /\ \A b \in Balances : predicted'[h].bal[b] = Absent
    BY <2>2, <2>3, <2>5 DEF ApplyClawback, AfterClawback
  <2>7. accepted \in BOOLEAN /\ (restarted' = {} => accepted)
    <3>1. predicted[h].bal["issuer"] # Absent
      BY <1>3 DEF ClawbackFaults, Reasons
    <3>2. QED
      BY <1>3, <2>3, <2>4, <2>5, <3>1 DEF AcceptsClawback
  <2>8. QED
    <3>1. \A x \in {h} : /\ predicted'[x].key = TRUE /\ token'[x].key = TRUE
                         /\ predicted'[x].version = token'[x].version
                         /\ x \notin restarted' =>
                              \A b \in Balances : predicted'[x].bal[b] \in {Absent, token'[x].bal[b]}
      BY <2>6
    <3>2. /\ {h} \in SUBSET Holders /\ stage = "building" /\ built < Len(inners)
          /\ restarted \subseteq restarted' /\ restarted' \subseteq Holders
          /\ Sequenced(accepted)
      BY <1>1, <1>3 DEF Building, CBInv, CBTypeOK
    <3> HIDE DEF accepted
    <3>3. QED
      BY <2>1, <2>2, <2>7, <3>1, <3>2, InnerInv
<1>4. QED
  BY <1>2, <1>3 DEF Clawback

\* A transaction ready made touches no confidential balance.
LEMMA PlainInv ==
  ASSUME CBInv, Plain
  PROVE  CBInv'
<1>1. stage = "building" /\ built < Len(inners) /\ Sequenced(TRUE)
  BY DEF Plain, Building
<1>2. UNCHANGED <<token, predicted, restarted>>
  BY DEF Plain
<1>3. Tables' /\ restarted' \subseteq Holders /\ {} \in SUBSET Holders
  BY <1>2 DEF CBInv, CBTypeOK, Tables
<1>4. QED
  BY <1>1, <1>2, <1>3, InnerInv

LEMMA TicketedInv ==
  ASSUME CBInv, Ticketed
  PROVE  CBInv'
<1>1. /\ stage = "building" /\ built < Len(inners) /\ built' = built + 1
      /\ stage' = IF built' = Len(inners) THEN "assembled" ELSE "building"
      /\ UNCHANGED <<token, sequence, inners, batchAccount, why, predicted, next, rejected, restarted>>
  BY DEF Ticketed, Building, ledgerVars, callVars
<1>2. Len(inners) \in Nat /\ built \in 0..Len(inners) /\ CountFits
  BY <1>1 DEF CBInv, CBTypeOK, Progress
<1>3. CBTypeOK' /\ Progress'
  BY <1>1, <1>2 DEF CBInv, CBTypeOK, Progress, CountFits
<1>4. QED
  BY <1>1, <1>3 DEF CBInv, Tables, BalancesHaveKeys, KeysAreBoolean, PredictionMatches,
                    AcceptedByLedger

-----------------------------------------------------------------------------

\* The invariant is inductive.
LEMMA NextInv == CBInv /\ [Next]_vars => CBInv'
<1> SUFFICES ASSUME CBInv, [Next]_vars PROVE CBInv'
  OBVIOUS
<1>1. CASE Load
  BY <1>1, LoadInv
<1>2. CASE Refuse
  BY <1>2, ThrowInv DEF Refuse, Reasons
<1>3. CASE Send
  BY <1>3, SendInv
<1>4. CASE ConvertBack
  BY <1>4, ConvertBackInv
<1>5. CASE Convert
  BY <1>5, ConvertInv
<1>6. CASE MergeInbox
  BY <1>6, MergeInboxInv
<1>7. CASE Clawback
  BY <1>7, ClawbackInv
<1>8. CASE Plain
  BY <1>8, PlainInv
<1>9. CASE Ticketed
  BY <1>9, TicketedInv
<1>10. CASE UNCHANGED vars
  BY <1>10 DEF CBInv, CBTypeOK, Progress, Tables, BalancesHaveKeys, KeysAreBoolean,
               PredictionMatches, AcceptedByLedger, CountFits, vars, ledgerVars, callVars, batchVars
<1>11. QED
  BY <1>1, <1>2, <1>3, <1>4, <1>5, <1>6, <1>7, <1>8, <1>9, <1>10 DEF Next

LEMMA AlwaysInv == Spec => []CBInv
  BY InitInv, NextInv, PTL DEF Spec

\* Every variable keeps its type, and no Batch of a size that rippled refuses is
\* assembled.
THEOREM BatchTypeCorrect == Spec => []CBTypeOK
<1>1. CBInv => CBTypeOK
  BY DEF CBInv
<1>2. QED
  BY <1>1, AlwaysInv, PTL

\* The predicted balances, versions, keys and Sequences are the ledger's, for
\* any number of inners.
THEOREM PredictionsAlwaysMatch == Spec => []PredictionMatches
<1>1. CBInv => PredictionMatches
  BY DEF CBInv
<1>2. QED
  BY <1>1, AlwaysInv, PTL

\* The ledger takes every inner of a Batch in which no Convert follows a reset.
THEOREM BatchesAreAccepted == Spec => []AcceptedByLedger
<1>1. CBInv => AcceptedByLedger
  BY DEF CBInv
<1>2. QED
  BY <1>1, AlwaysInv, PTL

-----------------------------------------------------------------------------
(* The decrypt bound.                                                      *)

Amount == [spending : Nat, inbox : Nat]

\* All that the holders hold in x.
TotalOf(x) == SumFunction([h \in Holders |-> x[h].spending + x[h].inbox])

\* What the first n inners convert.
ConvertedUpTo(n) == SumFunctionOnSet(Converted, 1..n)

\* While the Batch is built the holders hold no more than the issuance knew of
\* and its Converts have added since: no amount can exceed the decrypt bound.
Covered ==
  /\ held \in [Holders -> Amount]
  /\ outstanding \in Nat
  /\ stage \in {"building", "assembled"} => TotalOf(held) <= outstanding + ConvertedUpTo(built)
  /\ DecryptsSuffice

\* A total bounds what each holder holds.
LEMMA TotalBounds ==
  ASSUME NEW x \in [Holders -> Amount]
  PROVE  /\ TotalOf(x) \in Nat
         /\ \A h \in Holders : x[h].spending + x[h].inbox <= TotalOf(x)
<1> DEFINE f == [h \in Holders |-> x[h].spending + x[h].inbox]
<1>1. \A h \in Holders : f[h] \in Nat
  BY DEF Amount
<1>2. TotalOf(x) = SumFunctionOnSet(f, Holders)
  BY DEF TotalOf, SumFunction
<1>3. \A h \in Holders : f[h] = x[h].spending + x[h].inbox
  OBVIOUS
<1> HIDE DEF f
<1>4. SumFunctionOnSet(f, Holders) \in Nat
  BY <1>1, HoldersAssumption, SumType
<1>5. \A h \in Holders : f[h] <= SumFunctionOnSet(f, Holders)
  BY <1>1, HoldersAssumption, SumBoundsElement
<1> QED BY <1>2, <1>3, <1>4, <1>5

\* A total changes with what one holder holds.
LEMMA TotalUpdate ==
  ASSUME NEW x \in [Holders -> Amount], NEW y \in [Holders -> Amount], NEW h \in Holders,
         \A k \in Holders \ {h} : y[k] = x[k]
  PROVE  TotalOf(y) + (x[h].spending + x[h].inbox) = TotalOf(x) + (y[h].spending + y[h].inbox)
<1> DEFINE f == [k \in Holders |-> x[k].spending + x[k].inbox]
           g == [k \in Holders |-> y[k].spending + y[k].inbox]
<1>1. \A k \in Holders : f[k] \in Nat /\ g[k] \in Nat
  BY DEF Amount
<1>2. TotalOf(x) = SumFunctionOnSet(f, Holders) /\ TotalOf(y) = SumFunctionOnSet(g, Holders)
  BY DEF TotalOf, SumFunction
<1>3. /\ f[h] = x[h].spending + x[h].inbox /\ g[h] = y[h].spending + y[h].inbox
      /\ \A k \in Holders \ {h} : f[k] = g[k]
  OBVIOUS
<1> HIDE DEF f, g
<1>4. SumFunctionOnSet(g, Holders) + f[h] = SumFunctionOnSet(f, Holders) + g[h]
  BY <1>1, <1>3, HoldersAssumption, SumUpdate
<1> QED BY <1>2, <1>3, <1>4

\* What an inner converts is an amount, and what is converted grows by it.
LEMMA ConvertedStep ==
  ASSUME inners \in Seq(Inners), NEW n \in 0..Len(inners)
  PROVE  /\ ConvertedUpTo(n) \in Nat
         /\ ConvertedUpTo(n) <= SumFunction(Converted) /\ SumFunction(Converted) \in Nat
         /\ n = 0 => ConvertedUpTo(n) = 0
         /\ n < Len(inners) => /\ Converted[n + 1] \in Nat
                               /\ ConvertedUpTo(n + 1) = ConvertedUpTo(n) + Converted[n + 1]
<1> DEFINE T == 1..Len(inners)
<1>1. Len(inners) \in Nat /\ DOMAIN inners = T /\ DOMAIN Converted = T
  BY DEF Converted
<1>2. \A k \in T : Converted[k] \in Nat
  <2> SUFFICES ASSUME NEW k \in T PROVE Converted[k] \in Nat
    OBVIOUS
  <2>1. inners[k] \in Inners /\ Converted[k] = IF inners[k].operation = "convert"
                                                 THEN inners[k].amount ELSE 0
    BY <1>1 DEF Converted
  <2>2. inners[k].operation = "convert" => inners[k].amount \in Nat
    BY <2>1, AmountsAssumption DEF Inners
  <2> QED BY <2>1, <2>2
<1>3. \A k \in 0..Len(inners) : IsFiniteSet(1..k) /\ 1..k \subseteq T
  BY <1>1, FS_Interval
<1>4. SumFunction(Converted) = SumFunctionOnSet(Converted, T)
  BY <1>1 DEF SumFunction
<1>5. IsFiniteSet(T) /\ IsFiniteSet(1..n) /\ 1..n \subseteq T
  BY <1>1, <1>3
<1>6. SumFunctionOnSet(Converted, T) \in Nat
  <2> HIDE DEF T
  <2> QED BY <1>2, <1>5, SumType
<1>7. SumFunctionOnSet(Converted, 1..n) \in Nat
  <2>1. \A k \in 1..n : Converted[k] \in Nat
    BY <1>2, <1>5
  <2> QED BY <1>5, <2>1, SumType
<1>8. SumFunctionOnSet(Converted, 1..n) <= SumFunctionOnSet(Converted, T)
  <2> HIDE DEF T
  <2> QED BY <1>2, <1>5, SumSubset
<1>9. n = 0 => SumFunctionOnSet(Converted, 1..n) = 0
  <2>1. 1..0 = {}
    OBVIOUS
  <2> QED BY <2>1, SumEmpty
<1>10. ASSUME n < Len(inners)
       PROVE  /\ Converted[n + 1] \in Nat
              /\ SumFunctionOnSet(Converted, 1..(n + 1))
                   = SumFunctionOnSet(Converted, 1..n) + Converted[n + 1]
  <2>1. (1..n) \cup {n + 1} = 1..(n + 1) /\ n + 1 \notin 1..n /\ n + 1 \in T
    BY <1>1, <1>10
  <2>2. \A k \in (1..n) \cup {n + 1} : Converted[k] \in Nat
    BY <1>2, <1>5, <2>1
  <2>3. SumFunctionOnSet(Converted, (1..n) \cup {n + 1})
          = SumFunctionOnSet(Converted, 1..n) + Converted[n + 1]
    BY <1>5, <2>1, <2>2, SumAddElement
  <2> QED BY <1>2, <2>1, <2>3
<1> QED BY <1>4, <1>6, <1>7, <1>8, <1>9, <1>10 DEF ConvertedUpTo

\* While the Batch is built no balance exceeds the bound.
LEMMA BoundHolds ==
  ASSUME CBInv, Covered, stage = "building", NEW h \in Holders
  PROVE  /\ DecryptBound \in Nat
         /\ held[h].spending + held[h].inbox <= DecryptBound
         /\ held[h].spending <= DecryptBound
<1>1. held[h].spending \in Nat /\ held[h].inbox \in Nat /\ outstanding \in Nat
  BY DEF Covered, Amount
<1>2. TotalOf(held) \in Nat /\ held[h].spending + held[h].inbox <= TotalOf(held)
  BY TotalBounds DEF Covered
<1>3. /\ ConvertedUpTo(built) \in Nat /\ SumFunction(Converted) \in Nat
      /\ ConvertedUpTo(built) <= SumFunction(Converted)
  BY ConvertedStep DEF CBInv, CBTypeOK, Progress
<1>4. TotalOf(held) <= outstanding + ConvertedUpTo(built)
  BY DEF Covered
<1>5. DecryptBound = outstanding + SumFunction(Converted)
  BY DEF DecryptBound
<1> QED BY <1>1, <1>2, <1>3, <1>4, <1>5

LEMMA InitCovered == Init => Covered
<1> SUFFICES ASSUME Init PROVE Covered
  OBVIOUS
<1>1. PICK registered \in SUBSET Holders : \E start \in [registered -> StartHeld] :
        held = [h \in Holders |-> IF h \in registered THEN start[h] ELSE [spending |-> 0, inbox |-> 0]]
  BY DEF Init, LedgerInit
<1>2. PICK start \in [registered -> StartHeld] :
        held = [h \in Holders |-> IF h \in registered THEN start[h] ELSE [spending |-> 0, inbox |-> 0]]
  BY <1>1
<1>3. held \in [Holders -> Amount]
  BY <1>2, StartHeldAssumption DEF Amount
<1> QED BY <1>3 DEF Covered, Init, DecryptsSuffice

\* The issuance is read: it knows what the holders hold.
LEMMA LoadCovered ==
  ASSUME CBInv, Covered, Load
  PROVE  Covered'
<1>1. /\ stage = "called" /\ outstanding' = SumFunction(Holding)
      /\ UNCHANGED <<held, inners, why, built>>
  BY DEF Load, callVars
<1>2. SumFunction(Holding) = TotalOf(held) /\ TotalOf(held) \in Nat
  BY TotalBounds DEF Covered, Holding, TotalOf
<1>3. built = 0 /\ inners \in Seq(Inners) /\ built \in 0..Len(inners)
  BY <1>1 DEF CBInv, CBTypeOK, Progress
<1>4. ConvertedUpTo(built)' = ConvertedUpTo(built)
  BY <1>1 DEF ConvertedUpTo, Converted
<1>5. ConvertedUpTo(built) = 0
  BY <1>3, ConvertedStep
<1>6. TotalOf(held)' = TotalOf(held)
  BY <1>1
<1>7. TotalOf(held)' <= outstanding' + ConvertedUpTo(built)'
  BY <1>1, <1>2, <1>4, <1>5, <1>6
<1> QED BY <1>1, <1>2, <1>7 DEF Covered, DecryptsSuffice

\* A call that throws, throws for something else.
LEMMA ThrowCovered ==
  ASSUME Covered, NEW reason, reason # "bound", Throw(reason)
  PROVE  Covered'
BY DEF Covered, Throw, DecryptsSuffice, ledgerVars, callVars

\* What is left to show for an inner: it adds no more than it converts.
LEMMA InnerCovered ==
  ASSUME CBInv, Covered, stage = "building", built < Len(inners), built' = built + 1,
         UNCHANGED <<inners, why, outstanding>>,
         held' \in [Holders -> Amount],
         TotalOf(held') <= TotalOf(held) + Converted[built + 1]
  PROVE  Covered'
<1>1. inners \in Seq(Inners) /\ built \in 0..Len(inners) /\ built \in Nat
  BY DEF CBInv, CBTypeOK, Progress
<1>2. /\ Converted[built + 1] \in Nat /\ ConvertedUpTo(built) \in Nat
      /\ ConvertedUpTo(built + 1) = ConvertedUpTo(built) + Converted[built + 1]
  BY <1>1, ConvertedStep
<1>3. ConvertedUpTo(built)' = ConvertedUpTo(built + 1)
  BY DEF ConvertedUpTo, Converted
<1>4. TotalOf(held) <= outstanding + ConvertedUpTo(built) /\ outstanding \in Nat
  BY DEF Covered
<1>5. TotalOf(held) \in Nat /\ TotalOf(held') \in Nat
  BY TotalBounds DEF Covered
<1>6. TotalOf(held') <= outstanding + ConvertedUpTo(built + 1)
  BY <1>2, <1>4, <1>5
<1> QED BY <1>3, <1>4, <1>6 DEF Covered, DecryptsSuffice

\* An inner is built in its turn.
LEMMA TurnTaken ==
  ASSUME NEW accepted, Sequenced(accepted)
  PROVE  built' = built + 1 /\ UNCHANGED <<inners, why, outstanding>>
BY DEF Sequenced, callVars

\* What an inner that is not a Convert adds: nothing.
LEMMA CurrentConverts ==
  ASSUME CBInv, Covered, NEW operation, Building(operation)
  PROVE  /\ Converted[built + 1] = IF operation = "convert" THEN Current.amount ELSE 0
         /\ Converted[built + 1] \in Nat
         /\ TotalOf(held) \in Nat
<1>1. inners \in Seq(Inners) /\ built \in 0..Len(inners) /\ built < Len(inners)
  BY DEF CBInv, CBTypeOK, Progress, Building
<1>2. built + 1 \in DOMAIN inners
  BY <1>1
<1>3. Converted[built + 1] = IF operation = "convert" THEN Current.amount ELSE 0
  BY <1>2 DEF Converted, Current, Building
<1>4. Converted[built + 1] \in Nat
  BY <1>1, ConvertedStep
<1> QED BY <1>3, <1>4, TotalBounds DEF Covered

\* A spend does not throw for the bound, and is covered when it does not throw.
LEMMA SpendIsBounded ==
  ASSUME CBInv, Covered, stage = "building", NEW h \in Holders, NEW amount \in Nat
  PROVE  /\ "bound" \notin SpendFaults(h, amount)
         /\ SpendFaults(h, amount) = {} => amount <= held[h].spending
<1>1. held[h].spending \in Nat /\ DecryptBound \in Nat /\ held[h].spending <= DecryptBound
  BY BoundHolds DEF Covered, Amount
<1>2. "bound" \notin SpendFaults(h, amount)
  BY <1>1 DEF SpendFaults
<1>3. "funds" \in Reasons
  BY DEF Reasons
<1> QED BY <1>1, <1>2, <1>3 DEF SpendFaults

LEMMA ConvertBackCovered ==
  ASSUME CBInv, Covered, ConvertBack
  PROVE  Covered'
<1> DEFINE h == Current.account
           amount == Current.amount
           faults == SpendFaults(h, amount)
<1>1. Building("convertBack") /\ h \in Holders /\ amount \in Nat
  <2>1. Building("convertBack") /\ Current \in Inners
    BY CurrentIsInner DEF CBInv, CBTypeOK, ConvertBack, Building
  <2> QED BY <2>1, AmountsAssumption DEF Inners, Building
<1>2. ASSUME NEW reason \in faults, Throw(reason) PROVE Covered'
  BY <1>1, <1>2, SpendIsBounded, ThrowCovered DEF Building
<1>3. CASE /\ faults = {}
           /\ held' = [held EXCEPT ![h] = Debited(h, amount)]
           /\ Sequenced(AcceptsSpend(h, predicted[h].bal["spending"], predicted[h].version))
  <2>1. held \in [Holders -> Amount] /\ amount <= held[h].spending
    BY <1>1, <1>3, SpendIsBounded DEF Covered, Building
  <2>2. held' \in [Holders -> Amount] /\ held'[h] = Debited(h, amount)
    BY <1>1, <1>3, <2>1 DEF Debited, Amount
  <2>3. \A k \in Holders \ {h} : held'[k] = held[k]
    BY <1>3, <2>1
  <2>4. TotalOf(held') + (held[h].spending + held[h].inbox)
          = TotalOf(held) + (held'[h].spending + held'[h].inbox)
    BY <1>1, <2>1, <2>2, <2>3, TotalUpdate
  <2>5. TotalOf(held') \in Nat /\ TotalOf(held) \in Nat
    BY <2>1, <2>2, TotalBounds
  <2>6. held[h].spending \in Nat /\ held[h].inbox \in Nat
    BY <1>1, <2>1 DEF Amount
  <2>7. TotalOf(held') <= TotalOf(held)
    BY <1>1, <2>1, <2>2, <2>4, <2>5, <2>6 DEF Debited
  <2>8. /\ stage = "building" /\ built < Len(inners)
        /\ built' = built + 1 /\ UNCHANGED <<inners, why, outstanding>>
    BY <1>1, <1>3, TurnTaken DEF Building
  <2>9. Converted[built + 1] \in Nat
    BY <1>1, CurrentConverts
  <2> QED BY <2>2, <2>5, <2>7, <2>8, <2>9, InnerCovered
<1> QED BY <1>2, <1>3 DEF ConvertBack

LEMMA SendCovered ==
  ASSUME CBInv, Covered, Send
  PROVE  Covered'
<1> DEFINE h == Current.account
           d == Current.destination
           amount == Current.amount
           faults == SpendFaults(h, amount) \cup ReceiptFaults(d)
           accepted == /\ AcceptsSpend(h, predicted[h].bal["spending"], predicted[h].version)
                       /\ token[d].key
<1>1. Building("send") /\ h \in Holders /\ d \in Holders /\ h # d /\ amount \in Nat
  <2>1. Building("send") /\ Current \in Inners
    BY CurrentIsInner DEF CBInv, CBTypeOK, Send, Building
  <2> QED BY <2>1, AmountsAssumption DEF Inners, Building
<1>2. ASSUME NEW reason \in faults, Throw(reason) PROVE Covered'
  <2>1. "bound" \notin faults
    BY <1>1, SpendIsBounded DEF Building, ReceiptFaults
  <2> QED BY <1>2, <2>1, ThrowCovered
<1>3. CASE /\ faults = {}
           /\ held' = [held EXCEPT ![h] = Debited(h, amount), ![d] = Credited(d, amount)]
           /\ Sequenced(accepted)
  <2> DEFINE paid == [held EXCEPT ![h] = Debited(h, amount)]
  <2>1. held \in [Holders -> Amount] /\ amount <= held[h].spending
    BY <1>1, <1>3, SpendIsBounded DEF Covered, Building
  <2>2. paid \in [Holders -> Amount] /\ paid[h] = Debited(h, amount)
    BY <1>1, <2>1 DEF Debited, Amount
  <2>3. held' \in [Holders -> Amount] /\ held'[h] = Debited(h, amount) /\ held'[d] = Credited(d, amount)
    BY <1>1, <1>3, <2>1 DEF Debited, Credited, Amount
  <2>4. /\ \A k \in Holders \ {h} : paid[k] = held[k]
        /\ \A k \in Holders \ {d} : held'[k] = paid[k]
    BY <1>1, <1>3, <2>1
  <2> HIDE DEF paid
  <2>5. /\ TotalOf(paid) + (held[h].spending + held[h].inbox)
             = TotalOf(held) + (paid[h].spending + paid[h].inbox)
        /\ TotalOf(held') + (paid[d].spending + paid[d].inbox)
             = TotalOf(paid) + (held'[d].spending + held'[d].inbox)
    BY <1>1, <2>1, <2>2, <2>3, <2>4, TotalUpdate
  <2>6. TotalOf(held') \in Nat /\ TotalOf(paid) \in Nat /\ TotalOf(held) \in Nat
    BY <2>1, <2>2, <2>3, TotalBounds
  <2>7. /\ held[h].spending \in Nat /\ held[h].inbox \in Nat
        /\ held[d].spending \in Nat /\ held[d].inbox \in Nat
        /\ paid[d] = held[d]
    BY <1>1, <2>1, <2>4 DEF Amount
  <2>8. TotalOf(held') <= TotalOf(held)
    BY <1>1, <2>1, <2>2, <2>3, <2>5, <2>6, <2>7 DEF Debited, Credited
  <2>9. /\ stage = "building" /\ built < Len(inners)
        /\ built' = built + 1 /\ UNCHANGED <<inners, why, outstanding>>
    BY <1>1, <1>3, TurnTaken DEF Building
  <2>10. Converted[built + 1] \in Nat
    BY <1>1, CurrentConverts
  <2> QED BY <2>3, <2>6, <2>8, <2>9, <2>10, InnerCovered
<1> QED BY <1>2, <1>3 DEF Send

LEMMA ConvertCovered ==
  ASSUME CBInv, Covered, Convert
  PROVE  Covered'
<1> DEFINE h == Current.account
           amount == Current.amount
<1>1. Building("convert") /\ h \in Holders /\ amount \in Nat
  <2>1. Building("convert") /\ Current \in Inners
    BY CurrentIsInner DEF CBInv, CBTypeOK, Convert, Building
  <2> QED BY <2>1, AmountsAssumption DEF Inners, Building
<1>2. /\ held' = [held EXCEPT ![h] = Credited(h, amount)]
      /\ Sequenced(AcceptsConvert(h, RegisterKey(h)))
  BY DEF Convert
<1>3. held \in [Holders -> Amount]
  BY DEF Covered
<1>4. held' \in [Holders -> Amount] /\ held'[h] = Credited(h, amount)
  BY <1>1, <1>2, <1>3 DEF Credited, Amount
<1>5. \A k \in Holders \ {h} : held'[k] = held[k]
  BY <1>2, <1>3
<1>6. TotalOf(held') + (held[h].spending + held[h].inbox)
        = TotalOf(held) + (held'[h].spending + held'[h].inbox)
  BY <1>1, <1>3, <1>4, <1>5, TotalUpdate
<1>7. TotalOf(held') \in Nat /\ TotalOf(held) \in Nat
  BY <1>3, <1>4, TotalBounds
<1>8. held[h].spending \in Nat /\ held[h].inbox \in Nat
  BY <1>1, <1>3 DEF Amount
<1>9. TotalOf(held') = TotalOf(held) + amount
  BY <1>1, <1>4, <1>6, <1>7, <1>8 DEF Credited
<1>10. /\ stage = "building" /\ built < Len(inners)
       /\ built' = built + 1 /\ UNCHANGED <<inners, why, outstanding>>
  BY <1>1, <1>2, TurnTaken DEF Building
<1>11. Converted[built + 1] = amount
  BY <1>1, CurrentConverts
<1> QED BY <1>4, <1>7, <1>9, <1>10, <1>11, InnerCovered

LEMMA MergeInboxCovered ==
  ASSUME CBInv, Covered, MergeInbox
  PROVE  Covered'
<1> DEFINE h == Current.account
<1>1. Building("mergeInbox") /\ h \in Holders
  BY CurrentIsInner, InnerFields DEF CBInv, CBTypeOK, MergeInbox, Building
<1>2. CASE Throw("reset")
  BY <1>2, ThrowCovered
<1>3. CASE /\ held' = [held EXCEPT ![h] = [spending |-> @.spending + @.inbox, inbox |-> 0]]
           /\ Sequenced(TRUE)
  <2>1. held \in [Holders -> Amount] /\ held[h].spending \in Nat /\ held[h].inbox \in Nat
    BY <1>1 DEF Covered, Amount
  <2>2. /\ held' \in [Holders -> Amount]
        /\ held'[h] = [spending |-> held[h].spending + held[h].inbox, inbox |-> 0]
        /\ \A k \in Holders \ {h} : held'[k] = held[k]
    BY <1>1, <1>3, <2>1 DEF Amount
  <2>3. TotalOf(held') + (held[h].spending + held[h].inbox)
          = TotalOf(held) + (held'[h].spending + held'[h].inbox)
    BY <1>1, <2>1, <2>2, TotalUpdate
  <2>4. TotalOf(held') \in Nat /\ TotalOf(held) \in Nat
    BY <2>1, <2>2, TotalBounds
  <2>5. TotalOf(held') = TotalOf(held)
    BY <2>1, <2>2, <2>3, <2>4
  <2>6. /\ stage = "building" /\ built < Len(inners)
        /\ built' = built + 1 /\ UNCHANGED <<inners, why, outstanding>>
    BY <1>1, <1>3, TurnTaken DEF Building
  <2>7. Converted[built + 1] \in Nat
    BY <1>1, CurrentConverts
  <2> QED BY <2>2, <2>4, <2>5, <2>6, <2>7, InnerCovered
<1> QED BY <1>2, <1>3 DEF MergeInbox

LEMMA ClawbackCovered ==
  ASSUME CBInv, Covered, Clawback
  PROVE  Covered'
<1> DEFINE h == Current.holder
           faults == ClawbackFaults(h)
<1>1. Building("clawback") /\ h \in Holders
  BY CurrentIsInner, InnerFields DEF CBInv, CBTypeOK, Clawback, Building
<1>2. held \in [Holders -> Amount] /\ held[h].spending \in Nat /\ held[h].inbox \in Nat
  BY <1>1 DEF Covered, Amount
<1>3. ASSUME NEW reason \in faults, Throw(reason) PROVE Covered'
  <2>1. DecryptBound \in Nat /\ held[h].spending + held[h].inbox <= DecryptBound
    BY <1>1, BoundHolds DEF Building
  <2>2. "bound" \notin faults
    BY <1>2, <2>1 DEF ClawbackFaults
  <2> QED BY <1>3, <2>2, ThrowCovered
<1>4. CASE /\ held' = [held EXCEPT ![h] = [spending |-> 0, inbox |-> 0]]
           /\ Sequenced(AcceptsClawback(h, predicted[h].bal["issuer"]))
  <2>1. /\ held' \in [Holders -> Amount]
        /\ held'[h] = [spending |-> 0, inbox |-> 0]
        /\ \A k \in Holders \ {h} : held'[k] = held[k]
    BY <1>1, <1>2, <1>4 DEF Amount
  <2>2. TotalOf(held') + (held[h].spending + held[h].inbox)
          = TotalOf(held) + (held'[h].spending + held'[h].inbox)
    BY <1>1, <1>2, <2>1, TotalUpdate
  <2>3. TotalOf(held') \in Nat /\ TotalOf(held) \in Nat
    BY <1>2, <2>1, TotalBounds
  <2>4. TotalOf(held') <= TotalOf(held)
    BY <1>2, <2>1, <2>2, <2>3
  <2>5. /\ stage = "building" /\ built < Len(inners)
        /\ built' = built + 1 /\ UNCHANGED <<inners, why, outstanding>>
    BY <1>1, <1>4, TurnTaken DEF Building
  <2>6. Converted[built + 1] \in Nat
    BY <1>1, CurrentConverts
  <2> QED BY <2>1, <2>3, <2>4, <2>5, <2>6, InnerCovered
<1> QED BY <1>3, <1>4 DEF Clawback

LEMMA OtherInnersCovered ==
  ASSUME CBInv, Covered, Plain \/ Ticketed
  PROVE  Covered'
<1>1. PICK operation : Building(operation)
  BY DEF Plain, Ticketed
<1>2. /\ stage = "building" /\ built < Len(inners) /\ built' = built + 1
      /\ UNCHANGED <<held, inners, why, outstanding>>
  BY TurnTaken DEF Plain, Ticketed, Building, ledgerVars, callVars
<1>3. Converted[built + 1] \in Nat /\ TotalOf(held) \in Nat
  BY <1>1, CurrentConverts
<1>4. held' \in [Holders -> Amount] /\ TotalOf(held') = TotalOf(held)
  BY <1>2 DEF Covered
<1> QED BY <1>2, <1>3, <1>4, InnerCovered

\* Whatever the Batch does, what the holders hold stays covered.
LEMMA NextCovered == CBInv /\ Covered /\ [Next]_vars => Covered'
<1> SUFFICES ASSUME CBInv, Covered, [Next]_vars PROVE Covered'
  OBVIOUS
<1>1. CASE Load
  BY <1>1, LoadCovered
<1>2. CASE Refuse
  BY <1>2, ThrowCovered DEF Refuse
<1>3. CASE Send
  BY <1>3, SendCovered
<1>4. CASE ConvertBack
  BY <1>4, ConvertBackCovered
<1>5. CASE Convert
  BY <1>5, ConvertCovered
<1>6. CASE MergeInbox
  BY <1>6, MergeInboxCovered
<1>7. CASE Clawback
  BY <1>7, ClawbackCovered
<1>8. CASE Plain \/ Ticketed
  BY <1>8, OtherInnersCovered
<1>9. CASE UNCHANGED vars
  <2>1. UNCHANGED <<held, inners, stage, why, built, outstanding>>
    BY <1>9 DEF vars, ledgerVars, callVars, batchVars
  <2> QED BY <2>1 DEF Covered, DecryptsSuffice, ConvertedUpTo, Converted
<1> QED BY <1>1, <1>2, <1>3, <1>4, <1>5, <1>6, <1>7, <1>8, <1>9 DEF Next

\* No balance that the Batch reads lies beyond the range in which it is searched
\* for, however much its own Converts, Sends and merges have moved.
THEOREM DecryptsAlwaysSuffice == Spec => []DecryptsSuffice
<1>1. CBInv /\ Init => Covered
  BY InitCovered
<1>2. CBInv /\ Covered /\ [Next]_vars => Covered'
  BY NextCovered
<1>3. Covered => DecryptsSuffice
  BY DEF Covered
<1> QED BY <1>1, <1>2, <1>3, AlwaysInv, PTL DEF Spec

=============================================================================
