---------------------------- MODULE ConfidentialBatch ----------------------------
(***************************************************************************)
(* prepareConfidentialBatch (confidential/batch.ts) with the builders it   *)
(* calls (convert.ts, transfer.ts, ledger.ts), for the inners of one       *)
(* token.  Each inner's proof binds the balance its predecessors leave     *)
(* behind, which the assembler has to predict.                             *)
(*                                                                         *)
(* A step builds one inner.  The ledger, as the inner will find it once    *)
(* the Batch is submitted and if nothing else touches these holders, goes  *)
(* on in the same step: token, held and sequence are its state after the   *)
(* inners built so far.  Balances decrypt to the amounts held there.       *)
(*                                                                         *)
(* Abstracted: keys but for whether there is one, registerKey of the       *)
(* caller, sends to oneself, inners with a Sequence of the caller's, the   *)
(* fee, and the check that the public balance covers a Convert.            *)
(***************************************************************************)
EXTENDS ConfidentialLedger, Functions

CONSTANTS
  MIN_BATCH_INNERS, MAX_BATCH_INNERS,
  Amounts,      \* bound: the amounts of an operation
  MaxInners     \* bound: the longest list of inners a caller passes

ASSUME AmountsAssumption == Amounts \subseteq Nat
ASSUME SizesAssumption == MIN_BATCH_INNERS \in Nat /\ MAX_BATCH_INNERS \in Nat /\ MaxInners \in Nat

\* "plain" is a transaction ready made without a Sequence, "ticketed" one with a
\* TicketSequence.  The account of a clawback is the issuer.
Inners ==
  {op \in [operation : {"send"}, account : Holders, destination : Holders, amount : Amounts] :
     op.account # op.destination}
  \cup [operation : {"convert"}, account : Holders, amount : Amounts]
  \cup [operation : {"convertBack"}, account : Holders, amount : Amounts \ {0}]
  \cup [operation : {"mergeInbox"}, account : Holders]
  \cup [operation : {"clawback"}, account : {Issuer}, holder : Holders]
  \cup [operation : {"plain", "ticketed"}, account : Holders]

VARIABLES
  inners, batchAccount,  \* the parameters of the call
  stage,                 \* how far it is
  why,                   \* what it threw for
  built,                 \* how many inners are built
  predicted,             \* the TokenState of each holder
  next,                  \* the next Sequence of each account
  outstanding,           \* the issuance's ConfidentialOutstandingAmount when it was read
  rejected,              \* the ledger will reject one of the inners built
  restarted              \* holders whose Convert was predicted from a balance that was reset

callVars == <<inners, batchAccount>>
batchVars == <<stage, why, built, predicted, next, outstanding, rejected, restarted>>
vars == <<ledgerVars, callVars, batchVars>>

\* What the call throws for: the number of inners, a balance that is absent or
\* was reset, a destination without a key, a balance beyond the decrypt bound, a
\* balance that does not cover the amount.
Reasons == {"count", "reset", "key", "bound", "funds"}

NoState == [bal |-> [b \in Balances |-> Absent], version |-> 0, key |-> FALSE]

Init ==
  /\ LedgerInit
  /\ inners \in UNION {[1..n -> Inners] : n \in 0..MaxInners}
  /\ batchAccount \in Accounts
  /\ stage = "called" /\ why = "none" /\ built = 0
  /\ predicted = [h \in Holders |-> NoState]
  /\ next = [a \in Accounts |-> 0]
  /\ outstanding = 0
  /\ rejected = FALSE /\ restarted = {}

-----------------------------------------------------------------------------
(* Reading the ledger.                                                     *)

Throw(reason) ==
  /\ stage' = "thrown"
  /\ why' = reason
  /\ UNCHANGED <<ledgerVars, callVars, built, predicted, next, outstanding, rejected, restarted>>

\* Mutant: a Batch of one inner is let through.
CountFits_Any == Len(inners) # 0

CountFits == Len(inners) \in MIN_BATCH_INNERS..MAX_BATCH_INNERS

\* The outer Batch consumes the current Sequence of its own account.
FirstInnerSeq(a) == IF a = batchAccount THEN sequence[a] + 1 ELSE sequence[a]

\* What each holder holds: the issuance knows the total of it.
Holding == [h \in Holders |-> held[h].spending + held[h].inbox]

\* loadStates and the issuance are read at one ledger; the ledger then applies
\* the outer Batch first.
Load ==
  /\ stage = "called"
  /\ CountFits
  /\ stage' = "building"
  /\ predicted' = token
  /\ next' = [a \in Accounts |-> FirstInnerSeq(a)]
  /\ outstanding' = SumFunction(Holding)
  /\ sequence' = [sequence EXCEPT ![batchAccount] = @ + 1]
  /\ UNCHANGED <<token, held, callVars, why, built, rejected, restarted>>

Refuse ==
  /\ stage = "called"
  /\ ~CountFits
  /\ Throw("count")

-----------------------------------------------------------------------------
(* The predictions: a TokenState after an inner, the n-th.                 *)

\* Mutant: the version is not bumped.
ApplyDebit_KeepsVersion(state, n) ==
  [bal |-> [b \in Balances |-> IF b = "inbox" THEN state.bal[b]
                                              ELSE Difference(state.bal[b], Encrypted(n, b))],
   version |-> state.version,
   key |-> state.key]

\* A Send or ConvertBack is taken from the spending balance and the mirrors.
ApplyDebit(state, n) ==
  [bal |-> [b \in Balances |-> IF b = "inbox" THEN state.bal[b]
                                              ELSE Difference(state.bal[b], Encrypted(n, b))],
   version |-> state.version + 1,
   key |-> state.key]

\* A Convert is added to inbox and mirrors, and publishes the key.  A balance
\* that an earlier inner reset is undefined too, and starts afresh.
ApplyConvertCredit(state, n) ==
  [bal |-> [b \in Balances |->
              IF b = "spending" THEN state.bal[b]
              ELSE IF state.bal[b] = Absent THEN Encrypted(n, b)
              ELSE Sum(state.bal[b], Encrypted(n, b))],
   version |-> state.version,
   key |-> TRUE]

ApplyMerge(state) ==
  [bal |-> [b \in Balances |->
              CASE b = "spending" -> Sum(state.bal["spending"], state.bal["inbox"])
                [] b = "inbox" -> Absent
                [] OTHER -> state.bal[b]],
   version |-> state.version + 1,
   key |-> state.key]

ApplyClawback(state) ==
  [bal |-> [b \in Balances |-> Absent],
   version |-> state.version + 1,
   key |-> state.key]

\* Mutant: the ciphertexts are added without being blinded again.
ApplyInboxCredit_AsSent(state, n) ==
  [bal |-> [b \in Balances |-> IF b = "spending" THEN state.bal[b]
                                ELSE Sum(state.bal[b], Encrypted(n, b))],
   version |-> state.version,
   key |-> state.key]

\* A Send is added to the destination's inbox and mirrors.
ApplyInboxCredit(state, n) ==
  [bal |-> [b \in Balances |-> IF b = "spending" THEN state.bal[b]
                                ELSE Sum(state.bal[b], Sum(Encrypted(n, b), Blinding(n, b)))],
   version |-> state.version,
   key |-> state.key]

-----------------------------------------------------------------------------
(* The inners, one after the other.                                        *)

Current == inners[built + 1]

Building(operation) ==
  /\ stage = "building"
  /\ built < Len(inners)
  /\ Current.operation = operation

\* Mutant: Converts of the Batch are left out.
DecryptBound_BeforeBatch == outstanding

\* What each inner adds to the outstanding amount.
Converted == [n \in DOMAIN inners |->
                IF inners[n].operation = "convert" THEN inners[n].amount ELSE 0]

\* The outstanding amount, and what the Batch may add to it.
DecryptBound == outstanding + SumFunction(Converted)

\* What a Send or ConvertBack of holder h throws for.
SpendFaults(h, amount) ==
  {r \in Reasons :
     \/ r = "reset" /\ \E b \in Balances \ {"inbox"} : predicted[h].bal[b] = Absent
     \/ r = "bound" /\ held[h].spending > DecryptBound
     \/ r = "funds" /\ held[h].spending < amount}

\* What a Send throws for on the side of its destination.
ReceiptFaults(h) ==
  {r \in Reasons :
     \/ r = "key" /\ ~predicted[h].key
     \/ r = "reset" /\ \E b \in Balances \ {"spending"} : predicted[h].bal[b] = Absent}

\* What a Clawback from holder h throws for.
ClawbackFaults(h) ==
  {r \in Reasons :
     \/ r = "reset" /\ predicted[h].bal["issuer"] = Absent
     \/ r = "bound" /\ held[h].spending + held[h].inbox > DecryptBound}

\* The inner takes its account's next Sequence; the ledger wants the account's.
Sequenced(accepted) ==
  /\ built' = built + 1
  /\ stage' = IF built' = Len(inners) THEN "assembled" ELSE "building"
  /\ next' = [next EXCEPT ![Current.account] = @ + 1]
  /\ sequence' = [sequence EXCEPT ![Current.account] = @ + 1]
  /\ rejected' = (rejected \/ ~accepted \/ next[Current.account] # sequence[Current.account])
  /\ UNCHANGED <<callVars, why, outstanding>>

Send ==
  /\ Building("send")
  /\ LET h == Current.account
         d == Current.destination
         faults == SpendFaults(h, Current.amount) \cup ReceiptFaults(d)
     IN \/ \E reason \in faults : Throw(reason)
        \/ /\ faults = {}
           /\ predicted' = [predicted EXCEPT ![h] = ApplyDebit(predicted[h], built + 1),
                                             ![d] = ApplyInboxCredit(predicted[d], built + 1)]
           /\ token' = [token EXCEPT ![h] = AfterSpend(h, built + 1),
                                     ![d] = AfterReceipt(d, built + 1)]
           /\ held' = [held EXCEPT ![h] = Debited(h, Current.amount),
                                   ![d] = Credited(d, Current.amount)]
           /\ Sequenced(/\ AcceptsSpend(h, predicted[h].bal["spending"], predicted[h].version)
                        /\ token[d].key)
           /\ UNCHANGED restarted

ConvertBack ==
  /\ Building("convertBack")
  /\ LET h == Current.account
         faults == SpendFaults(h, Current.amount)
     IN \/ \E reason \in faults : Throw(reason)
        \/ /\ faults = {}
           /\ predicted' = [predicted EXCEPT ![h] = ApplyDebit(predicted[h], built + 1)]
           /\ token' = [token EXCEPT ![h] = AfterSpend(h, built + 1)]
           /\ held' = [held EXCEPT ![h] = Debited(h, Current.amount)]
           /\ Sequenced(AcceptsSpend(h, predicted[h].bal["spending"], predicted[h].version))
           /\ UNCHANGED restarted

\* The key is registered when the prediction has none yet.
RegisterKey(h) == ~predicted[h].key

Convert ==
  /\ Building("convert")
  /\ LET h == Current.account
     IN /\ predicted' = [predicted EXCEPT ![h] = ApplyConvertCredit(predicted[h], built + 1)]
        /\ token' = [token EXCEPT ![h] = AfterConvert(h, built + 1)]
        /\ held' = [held EXCEPT ![h] = Credited(h, Current.amount)]
        /\ Sequenced(AcceptsConvert(h, RegisterKey(h)))
        /\ restarted' = IF \E b \in Balances \ {"spending"} :
                              predicted[h].bal[b] = Absent /\ token[h].bal[b] # Absent
                          THEN restarted \cup {h} ELSE restarted

MergeInbox ==
  /\ Building("mergeInbox")
  /\ LET h == Current.account
     IN \/ /\ Absent \in {predicted[h].bal["spending"], predicted[h].bal["inbox"]}
           /\ Throw("reset")
        \/ /\ Absent \notin {predicted[h].bal["spending"], predicted[h].bal["inbox"]}
           /\ predicted' = [predicted EXCEPT ![h] = ApplyMerge(predicted[h])]
           /\ token' = [token EXCEPT ![h] = AfterMerge(h)]
           /\ held' = [held EXCEPT ![h] = [spending |-> @.spending + @.inbox, inbox |-> 0]]
           /\ Sequenced(TRUE)
           /\ UNCHANGED restarted

Clawback ==
  /\ Building("clawback")
  /\ LET h == Current.holder
         faults == ClawbackFaults(h)
     IN \/ \E reason \in faults : Throw(reason)
        \/ /\ faults = {}
           /\ predicted' = [predicted EXCEPT ![h] = ApplyClawback(predicted[h])]
           /\ token' = [token EXCEPT ![h] = AfterClawback(h)]
           /\ held' = [held EXCEPT ![h] = [spending |-> 0, inbox |-> 0]]
           /\ Sequenced(AcceptsClawback(h, predicted[h].bal["issuer"]))
           /\ UNCHANGED restarted

Plain ==
  /\ Building("plain")
  /\ Sequenced(TRUE)
  /\ UNCHANGED <<token, held, predicted, restarted>>

\* A ticket needs no Sequence.
Ticketed ==
  /\ Building("ticketed")
  /\ built' = built + 1
  /\ stage' = IF built' = Len(inners) THEN "assembled" ELSE "building"
  /\ UNCHANGED <<ledgerVars, callVars, why, predicted, next, outstanding, rejected, restarted>>

Next ==
  \/ Load \/ Refuse
  \/ Send \/ ConvertBack \/ Convert \/ MergeInbox \/ Clawback
  \/ Plain \/ Ticketed

Spec == Init /\ [][Next]_vars

-----------------------------------------------------------------------------
(* What the assembler promises.                                            *)

\* Every variable keeps its type, and what is assembled is of a size that
\* rippled accepts.
CBTypeOK ==
  /\ stage \in {"called", "building", "assembled", "thrown"}
  /\ why \in Reasons \cup {"none"}
  /\ built \in 0..Len(inners)
  /\ batchAccount \in Accounts
  /\ next \in [Accounts -> Nat] /\ sequence \in [Accounts -> Nat]
  /\ rejected \in BOOLEAN
  /\ restarted \subseteq Holders
  /\ stage = "assembled" => built \in MIN_BATCH_INNERS..MAX_BATCH_INNERS

\* Whatever balance the assembler has for a holder is the one the ledger will
\* have, to the byte; versions, keys and Sequences are always the ledger's.
PredictionMatches ==
  stage \in {"building", "assembled"} =>
    /\ next = sequence
    /\ \A h \in Holders :
         /\ predicted[h].version = token[h].version
         /\ predicted[h].key = token[h].key
         /\ h \notin restarted =>
              \A b \in Balances : predicted[h].bal[b] \in {Absent, token[h].bal[b]}

\* No inner of a Batch is rejected by the ledger, unless a Convert came after a
\* MergeInbox or Clawback of the same holder.
AcceptedByLedger == rejected => restarted # {}

\* The search that decrypts a balance is wide enough, whatever the Batch did
\* before.
DecryptsSuffice == why # "bound"

\* confidential/batch.ts:49-53: after a reset "a later inner that reads one throws
\* rather than emit a proof rippled would reject".
NothingRejected == ~rejected

=============================================================================
