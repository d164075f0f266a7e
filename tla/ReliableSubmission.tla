---------------------------- MODULE ReliableSubmission ----------------------------
(***************************************************************************)
(* Client.submit and Client.submitAndWait (client/index.ts) with           *)
(* sugar/submit.ts and what autofill asks the server for on their behalf,  *)
(* next to the ledger they wait for.                                       *)
(*                                                                         *)
(* All transactions are of one account: calls for other accounts do not    *)
(* meet.  A transaction is its Sequence and its LastLedgerSequence (0: it  *)
(* has none yet).  A request is answered by the server at one moment and   *)
(* the program goes on at a later one; or it fails, as RequestManager has  *)
(* it.  The server and its ledgers are external, and modelled as far as    *)
(* the code relies on them.                                                *)
(***************************************************************************)
EXTENDS Naturals

CONSTANTS
  Txs,            \* the transactions, one per call of submit or submitAndWait
  Awaited,        \* those given to submitAndWait
  Given,          \* Given[t] is in what states the caller may pass t
  LEDGER_OFFSET,  \* how far ahead autofill puts LastLedgerSequence
  MaxSequence,    \* bound: the largest Sequence of a transaction signed before
  MaxLedger       \* bound: the ledgers that close without a call waiting

\* To be autofilled and signed; signed; signed without a LastLedgerSequence; to
\* be signed, but without a wallet.
GivenKinds == {"unsigned", "signed", "bare", "noWallet"}

ASSUME AwaitedAssumption == Awaited \subseteq Txs
ASSUME GivenAssumption == Given \in [Txs -> SUBSET GivenKinds]
ASSUME OffsetAssumption == LEDGER_OFFSET \in Nat \ {0}
ASSUME BoundsAssumption == MaxSequence \in Nat /\ MaxLedger \in Nat

VARIABLES
  pc, seq, lls,        \* of each call: where it is, its Sequence, its LastLedgerSequence
  latest,              \* the ledger index its last poll was answered
  reply,               \* the last answer to its submit or tx request
  outcome,             \* how its promise was settled
  acked,               \* calls that were told that the transaction was applied
  ackedBefore,         \* those that had been when the call began
  ledger,              \* the last validated ledger
  nextSeq,             \* the account's Sequence in it
  ledgerOf,            \* the validated ledger a transaction is in, 0 for none
  open,                \* transactions applied to the open ledger
  queue,               \* transactions held back for a later one
  inFlight,            \* submit requests on their way to the server
  outpaced             \* calls during which a ledger closed between two polls

callVars == <<pc, seq, lls, latest, reply, outcome, acked, ackedBefore>>
serverVars == <<ledger, nextSeq, ledgerOf, open, queue, inFlight, outpaced>>
rsVars == <<callVars, serverVars>>

Asking == {"autofill", "submitting", "askLedger", "askTx"}
Waiting == {"sleeping", "askLedger", "gotLedger", "askTx", "gotTx"}
PCs == {"idle", "done"} \cup Asking \cup Waiting
Outcomes == {"none", "invalid", "failed", "submitted", "malformed", "expired", "validated"}
EngineResults == {"tes", "tem", "other"}
Replies == {"none", "notFound", "pending", "validated"} \cup EngineResults

RSInit ==
  /\ pc = [t \in Txs |-> "idle"]
  /\ seq = [t \in Txs |-> 0]
  /\ lls = [t \in Txs |-> 0]
  /\ latest = [t \in Txs |-> 0]
  /\ reply = [t \in Txs |-> "none"]
  /\ outcome = [t \in Txs |-> "none"]
  /\ acked = {}
  /\ ackedBefore = [t \in Txs |-> {}]
  /\ ledger = 1
  /\ nextSeq = 1
  /\ ledgerOf = [t \in Txs |-> 0]
  /\ open = {}
  /\ queue = {}
  /\ inFlight = {}
  /\ outpaced = {}

\* The call goes on to the next point, or settles its promise.
GoTo(t, point) == pc' = [pc EXCEPT ![t] = point] /\ UNCHANGED outcome
End(t, o) == pc' = [pc EXCEPT ![t] = "done"] /\ outcome' = [outcome EXCEPT ![t] = o]

-----------------------------------------------------------------------------
(* The server.                                                             *)

\* No ledger after this one may include t.
Dead(t) == lls[t] # 0 /\ lls[t] <= ledger

\* n is the account's Sequence in the open ledger.
IsCurrent(n) ==
  /\ n >= nextSeq
  /\ \A t \in open : seq[t] # n
  /\ \A m \in nextSeq..(n - 1) : \E t \in open : seq[t] = m

ServerReceives(t) ==
  /\ t \in inFlight
  /\ inFlight' = inFlight \ {t}
  /\ \/ /\ reply' = [reply EXCEPT ![t] = "tem"]
        /\ UNCHANGED <<open, queue>>
     \/ /\ ~Dead(t) /\ IsCurrent(seq[t])
        /\ reply' = [reply EXCEPT ![t] = "tes"]
        /\ open' = open \cup {t}
        /\ UNCHANGED queue
     \/ /\ reply' = [reply EXCEPT ![t] = "other"]
        /\ queue' \in {queue} \cup (IF Dead(t) \/ seq[t] < nextSeq THEN {} ELSE {queue \cup {t}})
        /\ UNCHANGED open
  /\ UNCHANGED <<pc, seq, lls, latest, outcome, acked, ackedBefore, ledger, nextSeq, ledgerOf,
                 outpaced>>

\* t has looked for its transaction since the last ledger closed.
UpToDate(t) ==
  /\ pc[t] = "submitting" => t \in inFlight
  /\ pc[t] \in Waiting => latest[t] = ledger /\ pc[t] \in {"gotTx", "sleeping"}

\* The next ledger takes transactions whose Sequences follow the account's;
\* what can be in no later one is dropped.
CloseLedger ==
  /\ ledger < MaxLedger \/ \E t \in Txs : pc[t] \in Asking \cup Waiting /\ ledger <= lls[t]
  /\ ledger' = ledger + 1
  /\ outpaced' = outpaced \cup {t \in Awaited : ~UpToDate(t)}
  /\ \E S \in SUBSET (open \cup queue) :
       /\ \A t \in S : ~Dead(t)
       /\ \A t, q \in S : seq[t] = seq[q] => t = q
       /\ nextSeq' \in {nextSeq} \cup {seq[t] + 1 : t \in S}
       /\ {seq[t] : t \in S} = nextSeq..(nextSeq' - 1)
       /\ ledgerOf' = [t \in Txs |-> IF t \in S THEN ledger' ELSE ledgerOf[t]]
       /\ LET Lasts(t) == t \notin S /\ seq[t] >= nextSeq' /\ (lls[t] # 0 => lls[t] > ledger')
          IN open' = {t \in open : Lasts(t)} /\ queue' = {t \in queue : Lasts(t)}
  /\ UNCHANGED <<callVars, inFlight>>

-----------------------------------------------------------------------------
(* getSignedTx and submitRequest.                                          *)

\* An unsigned transaction: autofill sends its requests.
StartAutofill(t) ==
  /\ pc[t] = "idle" /\ "unsigned" \in Given[t]
  /\ GoTo(t, "autofill")
  /\ ackedBefore' = [ackedBefore EXCEPT ![t] = acked]
  /\ UNCHANGED <<seq, lls, latest, reply, acked, serverVars>>

\* A signed transaction is submitted as it is.
StartSigned(t) ==
  /\ pc[t] = "idle"
  /\ \/ "signed" \in Given[t] /\ \E l \in 1..(MaxLedger + 1) : lls' = [lls EXCEPT ![t] = l]
     \/ "bare" \in Given[t] /\ t \notin Awaited /\ UNCHANGED lls
  /\ \E n \in 1..MaxSequence : seq' = [seq EXCEPT ![t] = n]
  /\ GoTo(t, "submitting")
  /\ inFlight' = inFlight \cup {t}
  /\ UNCHANGED <<latest, reply, acked, ackedBefore, ledger, nextSeq, ledgerOf, open,
                 queue, outpaced>>

\* ValidationError: there is no wallet, or no LastLedgerSequence to wait for.
Refuse(t) ==
  /\ pc[t] = "idle"
  /\ "noWallet" \in Given[t] \/ ("bare" \in Given[t] /\ t \in Awaited)
  /\ End(t, "invalid")
  /\ UNCHANGED <<seq, lls, latest, reply, acked, ackedBefore, serverVars>>

\* Mutant: account_info is asked for the validated ledger.
AutofillSequence_Validated(t) ==
  /\ pc[t] = "autofill" /\ seq[t] = 0
  /\ seq' = [seq EXCEPT ![t] = nextSeq]
  /\ UNCHANGED <<pc, lls, latest, reply, outcome, acked, ackedBefore, serverVars>>

\* account_info for the open ledger is answered.
AutofillSequence(t) ==
  /\ pc[t] = "autofill" /\ seq[t] = 0
  /\ \E n \in {nextSeq} \cup {seq[q] + 1 : q \in open} :
       IsCurrent(n) /\ seq' = [seq EXCEPT ![t] = n]
  /\ UNCHANGED <<pc, lls, latest, reply, outcome, acked, ackedBefore, serverVars>>

\* getLedgerIndex() of autofill is answered.
AutofillLedger(t) ==
  /\ pc[t] = "autofill" /\ lls[t] = 0
  /\ lls' = [lls EXCEPT ![t] = ledger + LEDGER_OFFSET]
  /\ UNCHANGED <<pc, seq, latest, reply, outcome, acked, ackedBefore, serverVars>>

\* Mutant: the answers are not awaited.
SignAndSubmit_TooEarly(t) ==
  /\ pc[t] = "autofill"
  /\ GoTo(t, "submitting")
  /\ inFlight' = inFlight \cup {t}
  /\ UNCHANGED <<seq, lls, latest, reply, acked, ackedBefore, ledger, nextSeq, ledgerOf, open,
                 queue, outpaced>>

\* All requests of autofill are answered.
SignAndSubmit(t) ==
  /\ pc[t] = "autofill" /\ seq[t] # 0 /\ lls[t] # 0
  /\ GoTo(t, "submitting")
  /\ inFlight' = inFlight \cup {t}
  /\ UNCHANGED <<seq, lls, latest, reply, acked, ackedBefore, ledger, nextSeq, ledgerOf, open,
                 queue, outpaced>>

SubmitAnswered(t) ==
  /\ pc[t] = "submitting" /\ reply[t] # "none"
  /\ \/ t \notin Awaited /\ End(t, "submitted")
     \/ t \in Awaited /\ reply[t] = "tem" /\ End(t, "malformed")
     \/ t \in Awaited /\ reply[t] # "tem" /\ GoTo(t, "sleeping")
  /\ acked' = IF reply[t] = "tes" THEN acked \cup {t} ELSE acked
  /\ UNCHANGED <<seq, lls, latest, reply, ackedBefore, serverVars>>

-----------------------------------------------------------------------------
(* waitForFinalTransactionOutcome.                                         *)

WakeUp(t) ==
  /\ pc[t] = "sleeping"
  /\ GoTo(t, "askLedger")
  /\ UNCHANGED <<seq, lls, latest, reply, acked, ackedBefore, serverVars>>

LedgerAnswered(t) ==
  /\ pc[t] = "askLedger"
  /\ latest' = [latest EXCEPT ![t] = ledger]
  /\ GoTo(t, "gotLedger")
  /\ UNCHANGED <<seq, lls, reply, acked, ackedBefore, serverVars>>

\* Mutants: off by one; the wrong way round; no test at all.
TooLate_OffByOne(t) == lls[t] <= latest[t]
TooLate_Reversed(t) == lls[t] > latest[t]
TooLate_Never(t) == FALSE

TooLate(t) == lls[t] < latest[t]

JudgeLedger(t) ==
  /\ pc[t] = "gotLedger"
  /\ \/ TooLate(t) /\ End(t, "expired")
     \/ ~TooLate(t) /\ GoTo(t, "askTx")
  /\ UNCHANGED <<seq, lls, latest, reply, acked, ackedBefore, serverVars>>

TxAnswered(t) ==
  /\ pc[t] = "askTx"
  /\ reply' = [reply EXCEPT ![t] = IF ledgerOf[t] # 0 THEN "validated"
                                   ELSE IF t \in open THEN "pending" ELSE "notFound"]
  /\ GoTo(t, "gotTx")
  /\ UNCHANGED <<seq, lls, latest, acked, ackedBefore, serverVars>>

\* Mutant: it is enough that the transaction is found.
Conclusive_WhenFound(t) == reply[t] # "notFound"

Conclusive(t) == reply[t] = "validated"

Conclude(t) ==
  /\ pc[t] = "gotTx"
  /\ \/ Conclusive(t) /\ End(t, "validated")
     \/ ~Conclusive(t) /\ GoTo(t, "sleeping")
  /\ UNCHANGED <<seq, lls, latest, reply, acked, ackedBefore, serverVars>>

\* A request is refused, times out or is answered by an error; a submit may have
\* reached the server all the same, or reach it later.
RequestFails(t) ==
  /\ pc[t] \in Asking
  /\ End(t, "failed")
  /\ UNCHANGED <<seq, lls, latest, reply, acked, ackedBefore, serverVars>>

-----------------------------------------------------------------------------

Answered(t) ==
  \/ AutofillSequence(t) \/ AutofillLedger(t)
  \/ SubmitAnswered(t) \/ LedgerAnswered(t) \/ TxAnswered(t)

Continue(t) == SignAndSubmit(t) \/ WakeUp(t) \/ JudgeLedger(t) \/ Conclude(t)

RSNext ==
  \/ \E t \in Txs : \/ StartAutofill(t) \/ StartSigned(t) \/ Refuse(t)
                    \/ Answered(t) \/ RequestFails(t) \/ Continue(t)
                    \/ ServerReceives(t)
  \/ CloseLedger

\* Every request is settled, by its timeout if not by an answer
\* (RequestManager!RequestsSettle); timers fire; ledgers close.
RSFairness ==
  /\ \A t \in Txs : WF_rsVars(Answered(t) \/ RequestFails(t)) /\ WF_rsVars(Continue(t))
  /\ WF_rsVars(CloseLedger)

RSSpec == RSInit /\ [][RSNext]_rsVars /\ RSFairness

-----------------------------------------------------------------------------
(* What submission promises.                                               *)

\* Every variable keeps its type; what is sent has been filled in.
RSTypeOK ==
  /\ pc \in [Txs -> PCs]
  /\ seq \in [Txs -> Nat] /\ lls \in [Txs -> Nat] /\ latest \in [Txs -> Nat]
  /\ reply \in [Txs -> Replies]
  /\ outcome \in [Txs -> Outcomes]
  /\ acked \subseteq Txs
  /\ ackedBefore \in [Txs -> SUBSET Txs]
  /\ ledger \in Nat /\ nextSeq \in Nat
  /\ ledgerOf \in [Txs -> Nat]
  /\ open \subseteq Txs /\ queue \subseteq Txs /\ outpaced \subseteq Txs
  /\ inFlight \subseteq {t \in Txs : seq[t] # 0}

\* submitAndWait resolves only with a transaction that is in a validated ledger,
\* one no later than its LastLedgerSequence.
ResolvedIsValidated ==
  \A t \in Txs : outcome[t] = "validated" => ledgerOf[t] \in 1..lls[t]

\* When submitAndWait has resolved, or rejected because LastLedgerSequence has
\* passed or the transaction is malformed, nothing changes any more for the
\* transaction: who submits a replacement then does not pay twice.
OutcomeIsFinal ==
  [][\A t \in Txs : outcome[t] \in {"validated", "expired", "malformed"}
                      => ledgerOf'[t] = ledgerOf[t]]_rsVars

\* The Sequence of a transaction that was applied is given to a later one only
\* if the former can be in no ledger any more: calls made one after the other
\* do not compete.
NoSequenceReuse ==
  \A t \in Txs : \A q \in ackedBefore[t] :
    seq[t] = seq[q] => ledgerOf[q] = 0 /\ Dead(q)

\* Each call ends.
SubmissionsEnd == \A t \in Txs : pc[t] # "idle" ~> pc[t] = "done"

\* As long as no ledger closed between two of its polls, a call that rejects because
\* LastLedgerSequence has passed is right: the transaction is in no ledger.
PromptExpiryIsRight ==
  \A t \in Txs : outcome[t] = "expired" /\ t \notin outpaced => ledgerOf[t] = 0

\* sugar/submit.ts:70-72: once LastLedgerSequence is surpassed by the latest
\* ledger, the transaction "will never be included in a validated ledger".
ExpiredIsNotIncluded == \A t \in Txs : outcome[t] = "expired" => ledgerOf[t] = 0

=============================================================================
