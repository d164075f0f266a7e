--------------------------------- MODULE Autofill ---------------------------------
(***************************************************************************)
(* Client.autofill of a Batch transaction (client/index.ts, autofill.ts):  *)
(* Sequence, Fee and LastLedgerSequence of the Batch and the Sequences of  *)
(* its inner transactions are asked for in tasks that run side by side,    *)
(* while the accounts go on sending transactions.                          *)
(*                                                                         *)
(* autofill copies the Batch but not its inner transactions: what the loop *)
(* over them fills in is filled in for the caller, who may call again      *)
(* after a rejection.  The tasks of a call that was rejected go on.        *)
(*                                                                         *)
(* Abstracted: addresses, flags and NetworkID; the values of the fee (see  *)
(* AutofillFee) and of LastLedgerSequence; a Sequence of the caller's.     *)
(***************************************************************************)
EXTENDS Integers, FiniteSets

CONSTANTS
  AFAccounts,  \* accounts of the Batch and of its inner transactions
  Payer,       \* the account of the Batch itself
  Inners,      \* positions of the inner transactions: 1..n
  Tickets,     \* choices of the inner transactions that use a ticket
  Bad,         \* choices of the inner transaction that is refused, 0 for none
  AFCalls,     \* calls of autofill, one after another: 1..n
  MaxMoves,    \* bound: transactions that the accounts send meanwhile
  MaxAFFails   \* bound: requests that fail

ASSUME AFAssumption ==
  /\ Payer \in AFAccounts
  /\ IsFiniteSet(Inners) /\ Inners = 1..Cardinality(Inners)
  /\ IsFiniteSet(AFCalls) /\ AFCalls = 1..Cardinality(AFCalls)
  /\ MaxMoves \in Nat /\ MaxAFFails \in Nat

VARIABLES
  batch,       \* account of every inner, those with a ticket, the bad one
  onLedger,    \* the next Sequence of every account
  moves,       \* transactions sent meanwhile
  inner,       \* Sequence of every inner transaction, 0 for null
  filling,     \* every call: "idle", "running", "returned" or "rejected"
  outer,       \* Sequence that a call gave its copy of the Batch
  task,        \* the tasks of every call but the loop
  loop,        \* the loop of autofillBatchTxn of every call
  afFails,
  clean,       \* the last call began with nothing filled in and no loop running
  still        \* no account has sent anything since the last call began

afVars == <<batch, onLedger, moves, inner, filling, outer, task, loop, afFails, clean, still>>

\* The tasks for Fee and LastLedgerSequence are alike: "others" stands for both.
Tasks == {"sequence", "others"}
TaskStates == {"none", "asked", "done", "failed"}
Ended == {"done", "failed"}

\* "go": between two awaits; "asked" and "answered": awaiting account_info.
Phases == {"none", "go", "asked", "answered"} \cup Ended

AFInit ==
  /\ batch \in [account : [Inners -> AFAccounts], tickets : Tickets, bad : Bad]
  /\ onLedger = [a \in AFAccounts |-> 1] /\ moves = 0
  /\ inner = [i \in Inners |-> 0]
  /\ filling = [c \in AFCalls |-> "idle"]
  /\ outer = [c \in AFCalls |-> 0]
  /\ task = [c \in AFCalls |-> [t \in Tasks |-> "none"]]
  /\ loop = [c \in AFCalls |-> [phase |-> "none", at |-> 1, answer |-> 0,
                                sequences |-> [a \in AFAccounts |-> 0]]]
  /\ afFails = 0 /\ clean = TRUE /\ still = TRUE

\* No loop is between two awaits: JavaScript runs it to the next one.
Awaits == \A c \in AFCalls : loop[c].phase # "go"

-----------------------------------------------------------------------------
(* A call, and what Promise.all makes of its tasks.                        *)

StartFilling(c) ==
  /\ Awaits
  /\ filling[c] = "idle"
  /\ \A d \in AFCalls : d < c => filling[d] = "rejected"
  /\ filling' = [filling EXCEPT ![c] = "running"]
  /\ task' = [task EXCEPT ![c] = [t \in Tasks |-> "asked"]]
  /\ loop' = [loop EXCEPT ![c].phase = "go"]
  /\ clean' = (/\ \A i \in Inners : inner[i] = 0
               /\ \A d \in AFCalls : loop[d].phase \in {"none"} \cup Ended)
  /\ still' = TRUE
  /\ UNCHANGED <<batch, onLedger, moves, inner, outer, afFails>>

\* The first task to fail rejects the call, which is returned when all are done.
PromiseAll(c) ==
  LET rejects == loop'[c].phase = "failed" \/ \E t \in Tasks : task'[c][t] = "failed"
      returns == loop'[c].phase = "done" /\ \A t \in Tasks : task'[c][t] = "done"
  IN filling' = [filling EXCEPT ![c] = IF @ = "running" /\ rejects THEN "rejected"
                                       ELSE IF @ = "running" /\ returns THEN "returned" ELSE @]

TaskDone(c, t) ==
  /\ Awaits
  /\ task[c][t] = "asked"
  /\ task' = [task EXCEPT ![c][t] = "done"]
  /\ outer' = IF t = "sequence" THEN [outer EXCEPT ![c] = onLedger[Payer]] ELSE outer
  /\ UNCHANGED loop
  /\ PromiseAll(c)
  /\ UNCHANGED <<batch, onLedger, moves, inner, afFails, clean, still>>

\* Mutant: a task that fails is never heard of.
TaskFails_Silent(c, t) ==
  /\ Awaits
  /\ afFails < MaxAFFails
  /\ task[c][t] = "asked"
  /\ task' = [task EXCEPT ![c][t] = "none"]
  /\ afFails' = afFails + 1
  /\ UNCHANGED <<loop, filling, batch, onLedger, moves, inner, outer, clean, still>>

TaskFails(c, t) ==
  /\ Awaits
  /\ afFails < MaxAFFails
  /\ task[c][t] = "asked"
  /\ task' = [task EXCEPT ![c][t] = "failed"]
  /\ afFails' = afFails + 1
  /\ UNCHANGED loop
  /\ PromiseAll(c)
  /\ UNCHANGED <<batch, onLedger, moves, inner, outer, clean, still>>

-----------------------------------------------------------------------------
(* The loop over the inner transactions.                                   *)

\* The rest of an iteration: an inner that is signed, or whose Fee is not "0",
\* is refused, after its Sequence was set.
NextInner(l) ==
  IF l.at = batch.bad THEN [l EXCEPT !.phase = "failed"]
                      ELSE [l EXCEPT !.phase = "go", !.at = @ + 1]

WantsSequence(i) == inner[i] = 0 /\ i \notin batch.tickets

Iterate(c) ==
  LET l == loop[c]
      i == l.at
      a == batch.account[i]
  IN /\ l.phase = "go"
     /\ i \in Inners
     /\ \/ /\ ~WantsSequence(i)
           /\ loop' = [loop EXCEPT ![c] = NextInner(l)]
           /\ UNCHANGED inner
        \/ /\ WantsSequence(i)
           /\ l.sequences[a] # 0
           /\ inner' = [inner EXCEPT ![i] = l.sequences[a]]
           /\ loop' = [loop EXCEPT ![c] = NextInner([l EXCEPT !.sequences[a] = @ + 1])]
        \/ /\ WantsSequence(i)
           /\ l.sequences[a] = 0
           /\ loop' = [loop EXCEPT ![c].phase = "asked"]
           /\ UNCHANGED inner
     /\ UNCHANGED task
     /\ PromiseAll(c)
     /\ UNCHANGED <<batch, onLedger, moves, outer, afFails, clean, still>>

LoopEnds(c) ==
  /\ loop[c].phase = "go"
  /\ loop[c].at \notin Inners
  /\ loop' = [loop EXCEPT ![c].phase = "done"]
  /\ UNCHANGED task
  /\ PromiseAll(c)
  /\ UNCHANGED <<batch, onLedger, moves, inner, outer, afFails, clean, still>>

\* The server reads the Sequence ...
ServerAnswers(c) ==
  /\ Awaits
  /\ loop[c].phase = "asked"
  /\ loop' = [loop EXCEPT ![c].phase = "answered",
                          ![c].answer = onLedger[batch.account[loop[c].at]]]
  /\ UNCHANGED <<batch, onLedger, moves, inner, filling, outer, task, afFails, clean, still>>

LoopRequestFails(c) ==
  /\ Awaits
  /\ afFails < MaxAFFails
  /\ loop[c].phase = "asked"
  /\ loop' = [loop EXCEPT ![c].phase = "failed"]
  /\ afFails' = afFails + 1
  /\ UNCHANGED task
  /\ PromiseAll(c)
  /\ UNCHANGED <<batch, onLedger, moves, inner, outer, clean, still>>

\* Mutant: the Batch's own Sequence is not stepped over.
FirstSequence_OfTheLedger(a, answer) == answer

\* The Batch consumes a Sequence of its own account before its inners do.
FirstSequence(a, answer) == IF a = Payer THEN answer + 1 ELSE answer

SequenceAfter(s) == s + 1

\* ... and the loop goes on with it, whatever the inner holds by now.
LoopContinues(c) ==
  LET l == loop[c]
      a == batch.account[l.at]
      s == FirstSequence(a, l.answer)
  IN /\ Awaits
     /\ l.phase = "answered"
     /\ inner' = [inner EXCEPT ![l.at] = s]
     /\ loop' = [loop EXCEPT ![c] =
                   NextInner([l EXCEPT !.sequences[a] = SequenceAfter(s), !.answer = 0])]
     /\ UNCHANGED task
     /\ PromiseAll(c)
     /\ UNCHANGED <<batch, onLedger, moves, outer, afFails, clean, still>>

\* A transaction of the account is applied to the open ledger.
AccountMoves(a) ==
  /\ Awaits
  /\ moves < MaxMoves
  /\ \E c \in AFCalls : filling[c] = "running"
  /\ onLedger' = [onLedger EXCEPT ![a] = @ + 1]
  /\ moves' = moves + 1
  /\ still' = FALSE
  /\ UNCHANGED <<batch, inner, filling, outer, task, loop, afFails, clean>>

-----------------------------------------------------------------------------

AFNext ==
  \/ \E c \in AFCalls :
       \/ StartFilling(c)
       \/ \E t \in Tasks : TaskDone(c, t) \/ TaskFails(c, t)
       \/ Iterate(c) \/ LoopEnds(c) \/ ServerAnswers(c) \/ LoopRequestFails(c)
       \/ LoopContinues(c)
  \/ \E a \in AFAccounts : AccountMoves(a)

\* A request is answered or rejected in the end (see RequestsSettle of
\* RequestManager), and the loop is run.
AFFairness ==
  \A c \in AFCalls :
    /\ \A t \in Tasks : WF_afVars(TaskDone(c, t))
    /\ WF_afVars(Iterate(c) \/ LoopEnds(c) \/ ServerAnswers(c) \/ LoopContinues(c))

AFSpec == AFInit /\ [][AFNext]_afVars /\ AFFairness

-----------------------------------------------------------------------------

\* Every variable keeps its type.
AFTypeOK ==
  /\ batch \in [account : [Inners -> AFAccounts], tickets : Tickets, bad : Bad]
  /\ onLedger \in [AFAccounts -> 1 .. 1 + moves]
  /\ moves \in 0..MaxMoves /\ afFails \in 0..MaxAFFails
  /\ \A i \in Inners : inner[i] \in Nat /\ (i \in batch.tickets => inner[i] = 0)
  /\ filling \in [AFCalls -> {"idle", "running", "returned", "rejected"}]
  /\ outer \in [AFCalls -> 0 .. 1 + moves]
  /\ task \in [AFCalls -> [Tasks -> TaskStates]]
  /\ \A c \in AFCalls : loop[c].phase \in Phases /\ loop[c].at \in 1 .. Cardinality(Inners) + 1
  /\ clean \in BOOLEAN /\ still \in BOOLEAN

\* The inners whose Sequence is the loop's to choose, of the same account as i
\* and not after it.
UpTo(i) == {k \in Inners \ batch.tickets : k <= i /\ batch.account[k] = batch.account[i]}

Returned(c) == filling[c] = "returned" /\ clean

\* When a call that found no inner filled in returns, the inners of an account
\* have consecutive Sequences, whatever the account sent while autofill ran and
\* whoever else's task was slow or failed.
InnersConsecutive ==
  \A c \in AFCalls : Returned(c) =>
    \A i, j \in Inners \ batch.tickets :
      batch.account[i] = batch.account[j] =>
        inner[j] - inner[i] = Cardinality(UpTo(j)) - Cardinality(UpTo(i))

\* ... and if no account sent anything meanwhile they are the Sequences that the
\* ledger will want: those of the Batch's own account come after its own, although
\* the two were asked for separately.
InnersFollowOuter ==
  \A c \in AFCalls : Returned(c) /\ still =>
    \A i \in Inners \ batch.tickets :
      inner[i] = Cardinality(UpTo(i)) + IF batch.account[i] = Payer
                                        THEN outer[c]
                                        ELSE onLedger[batch.account[i]] - 1

\* The inners of a Batch are filled in as the ledger will want them.
InnersInOrder == InnersConsecutive /\ InnersFollowOuter

\* A call of autofill returns or rejects.
AutofillEnds == \A c \in AFCalls : filling[c] = "running" ~> filling[c] # "running"

=============================================================================
