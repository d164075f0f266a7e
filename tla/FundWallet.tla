-------------------------------- MODULE FundWallet --------------------------------
(***************************************************************************)
(* Client.fundWallet (client/index.ts) with requestFunding,                *)
(* processSuccessfulResponse and getUpdatedBalance (Wallet/fundWallet.ts): *)
(* the faucet is asked to pay, and the balance of the account is polled at *)
(* an interval until it has grown.  A poll may take longer than the        *)
(* interval, so that several are under way.                                *)
(*                                                                         *)
(* The faucet and the ledger are external.  A poll is answered with the    *)
(* balance of its moment, and the answer handled later; or it fails.       *)
(***************************************************************************)
EXTENDS Naturals

CONSTANTS
  MAX_ATTEMPTS,
  Deposits   \* bound: the largest balance, in payments

ASSUME PollAttemptsAssumption == MAX_ATTEMPTS \in Nat
ASSUME DepositsAssumption == Deposits \in Nat

VARIABLES
  fwState,          \* how far the call is, see FWStates
  startingBalance,
  misread,          \* the balance was asked for, and the request failed
  balance,          \* the account's balance, in payments
  paid,             \* the account was paid since it was asked for its balance
  attempts,         \* attempts left
  interval,         \* the interval is set
  asking,           \* polls the server has not answered yet
  answers,          \* balances answered that are still to be handled, and how many
  polls,            \* polls made so far
  result            \* the balance getUpdatedBalance resolved with

fwVars == <<fwState, startingBalance, misread, balance, paid, attempts, interval, asking,
            answers, polls, result>>

FWStates == {"idle", "starting", "funding", "polling", "funded", "notFunded", "failed"}
FWSettled == {"funded", "notFunded", "failed"}
MaxPolls == MAX_ATTEMPTS + 2

FWInit ==
  /\ fwState = "idle" /\ startingBalance = 0 /\ misread = FALSE
  /\ balance = 0 /\ paid = FALSE
  /\ attempts = MAX_ATTEMPTS + 1 /\ interval = FALSE
  /\ asking = 0 /\ answers = [b \in 0..Deposits |-> 0] /\ polls = 0 /\ result = 0

-----------------------------------------------------------------------------
(* fundWallet: the starting balance.                                       *)

NotConnected ==
  /\ fwState = "idle"
  /\ fwState' = "failed"
  /\ UNCHANGED <<startingBalance, misread, balance, paid, attempts, interval, asking, answers,
                 polls, result>>

\* Without a wallet one is made: nobody knows its address, its balance is 0.
StartNew ==
  /\ fwState = "idle" /\ balance = 0
  /\ fwState' = "funding"
  /\ paid' = FALSE
  /\ UNCHANGED <<startingBalance, misread, balance, attempts, interval, asking, answers,
                 polls, result>>

StartExisting ==
  /\ fwState = "idle"
  /\ fwState' = "starting"
  /\ UNCHANGED <<startingBalance, misread, balance, paid, attempts, interval, asking, answers,
                 polls, result>>

\* getXrpBalance of the wallet is answered, or fails; the failure is swallowed, as
\* it means, for an account that does not exist yet, that it has nothing.
StartingBalance ==
  /\ fwState = "starting"
  /\ fwState' = "funding"
  /\ \/ startingBalance' = balance /\ UNCHANGED misread
     \/ misread' = TRUE /\ UNCHANGED startingBalance
  /\ paid' = FALSE
  /\ UNCHANGED <<balance, attempts, interval, asking, answers, polls, result>>

\* The faucet answers, with the address it pays to; or without, or with an error.
FaucetAnswers ==
  /\ fwState = "funding"
  /\ \/ fwState' = "polling" /\ interval' = TRUE
     \/ fwState' = "failed" /\ UNCHANGED interval
  /\ UNCHANGED <<startingBalance, misread, balance, paid, attempts, asking, answers, polls, result>>

\* The faucet, or somebody else, pays the account.
Deposit ==
  /\ balance < Deposits
  /\ balance' = balance + 1
  /\ paid' = TRUE
  /\ UNCHANGED <<fwState, startingBalance, misread, attempts, interval, asking, answers, polls, result>>

\* The account pays meanwhile.
Spend ==
  /\ balance > 0
  /\ balance' = balance - 1
  /\ UNCHANGED <<fwState, startingBalance, misread, paid, attempts, interval, asking, answers,
                 polls, result>>

-----------------------------------------------------------------------------
(* getUpdatedBalance.                                                      *)

\* resolve(b): only the first one counts.  processSuccessfulResponse compares again.
Resolve(b) ==
  IF fwState = "polling"
  THEN /\ fwState' = IF b > startingBalance THEN "funded" ELSE "notFunded"
       /\ result' = b
  ELSE UNCHANGED <<fwState, result>>

\* The callback of the interval.  `attempts < 0` is tested before the decrement, so
\* that it is called MAX_ATTEMPTS + 2 times: `attempts` counts from MAX_ATTEMPTS + 1
\* here.  The last call resolves and polls all the same.
Tick ==
  /\ interval
  /\ IF attempts = 0 THEN interval' = FALSE /\ Resolve(startingBalance) /\ UNCHANGED attempts
                     ELSE attempts' = attempts - 1 /\ UNCHANGED <<interval, fwState, result>>
  /\ asking' = asking + 1
  /\ polls' = polls + 1
  /\ UNCHANGED <<startingBalance, misread, balance, paid, answers>>

PollAnswered ==
  /\ asking > 0
  /\ asking' = asking - 1
  /\ answers' = [answers EXCEPT ![balance] = @ + 1]
  /\ UNCHANGED <<fwState, startingBalance, misread, balance, paid, attempts, interval, polls, result>>

PollFails ==
  /\ asking > 0
  /\ asking' = asking - 1
  /\ UNCHANGED <<fwState, startingBalance, misread, balance, paid, attempts, interval, answers,
                 polls, result>>

\* Mutant: >=.
HandlePoll_NotLess(b) ==
  /\ answers[b] > 0
  /\ answers' = [answers EXCEPT ![b] = @ - 1]
  /\ IF b >= startingBalance
       THEN /\ interval' = FALSE
            /\ fwState' = IF fwState = "polling" THEN "funded" ELSE fwState
            /\ result' = IF fwState = "polling" THEN b ELSE result
       ELSE UNCHANGED <<interval, fwState, result>>
  /\ UNCHANGED <<startingBalance, misread, balance, paid, attempts, asking, polls>>

HandlePoll(b) ==
  /\ answers[b] > 0
  /\ answers' = [answers EXCEPT ![b] = @ - 1]
  /\ IF b > startingBalance THEN interval' = FALSE /\ Resolve(b)
                            ELSE UNCHANGED <<interval, fwState, result>>
  /\ UNCHANGED <<startingBalance, misread, balance, paid, attempts, asking, polls>>

-----------------------------------------------------------------------------

FWNext ==
  \/ NotConnected \/ StartNew \/ StartExisting \/ StartingBalance \/ FaucetAnswers
  \/ Deposit \/ Spend
  \/ Tick \/ PollAnswered \/ PollFails \/ (\E b \in 0..Deposits : HandlePoll(b))

\* Requests are settled (RequestManager!RequestsSettle), the faucet answers, and an
\* interval that is set fires.
FWFairness ==
  WF_fwVars(StartingBalance) /\ WF_fwVars(FaucetAnswers) /\ WF_fwVars(Tick)

FWSpec == FWInit /\ [][FWNext]_fwVars /\ FWFairness

-----------------------------------------------------------------------------
(* What fundWallet promises.                                               *)

\* Every variable keeps its type.
FWTypeOK ==
  /\ fwState \in FWStates
  /\ startingBalance \in 0..Deposits /\ balance \in 0..Deposits /\ result \in 0..Deposits
  /\ misread \in BOOLEAN /\ paid \in BOOLEAN /\ interval \in BOOLEAN
  /\ attempts \in 0..(MAX_ATTEMPTS + 1)
  /\ asking \in 0..MaxPolls /\ polls \in 0..MaxPolls
  /\ answers \in [0..Deposits -> 0..MaxPolls]

\* Whoever is told that the wallet was funded was paid after the starting balance
\* had been read, though polls overlap and are answered late; unless that balance
\* could not be read and counts as 0.
FundedMeansPaid == fwState = "funded" => result > startingBalance /\ (paid \/ misread)

\* Polling stops with the call: no interval is left behind, whichever poll or the
\* last attempt settled it.
PollingStops == interval <=> fwState = "polling"

\* fundWallet settles, though every poll be left unanswered.
FundEnds == fwState \notin FWSettled /\ fwState # "idle" ~> fwState \in FWSettled

=============================================================================
