-------------------------------- MODULE AutofillFee --------------------------------
(***************************************************************************)
(* The Fee that autofill chooses (autofill.ts, getFeeXrp.ts).  Every level *)
(* of a transaction - the transaction itself and, in a Batch, each inner - *)
(* asks the server for its load and, for a special cost, for the reserve:  *)
(* the load may change between any two of these requests.                  *)
(*                                                                         *)
(* Amounts are in drops; the load factor and the cushion of the client,    *)
(* which are decimal fractions, are counted in units of 1 / Unity, so that *)
(* the net fee is rounded where the code rounds it.                        *)
(* Abstracted: requests that fail (the call rejects and no Fee is set).    *)
(***************************************************************************)
EXTENDS Integers, Sequences, FiniteSets, FiniteSetsExt, Functions

CONSTANTS
  FeeTypes,       \* types of transaction, see Kinds
  InnerTypes,     \* choices of a Batch's inner transactions
  Fulfillments,   \* sizes of an EscrowFinish's fulfillment in bytes, or None
  SignerCounts,   \* choices of signersCount and sponsorSignersCount
  Counterparties, \* choices of the signers a LoanSet's counterparty has
  BaseFee,        \* base_fee_xrp
  Unity,          \* what a load factor or a cushion of 1 is written as
  Cushion,        \* client.feeCushion, in 1 / Unity
  LoadFactors,    \* values of load_factor, in 1 / Unity
  Reserve,        \* reserve_inc
  MaxFee          \* client.maxFeeXRP: whole drops, xrpToDrops throws otherwise

Kinds == {"plain", "EscrowFinish", "special", "confidential", "LoanSet", "Batch"}

\* What is not there: a fee not known yet, the fulfillment of a transaction without.
None == -1

Sizes == Nat \cup {None}

ASSUME FeeAssumption ==
  /\ FeeTypes \subseteq Kinds
  /\ \A s \in InnerTypes : s \in Seq([type : Kinds \ {"Batch"}, fulfillment : Sizes])
  /\ Fulfillments \subseteq Sizes
  /\ SignerCounts \cup Counterparties \subseteq Nat
  /\ {BaseFee, Cushion, Reserve, MaxFee} \subseteq Nat
  /\ Unity \in Nat \ {0} /\ LoadFactors \subseteq Nat

VARIABLES
  asked,   \* what the caller asks for
  load,    \* load_factor of the server
  level,   \* 0: the transaction itself; k: the k-th inner; then one past the last
  net,     \* netFeeDrops of the transaction itself, None before it is known
  innerNet, \* netFeeDrops of the inner at hand, None before it is known
  rawTxFees, \* fees of the inners so far
  fee,     \* the Fee, None before it is set
  sawLoads \* the loads the server had since the call began

feeVars == <<asked, load, level, net, innerNet, rawTxFees, fee, sawLoads>>

Requests == [type : FeeTypes, inners : InnerTypes, fulfillment : Fulfillments,
             signers : SignerCounts, sponsors : SignerCounts, counterparty : Counterparties]

FeeInit ==
  /\ asked \in {q \in Requests :
       /\ q.type # "Batch" => q.inners = <<>>
       /\ q.type # "EscrowFinish" => q.fulfillment = None
       /\ q.type # "LoanSet" => q.counterparty = 1}
  /\ load \in LoadFactors /\ sawLoads = {load}
  /\ level = 0 /\ net = None /\ innerNet = None /\ rawTxFees = 0 /\ fee = None

CeilDiv(a, b) == (a + b - 1) \div b

\* toFixed(6) of the base fee times load and cushion: the nearest whole drop,
\* the upper one of two as near.
Rounded(l) == (2 * BaseFee * Cushion * l + Unity * Unity) \div (2 * Unity * Unity)

\* getFeeXrp: limited to the client's maximum.
GetFee(l) == Min({Rounded(l), MaxFee})

\* The base cost of transaction t by its type, with the net fee n of its level; a
\* Batch pays twice for itself and for all its inners.  In sixteenths of a drop.
BaseCost(t, n, inners) ==
  CASE t.type = "special" -> 16 * Reserve
    [] t.type = "Batch" -> 16 * (2 * n + inners)
    [] t.type = "confidential" -> 16 * 10 * n
    [] t.type = "EscrowFinish" /\ t.fulfillment # None -> n * (16 * 33 + t.fulfillment)
    [] OTHER -> 16 * n

\* The limit of the client, which a special cost is exempt from; rounded up.
LimitedCost(type, sixteenths) ==
  CeilDiv(IF type = "special" THEN sixteenths ELSE Min({sixteenths, 16 * MaxFee}), 16)

\* calculateFeePerTransactionType of one level: signers beyond the first signature
\* pay a net fee each, and so do those of the counterparty of a LoanSet.
LevelFee(t, n, inners, signers) ==
  LimitedCost(t.type,
    BaseCost(t, n, inners)
      + 16 * n * (signers + IF t.type = "LoanSet" THEN asked.counterparty ELSE 0))

-----------------------------------------------------------------------------

\* server_info for the transaction itself.
ReadNetFee ==
  /\ net = None
  /\ net' = GetFee(load)
  /\ level' = IF asked.type = "Batch" THEN 1 ELSE 0
  /\ UNCHANGED <<asked, load, innerNet, rawTxFees, fee, sawLoads>>

\* ... and for an inner, one after another.
ReadInnerFee ==
  /\ net # None /\ level \in DOMAIN asked.inners
  /\ innerNet = None
  /\ innerNet' = GetFee(load)
  /\ UNCHANGED <<asked, load, level, net, rawTxFees, fee, sawLoads>>

\* Mutant: the fee of an inner takes the place of those before it.
AddInnerFee_Last ==
  /\ innerNet # None
  /\ rawTxFees' = LevelFee(asked.inners[level], innerNet, 0, 0)
  /\ innerNet' = None
  /\ level' = level + 1
  /\ UNCHANGED <<asked, load, net, fee, sawLoads>>

\* The recursive call for an inner: no signers are counted but those of a
\* counterparty.
AddInnerFee ==
  /\ innerNet # None
  /\ rawTxFees' = rawTxFees + LevelFee(asked.inners[level], innerNet, 0, 0)
  /\ innerNet' = None
  /\ level' = level + 1
  /\ UNCHANGED <<asked, load, net, fee, sawLoads>>

SetFee ==
  /\ net # None /\ fee = None
  /\ asked.type = "Batch" => level = Len(asked.inners) + 1
  /\ fee' = LevelFee(asked, net, rawTxFees, asked.signers + asked.sponsors)
  /\ UNCHANGED <<asked, load, level, net, innerNet, rawTxFees, sawLoads>>

LoadChanges ==
  /\ fee = None
  /\ load' \in LoadFactors \ {load}
  /\ sawLoads' = sawLoads \cup {load'}
  /\ UNCHANGED <<asked, level, net, innerNet, rawTxFees, fee>>

FeeNext == ReadNetFee \/ ReadInnerFee \/ AddInnerFee \/ SetFee \/ LoadChanges

FeeSpec == FeeInit /\ [][FeeNext]_feeVars

-----------------------------------------------------------------------------

\* What a transaction costs, as the comments of autofill.ts (387, 411, 421, 427) say it is
\* charged: so many sixteenths of a base fee, or the reserve.
Sixteenths(t) ==
  CASE t.type = "special" -> 0
    [] t.type = "Batch" -> 16 * 2
    [] t.type = "confidential" -> 16 * 10
    [] t.type = "LoanSet" -> 16 * (1 + asked.counterparty)
    [] t.type = "EscrowFinish" /\ t.fulfillment # None -> 16 * 33 + t.fulfillment
    [] OTHER -> 16

\* ... in drops, at a base fee of so many drops,
Cost(t, unit) == IF t.type = "special" THEN Reserve ELSE CeilDiv(unit * Sixteenths(t), 16)

CostAt(unit) ==
  Cost(asked, unit) + SumFunction([k \in DOMAIN asked.inners |-> Cost(asked.inners[k], unit)])
    + unit * (asked.signers + asked.sponsors)

\* ... and exactly, at a load: nothing rounded, no cushion, in 1 / (16 * Unity) drops.
Exactly(t, l) == IF t.type = "special" THEN 16 * Unity * Reserve ELSE BaseFee * l * Sixteenths(t)

Charge(l) ==
  Exactly(asked, l) + SumFunction([k \in DOMAIN asked.inners |-> Exactly(asked.inners[k], l)])
    + BaseFee * l * (16 * (asked.signers + asked.sponsors))

\* The Fee covers the cost at the lowest load the server had while it was computed,
\* unless the client's limit stops it, and is never more than at the highest: no
\* level is left out, counted twice or scaled by a load that was another one's.
FeeIsBetween ==
  fee # None => /\ fee <= CostAt(Rounded(Max(sawLoads)))
                /\ fee >= Min({MaxFee, CostAt(Rounded(Min(sawLoads)))})

\* getFeeXrp.ts:45 may round a net fee down before every base fee of the transaction
\* multiplies what was lost.  A cushion of half a drop or more at the lowest load makes
\* up for it: then the Fee covers the exact charge, within the client's limit.
CushionCovers ==
  LET l == Min(sawLoads)
  IN fee # None /\ 2 * BaseFee * l * (Cushion - Unity) >= Unity * Unity
       => 16 * Unity * fee >= Min({16 * Unity * MaxFee, Charge(l)})

\* autofill.ts:448: the limit of the client binds every Fee but that of a
\* transaction with a special cost, which is paid in full: it cannot be less.
LimitHolds ==
  fee # None => IF asked.type = "special" THEN fee >= Reserve ELSE fee <= MaxFee

\* The Fee covers its cost, within the client's limit, however the load moves and the
\* net fee is rounded.
FeeCoversLoads == FeeIsBetween /\ CushionCovers /\ LimitHolds

=============================================================================
