---------------------------------- MODULE Metadata ----------------------------------
(***************************************************************************)
(* The balances that a transaction changed, read out of its metadata       *)
(* (getBalanceChanges.ts).  A transaction changes the ledger in steps; its *)
(* metadata holds the difference between the ledgers before and after it.  *)
(*                                                                         *)
(* An optional field is a sequence of at most one value.  Abstracted:      *)
(* amounts are small integers; the balance a created node leaves out is    *)
(* zero.                                                                   *)
(***************************************************************************)
EXTENDS Integers, Sequences, FiniteSets

CONSTANTS
  Holders,     \* accounts, numbered in the order of their AccountIDs
  Currencies,
  MaxDrops,    \* bound: XRP of an account
  MaxLine      \* bound: balance of a trust line, either way

ASSUME MetadataAssumption ==
  Holders \subseteq Nat /\ MaxDrops \in Nat /\ MaxLine \in Nat

\* A trust line, as its LowLimit and HighLimit name it.
Lines == {l \in [low : Holders, high : Holders, currency : Currencies] : l.low < l.high}

VARIABLES
  before,   \* the ledger before: XRP and lines, functions from those that exist
  after,    \* the ledger so far
  touched   \* entries whose other fields changed

mdVars == <<before, after, touched>>

Put(f, x, v) == [y \in DOMAIN f \cup {x} |-> IF y = x THEN v ELSE f[y]]
Drop(f, x) == [y \in DOMAIN f \ {x} |-> f[y]]

MDInit ==
  /\ \E S \in SUBSET Holders, T \in SUBSET Lines :
       \E drops \in [S -> 0..MaxDrops], owed \in [T -> {-MaxLine, 0}] :
         before = [drops |-> drops, lines |-> owed]
  /\ after = before
  /\ touched = {}

-----------------------------------------------------------------------------
(* The transaction, one entry at a time.                                   *)

SetDrops(a, v) ==
  /\ after' = [after EXCEPT !.drops = Put(@, a, v)]
  /\ UNCHANGED <<before, touched>>

DeleteAccount(a) ==
  /\ a \in DOMAIN after.drops
  /\ after' = [after EXCEPT !.drops = Drop(@, a)]
  /\ UNCHANGED <<before, touched>>

SetLine(l, v) ==
  /\ after' = [after EXCEPT !.lines = Put(@, l, v)]
  /\ UNCHANGED <<before, touched>>

DeleteLine(l) ==
  /\ l \in DOMAIN after.lines
  /\ after' = [after EXCEPT !.lines = Drop(@, l)]
  /\ UNCHANGED <<before, touched>>

\* Sequence, limits, flags: the entry is in the metadata without its balance changing.
Touch(x) ==
  /\ touched = {}
  /\ touched' = {x}
  /\ UNCHANGED <<before, after>>

MDNext ==
  \/ \E a \in Holders : \E v \in 0..MaxDrops : SetDrops(a, v)
  \/ \E a \in Holders : DeleteAccount(a)
  \/ \E l \in Lines, v \in {-MaxLine, 0, MaxLine} : SetLine(l, v)
  \/ \E l \in Lines : DeleteLine(l)
  \/ \E x \in DOMAIN before.lines : Touch(x)

MDSpec == MDInit /\ [][MDNext]_mdVars

-----------------------------------------------------------------------------
(* The metadata, as rippled writes it.                                     *)

\* The node of an entry: created with its balance unless that is a zero of XRP;
\* otherwise with its final balance - zero if it was deleted - and the previous
\* one if that was another.
NodeOf(x, old, new, type) ==
  LET value(f) == IF x \in DOMAIN f THEN f[x] ELSE 0
      created == x \notin DOMAIN old
  IN [entry |-> x, type |-> type,
      newBalance |-> IF created /\ ~(type = "AccountRoot" /\ value(new) = 0)
                     THEN <<value(new)>> ELSE <<>>,
      finalBalance |-> IF created THEN <<>> ELSE <<value(new)>>,
      previousBalance |-> IF ~created /\ value(old) # value(new)
                          THEN <<value(old)>> ELSE <<>>]

Affected(old, new, others) ==
  {x \in DOMAIN old \cup DOMAIN new :
     \/ x \in others
     \/ (x \in DOMAIN old) # (x \in DOMAIN new)
     \/ (x \in DOMAIN old /\ x \in DOMAIN new) /\ old[x] # new[x]}

AccountNodes ==
  {NodeOf(x, before.drops, after.drops, "AccountRoot") :
     x \in Affected(before.drops, after.drops, {})}
LineNodes ==
  {NodeOf(x, before.lines, after.lines, "RippleState") :
     x \in Affected(before.lines, after.lines, touched)}

-----------------------------------------------------------------------------
(* getBalanceChanges                                                       *)

\* Mutant: what there was is not taken off.
ComputeBalanceChange_Final(node) ==
  IF node.newBalance # <<>> THEN node.newBalance[1]
  ELSE IF node.previousBalance # <<>> THEN node.finalBalance[1] ELSE 0

\* computeBalanceChange, 0 for null
ComputeBalanceChange(node) ==
  IF node.newBalance # <<>> THEN node.newBalance[1]
  ELSE IF node.previousBalance # <<>> THEN node.finalBalance[1] - node.previousBalance[1]
  ELSE 0

XRPQuantity(node) ==
  {[account |-> node.entry, issuer |-> <<>>, currency |-> <<>>,
    value |-> ComputeBalanceChange(node)]}

FlipTrustlinePerspective(q) ==
  [q EXCEPT !.account = q.issuer[1], !.issuer = <<q.account>>, !.value = -@]

\* getTrustlineQuantity: the balance is the low account's.
TrustlineQuantity(node) ==
  LET q == [account |-> node.entry.low, issuer |-> <<node.entry.high>>,
            currency |-> <<node.entry.currency>>, value |-> ComputeBalanceChange(node)]
  IN {q, FlipTrustlinePerspective(q)}

Quantities ==
  {q \in UNION ({XRPQuantity(node) : node \in AccountNodes}
                \cup {TrustlineQuantity(node) : node \in LineNodes}) : q.value # 0}

GetBalanceChanges ==
  [a \in {q.account : q \in Quantities} |-> {q \in Quantities : q.account = a}]

-----------------------------------------------------------------------------

\* The change of a balance, by definition.
DropsChange(a) ==
  (IF a \in DOMAIN after.drops THEN after.drops[a] ELSE 0)
  - (IF a \in DOMAIN before.drops THEN before.drops[a] ELSE 0)
LineChange(l) ==
  (IF l \in DOMAIN after.lines THEN after.lines[l] ELSE 0)
  - (IF l \in DOMAIN before.lines THEN before.lines[l] ELSE 0)

\* getBalanceChanges lists every balance that changed, of whatever was created,
\* modified or deleted, for both sides of a trust line and in every currency, and
\* nothing else.
BalanceChangesAreRight ==
  LET changes(a) == IF a \in DOMAIN GetBalanceChanges THEN GetBalanceChanges[a] ELSE {}
      xrp(a) == {[account |-> a, issuer |-> <<>>, currency |-> <<>>, value |-> DropsChange(a)]}
      low(a) == {[account |-> a, issuer |-> <<l.high>>, currency |-> <<l.currency>>,
                  value |-> LineChange(l)] : l \in {k \in Lines : k.low = a}}
      high(a) == {[account |-> a, issuer |-> <<l.low>>, currency |-> <<l.currency>>,
                   value |-> -LineChange(l)] : l \in {k \in Lines : k.high = a}}
  IN \A a \in Holders :
       changes(a) = {q \in xrp(a) \cup low(a) \cup high(a) : q.value # 0}

=============================================================================
