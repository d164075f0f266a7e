---------------------------- MODULE ConfidentialLedger ----------------------------
(***************************************************************************)
(* The confidential balances of one token on the ledger, as far as the     *)
(* comments of confidential/batch.ts and confidential/convert.ts state     *)
(* what rippled does with them.  External: there is no rippled in src/.    *)
(*                                                                         *)
(* A ciphertext is the term that made it: two of them are taken for equal  *)
(* if they were made in the same way from the same parts.                  *)
(***************************************************************************)
EXTENDS Naturals, Sequences, FiniteSets

CONSTANTS
  Holders,   \* accounts with an MPToken for the issuance
  Issuer,    \* the account of the issuance
  Mirrors,   \* who else keeps an encrypted balance: "issuer", maybe "auditor"
  FirstSeq,  \* the accounts' Sequences
  StartHeld  \* bound: the amounts a holder may start with

ASSUME HoldersAssumption == IsFiniteSet(Holders)
ASSUME IssuerAssumption == Issuer \notin Holders
ASSUME MirrorsAssumption == "issuer" \in Mirrors /\ Mirrors \subseteq {"issuer", "auditor"}
ASSUME FirstSeqAssumption == FirstSeq \in [Holders \cup {Issuer} -> Nat]
ASSUME StartHeldAssumption == StartHeld \subseteq [spending : Nat, inbox : Nat]

Accounts == Holders \cup {Issuer}
Balances == {"spending", "inbox"} \cup Mirrors

\* No balance; the one a holder starts with; the canonical encryption of zero.
Absent == <<"absent">>
Old(h, b) == <<"old", h, b>>
Zero(h, b) == <<"zero", h, b>>

\* What the n-th inner encrypts for a balance; the encryption of zero under the
\* challenge of its proof; the homomorphic sum and difference.
Encrypted(n, b) == <<"encrypted", n, b>>
Blinding(n, b) == <<"blinding", n, b>>
Sum(x, y) == <<"sum", x, y>>
Difference(x, y) == <<"difference", x, y>>

VARIABLES
  token,     \* each holder's balances, their version, and whether a key is registered
  held,      \* the amounts they stand for
  sequence   \* the accounts' Sequences

ledgerVars == <<token, held, sequence>>

\* A holder starts with balances of its own, or has never converted anything.
LedgerInit ==
  /\ sequence = FirstSeq
  /\ \E registered \in SUBSET Holders :
       /\ \E start \in [registered -> StartHeld] :
            held = [h \in Holders |-> IF h \in registered THEN start[h]
                                                         ELSE [spending |-> 0, inbox |-> 0]]
       /\ token = [h \in Holders |->
                     [bal |-> [b \in Balances |-> IF h \in registered THEN Old(h, b) ELSE Absent],
                      version |-> 0,
                      key |-> h \in registered]]

\* What h holds with an amount less to spend, or more to merge.
Debited(h, amount) == [spending |-> held[h].spending - amount, inbox |-> held[h].inbox]
Credited(h, amount) == [spending |-> held[h].spending, inbox |-> held[h].inbox + amount]

\* The first Convert publishes the key, no other may; what is absent starts now.
AcceptsConvert(h, registers) == registers <=> ~token[h].key

AfterConvert(h, n) ==
  [bal |-> [b \in Balances |->
              IF b = "spending"
                THEN IF token[h].bal[b] = Absent THEN Zero(h, b) ELSE token[h].bal[b]
                ELSE IF token[h].bal[b] = Absent THEN Encrypted(n, b)
                                                 ELSE Sum(token[h].bal[b], Encrypted(n, b))],
   version |-> token[h].version,
   key |-> TRUE]

\* The proof of a Send or ConvertBack binds the spending balance and the version.
AcceptsSpend(h, spending, version) ==
  token[h].key /\ token[h].bal["spending"] = spending /\ token[h].version = version

AfterSpend(h, n) ==
  [bal |-> [b \in Balances |-> IF b = "inbox" THEN token[h].bal[b]
                                              ELSE Difference(token[h].bal[b], Encrypted(n, b))],
   version |-> token[h].version + 1,
   key |-> token[h].key]

\* A Send is blinded anew for the destination, whose version stays.
AfterReceipt(h, n) ==
  [bal |-> [b \in Balances |-> IF b = "spending" THEN token[h].bal[b]
                                ELSE Sum(token[h].bal[b], Sum(Encrypted(n, b), Blinding(n, b)))],
   version |-> token[h].version,
   key |-> token[h].key]

AfterMerge(h) ==
  [bal |-> [b \in Balances |->
              CASE b = "spending" -> Sum(token[h].bal["spending"], token[h].bal["inbox"])
                [] b = "inbox" -> Zero(h, b)
                [] OTHER -> token[h].bal[b]],
   version |-> token[h].version + 1,
   key |-> token[h].key]

\* The proof of a Clawback binds the issuer's balance; all of it is burnt.
AcceptsClawback(h, issuerEnc) == token[h].key /\ token[h].bal["issuer"] = issuerEnc

AfterClawback(h) ==
  [bal |-> [b \in Balances |-> Zero(h, b)],
   version |-> token[h].version + 1,
   key |-> token[h].key]

=============================================================================
