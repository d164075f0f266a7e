--------------------------- MODULE ConfidentialBatchMC ---------------------------
(* Small instances of ConfidentialBatch for TLC. *)
EXTENDS ConfidentialBatch, TLC

CONSTANTS a, b, i

Sequences == [x \in Accounts |-> 1]

\* Who is registered starts with one to spend and one to merge.
StartOne == {[spending |-> 1, inbox |-> 1]}

\* Holders are alike.
Symmetry == Permutations(Holders)
=============================================================================
