-------------------------- MODULE ReliableSubmissionMC --------------------------
(* Small instances of ReliableSubmission for TLC. *)
EXTENDS ReliableSubmission, TLC

CONSTANTS a,  \* submitAndWait of any transaction
          b   \* submit of one

Kinds == (a :> GivenKinds) @@ (b :> {"unsigned", "bare"})
Unsigned == [t \in Txs |-> {"unsigned"}]
=============================================================================
