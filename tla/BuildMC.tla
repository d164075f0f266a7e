--------------------------------- MODULE BuildMC ---------------------------------
(* What is built before it is submitted, each on a small instance: a behaviour *)
(* builds a confidential Batch, or a document on its way through the library. *)
EXTENDS ConfidentialBatchMC, TxDocuments

MCTxTypes == DOMAIN FieldsOfType

VARIABLE part

buildVars == <<part, vars, tdVars>>

\* A part that is not run has one initial state.
BuildInit ==
  \/ /\ part = "batch"
     /\ doc = Template("TicketCreate") /\ TDInit /\ Init
  \/ /\ part = "documents"
     /\ inners = <<>> /\ batchAccount = Issuer /\ Init /\ \A h \in Holders : token[h].key
     /\ TDInit

BuildNext ==
  /\ UNCHANGED part
  /\ \/ part = "batch" /\ Next /\ UNCHANGED tdVars
     \/ part = "documents" /\ TDNext /\ UNCHANGED vars

BuildSpec == BuildInit /\ [][BuildNext]_buildVars
=============================================================================
