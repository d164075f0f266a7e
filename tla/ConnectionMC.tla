------------------------------ MODULE ConnectionMC ------------------------------
(* Small instances of Connection for TLC: no call carries an id of its own. *)
EXTENDS Connection

AutoIds == [r \in Calls |-> NoId]
=============================================================================
