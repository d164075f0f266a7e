-------------------------------- MODULE SigningMC --------------------------------
(* Two wallets that sign for themselves, the second also for a third account. *)
EXTENDS Signing

MCAccounts == 1..3
MCKeys == {<<1, 1>>, <<2, 2>>, <<2, 3>>}
=============================================================================
