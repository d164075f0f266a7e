-------------------------------- MODULE ClientMC --------------------------------
EXTENDS Client, TLC
=============================================================================
