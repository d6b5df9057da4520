-------------------------------- MODULE MCVns --------------------------------
EXTENDS Vns
CONSTANTS r1, r2, i1, i2
=============================================================================
