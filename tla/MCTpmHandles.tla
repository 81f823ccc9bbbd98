---------------------------- MODULE MCTpmHandles ----------------------------
EXTENDS TpmHandles, TLC

CONSTANTS i1, i2
=============================================================================
