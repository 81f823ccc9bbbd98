---------------------------- MODULE MCVendorKeys ----------------------------
(* Constant values for the run of VendorKeys.                              *)
EXTENDS VendorKeys, TLC

CONSTANTS i1, i2, kPath, qPath, w1, w2
=============================================================================
