--------------------------- MODULE MCClientStore ---------------------------
(* Constant values for the runs of ClientStore.                            *)
EXTENDS ClientStore

CONSTANTS pA, pB, t1, t2

OneProduct == [t \in Tokens |-> pA]
TwoProducts == [t \in Tokens |-> IF t = t1 THEN pA ELSE pB]
SameSize == [t \in Tokens |-> 500]
GrowingSize == [t \in Tokens |-> IF t = t1 THEN 600 ELSE 500]
=============================================================================
