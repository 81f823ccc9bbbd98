--------------------------- MODULE MCClientSlots ---------------------------
(* Constant values for the run of ClientSlots.                             *)
EXTENDS ClientSlots

CONSTANTS pA, t1

OneProduct == [t \in Tokens |-> pA]
SameSize == [t \in Tokens |-> 500]
=============================================================================
