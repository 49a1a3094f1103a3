--------------------------- MODULE MCHeaderClient ---------------------------
(* Instances of HeaderClient for TLC.                                      *)
EXTENDS HeaderClient, TLC

CONSTANTS c1, c2, t1, t2

MCOwner1 == [t \in Tasks |-> c1]
MCOwner2 == t1 :> c1 @@ t2 :> c2
=============================================================================
