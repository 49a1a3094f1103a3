---------------------------- MODULE MCLockClient ----------------------------
(* Instances of LockClient for TLC.                                        *)
EXTENDS LockClient, TLC

CONSTANTS c1, c2, t1, t2

MCOwner2 == t1 :> c1 @@ t2 :> c2
=============================================================================
