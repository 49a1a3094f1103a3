---------------------------- MODULE MCPoolClient ----------------------------
(* Instances of PoolClient for TLC.                                        *)
EXTENDS PoolClient, TLC

CONSTANTS c1, c2, t1, t2, t3

\* Main owns the first task, the other client the rest.
MCOwner2 == t1 :> c1 @@ t2 :> c2
MCOwner3 == t1 :> c1 @@ t2 :> c2 @@ t3 :> c2
=============================================================================
