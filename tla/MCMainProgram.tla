--------------------------- MODULE MCMainProgram ----------------------------
(* Instances of MainProgram for TLC: main owns every task.                 *)
EXTENDS MainProgram

MCOwner == [t \in Tasks |-> Main]
=============================================================================
