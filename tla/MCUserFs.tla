------------------------------ MODULE MCUserFs ------------------------------
(* Instances of UserFsClient for TLC.                                      *)
EXTENDS UserFsClient, TLC

MCLengths == {1, 5, 7, 8, 15, 16, 19, 24}
Symmetry ==
  Permutations(Files) \cup Permutations(Fds) \cup Permutations(Names)
=============================================================================
