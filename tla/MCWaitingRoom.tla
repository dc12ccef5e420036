---------------------------- MODULE MCWaitingRoom ----------------------------
(* Small instances of WaitingRoom for TLC.                                   *)
EXTENDS WaitingRoom, TLC

Symmetry == Permutations(Users)
==============================================================================
