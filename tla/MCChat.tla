------------------------------- MODULE MCChat -------------------------------
(* Small instances of Chat for TLC.                                          *)
EXTENDS Chat, TLC

\* Processes are interchangeable; so are requests that check claims.
Symmetry == Permutations(Workers) \cup Permutations(Askers)
==============================================================================
