------------------------------- MODULE MCRatings -------------------------------
(* Small instances of Ratings for TLC.                                       *)
EXTENDS Ratings, TLC

CONSTANTS ann, bob, cal, r1, r2

\* Bob debates twice.
Pairs == (r1 :> {ann, bob}) @@ (r2 :> {bob, cal})

Symmetry == Permutations(Requests)
================================================================================
