------------------------------ MODULE MCAccounts ------------------------------
(* Small instances of Accounts for TLC.                                      *)
EXTENDS Accounts, TLC

CONSTANTS ann, bob

From(sub, name, kid, valid) ==
  [kid |-> kid, sub |-> sub, name |-> name, email |-> sub, valid |-> valid]

\* Ann before and after she takes another name, and Bob under her old one.
Namesakes == {From(ann, "kim", 1, TRUE), From(ann, "ann", 2, TRUE), From(bob, "kim", 1, TRUE)}

\* The same, and tokens that are refused after and before the lookup.
Everyone == Namesakes \cup {From(bob, "bob", 1, FALSE), From(bob, "bob", None, TRUE)}

Symmetry == Permutations(Requests)
===============================================================================
