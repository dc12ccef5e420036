-------------------------------- MODULE MCTopics --------------------------------
(* Small instances of Topics for TLC.                                        *)
EXTENDS Topics, TLC

\* Four topics that were seeded together.
Seeds ==
  {[id |-> 11, title |-> "s1", category |-> "a"], [id |-> 12, title |-> "s2", category |-> "a"],
   [id |-> 13, title |-> "s3", category |-> "a"], [id |-> 14, title |-> "s4", category |-> "a"]}

AllTitles == {"Cats", "cats", "c_ts", "AC\\DC"} \cup {t.title : t \in Seeds}

\* "Cats" and "cats" are one title; "c_ts" is another, and a pattern for both;
\* AC\DC is, as a pattern, ACDC, and so not itself.
OneTitle == {<<t, t>> : t \in AllTitles} \cup {<<"Cats", "cats">>, <<"cats", "Cats">>}
Patterns ==
  (OneTitle \ {<<"AC\\DC", "AC\\DC">>}) \cup {<<"Cats", "c_ts">>, <<"cats", "c_ts">>}

Payloads ==
  {[title |-> "cats", category |-> "a"], [title |-> "c_ts", category |-> "b"],
   [title |-> "AC\\DC", category |-> "a"], [title |-> "Cats", category |-> "other"]}
=================================================================================
