---------------------------- MODULE MCFactCheck ----------------------------
(* Small instances of CitedFactCheck for TLC.                                *)
EXTENDS CitedFactCheck

Page(scheme, host) == [scheme |-> scheme, host |-> host, blank |-> FALSE]
Com(name) == <<name, ".", "com">>

ListedDomains == {Com("reuters"), <<"who", ".", "int">>}
ListedSuffixes == {<<".", "gov">>, <<".", "int">>}

\* A listed domain, a page without text, two hosts that only look like listed
\* ones, a subdomain, and an address nobody can open.
Found ==
  <<Page("https", <<"www", ".">> \o Com("reuters")),
    [Page("https", Com("reuters")) EXCEPT !.blank = TRUE],
    Page("https", <<"not">> \o Com("reuters")),
    Page("https", Com("reuters") \o <<".", "net">>),
    Page("http", <<"data", ".", "who", ".", "int">>),
    Page("ftp", <<"cdc", ".", "gov">>)>>

FoundPages == Range(Found)
FoundOnce == {Found}
Cited == {<<2, 3, 5>>, <<4, 1, 4, 3, 0>>}

\* Every citation, with two of the verdicts.
Answered == {j \in Judgements : j.verdict \in {"false", "unverified"}}

BackedAnswer == {j \in Judgements : j.verdict = "false" /\ j.indices # <<2, 3, 5>>}

Symmetry == Permutations(Rooms) \cup Permutations(Sessions)
============================================================================
