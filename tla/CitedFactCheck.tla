---------------------------- MODULE CitedFactCheck ----------------------------
(***************************************************************************)
(* FactCheck with the sources that Evidence makes: what a request records  *)
(* is traced to the pages its search found and to the allowlist.           *)
(***************************************************************************)
EXTENDS FactCheck, Evidence

CONSTANTS
  Pages,    \* what a search may come across
  Searches, \* what a search may find: sequences of pages
  Indices   \* what the model may cite: sequences of numbers, right or wrong

\* What GeminiFactCheckProvider.check may return of a search and an answer.
Judgements ==
  {[verdict |-> v, found |-> f, indices |-> i, sources |-> Range(Citations(Results(f), i))] :
     v \in Verdicts, f \in Searches, i \in Indices}

\* The pages _trusted_sources lets through.
Citable == {p \in Pages : IsCitable(p)}

ASSUME HostsAssumption ==
  /\ TrustedDomains \subseteq Seq(STRING) \ {<<>>}
  /\ \A x \in TrustedSuffixes : x \in Seq(STRING) /\ Len(x) > 1 /\ x[1] = "."
  /\ \A p \in Pages : p.host \in Seq(STRING) /\ p.blank \in BOOLEAN
ASSUME SearchesAssumption == Searches \subseteq Seq(Pages) /\ Indices \subseteq Seq(Int)
ASSUME JudgedAssumption == Answers \subseteq Judgements /\ Trusted = Citable

------------------------------------------------------------------------------

\* A host lies in a domain: it ends with the domain, from a dot or the start.
LiesIn(host, domain) ==
  \E i \in 1..Len(host) :
    /\ SubSeq(host, i, Len(host)) = domain
    /\ i = 1 \/ host[i - 1] = "."

Checkable ==
  {p \in Pages :
     /\ ~p.blank /\ p.scheme \in {"http", "https"}
     /\ \/ \E d \in TrustedDomains : LiesIn(p.host, d)
        \/ \E x \in TrustedSuffixes : LiesIn(p.host, Tail(x))}

\* From the search to the table: a stored citation is a page that was found,
\* that a debater can open, in a listed domain and not one spelled like it.
CitationsCanBeChecked == \A i \in DOMAIN records : records[i].sources \subseteq Checkable

\* The number of a page in the list the model is shown, which leaves blank ones out.
Number(found, p) == Cardinality({q \in 1..p : ~found[q].blank})

\* What an answer's numbers stand for.
Meant(found, indices) ==
  {found[p] : p \in {q \in DOMAIN found : ~found[q].blank /\ Number(found, q) \in Range(indices)}}

\* An invented citation is impossible: what an answer cites is what its numbers
\* stand for in the list of results the model was shown, numbered from one.
CitationsAreTheModels ==
  \A s \in Sessions :
    result[s] \in Judgements => result[s].sources = Meant(result[s].found, result[s].indices)
===============================================================================
