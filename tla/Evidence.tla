------------------------------- MODULE Evidence -------------------------------
(***************************************************************************)
(* What may be cited: the pages a search returns (search/tavily.py,        *)
(* search/wikipedia.py), the citations ai/gemini.py makes of the model's   *)
(* answer, and the allowlist of core/sources.py.                           *)
(*                                                                         *)
(* A host is a sequence of words and dots, in lower case: what the code    *)
(* does with prefixes and suffixes of strings is done with those of        *)
(* sequences.  A page is [scheme, host, blank]; blank if it has no title,  *)
(* url or text.                                                            *)
(***************************************************************************)
EXTENDS Naturals, SequencesExt

CONSTANTS
  TrustedDomains, \* TRUSTED_SOURCE_DOMAINS
  TrustedSuffixes \* TRUSTED_SOURCE_SUFFIXES, each with its leading dot

\* _to_results, of either search: a page without text is no evidence.
Results(pages) ==
  LET kept[n \in 0..Len(pages)] ==
        IF n = 0 THEN <<>>
        ELSE IF pages[n].blank THEN kept[n - 1] ELSE Append(kept[n - 1], pages[n])
  IN  kept[Len(pages)]

\* Mutant: the prompt is taken to number the results from 0.
Resolve_FromZero(results, i) == IF i \in 0..Len(results) - 1 THEN <<results[i + 1]>> ELSE <<>>

\* The source an index stands for, if any.
Resolve(results, i) == IF i \in 1..Len(results) THEN <<results[i]>> ELSE <<>>

\* _to_provider_result: the indices in turn; those met before, and those that
\* are no numbers or out of range, are skipped.
Citations(results, indices) ==
  LET cited[n \in 0..Len(indices)] ==
        IF n = 0 THEN <<>>
        ELSE IF \E m \in 1..n - 1 : indices[m] = indices[n] THEN cited[n - 1]
        ELSE cited[n - 1] \o Resolve(results, indices[n])
  IN  cited[Len(indices)]

Www == <<"www", ".">>

WithoutWww(host) == IF IsPrefix(Www, host) THEN SubSeq(host, 3, Len(host)) ELSE host

\* source_domain: the host of an absolute http(s) address, or nothing.
SourceDomain(page) ==
  IF page.scheme \in {"http", "https"} /\ page.host # <<>> THEN WithoutWww(page.host) ELSE <<>>

\* Mutant: a domain need not begin at a dot.
IsTrustedDomain_Substring(host) ==
  \/ \E d \in TrustedDomains : IsSuffix(d, WithoutWww(host))
  \/ \E s \in TrustedSuffixes : IsSuffix(s, WithoutWww(host))

\* is_trusted_domain: a listed domain, one below it, or a listed suffix.
IsTrustedDomain(host) ==
  LET h == WithoutWww(host)
  IN  \/ \E d \in TrustedDomains : h = d \/ IsSuffix(<<".">> \o d, h)
      \/ \E s \in TrustedSuffixes : IsSuffix(s, h)

\* _trusted_sources.
IsCitable(page) == SourceDomain(page) # <<>> /\ IsTrustedDomain(SourceDomain(page))
===============================================================================
