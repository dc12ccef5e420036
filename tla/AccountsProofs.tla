---------------------------- MODULE AccountsProofs ----------------------------
(* What holds of Accounts for any number of requests, keys and subjects, and *)
(* however long the cache and a fetch may live.                              *)
EXTENDS Accounts, TLAPS

USE TimesAssumption, GenesisAssumption, TokensAssumption, NoneAssumption

Labels ==
  {"new", "selecting", "inserting", "inserted", "rereading"} \cup Waiting \cup Fetching \cup Ended

Document == [keys : SUBSET Keys, served : Nat]

\* The types the proofs need: all but the lock's line.
Typed ==
  /\ clock \in 0..MaxClock /\ published \subseteq Keys
  /\ retired \in [Keys -> Nat \cup {None}]
  /\ cached \in [keys : SUBSET Keys, served : Nat, fetched : Nat] \cup {None}
  /\ pc \in [Requests -> Labels]
  /\ token \in [Requests -> Tokens \cup {None}]
  /\ \A r \in Requests : pc[r] # "new" => token[r] \in Tokens
  /\ known \in [Requests -> BOOLEAN]
  /\ answer \in [Requests -> Document \cup {None}]
  /\ users \in [Subjects -> Rows \cup {None}]

(* The users table.                                                          *)

\* An open insert clashes with no row and with no other open insert.
InsertsAreFree ==
  \A r \in Requests : pc[r] = "inserted" =>
    /\ ~Taken(r)
    /\ \A o \in Requests \ {r} : pc[o] = "inserted" => ~Clash(token[o].sub, Row(o), r)

\* Whoever reads again has met a row.
RowsWereMet == \A r \in Requests : pc[r] = "rereading" => Taken(r)

TableInv == InsertsAreFree /\ RowsWereMet /\ LosersRecover

(* The issuer's documents.                                                   *)

\* A key that was retired stays so.
RetiredForGood ==
  \A k \in Keys : retired[k] # None => k \notin published /\ retired[k] <= clock

\* A key that was known is published or retired.
KnownOnes ==
  \A r \in Requests : known[r] =>
    token[r].kid \in Keys /\ (token[r].kid \in published \/ retired[token[r].kid] # None)

\* A document names no key that was retired before it was served.
Current(doc) == \A k \in doc.keys : retired[k] # None => doc.served <= retired[k]

\* A document on its way is young, and a key it misses is not published any more.
Arriving ==
  \A r \in Requests : answer[r] # None =>
    /\ pc[r] \in Fetching /\ Current(answer[r])
    /\ answer[r].served <= clock /\ clock <= answer[r].served + Timeout
    /\ known[r] /\ token[r].kid \notin answer[r].keys => token[r].kid \notin published

InCache ==
  cached # None =>
    /\ Current(cached)
    /\ cached.served <= cached.fetched /\ cached.fetched <= clock
    /\ cached.fetched <= cached.served + Timeout

KeysInv == RetiredForGood /\ KnownOnes /\ Arriving /\ InCache

Inv == Typed /\ TableInv /\ KeysInv

------------------------------------------------------------------------------

\* The actions that leave the table alone, and whom they move.
LEMMA TableKept ==
  ASSUME Typed, TableInv, users' = users,
         \A o \in Requests : pc'[o] \in {"inserted", "rereading", "failed"} =>
           pc'[o] = pc[o] /\ token'[o] = token[o]
  PROVE  TableInv'
BY DEF TableInv, InsertsAreFree, RowsWereMet, LosersRecover, Taken, Clash, Row

\* The actions that leave the cache and the issuer alone.
LEMMA KeysKept ==
  ASSUME Typed, KeysInv, UNCHANGED <<clock, issuer, cached, known, token>>,
         \A o \in Requests : answer'[o] # None => answer'[o] = answer[o] /\ pc'[o] = pc[o]
  PROVE  KeysInv'
BY DEF KeysInv, issuer, RetiredForGood, KnownOnes, Arriving, InCache, Current

\* A step of r's between the awaits of the table.
LEMMA MoveKeepsKeys ==
  ASSUME Inv, NEW r \in Requests, NEW label, label \in Labels, Goto(r, label), Unmoved,
         pc[r] \notin Fetching \cup {"new"}, label # "new"
  PROVE  /\ KeysInv' /\ pc' = [pc EXCEPT ![r] = label]
         /\ users' \in [Subjects -> Rows \cup {None}] => Typed'
<1>1. pc' = [pc EXCEPT ![r] = label] /\ UNCHANGED <<clock, issuer, cached, known, token, answer>>
  BY DEF Goto, Unmoved, cache
<1>2. answer[r] = None
  BY DEF Inv, KeysInv, Arriving
<1>3. \A o \in Requests : answer'[o] # None => answer'[o] = answer[o] /\ pc'[o] = pc[o]
  BY <1>1, <1>2 DEF Inv, Typed
<1>4. KeysInv'
  BY <1>1, <1>3, KeysKept DEF Inv
<1>5. ASSUME users' \in [Subjects -> Rows \cup {None}]
      PROVE  Typed'
  BY <1>1, <1>5 DEF Inv, Typed, issuer
<1> QED
  BY <1>1, <1>4, <1>5

LEMMA RowType ==
  ASSUME Typed, NEW r \in Requests, pc[r] # "new"
  PROVE  token[r] \in Tokens /\ token[r].sub \in Subjects /\ Row(r) \in Rows
BY DEF Typed, Row, Rows

LEMMA SelectInductive ==
  ASSUME Inv, NEW r \in Requests, Select(r) \/ DatabaseFails(r)
  PROVE  Inv'
<1>1. PICK label \in {"resolved", "inserting", "lost"} :
        Goto(r, label) /\ Unmoved /\ users' = users
  BY DEF Select, DatabaseFails
<1>2. pc[r] \notin Fetching \cup {"new"}
  BY DEF Select, DatabaseFails, Fetching
<1>3. KeysInv' /\ Typed' /\ pc' = [pc EXCEPT ![r] = label]
  BY <1>1, <1>2, MoveKeepsKeys DEF Labels, Ended, Inv, Typed
<1>4. TableInv'
  <2>1. \A o \in Requests : pc'[o] \in {"inserted", "rereading", "failed"} =>
          pc'[o] = pc[o] /\ token'[o] = token[o]
    BY <1>1, <1>3 DEF Unmoved, Inv, Typed
  <2> QED
    BY <1>1, <2>1, TableKept DEF Inv
<1> QED
  BY <1>3, <1>4 DEF Inv

LEMMA InsertInductive ==
  ASSUME Inv, NEW r \in Requests, Insert(r)
  PROVE  Inv'
<1>1. PICK label \in {"rereading", "inserted"} :
        /\ Goto(r, label) /\ Unmoved /\ users' = users
        /\ label = "rereading" => Taken(r)
        /\ label = "inserted" => ~Taken(r) /\ ~Contended(r)
  BY DEF Insert
<1>2. pc[r] = "inserting"
  BY DEF Insert
<1>3. KeysInv' /\ Typed' /\ pc' = [pc EXCEPT ![r] = label] /\ token' = token
  BY <1>1, <1>2, MoveKeepsKeys DEF Labels, Fetching, Inv, Typed, Unmoved
<1>4. \A o \in Requests \ {r} : pc'[o] = pc[o]
  BY <1>3 DEF Inv, Typed
<1>5. pc'[r] = label
  BY <1>3 DEF Inv, Typed
<1>6. \A o \in Requests : Taken(o)' <=> Taken(o)
  BY <1>1, <1>3 DEF Taken, Clash
<1>7. \A o, q \in Requests :
        Clash(token[o].sub, Row(o), q)' <=> Clash(token[o].sub, Row(o), q)
  BY <1>3 DEF Clash, Row
<1>8. \A o, q \in Requests :
        Clash(token[o].sub, Row(o), q) <=> Clash(token[q].sub, Row(q), o)
  BY DEF Clash, Row
<1>9. InsertsAreFree'
  BY <1>1, <1>4, <1>5, <1>6, <1>7, <1>8 DEF InsertsAreFree, Inv, TableInv, Contended
<1>10. RowsWereMet'
  BY <1>1, <1>4, <1>5, <1>6 DEF RowsWereMet, Inv, TableInv
<1>11. LosersRecover'
  BY <1>1, <1>3, <1>4, <1>5 DEF LosersRecover, Inv, TableInv
<1> QED
  BY <1>3, <1>9, <1>10, <1>11 DEF Inv, TableInv

\* The rows that were there stay.
LEMMA CommitAdds ==
  ASSUME Inv, NEW r \in Requests, Commit(r)
  PROVE  /\ users[token[r].sub] = None /\ token[r].sub \in Subjects /\ Row(r) \in Rows
         /\ users' = [users EXCEPT ![token[r].sub] = Row(r)]
         /\ \A u \in Subjects : users[u] # None => users'[u] = users[u]
<1>1. pc[r] = "inserted" /\ users' = [users EXCEPT ![token[r].sub] = Row(r)]
  BY DEF Commit
<1>2. token[r].sub \in Subjects /\ Row(r) \in Rows
  BY <1>1, RowType DEF Inv
<1>3. users[token[r].sub] = None
  BY <1>1, <1>2 DEF Inv, TableInv, InsertsAreFree, Taken, Clash
<1> QED
  BY <1>1, <1>2, <1>3 DEF Inv, Typed

LEMMA CommitInductive ==
  ASSUME Inv, NEW r \in Requests, Commit(r)
  PROVE  Inv'
<1>1. Goto(r, "resolved") /\ Unmoved /\ pc[r] = "inserted" /\ token' = token
  BY DEF Commit, Unmoved
<1>2. KeysInv' /\ Typed' /\ pc' = [pc EXCEPT ![r] = "resolved"]
  <2>1. users' \in [Subjects -> Rows \cup {None}]
    BY CommitAdds DEF Inv, Typed
  <2> QED
    BY <1>1, <2>1, MoveKeepsKeys DEF Labels, Ended, Fetching
<1>3. \A o \in Requests : pc'[o] # "resolved" => o # r /\ pc'[o] = pc[o]
  BY <1>2 DEF Inv, Typed
<1>4. InsertsAreFree'
  <2>1. ASSUME NEW o \in Requests, pc'[o] = "inserted", Taken(o)'
        PROVE  FALSE
    <3>1. pc[o] = "inserted" /\ o # r /\ ~Taken(o) /\ ~Clash(token[r].sub, Row(r), o)
      BY <1>1, <1>3, <2>1 DEF Inv, TableInv, InsertsAreFree
    <3>2. PICK u \in Subjects : users'[u] # None /\ Clash(u, users'[u], o)
      BY <1>1, <2>1 DEF Taken, Clash
    <3>3. CASE u = token[r].sub
      BY <3>1, <3>2, <3>3, CommitAdds DEF Inv, Typed
    <3>4. CASE u # token[r].sub
      BY <3>1, <3>2, <3>4, CommitAdds DEF Inv, Typed, Taken
    <3> QED
      BY <3>3, <3>4
  <2> QED
    BY <1>1, <1>3, <2>1 DEF Inv, TableInv, InsertsAreFree, Clash, Row
<1>5. RowsWereMet'
  <2>1. ASSUME NEW o \in Requests, pc'[o] = "rereading"
        PROVE  Taken(o)'
    <3>1. PICK u \in Subjects : users[u] # None /\ Clash(u, users[u], o)
      BY <1>3, <2>1 DEF Inv, TableInv, RowsWereMet, Taken
    <3>2. users'[u] = users[u]
      BY <3>1, CommitAdds
    <3> QED
      BY <1>1, <3>1, <3>2 DEF Taken, Clash
  <2> QED
    BY <2>1 DEF RowsWereMet
<1>6. LosersRecover'
  BY <1>1, <1>3, CommitAdds DEF Inv, TableInv, LosersRecover
<1> QED
  BY <1>2, <1>4, <1>5, <1>6 DEF Inv, TableInv

LEMMA RereadInductive ==
  ASSUME Inv, NEW r \in Requests, Reread(r)
  PROVE  Inv'
<1>1. PICK label \in {"resolved", "failed"} :
        /\ Goto(r, label) /\ Unmoved /\ users' = users
        /\ label = "failed" => users[token[r].sub] = None
  BY DEF Reread
<1>2. pc[r] = "rereading" /\ token' = token
  BY DEF Reread, Unmoved
<1>3. KeysInv' /\ Typed' /\ pc' = [pc EXCEPT ![r] = label]
  BY <1>1, <1>2, MoveKeepsKeys DEF Labels, Ended, Fetching, Inv, Typed
<1>4. \A o \in Requests \ {r} : pc'[o] = pc[o]
  BY <1>3 DEF Inv, Typed
<1>5. pc'[r] = label
  BY <1>3 DEF Inv, Typed
<1>6. InsertsAreFree' /\ RowsWereMet'
  BY <1>1, <1>2, <1>4, <1>5
     DEF Inv, TableInv, InsertsAreFree, RowsWereMet, Taken, Clash, Row
<1>7. LosersRecover'
  <2>1. label = "failed" =>
          \E u \in Subjects \ {token[r].sub} :
            users[u] # None /\ (users[u].name = token[r].name \/ users[u].email = token[r].email)
    BY <1>1, <1>2 DEF Inv, TableInv, RowsWereMet, Taken, Clash
  <2> QED
    BY <1>1, <1>2, <1>4, <1>5, <2>1 DEF Inv, TableInv, LosersRecover
<1> QED
  BY <1>3, <1>6, <1>7 DEF Inv, TableInv

------------------------------------------------------------------------------

\* What a request that searches a key set becomes.
Searched == {"selecting", "invalid", "forcing"}

LEMMA SearchMoves ==
  ASSUME NEW r, NEW keys, NEW queue, Search(r, keys, queue)
  PROVE  \E label \in Searched :
           Goto(r, label) /\ (label = "selecting" => token'[r].kid \in keys)
BY DEF Search, Await, Decoded, Searched

LEMMA ArriveInductive ==
  ASSUME Inv, NEW r \in Requests, NEW t \in Tokens, Arrive(r, t)
  PROVE  Inv'
<1>1. /\ pc[r] = "new" /\ token' = [token EXCEPT ![r] = t]
      /\ known' = [known EXCEPT ![r] = t.kid \in published]
      /\ UNCHANGED <<clock, issuer, cached, answer, users>>
  BY DEF Arrive
<1>2. PICK label \in Searched \cup {"refreshing"} : pc' = [pc EXCEPT ![r] = label]
  BY SearchMoves DEF Arrive, Await, Goto, Searched
<1>3. Typed'
  BY <1>1, <1>2 DEF Inv, Typed, Labels, Searched, Waiting, Ended, issuer
<1>4. TableInv'
  <2>1. \A o \in Requests : pc'[o] \in {"inserted", "rereading", "failed"} =>
          pc'[o] = pc[o] /\ token'[o] = token[o]
    BY <1>1, <1>2 DEF Inv, Typed, Searched
  <2> QED
    BY <1>1, <2>1, TableKept DEF Inv
<1>5. answer[r] = None
  BY <1>1 DEF Inv, KeysInv, Arriving, Fetching
<1>6. \A o \in Requests \ {r} : pc'[o] = pc[o] /\ token'[o] = token[o] /\ known'[o] = known[o]
  BY <1>1, <1>2 DEF Inv, Typed
<1>7. Arriving'
  BY <1>1, <1>5, <1>6 DEF Inv, KeysInv, Arriving, Current, issuer
<1>8. KnownOnes'
  <2>1. token'[r] = t /\ (known'[r] => t.kid \in published)
    BY <1>1 DEF Inv, Typed
  <2> QED
    BY <1>1, <1>6, <2>1 DEF Inv, Typed, KeysInv, KnownOnes, issuer
<1>9. RetiredForGood' /\ InCache'
  BY <1>1 DEF Inv, KeysInv, RetiredForGood, InCache, Current, issuer
<1> QED
  BY <1>3, <1>4, <1>7, <1>8, <1>9 DEF Inv, KeysInv

LEMMA AcquireInductive ==
  ASSUME Inv, NEW r \in Requests, Acquire(r)
  PROVE  Inv'
<1>1. UNCHANGED <<clock, issuer, cached, answer, known, users, token>> /\ pc[r] \in Waiting
  BY DEF Acquire
<1>2. PICK label \in Searched \cup Fetching : pc' = [pc EXCEPT ![r] = label]
  BY SearchMoves DEF Acquire, Goto, Fetching
<1>3. Typed'
  BY <1>1, <1>2 DEF Inv, Typed, Labels, Searched, Waiting, Fetching, Ended, issuer
<1>4. TableInv'
  <2>1. \A o \in Requests : pc'[o] \in {"inserted", "rereading", "failed"} =>
          pc'[o] = pc[o] /\ token'[o] = token[o]
    BY <1>1, <1>2 DEF Inv, Typed, Searched, Fetching
  <2> QED
    BY <1>1, <2>1, TableKept DEF Inv
<1>5. answer[r] = None
  BY <1>1 DEF Inv, KeysInv, Arriving, Fetching, Waiting
<1>6. \A o \in Requests : answer'[o] # None => answer'[o] = answer[o] /\ pc'[o] = pc[o]
  BY <1>1, <1>2, <1>5 DEF Inv, Typed
<1>7. KeysInv'
  BY <1>1, <1>6, KeysKept DEF Inv
<1> QED
  BY <1>3, <1>4, <1>7 DEF Inv

LEMMA ServeInductive ==
  ASSUME Inv, NEW r \in Requests, Serve(r)
  PROVE  Inv'
<1>1. /\ pc[r] \in Fetching
      /\ answer' = [answer EXCEPT ![r] = [keys |-> published, served |-> clock]]
      /\ UNCHANGED <<clock, issuer, cached, pc, token, known, users>>
  BY DEF Serve
<1>2. Typed'
  BY <1>1 DEF Inv, Typed, Document, issuer
<1>3. TableInv'
  BY <1>1, TableKept DEF Inv
<1>4. Arriving'
  <2>1. ASSUME NEW o \in Requests \ {r}
        PROVE  answer'[o] = answer[o]
    BY <1>1 DEF Inv, Typed
  <2>2. answer'[r] = [keys |-> published, served |-> clock]
    BY <1>1 DEF Inv, Typed
  <2>3. Current(answer[r])'
    BY <1>1, <2>2 DEF Inv, KeysInv, RetiredForGood, Current, issuer, Typed
  <2>4. answer'[r].served <= clock /\ clock <= answer'[r].served + Timeout
    BY <2>2 DEF Inv, Typed
  <2>5. \A o \in Requests \ {r} : Current(answer[o])' <=> Current(answer[o])
    BY <1>1, <2>1 DEF Current, issuer
  <2> QED
    BY <1>1, <2>1, <2>2, <2>3, <2>4, <2>5 DEF Inv, KeysInv, Arriving, issuer
<1>5. RetiredForGood' /\ KnownOnes' /\ InCache'
  BY <1>1 DEF Inv, KeysInv, RetiredForGood, KnownOnes, InCache, Current, issuer
<1> QED
  BY <1>2, <1>3, <1>4, <1>5 DEF Inv, KeysInv

\* A fetch is over, with its document in the cache or without.
LEMMA FetchEnds ==
  ASSUME Inv, NEW r \in Requests, Receive(r) \/ FetchFails(r)
  PROVE  Inv'
<1>1. /\ pc[r] \in Fetching /\ answer' = [answer EXCEPT ![r] = None]
      /\ UNCHANGED <<clock, issuer, known, users, token>>
  BY DEF Receive, FetchFails
<1>2. PICK label \in Searched \cup {"unknown", "unreachable"} : pc' = [pc EXCEPT ![r] = label]
  BY SearchMoves DEF Receive, FetchFails, Goto, Decoded, Searched
<1>3. \/ cached' = cached
      \/ /\ answer[r] # None
         /\ cached' = [keys |-> answer[r].keys, served |-> answer[r].served, fetched |-> clock]
  BY DEF Receive, FetchFails, Stamp
<1>4. Typed'
  <2>1. cached' \in [keys : SUBSET Keys, served : Nat, fetched : Nat] \cup {None}
    BY <1>3 DEF Inv, Typed, Document
  <2> QED
    BY <1>1, <1>2, <2>1 DEF Inv, Typed, Labels, Searched, Waiting, Ended, Fetching, issuer
<1>5. TableInv'
  <2>1. \A o \in Requests : pc'[o] \in {"inserted", "rereading", "failed"} =>
          pc'[o] = pc[o] /\ token'[o] = token[o]
    BY <1>1, <1>2 DEF Inv, Typed, Searched
  <2> QED
    BY <1>1, <2>1, TableKept DEF Inv
<1>6. \A o \in Requests : answer'[o] # None => answer'[o] = answer[o] /\ pc'[o] = pc[o]
  BY <1>1, <1>2 DEF Inv, Typed
<1>7. RetiredForGood' /\ KnownOnes' /\ Arriving'
  BY <1>1, <1>6 DEF Inv, KeysInv, RetiredForGood, KnownOnes, Arriving, Current, issuer
<1>8. InCache'
  <2>1. CASE cached' = cached
    BY <1>1, <2>1 DEF Inv, KeysInv, InCache, Current, issuer
  <2>2. CASE answer[r] # None
             /\ cached' = [keys |-> answer[r].keys, served |-> answer[r].served, fetched |-> clock]
    <3>1. /\ Current(answer[r]) /\ answer[r].served <= clock
          /\ clock <= answer[r].served + Timeout
      BY <2>2 DEF Inv, KeysInv, Arriving
    <3> QED
      BY <1>1, <2>2, <3>1 DEF Inv, Typed, InCache, Current, issuer
  <2> QED
    BY <1>3, <2>1, <2>2
<1> QED
  BY <1>4, <1>5, <1>7, <1>8 DEF Inv, KeysInv

LEMMA RestartInductive ==
  ASSUME Inv, Restart
  PROVE  Inv'
<1>1. /\ pc' = [r \in Requests |-> IF pc[r] \in Ended \cup {"new"} THEN pc[r] ELSE "lost"]
      /\ cached' = None /\ answer' = [r \in Requests |-> None]
      /\ UNCHANGED <<clock, issuer, token, known, users>>
  BY DEF Restart
<1>2. Typed'
  BY <1>1 DEF Inv, Typed, Labels, Ended, issuer
<1>3. TableInv'
  BY <1>1, TableKept DEF Inv, Ended
<1>4. KeysInv'
  BY <1>1 DEF Inv, KeysInv, RetiredForGood, KnownOnes, Arriving, InCache, issuer
<1> QED
  BY <1>2, <1>3, <1>4 DEF Inv

\* The issuer, and time.
LEMMA WorldInductive ==
  ASSUME Inv, (\E k \in Keys : Publish(k) \/ Retire(k)) \/ Tick
  PROVE  Inv'
<1>1. UNCHANGED <<cache, pc, token, known, users>>
  BY DEF Publish, Retire, Tick
<1>2. TableInv'
  BY <1>1, TableKept DEF Inv
<1>3. ASSUME NEW k \in Keys, Publish(k)
      PROVE  Typed' /\ KeysInv'
  BY <1>1, <1>3 DEF Publish, Inv, Typed, KeysInv, RetiredForGood, KnownOnes, Arriving,
                    InCache, Current, cache
<1>4. ASSUME NEW k \in Keys, Retire(k)
      PROVE  Typed' /\ KeysInv'
  <2>1. /\ k \in published /\ published' = published \ {k} /\ clock' = clock
        /\ retired' = [retired EXCEPT ![k] = clock]
    BY <1>4 DEF Retire
  <2>2. Typed'
    BY <1>1, <2>1 DEF Inv, Typed, cache
  <2>3. retired'[k] = clock /\ \A o \in Keys \ {k} : retired'[o] = retired[o]
    BY <2>1 DEF Inv, Typed
  <2>4. RetiredForGood' /\ KnownOnes'
    BY <1>1, <2>1, <2>3 DEF Inv, Typed, KeysInv, RetiredForGood, KnownOnes
  <2>5. Arriving'
    <3>1. ASSUME NEW r \in Requests, answer[r] # None
          PROVE  Current(answer[r])'
      BY <1>1, <2>3, <3>1 DEF Inv, Typed, KeysInv, Arriving, Current, Document, cache
    <3> QED
      BY <1>1, <2>1, <3>1 DEF Inv, KeysInv, Arriving, cache
  <2>6. InCache'
    BY <1>1, <2>1, <2>3 DEF Inv, Typed, KeysInv, InCache, Current, cache
  <2> QED
    BY <2>2, <2>4, <2>5, <2>6 DEF KeysInv
<1>5. ASSUME Tick
      PROVE  Typed' /\ KeysInv'
  <2>1. /\ clock < MaxClock /\ clock' = clock + 1 /\ UNCHANGED issuer
        /\ \A r \in Requests : answer[r] # None => clock - answer[r].served < Timeout
    BY <1>5 DEF Tick
  <2>2. Typed'
    BY <1>1, <2>1 DEF Inv, Typed, cache, issuer
  <2>3. RetiredForGood' /\ KnownOnes' /\ InCache'
    BY <1>1, <2>1 DEF Inv, Typed, KeysInv, RetiredForGood, KnownOnes, InCache, Current,
                      cache, issuer
  <2>4. Arriving'
    BY <1>1, <2>1 DEF Inv, Typed, KeysInv, Arriving, Current, cache, issuer, Document
  <2> QED
    BY <2>2, <2>3, <2>4 DEF KeysInv
<1> QED
  BY <1>2, <1>3, <1>4, <1>5 DEF Inv

LEMMA InvInductive == Inv /\ [Next]_vars => Inv'
<1> SUFFICES ASSUME Inv, [Next]_vars PROVE Inv'
  OBVIOUS
<1>1. CASE UNCHANGED vars
  <2>1. Typed' /\ KeysInv'
    BY <1>1 DEF vars, cache, issuer, Inv, Typed, KeysInv, RetiredForGood, KnownOnes, Arriving,
                InCache, Current
  <2>2. TableInv'
    BY <1>1, TableKept DEF vars, Inv
  <2> QED
    BY <2>1, <2>2 DEF Inv
<1>2. CASE Next
  BY <1>2, ArriveInductive, AcquireInductive, ServeInductive, FetchEnds, SelectInductive,
     InsertInductive, CommitInductive, RereadInductive, RestartInductive, WorldInductive
     DEF Next, Step
<1> QED
  BY <1>1, <1>2

LEMMA InvInitially == Init => Inv
BY DEF Init, Inv, Typed, Labels, TableInv, InsertsAreFree, RowsWereMet, LosersRecover,
       KeysInv, RetiredForGood, KnownOnes, Arriving, InCache

LEMMA AlwaysInv == Spec => []Inv
BY InvInitially, InvInductive, PTL DEF Spec

------------------------------------------------------------------------------

(* auth/dependencies.py, resolve_user: whatever the races, a verified caller *)
(* is refused an account only because another subject's row has the name or  *)
(* the email.                                                                *)
THEOREM LosersAlwaysRecover == Spec => []LosersRecover
<1>1. Inv => LosersRecover
  BY DEF Inv, TableInv
<1> QED
  BY AlwaysInv, <1>1, PTL

(* auth/dependencies.py, resolve_user: the users table is a write-once store *)
(* under the subject: one row each, which nothing replaces.                  *)
THEOREM ImplementsWriteOnce == Spec => RefinesWriteOnce
<1>1. Init => Table!Init
  BY DEF Init, Table!Init
<1>2. Inv /\ [Next]_vars => [Table!Next]_users
  <2> SUFFICES ASSUME Inv, [Next]_vars, users' # users PROVE Table!Next
    OBVIOUS
  <2>1. PICK r \in Requests : Commit(r)
    BY DEF vars, cache, issuer, Next, Step, Arrive, Acquire, Serve, Receive, FetchFails, Select,
           Insert, Reread, DatabaseFails, Restart, Publish, Retire, Tick
  <2>2. Table!Put(token[r].sub, Row(r))
    BY <2>1, CommitAdds DEF Table!Put
  <2> QED
    BY <2>1, <2>2, CommitAdds DEF Table!Next
<1> QED
  BY <1>1, <1>2, AlwaysInv, PTL DEF Spec, RefinesWriteOnce, Table!Spec

(* auth/jwks.py, get_signing_key: a token whose key was published when it    *)
(* came is never refused for an unknown key while the key is published.      *)
THEOREM RotationsHeal == Spec => RotationHeals
<1>1. ASSUME Inv, [Next]_vars, NEW r \in Requests,
             pc[r] # "unknown", pc'[r] = "unknown", known[r]
      PROVE  token[r].kid \notin published
  <2>1. pc'[r] # pc[r]
    BY <1>1
  <2>2. PICK o \in Requests : Receive(o) /\ pc[o] = "refetching"
                              /\ Goto(o, "unknown") /\ token'[o].kid \notin answer[o].keys
    <3>1. ASSUME NEW o \in Requests, NEW keys, NEW queue, Search(o, keys, queue)
          PROVE  pc'[r] # "unknown"
      BY <1>1, <3>1, SearchMoves DEF Inv, Typed, Goto, Searched
    <3>2. Next
      BY <1>1, <2>1 DEF vars
    <3>3. PICK o \in Requests : \/ \E t \in Tokens : Arrive(o, t)
                                \/ Step(o) \/ FetchFails(o) \/ DatabaseFails(o)
      BY <1>1, <3>2 DEF Next, Restart, Publish, Retire, Tick, Inv, Typed, cache
    <3>4. Receive(o)
      BY <1>1, <3>1, <3>3
         DEF Inv, Typed, Step, Arrive, Acquire, Serve, FetchFails, Select, Insert, Commit, Reread,
             DatabaseFails, Goto, Await
    <3> QED
      BY <1>1, <3>1, <3>4 DEF Receive, Goto, Decoded, Fetching, Inv, Typed
  <2>3. o = r /\ answer[r] # None /\ token' = token
    BY <1>1, <2>2 DEF Receive, Goto, Inv, Typed
  <2> QED
    BY <1>1, <2>2, <2>3 DEF Inv, KeysInv, Arriving
<1>2. Inv /\ [Next]_vars =>
        [\A r \in Requests : pc[r] # "unknown" /\ pc'[r] = "unknown" /\ known[r]
           => token[r].kid \notin published]_vars
  BY <1>1
<1> QED
  BY <1>2, AlwaysInv, PTL DEF Spec, RotationHeals

(* auth/jwks.py, _is_stale: a retired key is accepted for no longer than the *)
(* lifetime of the cache and of a fetch.                                     *)
THEOREM RetiredKeysAlwaysDie ==
  ASSUME TTL > 0
  PROVE  Spec => RetiredKeysDie
<1>1. ASSUME Inv, [Next]_vars, NEW r \in Requests, NEW k \in Keys,
             pc[r] # "selecting", pc'[r] = "selecting", token'[r].kid = k, retired[k] # None
      PROVE  clock < retired[k] + TTL + Timeout
  <2>1. /\ clock \in Nat /\ retired[k] \in Nat
        /\ cached # None => cached.served \in Nat /\ cached.fetched \in Nat
        /\ answer[r] # None => answer[r].served \in Nat
    BY <1>1 DEF Inv, Typed, Document
  <2>2. \/ ~IsStale /\ k \in cached.keys
        \/ answer[r] # None /\ k \in answer[r].keys
    <3>1. ASSUME NEW o \in Requests, NEW keys, NEW queue, Search(o, keys, queue)
          PROVE  o = r /\ k \in keys
      BY <1>1, <3>1, SearchMoves DEF Inv, Typed, Goto, Searched
    <3>2. Next
      BY <1>1 DEF vars
    <3>3. PICK o \in Requests : \/ \E t \in Tokens : Arrive(o, t)
                                \/ Step(o) \/ FetchFails(o) \/ DatabaseFails(o)
      BY <1>1, <3>2 DEF Next, Restart, Publish, Retire, Tick, Inv, Typed, cache
    <3>4. (\E t \in Tokens : Arrive(o, t)) \/ Acquire(o) \/ Receive(o)
      BY <1>1, <3>3
         DEF Inv, Typed, Step, Serve, FetchFails, Select, Insert, Commit, Reread,
             DatabaseFails, Goto
    <3>5. CASE \E t \in Tokens : Arrive(o, t)
      BY <1>1, <3>1, <3>5 DEF Arrive, Await, Goto, Inv, Typed
    <3>6. CASE Acquire(o)
      BY <1>1, <3>1, <3>6 DEF Acquire, Goto, Inv, Typed
    <3>7. CASE Receive(o)
      BY <1>1, <3>1, <3>7 DEF Receive, Goto, Inv, Typed
    <3> QED
      BY <3>4, <3>5, <3>6, <3>7
  <2>3. CASE ~IsStale /\ k \in cached.keys
    BY <1>1, <2>1, <2>3 DEF IsStale, Inv, KeysInv, InCache, Current
  <2>4. CASE answer[r] # None /\ k \in answer[r].keys
    BY <1>1, <2>1, <2>4 DEF Inv, KeysInv, Arriving, Current
  <2> QED
    BY <2>2, <2>3, <2>4
<1>2. Inv /\ [Next]_vars =>
        [\A r \in Requests, k \in Keys :
           pc[r] # "selecting" /\ pc'[r] = "selecting" /\ token'[r].kid = k /\ retired[k] # None
             => clock < retired[k] + TTL + Timeout]_vars
  BY <1>1
<1> QED
  BY <1>2, AlwaysInv, PTL DEF Spec, RetiredKeysDie

------------------------------------------------------------------------------
(* The lock of the cache.                                                    *)

\* Nobody stands in a line twice.
IsLine(q) == q \in Seq(Requests) /\ \A i, j \in 1..Len(q) : q[i] = q[j] => i = j

InLine(q, r) == \E i \in 1..Len(q) : q[i] = r

\* Who holds the lock or awaits it is in line, and who fetches is its head.
Locked ==
  /\ IsLine(line)
  /\ \A r \in Requests :
       /\ InLine(line, r) <=> pc[r] \in Waiting \cup Fetching
       /\ pc[r] \in Fetching => Head(line) = r

\* What is on its way is not older than what is there.
Newer ==
  \A r \in Requests : answer[r] # None /\ cached # None => cached.served <= answer[r].served

LEMMA JoinLine ==
  ASSUME NEW q, IsLine(q), NEW r \in Requests, ~InLine(q, r)
  PROVE  /\ IsLine(Append(q, r)) /\ \A o : InLine(Append(q, r), o) <=> InLine(q, o) \/ o = r
         /\ \A o : InLine(q, o) => Head(Append(q, r)) = Head(q)
<1>1. /\ q \in Seq(Requests) /\ Append(q, r) \in Seq(Requests)
      /\ Len(q) \in Nat /\ Len(Append(q, r)) = Len(q) + 1
      /\ Append(q, r)[Len(q) + 1] = r
      /\ \A i \in 1..Len(q) : Append(q, r)[i] = q[i]
  BY DEF IsLine
<1>2. IsLine(Append(q, r))
  <2> SUFFICES ASSUME NEW i \in 1..Len(q) + 1, NEW j \in 1..Len(q) + 1,
                      Append(q, r)[i] = Append(q, r)[j]
               PROVE  i = j
    BY <1>1 DEF IsLine
  <2>1. CASE i \in 1..Len(q) /\ j \in 1..Len(q)
    BY <1>1, <2>1 DEF IsLine
  <2>2. CASE i = Len(q) + 1 \/ j = Len(q) + 1
    BY <1>1, <2>2 DEF InLine
  <2> QED
    BY <1>1, <2>1, <2>2
<1>3. ASSUME NEW o
      PROVE  InLine(Append(q, r), o) <=> InLine(q, o) \/ o = r
  <2>1. InLine(Append(q, r), o) <=> \E i \in 1..Len(q) + 1 : Append(q, r)[i] = o
    BY <1>1 DEF InLine
  <2>2. 1..Len(q) + 1 = 1..Len(q) \cup {Len(q) + 1}
    BY <1>1
  <2> QED
    BY <1>1, <2>1, <2>2 DEF InLine
<1>4. ASSUME NEW o, InLine(q, o)
      PROVE  Head(Append(q, r)) = Head(q)
  BY <1>1, <1>4 DEF InLine
<1> QED
  BY <1>2, <1>3, <1>4

LEMMA LeaveLine ==
  ASSUME NEW q, IsLine(q), NEW r, InLine(q, r), Head(q) = r
  PROVE  IsLine(Tail(q)) /\ \A o : InLine(Tail(q), o) <=> InLine(q, o) /\ o # r
<1>1. /\ q \in Seq(Requests) /\ Len(q) \in Nat /\ Len(q) >= 1 /\ q[1] = r
      /\ Tail(q) \in Seq(Requests) /\ Len(Tail(q)) = Len(q) - 1
      /\ \A i \in 1..Len(q) - 1 : Tail(q)[i] = q[i + 1]
  BY DEF IsLine, InLine
<1>2. IsLine(Tail(q))
  <2> SUFFICES ASSUME NEW i \in 1..Len(q) - 1, NEW j \in 1..Len(q) - 1, q[i + 1] = q[j + 1]
               PROVE  i = j
    BY <1>1 DEF IsLine
  <2>1. i + 1 \in 1..Len(q) /\ j + 1 \in 1..Len(q)
    BY <1>1
  <2>2. i + 1 = j + 1
    BY <2>1 DEF IsLine
  <2> QED
    BY <2>2
<1>3. ASSUME NEW o, InLine(Tail(q), o)
      PROVE  InLine(q, o) /\ o # r
  <2>1. PICK i \in 1..Len(q) - 1 : q[i + 1] = o
    BY <1>1, <1>3 DEF InLine
  <2>2. i + 1 \in 1..Len(q) /\ 1 \in 1..Len(q) /\ i + 1 # 1
    BY <1>1
  <2> QED
    BY <1>1, <2>1, <2>2 DEF IsLine, InLine
<1>4. ASSUME NEW o, InLine(q, o), o # r
      PROVE  InLine(Tail(q), o)
  <2>1. PICK i \in 1..Len(q) : q[i] = o
    BY <1>4 DEF InLine
  <2>2. i - 1 \in 1..Len(q) - 1 /\ Tail(q)[i - 1] = o
    <3>1. i # 1 /\ i - 1 \in 1..Len(q) - 1
      BY <1>1, <1>4, <2>1
    <3>2. Tail(q)[i - 1] = q[i - 1 + 1] /\ i - 1 + 1 = i
      BY <1>1, <3>1
    <3> QED
      BY <2>1, <3>1, <3>2
  <2> QED
    BY <1>1, <2>2 DEF InLine
<1> QED
  BY <1>2, <1>3, <1>4

\* A step of r's, which is not in q: it stays out of the line, or joins q to wait.
LEMMA MoveKeepsLock ==
  ASSUME Typed, NEW r \in Requests, NEW label, pc' = [pc EXCEPT ![r] = label],
         NEW q, IsLine(q), ~InLine(q, r),
         \A o \in Requests \ {r} : /\ InLine(q, o) <=> pc[o] \in Waiting \cup Fetching
                                   /\ pc[o] \in Fetching => Head(q) = o,
         \/ label \notin Waiting \cup Fetching /\ line' = q
         \/ label \in Waiting /\ line' = Append(q, r)
  PROVE  Locked'
<1>1. \A o \in Requests : pc'[o] = IF o = r THEN label ELSE pc[o]
  BY DEF Typed
<1>2. CASE label \notin Waiting \cup Fetching /\ line' = q
  BY <1>1, <1>2 DEF Locked
<1>3. CASE label \in Waiting /\ line' = Append(q, r)
  <2>1. label \notin Fetching
    BY <1>3 DEF Waiting, Fetching
  <2>2. /\ IsLine(line') /\ \A o : InLine(line', o) <=> InLine(q, o) \/ o = r
        /\ \A o : InLine(q, o) => Head(line') = Head(q)
    BY <1>3, JoinLine
  <2>3. \A o \in Requests : pc'[o] \in Fetching => Head(line') = o
    BY <1>1, <2>1, <2>2
  <2>4. \A o \in Requests : InLine(line', o) <=> pc'[o] \in Waiting \cup Fetching
    BY <1>1, <1>3, <2>2
  <2> QED
    BY <2>2, <2>3, <2>4 DEF Locked
<1> QED
  BY <1>2, <1>3

\* Steps that neither take nor leave the lock.
LEMMA LockKept ==
  ASSUME Locked, line' = line,
         \A o \in Requests : /\ pc'[o] \in Waiting <=> pc[o] \in Waiting
                             /\ pc'[o] \in Fetching <=> pc[o] \in Fetching
  PROVE  Locked'
BY DEF Locked

LEMMA SearchKeepsLock ==
  ASSUME Typed, NEW r \in Requests, NEW keys, NEW q, Search(r, keys, q),
         IsLine(q), ~InLine(q, r),
         \A o \in Requests \ {r} : /\ InLine(q, o) <=> pc[o] \in Waiting \cup Fetching
                                   /\ pc[o] \in Fetching => Head(q) = o
  PROVE  Locked'
<1>1. \E label \in {"selecting", "invalid", "forcing"} :
        /\ pc' = [pc EXCEPT ![r] = label]
        /\ line' = IF label = "forcing" THEN Append(q, r) ELSE q
  BY DEF Search, Await, Goto, Decoded
<1> QED
  BY <1>1, MoveKeepsLock DEF Waiting, Fetching

LEMMA ArriveKeepsLock ==
  ASSUME Inv, Locked, NEW r \in Requests, NEW t \in Tokens, Arrive(r, t)
  PROVE  Locked'
<1>1. pc[r] = "new"
  BY DEF Arrive
<1>2. IsLine(line) /\ ~InLine(line, r)
      /\ \A o \in Requests \ {r} : /\ InLine(line, o) <=> pc[o] \in Waiting \cup Fetching
                                   /\ pc[o] \in Fetching => Head(line) = o
  BY <1>1 DEF Locked, Waiting, Fetching
<1>3. CASE Search(r, cached.keys, line)
  BY <1>2, <1>3, SearchKeepsLock DEF Inv
<1>4. CASE Goto(r, "invalid") /\ UNCHANGED line
  <2>1. line' = line /\ pc' = [pc EXCEPT ![r] = "invalid"]
    BY <1>4 DEF Goto
  <2>2. "invalid" \notin Waiting \cup Fetching
    BY DEF Waiting, Fetching
  <2> QED
    BY <1>2, <2>1, <2>2, MoveKeepsLock DEF Inv
<1>5. CASE Await(r, "refreshing", line)
  BY <1>2, <1>5, MoveKeepsLock DEF Inv, Await, Goto, Waiting, Fetching
<1> QED
  BY <1>3, <1>4, <1>5 DEF Arrive

\* The head of the line goes, and nobody else fetches.
LEMMA HeadLeaves ==
  ASSUME Locked, NEW r \in Requests, pc[r] \in Waiting \cup Fetching, Head(line) = r
  PROVE  /\ IsLine(Tail(line)) /\ ~InLine(Tail(line), r)
         /\ \A o \in Requests \ {r} : /\ InLine(Tail(line), o) <=> pc[o] \in Waiting \cup Fetching
                                      /\ pc[o] \notin Fetching
BY LeaveLine DEF Locked

LEMMA AcquireKeepsLock ==
  ASSUME Inv, Locked, NEW r \in Requests, Acquire(r)
  PROVE  Locked'
<1>1. pc[r] \in Waiting /\ Head(line) = r
  BY DEF Acquire
<1>2. CASE Search(r, cached.keys, Tail(line))
  BY <1>1, <1>2, HeadLeaves, SearchKeepsLock DEF Inv
<1>3. CASE UNCHANGED line /\ \E label \in Fetching : Goto(r, label)
  <2>1. PICK label \in Fetching : \A o \in Requests : pc'[o] = IF o = r THEN label ELSE pc[o]
    BY <1>3 DEF Goto, Inv, Typed
  <2> QED
    BY <1>1, <1>3, <2>1 DEF Locked
<1> QED
  BY <1>2, <1>3 DEF Acquire, Fetching

LEMMA FetchKeepsLock ==
  ASSUME Inv, Locked, NEW r \in Requests, Receive(r) \/ FetchFails(r)
  PROVE  Locked'
<1>1. pc[r] \in Fetching /\ Head(line) = r
  BY DEF Receive, FetchFails, Locked
<1>2. CASE Search(r, answer[r].keys, Tail(line))
  BY <1>1, <1>2, HeadLeaves, SearchKeepsLock DEF Inv
<1>3. CASE /\ line' = Tail(line)
           /\ \E label \in {"selecting", "invalid", "unknown", "unreachable"} : Goto(r, label)
  BY <1>1, <1>3, HeadLeaves, MoveKeepsLock DEF Inv, Goto, Waiting, Fetching
<1> QED
  BY <1>2, <1>3 DEF Receive, FetchFails, Released, Decoded

\* The steps between the awaits of the table.
LEMMA TableKeepsLock ==
  ASSUME Inv, Locked, NEW r \in Requests,
         Select(r) \/ Insert(r) \/ Commit(r) \/ Reread(r) \/ DatabaseFails(r)
  PROVE  Locked'
<1>1. PICK label \in {"resolved", "inserting", "rereading", "inserted", "failed", "lost"} :
        pc' = [pc EXCEPT ![r] = label]
  BY DEF Select, Insert, Commit, Reread, DatabaseFails, Goto
<1>2. line' = line /\ pc[r] \notin Waiting \cup Fetching
  BY DEF Select, Insert, Commit, Reread, DatabaseFails, Unmoved, cache, Waiting, Fetching
<1>3. \A o \in Requests : /\ pc'[o] \in Waiting <=> pc[o] \in Waiting
                          /\ pc'[o] \in Fetching <=> pc[o] \in Fetching
  BY <1>1, <1>2 DEF Inv, Typed, Waiting, Fetching
<1> QED
  BY <1>2, <1>3, LockKept

LEMMA RestartKeepsLock ==
  ASSUME Restart
  PROVE  Locked'
<1>1. line' = <<>> /\ \A r \in Requests : pc'[r] \notin Waiting \cup Fetching
  BY DEF Restart, Ended, Waiting, Fetching
<1> QED
  BY <1>1 DEF Locked, IsLine, InLine

LEMMA LockedInductive == Inv /\ Locked /\ [Next]_vars => Locked'
<1> SUFFICES ASSUME Inv, Locked, [Next]_vars PROVE Locked'
  OBVIOUS
<1>1. CASE \/ UNCHANGED vars \/ Tick \/ \E r \in Requests : Serve(r)
           \/ \E k \in Keys : Publish(k) \/ Retire(k)
  <2>1. line' = line /\ pc' = pc
    BY <1>1 DEF vars, cache, Tick, Serve, Publish, Retire
  <2> QED
    BY <2>1, LockKept
<1> QED
  BY <1>1, ArriveKeepsLock, AcquireKeepsLock, FetchKeepsLock, TableKeepsLock, RestartKeepsLock
     DEF Next, Step

LEMMA NewerInductive == Inv /\ Locked /\ Newer /\ [Next]_vars => Newer'
<1> SUFFICES ASSUME Inv, Locked, Newer, [Next]_vars PROVE Newer'
  OBVIOUS
<1>1. ASSUME NEW r \in Requests, Serve(r)
      PROVE  Newer'
  <2>1. \A o \in Requests : \/ answer'[o] = answer[o] \/ answer'[o].served = clock
    BY <1>1 DEF Serve, Inv, Typed
  <2>2. cached' = cached /\ (cached # None => cached.served <= clock)
    BY <1>1 DEF Serve, Inv, Typed, KeysInv, InCache
  <2> QED
    BY <2>1, <2>2 DEF Newer
<1>2. ASSUME NEW r \in Requests, Receive(r) \/ FetchFails(r)
      PROVE  Newer'
  <2>1. pc[r] \in Fetching /\ answer' = [answer EXCEPT ![r] = None]
    BY <1>2 DEF Receive, FetchFails
  <2>2. \A o \in Requests \ {r} : answer[o] = None
    BY <2>1 DEF Locked, Inv, KeysInv, Arriving
  <2>3. \A o \in Requests : answer'[o] = None
    BY <2>1, <2>2 DEF Inv, Typed
  <2> QED
    BY <2>3 DEF Newer
<1>3. CASE Restart
  BY <1>3 DEF Restart, Newer
<1>4. CASE UNCHANGED <<cached, answer>>
  BY <1>4 DEF Newer
<1> QED
  BY <1>1, <1>2, <1>3, <1>4
     DEF Next, Step, vars, cache, Arrive, Acquire, Select, Insert, Commit, Reread, DatabaseFails,
         Unmoved, Publish, Retire, Tick

LEMMA AlwaysLocked == Spec => [](Inv /\ Locked /\ Newer)
<1>1. Init => Locked /\ Newer
  BY DEF Init, Locked, Newer, IsLine, InLine, Waiting, Fetching
<1> QED
  BY <1>1, LockedInductive, NewerInductive, AlwaysInv, PTL DEF Spec

(* auth/jwks.py and auth/dependencies.py: the types of what they keep.       *)
THEOREM TypeCorrect == Spec => []TypeOK
<1>1. Inv /\ Locked => TypeOK
  <2> SUFFICES ASSUME Inv, Locked PROVE TypeOK
    OBVIOUS
  <2>1. clock \in 0..MaxClock /\ published \subseteq Keys
    BY DEF Inv, Typed
  <2>2. retired \in [Keys -> 0..MaxClock \cup {None}]
    BY <2>1 DEF Inv, Typed, KeysInv, RetiredForGood
  <2>3. cached \in [keys : SUBSET Keys, served : 0..MaxClock, fetched : 0..MaxClock] \cup {None}
    <3> SUFFICES ASSUME cached # None
                 PROVE  cached \in [keys : SUBSET Keys, served : 0..MaxClock,
                                    fetched : 0..MaxClock]
      OBVIOUS
    <3>1. /\ cached \in [keys : SUBSET Keys, served : Nat, fetched : Nat]
          /\ cached.served <= cached.fetched /\ cached.fetched <= clock
      BY DEF Inv, Typed, KeysInv, InCache
    <3> QED
      BY <2>1, <3>1
  <2>4. answer \in [Requests -> Documents \cup {None}]
    <3>1. ASSUME NEW r \in Requests
          PROVE  answer[r] \in Documents \cup {None}
      <4>1. answer[r] # None => answer[r] \in Document /\ answer[r].served <= clock
        BY DEF Inv, Typed, KeysInv, Arriving
      <4> QED
        BY <2>1, <4>1 DEF Document, Documents
    <3> QED
      BY <3>1 DEF Inv, Typed
  <2> QED
    BY <2>1, <2>2, <2>3, <2>4 DEF TypeOK, Inv, Typed, Labels, Locked, IsLine
<1> QED
  BY <1>1, AlwaysLocked, PTL

(* auth/jwks.py, _lock: a document never replaces one served later, since    *)
(* whoever fetches holds the lock from before the request until the cache is *)
(* replaced.                                                                 *)
THEOREM TheNewestIsKept == Spec => NewestKept
<1>1. Inv /\ Newer /\ [Next]_vars =>
        [cached # None /\ cached' # None => cached'.served >= cached.served]_vars
  <2> SUFFICES ASSUME Inv, Newer, Next, cached # None, cached' # None, cached' # cached
               PROVE  cached'.served >= cached.served
    BY DEF vars, cache, Inv, Typed
  <2>1. PICK r \in Requests : Receive(r)
    BY DEF Next, Step, cache, Arrive, Acquire, Serve, FetchFails, Select, Insert, Commit, Reread,
           DatabaseFails, Unmoved, Restart, Publish, Retire, Tick
  <2>2. answer[r] # None /\ cached'.served = answer[r].served
    BY <2>1 DEF Receive, Stamp
  <2> QED
    BY <2>2 DEF Newer, Inv, Typed, Document
<1> QED
  BY <1>1, AlwaysLocked, PTL DEF Spec, NewestKept
------------------------------------------------------------------------------
(* The claim that MCAccountsNamesake.cfg refutes, and what would make it true. *)

\* A row says what a token of its subject said.
RowsAreOwn ==
  \A u \in Subjects : users[u] # None =>
    \E t \in Tokens : t.sub = u /\ users[u] = [name |-> t.name, email |-> t.email]

LEMMA RowsAreOwnInductive == Inv /\ RowsAreOwn /\ [Next]_vars => RowsAreOwn'
<1> SUFFICES ASSUME Inv, RowsAreOwn, [Next]_vars PROVE RowsAreOwn'
  OBVIOUS
<1>1. CASE users' = users
  BY <1>1 DEF RowsAreOwn
<1>2. ASSUME NEW r \in Requests, Commit(r)
      PROVE  RowsAreOwn'
  <2>1. users' = [users EXCEPT ![token[r].sub] = Row(r)] /\ token[r] \in Tokens
    BY <1>2, RowType DEF Commit, Inv
  <2> QED
    BY <2>1 DEF RowsAreOwn, Row, Inv, Typed
<1>3. users' = users \/ \E r \in Requests : Commit(r)
  BY DEF vars, cache, issuer, Next, Step, Arrive, Acquire, Serve, Receive, FetchFails, Select,
         Insert, Reread, DatabaseFails, Restart, Publish, Retire, Tick
<1> QED
  BY <1>1, <1>2, <1>3

(* auth/dependencies.py, resolve_user: where no two subjects share a name or *)
(* an email, every verified subject has a row or gets one, whatever races:   *)
(* it is namesakes alone that are left without.                              *)
THEOREM OnlyNamesakesAreRefused ==
  ASSUME \A t, o \in Tokens : t.sub # o.sub => t.name # o.name /\ t.email # o.email
  PROVE  Spec => []EverySubjectHasARow
<1>1. Init => RowsAreOwn
  BY DEF Init, RowsAreOwn
<1>2. Inv /\ RowsAreOwn => EverySubjectHasARow
  <2> SUFFICES ASSUME Inv, RowsAreOwn, NEW r \in Requests, pc[r] = "failed" PROVE FALSE
    BY DEF EverySubjectHasARow
  <2>1. PICK u \in Subjects \ {token[r].sub} :
          users[u] # None /\ (users[u].name = token[r].name \/ users[u].email = token[r].email)
    BY DEF Inv, TableInv, LosersRecover
  <2>2. PICK t \in Tokens : t.sub = u /\ users[u] = [name |-> t.name, email |-> t.email]
    BY <2>1 DEF RowsAreOwn
  <2>3. token[r] \in Tokens
    BY DEF Inv, Typed
  <2> QED
    BY <2>1, <2>2, <2>3
<1> QED
  BY <1>1, <1>2, RowsAreOwnInductive, AlwaysInv, PTL DEF Spec
===============================================================================
