------------------------------- MODULE Accounts -------------------------------
(***************************************************************************)
(* Who is calling: auth/clerk.py verifies a token with a key it gets from  *)
(* the cache of auth/jwks.py, and auth/dependencies.py turns the verified  *)
(* subject into a row of the users table, inserted at first sight.         *)
(*                                                                         *)
(* The requests are coroutines of one process, which shares the cache and  *)
(* its lock: a request takes one step per await.  The issuer publishes and *)
(* retires keys at any time.                                               *)
(***************************************************************************)
EXTENDS Naturals, Sequences

CONSTANTS
  Requests,  \* requests ever served; each is served once
  Keys,      \* kids
  Genesis,   \* the keys published at the start
  Subjects,  \* Clerk's user ids
  Tokens,    \* tokens sent: [kid, sub, name, email, valid]; kid None if unreadable
  TTL,       \* clerk_jwks_cache_seconds
  Timeout,   \* assumed: how old a document can be when it arrives
  Faults,    \* which may happen: "fetch", "database", "restart"
  MaxClock,  \* a bound on the clock
  None

ASSUME TimesAssumption == TTL \in Nat /\ Timeout \in Nat /\ MaxClock \in Nat
ASSUME GenesisAssumption == Genesis \subseteq Keys
ASSUME TokensAssumption == \A t \in Tokens : t.sub \in Subjects /\ t.kid \in Keys \cup {None}
ASSUME NoneAssumption == None \notin Keys /\ None \notin Tokens /\ None \notin Nat

VARIABLES
  clock,     \* time.monotonic()
  published, \* the keys in the issuer's document
  retired,   \* history: when a key left it, or None
  cached,    \* _key_set and _fetched_at: [keys, served, fetched], or None
  line,      \* the requests that hold (its head) or await the cache's lock
  pc,        \* where a request is, or how it ended
  token,     \* its token
  known,     \* history: the token's key was published when the request came
  answer,    \* the document its fetch is bringing: [keys, served], or None
  users      \* the users table, as committed: [name, email] by subject, or None

cache == <<cached, line, answer>>
issuer == <<published, retired>>
vars == <<clock, issuer, cache, pc, token, known, users>>

Waiting == {"refreshing", "forcing"}   \* in _refresh; past the unknown kid
Fetching == {"fetching", "refetching"}
Ended == {"resolved", "invalid", "unknown", "unreachable", "failed", "lost"}
Documents == [keys : SUBSET Keys, served : 0..MaxClock]
Rows == {[name |-> t.name, email |-> t.email] : t \in Tokens}

TypeOK ==
  /\ clock \in 0..MaxClock /\ published \subseteq Keys
  /\ retired \in [Keys -> 0..MaxClock \cup {None}]
  /\ cached \in [keys : SUBSET Keys, served : 0..MaxClock, fetched : 0..MaxClock] \cup {None}
  /\ line \in Seq(Requests)
  /\ pc \in [Requests -> {"new", "selecting", "inserting", "inserted", "rereading"}
                           \cup Waiting \cup Fetching \cup Ended]
  /\ token \in [Requests -> Tokens \cup {None}] /\ known \in [Requests -> BOOLEAN]
  /\ answer \in [Requests -> Documents \cup {None}]
  /\ users \in [Subjects -> Rows \cup {None}]

Init ==
  /\ clock = 0 /\ published = Genesis /\ retired = [k \in Keys |-> None]
  /\ cached = None /\ line = <<>> /\ answer = [r \in Requests |-> None]
  /\ pc = [r \in Requests |-> "new"] /\ token = [r \in Requests |-> None]
  /\ known = [r \in Requests |-> FALSE]
  /\ users = [u \in Subjects |-> None]

------------------------------------------------------------------------------
(* The cache.                                                                *)

Goto(r, label) == pc' = [pc EXCEPT ![r] = label]

\* Mutant: what was fetched once is good for ever.
IsStale_Never == cached = None

IsStale == cached = None \/ clock - cached.fetched >= TTL

\* A key was found: jwt.decode and _check_authorized_party, without an await.
Decoded(r) == IF token'[r].valid THEN "selecting" ELSE "invalid"

\* Join the lock's waiters, at "queue".
Await(r, label, queue) == Goto(r, label) /\ line' = Append(queue, r)

\* The search of "keys" by a request that has not yet forced a refetch.
Search(r, keys, queue) ==
  IF token'[r].kid \in keys
  THEN Goto(r, Decoded(r)) /\ line' = queue
  ELSE Await(r, "forcing", queue)

\* verify and get_signing_key, up to the first await.
Arrive(r, t) ==
  /\ pc[r] = "new"
  /\ token' = [token EXCEPT ![r] = t]
  /\ known' = [known EXCEPT ![r] = t.kid \in published]
  /\ CASE t.kid = None -> Goto(r, "invalid") /\ UNCHANGED line
       [] t.kid # None /\ IsStale -> Await(r, "refreshing", line)
       [] OTHER -> Search(r, cached.keys, line)
  /\ UNCHANGED <<clock, issuer, cached, answer, users>>

\* Mutant: the forced refetch is content with a fresh cache, as _refresh is.
Acquire_Rechecks(r) ==
  /\ pc[r] \in Waiting /\ Head(line) = r
  /\ UNCHANGED token
  /\ IF IsStale THEN Goto(r, "refetching") /\ UNCHANGED line
     ELSE /\ Goto(r, IF token[r].kid \in cached.keys THEN Decoded(r) ELSE "unknown")
          /\ line' = Tail(line)
  /\ UNCHANGED <<clock, issuer, cached, answer, known, users>>

\* Mutant: the forced refetch does not take the lock.
Acquire_Unlocked(r) ==
  /\ pc[r] = "forcing" \/ (pc[r] = "refreshing" /\ Head(line) = r)
  /\ UNCHANGED token
  /\ IF pc[r] = "refreshing" /\ ~IsStale
     THEN Search(r, cached.keys, Tail(line))
     ELSE Goto(r, IF pc[r] = "forcing" THEN "refetching" ELSE "fetching") /\ UNCHANGED line
  /\ UNCHANGED <<clock, issuer, cached, answer, known, users>>

\* The lock is this request's: _refresh looks at the cache again, the forced
\* refetch does not.
Acquire(r) ==
  /\ pc[r] \in Waiting /\ Head(line) = r
  /\ UNCHANGED token
  /\ IF pc[r] = "refreshing" /\ ~IsStale
     THEN Search(r, cached.keys, Tail(line))
     ELSE Goto(r, IF pc[r] = "forcing" THEN "refetching" ELSE "fetching") /\ UNCHANGED line
  /\ UNCHANGED <<clock, issuer, cached, answer, known, users>>

\* The issuer serves the document; it is on its way.
Serve(r) ==
  /\ pc[r] \in Fetching /\ answer[r] = None
  /\ answer' = [answer EXCEPT ![r] = [keys |-> published, served |-> clock]]
  /\ UNCHANGED <<clock, issuer, cached, line, pc, token, known, users>>

\* Mutant: the time of expiry is kept instead of the time of the fetch.
Stamp_Expiry(r) ==
  [keys |-> answer[r].keys, served |-> answer[r].served, fetched |-> clock + TTL]

\* What _fetch puts in the cache.
Stamp(r) == [keys |-> answer[r].keys, served |-> answer[r].served, fetched |-> clock]

\* The lock is given back: whoever has waited longest is next.
Released == Tail(line)

\* _fetch returns: the cache is replaced, the lock released, the key looked for.
Receive(r) ==
  /\ pc[r] \in Fetching /\ answer[r] # None
  /\ cached' = Stamp(r)
  /\ answer' = [answer EXCEPT ![r] = None]
  /\ UNCHANGED token
  /\ IF pc[r] = "fetching"
     THEN Search(r, answer[r].keys, Released)
     ELSE /\ Goto(r, IF token[r].kid \in answer[r].keys THEN Decoded(r) ELSE "unknown")
          /\ line' = Released
  /\ UNCHANGED <<clock, issuer, known, users>>

\* Mutant: the lock is not given back.
FetchFails_Locked(r) ==
  /\ pc[r] \in Fetching /\ "fetch" \in Faults
  /\ answer' = [answer EXCEPT ![r] = None]
  /\ Goto(r, "unreachable")
  /\ UNCHANGED <<clock, issuer, cached, line, token, known, users>>

\* An HTTP error, a timeout or a malformed document: the cache stays as it was.
\* A body that is not JSON raises what nobody handles, with the same effect
\* on the cache and the lock: the two answers, 503 and 500, are one outcome here.
FetchFails(r) ==
  /\ pc[r] \in Fetching /\ "fetch" \in Faults
  /\ answer' = [answer EXCEPT ![r] = None]
  /\ Goto(r, "unreachable") /\ line' = Released
  /\ UNCHANGED <<clock, issuer, cached, token, known, users>>

------------------------------------------------------------------------------
(* The users table: unique clerk_user_id, email and username.                *)

Row(r) == [name |-> token[r].name, email |-> token[r].email]

\* Another row, or one being inserted, that a unique index sets against r's.
Clash(sub, row, r) == sub = token[r].sub \/ row.name = token[r].name \/ row.email = token[r].email

\* Mutant: no unique index on clerk_user_id.
Taken_Twice(r) ==
  \E u \in Subjects \ {token[r].sub} : users[u] # None /\ Clash(u, users[u], r)

Taken(r) == \E u \in Subjects : users[u] # None /\ Clash(u, users[u], r)

\* An INSERT waits for the transactions whose rows clash with its own.
Contended(r) ==
  \E o \in Requests \ {r} : pc[o] = "inserted" /\ Clash(token[o].sub, Row(o), r)

Unmoved == UNCHANGED <<clock, issuer, cache, token, known>>

\* resolve_user: the first SELECT.
Select(r) ==
  /\ pc[r] = "selecting"
  /\ Goto(r, IF users[token[r].sub] # None THEN "resolved" ELSE "inserting")
  /\ Unmoved /\ UNCHANGED users

\* Mutant: a lost race is not recovered from.
Insert_Fails(r) ==
  /\ pc[r] = "inserting"
  /\ \/ Taken(r) /\ Goto(r, "failed")
     \/ ~Taken(r) /\ ~Contended(r) /\ Goto(r, "inserted")
  /\ Unmoved /\ UNCHANGED users

\* The INSERT: IntegrityError if a committed row clashes.
Insert(r) ==
  /\ pc[r] = "inserting"
  /\ \/ Taken(r) /\ Goto(r, "rereading")
     \/ ~Taken(r) /\ ~Contended(r) /\ Goto(r, "inserted")
  /\ Unmoved /\ UNCHANGED users

Commit(r) ==
  /\ pc[r] = "inserted"
  /\ users' = [users EXCEPT ![token[r].sub] = Row(r)]
  /\ Goto(r, "resolved")
  /\ Unmoved

\* After the rollback: the row of this subject, or the error is raised again.
Reread(r) ==
  /\ pc[r] = "rereading"
  /\ Goto(r, IF users[token[r].sub] # None THEN "resolved" ELSE "failed")
  /\ Unmoved /\ UNCHANGED users

\* The connection is lost, or the username is longer than its column, which is
\* no IntegrityError: get_db rolls back.  Here the latter may fail once and not
\* for ever, which no property tells apart.
DatabaseFails(r) ==
  /\ "database" \in Faults /\ pc[r] \in {"selecting", "inserting", "inserted", "rereading"}
  /\ Goto(r, "lost")
  /\ Unmoved /\ UNCHANGED users

------------------------------------------------------------------------------

\* The process restarts: a new cache and a new lock.
Restart ==
  /\ "restart" \in Faults
  /\ pc' = [r \in Requests |-> IF pc[r] \in Ended \cup {"new"} THEN pc[r] ELSE "lost"]
  /\ cached' = None /\ line' = <<>> /\ answer' = [r \in Requests |-> None]
  /\ UNCHANGED <<clock, issuer, token, known, users>>

\* The issuer publishes a key for the first time, or retires one.
Publish(k) ==
  /\ k \notin published /\ retired[k] = None
  /\ published' = published \cup {k}
  /\ UNCHANGED <<clock, retired, cache, pc, token, known, users>>

Retire(k) ==
  /\ k \in published
  /\ published' = published \ {k} /\ retired' = [retired EXCEPT ![k] = clock]
  /\ UNCHANGED <<clock, cache, pc, token, known, users>>

\* No document takes longer than Timeout.  The five seconds of _fetch are httpx's
\* limit on each operation (connect, each read), not on a request as a whole:
\* Timeout is a bound assumed of the issuer and the network.
Tick ==
  /\ clock < MaxClock
  /\ \A r \in Requests : answer[r] # None => clock - answer[r].served < Timeout
  /\ clock' = clock + 1
  /\ UNCHANGED <<issuer, cache, pc, token, known, users>>

Step(r) ==
  \/ Acquire(r) \/ Serve(r) \/ Receive(r)
  \/ Select(r) \/ Insert(r) \/ Commit(r) \/ Reread(r)

Next ==
  \/ \E r \in Requests :
       \/ \E t \in Tokens : Arrive(r, t)
       \/ Step(r) \/ FetchFails(r) \/ DatabaseFails(r)
  \/ \E k \in Keys : Publish(k) \/ Retire(k)
  \/ Restart \/ Tick

Spec == Init /\ [][Next]_vars

\* httpx, the database and the event loop make every await return.
FairSpec == Spec /\ \A r \in Requests : WF_vars(Step(r))

------------------------------------------------------------------------------
(* Properties.                                                               *)

\* Fetches overlap in time but not under the lock: a document never replaces
\* one the issuer served later, so a key that was cached is not lost again.
NewestKept ==
  [][cached # None /\ cached' # None => cached'.served >= cached.served]_vars

\* A key that leaked and was retired dies with the cache: no token it signed is
\* accepted later than the cache's lifetime, and the fetch's, after that.
RetiredKeysDie ==
  [][\A r \in Requests, k \in Keys :
       pc[r] # "selecting" /\ pc'[r] = "selecting" /\ token'[r].kid = k /\ retired[k] # None
         => clock < retired[k] + TTL + Timeout]_vars

\* Claimed by JWKSCache: "a cache miss on kid forces one refetch before failing, so key
\* rotation heals without a restart".  A token whose key was published when it
\* came and still is was never refused as signed by an unknown key.
RotationHeals ==
  [][\A r \in Requests :
       pc[r] # "unknown" /\ pc'[r] = "unknown" /\ known[r] => token[r].kid \notin published]_vars

\* "Whoever lost re-reads the winner's row": the account of a verified caller
\* can only be refused because another subject's row has the name or the email.
LosersRecover ==
  \A r \in Requests : pc[r] = "failed" =>
    \E u \in Subjects \ {token[r].sub} :
      users[u] # None /\ (users[u].name = token[r].name \/ users[u].email = token[r].email)

\* Claimed by resolve_user: "Return the local users row for a verified subject,
\* creating it if absent."  It never gives up on a verified subject.
EverySubjectHasARow == \A r \in Requests : pc[r] # "failed"

\* A subject gets one row, once, whatever the races: the users table is a
\* write-once store.
Table == INSTANCE WriteOnce WITH Keys <- Subjects, Values <- Rows, Absent <- None, store <- users

RefinesWriteOnce == Table!Spec

\* Every request is answered: the lock is given back on every path.
Answered == \A r \in Requests : pc[r] # "new" ~> pc[r] \in Ended
================================================================================
