------------------------------ MODULE FactCheck ------------------------------
(***************************************************************************)
(* The on-demand fact-check: services/fact_check.py with the limits it     *)
(* counts from the fact_checks table, and the provider of ai/gemini.py as  *)
(* far as its outcomes go.  A request reads, asks the provider (which      *)
(* takes seconds), and only then inserts; other requests run meanwhile.    *)
(***************************************************************************)
EXTENDS Integers, Sequences, FiniteSets

CONSTANTS
  Rooms,
  Sessions,    \* database sessions: the requests that can be served at once
  RoomLimit,   \* fact_check_rate_limit_per_hour
  DailyBudget, \* fact_check_daily_budget
  Hour, Day,   \* ROOM_WINDOW and BUDGET_WINDOW
  Trusted,     \* the sources whose domain is on the allowlist
  Answers,     \* what the model may answer: [verdict, sources]
  Failures,    \* what may fail: "search", "model", "session"
  MaxCalls,    \* a bound on the calls ever made to the model
  MaxChecks,   \* a bound on the checks the provider ever completes
  MaxClock,    \* a bound on the clock
  None

Verdicts == {"true", "false", "misleading", "unverified"}

ASSUME LimitsAssumption ==
  RoomLimit \in Nat /\ DailyBudget \in Nat /\ Hour \in Nat /\ Day \in Nat
ASSUME AnswersAssumption == \A a \in Answers : a.verdict \in Verdicts

VARIABLES
  clock,   \* the database server's clock
  ended,   \* the rooms that have ended
  records, \* fact_checks, as committed
  pc,      \* where a request is
  req,     \* its room, and the time its transaction began
  result,  \* what the provider returned
  row,     \* the row it has inserted and not committed
  calls,   \* history: when the model was called, answered or not
  answered \* history: how many checks the provider completed

\* An honest verdict of the provider: the search found nothing.
Nothing == [verdict |-> "unverified", sources |-> {}]

vars == <<clock, ended, records, pc, req, result, row, calls, answered>>

Requests == [room : Rooms, start : 0..MaxClock]

Records == [room : Rooms, created : 0..MaxClock, verdict : Verdicts, sources : SUBSET Trusted]

ASSUME BoundsAssumption == MaxClock \in Nat
ASSUME SessionsAssumption == IsFiniteSet(Sessions) /\ Sessions # {}
ASSUME NoneAssumption == None \notin Requests \cup Records \cup Answers \cup {Nothing}

TypeOK ==
  /\ clock \in 0..MaxClock /\ ended \subseteq Rooms
  /\ records \in Seq(Records)
  /\ pc \in [Sessions -> {"idle", "begun", "budget", "limit", "search", "asked",
                          "answered", "inserted"}]
  /\ req \in [Sessions -> Requests \cup {None}]
  /\ result \in [Sessions -> Answers \cup {Nothing, None}]
  /\ row \in [Sessions -> Records \cup {None}]
  /\ \A s \in Sessions :
       /\ pc[s] = "idle" <=> req[s] = None
       /\ pc[s] \in {"answered", "inserted"} <=> result[s] # None
       /\ pc[s] = "inserted" <=> row[s] # None
  /\ calls \in Seq(0..MaxClock) /\ answered \in Nat

Init ==
  /\ clock = 0 /\ ended = {} /\ records = <<>>
  /\ pc = [s \in Sessions |-> "idle"] /\ req = [s \in Sessions |-> None]
  /\ result = [s \in Sessions |-> None] /\ row = [s \in Sessions |-> None]
  /\ calls = <<>> /\ answered = 0

------------------------------------------------------------------------------

Goto(s, label) == pc' = [pc EXCEPT ![s] = label]

\* Mutant: the window is open at its old end.
Since_Open(start, window) == {i \in DOMAIN records : records[i].created > start - window}

\* The rows that count_since finds: now() is the time the transaction began.
Since(start, window) == {i \in DOMAIN records : records[i].created >= start - window}

UsedToday(s) == Cardinality(Since(req[s].start, Day))

UsedHere(s) ==
  Cardinality({i \in Since(req[s].start, Hour) : records[i].room = req[s].room})

\* Mutant: citations are filtered, and the verdict stays.
Filtered_KeepsVerdict(answer) ==
  [verdict |-> answer.verdict, sources |-> answer.sources \cap Trusted]

\* Mutant: the verdict is filtered, and every citation shown.
Filtered_ShowsAll(answer) ==
  [verdict |-> IF answer.sources \cap Trusted = {} THEN "unverified" ELSE answer.verdict,
   sources |-> answer.sources]

\* _apply_trust_filter: no trusted citation, no verdict.
Filtered(answer) ==
  LET kept == answer.sources \cap Trusted
  IN  [verdict |-> IF kept = {} THEN "unverified" ELSE answer.verdict, sources |-> kept]

\* The session goes back to the pool; the request was answered or refused.
End(s) ==
  /\ Goto(s, "idle")
  /\ req' = [req EXCEPT ![s] = None]
  /\ result' = [result EXCEPT ![s] = None]
  /\ row' = [row EXCEPT ![s] = None]
  /\ UNCHANGED <<clock, ended, calls, answered>>

\* The bound on checks stops no request half way.
Spare == answered + Cardinality({s \in Sessions : pc[s] # "idle"}) < MaxChecks

Begin(s, r) ==
  /\ pc[s] = "idle" /\ Spare
  /\ Goto(s, "begun")
  /\ req' = [req EXCEPT ![s] = [room |-> r, start |-> clock]]
  /\ UNCHANGED <<clock, ended, records, result, row, calls, answered>>

Step(s, from, to, allowed) ==
  /\ pc[s] = from
  /\ IF allowed
     THEN Goto(s, to) /\ UNCHANGED <<clock, ended, req, result, row, calls, answered>>
     ELSE End(s)
  /\ UNCHANGED records

\* The room's ended_at, then the two counts, each a statement of its own.
ReadRoom(s) == Step(s, "begun", "budget", req[s].room \notin ended)

CountDay(s) == Step(s, "budget", "limit", UsedToday(s) < DailyBudget)

CountRoom(s) == Step(s, "limit", "search", UsedHere(s) < RoomLimit)

\* The provider is done: it found nothing, or the model answered.
Answer(s, answer) ==
  /\ Goto(s, "answered")
  /\ result' = [result EXCEPT ![s] = answer]
  /\ answered' = answered + 1
  /\ UNCHANGED <<clock, ended, records, req, row, calls>>

SearchFindsNothing(s) == pc[s] = "search" /\ Answer(s, Nothing)

CallModel(s) ==
  /\ pc[s] = "search" /\ Len(calls) < MaxCalls
  /\ Goto(s, "asked")
  /\ calls' = Append(calls, clock)
  /\ UNCHANGED <<clock, ended, records, req, result, row, answered>>

ModelAnswers(s) == pc[s] = "asked" /\ \E a \in Answers : Answer(s, a)

\* Mutant: what could not be checked is taken for unverified.
Unavailable_IsUnverified(s) ==
  /\ \/ pc[s] = "search" /\ "search" \in Failures
     \/ pc[s] = "asked" /\ "model" \in Failures
  /\ Goto(s, "answered")
  /\ result' = [result EXCEPT ![s] = Nothing]
  /\ UNCHANGED <<clock, ended, records, req, row, calls, answered>>

\* The search fails; the model times out, is out of quota, or talks nonsense.
Unavailable(s) ==
  /\ \/ pc[s] = "search" /\ "search" \in Failures
     \/ pc[s] = "asked" /\ "model" \in Failures
  /\ End(s)
  /\ UNCHANGED records

\* Nothing is read again: not the room, not the limits.
Insert(s) ==
  /\ pc[s] = "answered"
  /\ Goto(s, "inserted")
  /\ row' = [row EXCEPT ![s] =
       [room |-> req[s].room, created |-> clock,
        verdict |-> Filtered(result[s]).verdict, sources |-> Filtered(result[s]).sources]]
  /\ UNCHANGED <<clock, ended, records, req, result, calls, answered>>

Commit(s) ==
  /\ pc[s] = "inserted"
  /\ records' = Append(records, row[s])
  /\ End(s)

\* A dead worker, a lost connection.
Rollback(s) ==
  pc[s] # "idle" /\ "session" \in Failures /\ End(s) /\ UNCHANGED records

EndRoom(r) ==
  /\ r \notin ended /\ ended' = ended \cup {r}
  /\ UNCHANGED <<clock, records, pc, req, result, row, calls, answered>>

Tick ==
  /\ clock < MaxClock /\ clock' = clock + 1
  /\ UNCHANGED <<ended, records, pc, req, result, row, calls, answered>>

Next ==
  \/ \E s \in Sessions :
       \/ \E r \in Rooms : Begin(s, r)
       \/ ReadRoom(s) \/ CountDay(s) \/ CountRoom(s)
       \/ SearchFindsNothing(s) \/ CallModel(s) \/ ModelAnswers(s) \/ Unavailable(s)
       \/ Insert(s) \/ Commit(s) \/ Rollback(s)
  \/ \E r \in Rooms : EndRoom(r)
  \/ Tick

Spec == Init /\ [][Next]_vars

------------------------------------------------------------------------------
(* Properties.                                                               *)

Within(from, window, t) == from <= t /\ t <= from + window

\* Rows of a window, the inserted and uncommitted ones included.
InWindow(from, window, rs) ==
  Cardinality({i \in DOMAIN records :
                 records[i].room \in rs /\ Within(from, window, records[i].created)})
  + Cardinality({s \in Sessions :
                   row[s] # None /\ row[s].room \in rs /\ Within(from, window, row[s].created)})

\* The check and the insert are seconds apart, so requests that overlap can all
\* pass; but no more than the sessions there are: in any day and in any room's
\* hour, a limit is exceeded by one less than the number of sessions at most.
OvershootBounded ==
  \A from \in 0..MaxClock :
    /\ InWindow(from, Day, Rooms) < DailyBudget + Cardinality(Sessions)
    /\ \A r \in Rooms : InWindow(from, Hour, {r}) < RoomLimit + Cardinality(Sessions)

\* A verdict other than "unverified" is backed by a source the debaters can
\* check, and no other source is shown, whatever the model answered.
VerdictsAreBacked ==
  \A i \in DOMAIN records :
    /\ records[i].sources \subseteq Trusted
    /\ records[i].verdict # "unverified" => records[i].sources # {}

\* Requests with a verdict that is not committed yet.
InFlight == {s \in Sessions : pc[s] \in {"answered", "inserted"}}

\* "Could not check" is never recorded as "checked and unresolved": there are
\* never more rows, and rows to come, than checks the provider completed.
FailuresLeaveNoTrace == Len(records) + Cardinality(InFlight) <= answered

\* Claimed by _enforce_limits: the budget check is what defends the provider's
\* daily quota.  Every call counts against a quota, answered or not.
QuotaDefended ==
  \A from \in 0..MaxClock :
    Cardinality({i \in DOMAIN calls : Within(from, Day, calls[i])}) <= DailyBudget

\* What is left of that claim when no call fails: the overlap of requests, and
\* nothing more, separates the calls of a day from the budget.
QuotaOvershootBounded ==
  \A from \in 0..MaxClock :
    Cardinality({i \in DOMAIN calls : Within(from, Day, calls[i])})
      < DailyBudget + Cardinality(Sessions)

\* Claimed by fact_check_rate_limit_per_hour: "Per room, per hour".
RoomLimitHolds ==
  \A from \in 0..MaxClock, r \in Rooms : InWindow(from, Hour, {r}) <= RoomLimit
==============================================================================
