--------------------------- MODULE FactCheckProofs ---------------------------
(* What holds of FactCheck for any number of rooms, sessions and answers,    *)
(* any limits and windows, and any failures.                                 *)
EXTENDS CitedFactCheck, FiniteSetTheorems, SequenceTheorems, TLAPS

Backed(r) == r.sources \subseteq Trusted /\ (r.verdict # "unverified" => r.sources # {})

\* What is inserted and not yet committed is backed as well.
RowsAreBacked == \A s \in Sessions : row[s] # None => Backed(row[s])

Inductive == TypeOK /\ VerdictsAreBacked /\ RowsAreBacked /\ FailuresLeaveNoTrace

(* The filter lets nothing through that is not backed.                       *)
LEMMA FilterBacks ==
  ASSUME NEW answer \in Answers \cup {Nothing}
  PROVE  /\ Backed(Filtered(answer))
         /\ Filtered(answer).verdict \in Verdicts
         /\ Filtered(answer).sources \in SUBSET Trusted
<1>1. answer.verdict \in Verdicts
  BY AnswersAssumption DEF Nothing, Verdicts
<1> QED
  BY <1>1 DEF Filtered, Backed, Verdicts

LEMMA InFlightFinite == IsFiniteSet(InFlight) /\ Cardinality(InFlight) \in Nat
<1>1. InFlight \subseteq Sessions
  BY DEF InFlight
<1>2. IsFiniteSet(InFlight)
  BY <1>1, SessionsAssumption, FS_Subset
<1> QED
  BY <1>2, FS_CardinalityType

(* A request that ends takes at most its own verdict out of flight.          *)
LEMMA EndShrinks ==
  ASSUME TypeOK, NEW s \in Sessions, End(s)
  PROVE  /\ InFlight' = InFlight \ {s}
         /\ Cardinality(InFlight') =
              IF s \in InFlight THEN Cardinality(InFlight) - 1 ELSE Cardinality(InFlight)
<1>1. InFlight' = InFlight \ {s}
  BY DEF End, Goto, InFlight, TypeOK
<1>2. Cardinality(InFlight \ {s}) =
        IF s \in InFlight THEN Cardinality(InFlight) - 1 ELSE Cardinality(InFlight)
  BY InFlightFinite, FS_RemoveElement
<1> QED
  BY <1>1, <1>2

LEMMA EndTypes ==
  ASSUME TypeOK, NEW s \in Sessions, End(s), records' \in Seq(Records)
  PROVE  TypeOK'
BY DEF TypeOK, End, Goto

LEMMA EndRows ==
  ASSUME TypeOK, RowsAreBacked, NEW s \in Sessions, End(s)
  PROVE  RowsAreBacked'
BY DEF TypeOK, RowsAreBacked, End

(* Whatever ends a request without a row keeps the invariant.                *)
LEMMA RefusalInductive ==
  ASSUME Inductive, NEW s \in Sessions, End(s), UNCHANGED records
  PROVE  Inductive'
<1> USE DEF Inductive
<1>1. TypeOK'
  BY EndTypes DEF TypeOK
<1>2. VerdictsAreBacked'
  BY DEF VerdictsAreBacked
<1>3. RowsAreBacked'
  BY EndRows
<1>4. FailuresLeaveNoTrace'
  <2>1. Cardinality(InFlight') <= Cardinality(InFlight) /\ Cardinality(InFlight') \in Int
    BY EndShrinks, InFlightFinite
  <2>2. Len(records) \in Nat /\ answered \in Nat /\ UNCHANGED <<records, answered>>
    BY DEF End, TypeOK
  <2> QED
    BY <2>1, <2>2, InFlightFinite DEF FailuresLeaveNoTrace
<1> QED
  BY <1>1, <1>2, <1>3, <1>4

LEMMA BeginInductive ==
  ASSUME Inductive, NEW s \in Sessions, NEW r \in Rooms, Begin(s, r)
  PROVE  Inductive'
<1> USE NoneAssumption DEF Inductive, Begin, Goto
<1>1. TypeOK'
  BY DEF TypeOK, Requests
<1>2. VerdictsAreBacked' /\ RowsAreBacked'
  BY DEF VerdictsAreBacked, RowsAreBacked
<1>3. InFlight' = InFlight
  BY DEF InFlight, TypeOK
<1>4. FailuresLeaveNoTrace'
  BY <1>3 DEF FailuresLeaveNoTrace
<1> QED
  BY <1>1, <1>2, <1>4

(* The statements before the provider is called.                             *)
LEMMA StepInductive ==
  ASSUME Inductive, NEW s \in Sessions, NEW allowed,
         NEW from \in {"begun", "budget", "limit"}, NEW to \in {"budget", "limit", "search"},
         Step(s, from, to, allowed)
  PROVE  Inductive'
<1>1. CASE End(s)
  BY <1>1, RefusalInductive DEF Step
<1>2. CASE ~End(s)
  <2> USE <1>2 DEF Inductive, Step, Goto
  <2>1. TypeOK'
    BY DEF TypeOK
  <2>2. VerdictsAreBacked' /\ RowsAreBacked'
    BY DEF VerdictsAreBacked, RowsAreBacked
  <2>3. InFlight' = InFlight
    BY DEF InFlight, TypeOK
  <2>4. FailuresLeaveNoTrace'
    BY <2>3 DEF FailuresLeaveNoTrace
  <2> QED
    BY <2>1, <2>2, <2>4
<1> QED
  BY <1>1, <1>2

LEMMA AnswerInductive ==
  ASSUME Inductive, NEW s \in Sessions, pc[s] \in {"search", "asked"},
         NEW answer \in Answers \cup {Nothing}, Answer(s, answer)
  PROVE  Inductive'
<1> USE NoneAssumption DEF Inductive, Answer, Goto
<1>1. TypeOK'
  BY DEF TypeOK
<1>2. VerdictsAreBacked' /\ RowsAreBacked'
  BY DEF VerdictsAreBacked, RowsAreBacked
<1>3. s \notin InFlight /\ InFlight' = InFlight \cup {s}
  BY DEF InFlight, TypeOK
<1>4. Cardinality(InFlight') = Cardinality(InFlight) + 1
  BY <1>3, InFlightFinite, FS_AddElement
<1>5. FailuresLeaveNoTrace'
  BY <1>4, InFlightFinite DEF FailuresLeaveNoTrace, TypeOK
<1> QED
  BY <1>1, <1>2, <1>5

LEMMA CallModelInductive ==
  ASSUME Inductive, NEW s \in Sessions, CallModel(s)
  PROVE  Inductive'
<1> USE DEF Inductive, CallModel, Goto
<1>1. TypeOK'
  BY DEF TypeOK
<1>2. VerdictsAreBacked' /\ RowsAreBacked'
  BY DEF VerdictsAreBacked, RowsAreBacked
<1>3. InFlight' = InFlight
  BY DEF InFlight, TypeOK
<1>4. FailuresLeaveNoTrace'
  BY <1>3 DEF FailuresLeaveNoTrace
<1> QED
  BY <1>1, <1>2, <1>4

LEMMA InsertInductive ==
  ASSUME Inductive, NEW s \in Sessions, Insert(s)
  PROVE  Inductive'
<1> DEFINE new == [room |-> req[s].room, created |-> clock,
                   verdict |-> Filtered(result[s]).verdict,
                   sources |-> Filtered(result[s]).sources]
<1> USE NoneAssumption DEF Inductive, Insert, Goto
<1>1. req[s] \in Requests /\ result[s] \in Answers \cup {Nothing}
  BY DEF TypeOK
<1>2. new \in Records /\ Backed(new)
  BY <1>1, FilterBacks DEF Records, Requests, Backed, TypeOK
<1>3. row' = [row EXCEPT ![s] = new]
  OBVIOUS
<1> HIDE DEF new
<1>4. TypeOK'
  BY <1>2, <1>3 DEF TypeOK
<1>5. VerdictsAreBacked'
  BY DEF VerdictsAreBacked
<1>6. RowsAreBacked'
  BY <1>2, <1>3 DEF RowsAreBacked, TypeOK
<1>7. InFlight' = InFlight
  BY DEF InFlight, TypeOK
<1>8. FailuresLeaveNoTrace'
  BY <1>7 DEF FailuresLeaveNoTrace
<1> QED
  BY <1>4, <1>5, <1>6, <1>8

LEMMA CommitInductive ==
  ASSUME Inductive, NEW s \in Sessions, Commit(s)
  PROVE  Inductive'
<1> USE DEF Inductive, Commit
<1>1. row[s] \in Records /\ Backed(row[s])
  BY DEF TypeOK, RowsAreBacked
<1>2. records' \in Seq(Records) /\ Len(records') = Len(records) + 1
  BY <1>1 DEF TypeOK
<1>3. TypeOK'
  BY <1>2, EndTypes
<1>4. VerdictsAreBacked'
  BY <1>1 DEF VerdictsAreBacked, Backed, TypeOK
<1>5. RowsAreBacked'
  BY EndRows
<1>6. s \in InFlight
  BY DEF InFlight
<1>7. FailuresLeaveNoTrace'
  <2>1. Cardinality(InFlight') = Cardinality(InFlight) - 1
    BY <1>6, EndShrinks
  <2>2. Len(records) \in Nat /\ answered \in Nat /\ answered' = answered
    BY DEF End, TypeOK
  <2> QED
    BY <1>2, <2>1, <2>2, InFlightFinite DEF FailuresLeaveNoTrace
<1> QED
  BY <1>3, <1>4, <1>5, <1>7

(* Ends of debates and the clock touch no request.                           *)
LEMMA WorldInductive ==
  ASSUME Inductive, Tick \/ \E r \in Rooms : EndRoom(r)
  PROVE  Inductive'
<1>1. TypeOK'
  BY BoundsAssumption DEF Inductive, TypeOK, Tick, EndRoom
<1>2. VerdictsAreBacked' /\ RowsAreBacked'
  BY DEF Inductive, VerdictsAreBacked, RowsAreBacked, Tick, EndRoom
<1>3. FailuresLeaveNoTrace'
  BY DEF Inductive, FailuresLeaveNoTrace, InFlight, Tick, EndRoom
<1> QED
  BY <1>1, <1>2, <1>3 DEF Inductive

LEMMA InitInductive == Init => Inductive
<1> SUFFICES ASSUME Init PROVE Inductive
  OBVIOUS
<1>1. TypeOK
  BY BoundsAssumption DEF Init, TypeOK
<1>2. VerdictsAreBacked /\ RowsAreBacked
  BY DEF Init, VerdictsAreBacked, RowsAreBacked
<1>3. InFlight = {}
  BY DEF Init, InFlight
<1>4. FailuresLeaveNoTrace
  BY <1>3, FS_EmptySet DEF Init, FailuresLeaveNoTrace
<1> QED
  BY <1>1, <1>2, <1>4 DEF Inductive

LEMMA NextInductive == Inductive /\ [Next]_vars => Inductive'
<1> SUFFICES ASSUME Inductive, [Next]_vars PROVE Inductive'
  OBVIOUS
<1>1. ASSUME NEW s \in Sessions, NEW r \in Rooms, Begin(s, r) PROVE Inductive'
  BY <1>1, BeginInductive
<1>2. ASSUME NEW s \in Sessions, ReadRoom(s) \/ CountDay(s) \/ CountRoom(s) PROVE Inductive'
  BY <1>2, StepInductive DEF ReadRoom, CountDay, CountRoom
<1>3. ASSUME NEW s \in Sessions, SearchFindsNothing(s) \/ ModelAnswers(s) PROVE Inductive'
  BY <1>3, AnswerInductive DEF SearchFindsNothing, ModelAnswers
<1>4. ASSUME NEW s \in Sessions, CallModel(s) PROVE Inductive'
  BY <1>4, CallModelInductive
<1>5. ASSUME NEW s \in Sessions, Unavailable(s) \/ Rollback(s) PROVE Inductive'
  BY <1>5, RefusalInductive DEF Unavailable, Rollback
<1>6. ASSUME NEW s \in Sessions, Insert(s) PROVE Inductive'
  BY <1>6, InsertInductive
<1>7. ASSUME NEW s \in Sessions, Commit(s) PROVE Inductive'
  BY <1>7, CommitInductive
<1>8. CASE Tick \/ \E r \in Rooms : EndRoom(r)
  BY <1>8, WorldInductive
<1>9. CASE UNCHANGED vars
  BY <1>9 DEF vars, Inductive, TypeOK, VerdictsAreBacked, RowsAreBacked,
              FailuresLeaveNoTrace, InFlight
<1> QED
  BY <1>1, <1>2, <1>3, <1>4, <1>5, <1>6, <1>7, <1>8, <1>9 DEF Next

LEMMA AlwaysInductive == Spec => []Inductive
<1> QED
  BY InitInductive, NextInductive, PTL DEF Spec

------------------------------------------------------------------------------
(* How far the limits can be missed.                                         *)

\* Where a request is once the daily budget, or the room's limit, let it pass.
PastBudget == {"limit", "search", "asked", "answered", "inserted"}
PastLimit == PastBudget \ {"limit"}

\* The committed rows of a window.
Rows(from, window, rs) ==
  {i \in DOMAIN records :
     records[i].room \in rs /\ Within(from, window, records[i].created)}

\* The requests that have a row in it to commit, or may still come to have one.
Threats(past, from, window, rs) ==
  {s \in Sessions :
     /\ pc[s] \in past
     /\ IF row[s] # None
        THEN row[s].room \in rs /\ Within(from, window, row[s].created)
        ELSE req[s].room \in rs /\ req[s].start <= from + window}

Fits(limit, past, from, window, rs) ==
  Cardinality(Rows(from, window, rs)) + Cardinality(Threats(past, from, window, rs))
    < limit + Cardinality(Sessions)

\* No window can come to hold more than the limit and the other requests.
Headroom ==
  \A from \in 0..MaxClock :
    /\ Fits(DailyBudget, PastBudget, from, Day, Rooms)
    /\ \A r \in Rooms : Fits(RoomLimit, PastLimit, from, Hour, {r})

\* now() is the time the transaction began, and that is past.
BegunBefore == \A s \in Sessions : pc[s] # "idle" => req[s].start <= clock

BoundInv == TypeOK /\ BegunBefore /\ Headroom

LEMMA RowsFinite ==
  ASSUME TypeOK, NEW S \in SUBSET DOMAIN records
  PROVE  /\ IsFiniteSet(S) /\ Cardinality(S) \in Nat
         /\ \A T \in SUBSET S : Cardinality(T) <= Cardinality(S) /\ Cardinality(T) \in Nat
<1>1. DOMAIN records = 1..Len(records) /\ Len(records) \in Nat
  BY DEF TypeOK
<1>2. IsFiniteSet(DOMAIN records)
  BY <1>1, FS_Interval
<1>3. IsFiniteSet(S)
  BY <1>2, FS_Subset
<1>4. \A T \in SUBSET S : IsFiniteSet(T) /\ Cardinality(T) <= Cardinality(S)
  BY <1>3, FS_Subset
<1> QED
  BY <1>3, <1>4, FS_CardinalityType

LEMMA SomeSessions ==
  ASSUME NEW S \in SUBSET Sessions
  PROVE  /\ IsFiniteSet(S) /\ Cardinality(S) \in Nat /\ Cardinality(Sessions) \in Nat
         /\ Cardinality(S) <= Cardinality(Sessions)
         /\ \A T \in SUBSET S : Cardinality(T) <= Cardinality(S) /\ Cardinality(T) \in Nat
<1>1. IsFiniteSet(S) /\ Cardinality(S) <= Cardinality(Sessions)
  BY SessionsAssumption, FS_Subset
<1>2. \A T \in SUBSET S : IsFiniteSet(T) /\ Cardinality(T) <= Cardinality(S)
  BY <1>1, FS_Subset
<1> QED
  BY <1>1, <1>2, SessionsAssumption, FS_CardinalityType

(* A window to which a step adds neither a row nor a threat still fits.      *)
LEMMA NothingAdded ==
  ASSUME TypeOK, NEW limit \in Nat, NEW past, NEW from, NEW window, NEW rs,
         UNCHANGED records,
         Threats(past, from, window, rs)' \subseteq Threats(past, from, window, rs),
         Fits(limit, past, from, window, rs)
  PROVE  Fits(limit, past, from, window, rs)'
<1> DEFINE R == Rows(from, window, rs)
           T == Threats(past, from, window, rs)
<1>1. R \in SUBSET DOMAIN records /\ R' = R
  BY DEF Rows
<1>2. T \in SUBSET Sessions /\ T' \in SUBSET T
  BY DEF Threats
<1>3. Cardinality(R) \in Nat
  BY <1>1, RowsFinite
<1>4. /\ Cardinality(T') <= Cardinality(T) /\ Cardinality(T') \in Nat
      /\ Cardinality(T) \in Nat /\ Cardinality(Sessions) \in Nat
  BY <1>2, SomeSessions
<1>5. Cardinality(R) + Cardinality(T) < limit + Cardinality(Sessions)
  BY DEF Fits
<1>6. Cardinality(R') + Cardinality(T') < limit + Cardinality(Sessions)
  <2> HIDE DEF R, T
  <2> QED
    BY <1>1, <1>3, <1>4, <1>5
<1> QED
  BY <1>6 DEF Fits

(* A commit turns its threat into the row, if the row is in the window.      *)
LEMMA CommitFits ==
  ASSUME TypeOK, NEW s \in Sessions, Commit(s),
         NEW limit \in Nat, NEW past \in {PastBudget, PastLimit}, NEW from, NEW window, NEW rs,
         Fits(limit, past, from, window, rs)
  PROVE  Fits(limit, past, from, window, rs)'
<1> DEFINE R == Rows(from, window, rs)
           T == Threats(past, from, window, rs)
           n == Len(records) + 1
<1>1. row[s] # None /\ row[s] \in Records /\ pc[s] \in past /\ "idle" \notin past
  BY DEF Commit, TypeOK, PastBudget, PastLimit
<1>2. /\ \A o \in Sessions \ {s} : pc'[o] = pc[o] /\ row'[o] = row[o] /\ req'[o] = req[o]
      /\ pc'[s] = "idle"
  BY DEF Commit, End, Goto, TypeOK
<1>3. T' = T \ {s}
  BY <1>1, <1>2 DEF Threats
<1>4. /\ DOMAIN records' = DOMAIN records \cup {n} /\ n \notin DOMAIN records
      /\ records'[n] = row[s] /\ \A i \in DOMAIN records : records'[i] = records[i]
  BY <1>1 DEF Commit, TypeOK
<1>5. R' = IF s \in T THEN R \cup {n} ELSE R
  BY <1>1, <1>4 DEF Rows, Threats
<1>6. n \notin R
  BY <1>4 DEF Rows
<1>7. R \in SUBSET DOMAIN records /\ T \in SUBSET Sessions
  BY DEF Rows, Threats
<1>8. IsFiniteSet(R) /\ Cardinality(R) \in Nat
  BY <1>7, RowsFinite
<1>9. IsFiniteSet(T) /\ Cardinality(T) \in Nat /\ Cardinality(Sessions) \in Nat
  BY <1>7, SomeSessions
<1>10. Cardinality(R) + Cardinality(T) < limit + Cardinality(Sessions)
  BY DEF Fits
<1>11. Cardinality(R') + Cardinality(T') = Cardinality(R) + Cardinality(T)
  <2> HIDE DEF R, T, n
  <2>1. CASE s \in T
    <3>1. Cardinality(R') = Cardinality(R) + 1
      BY <1>5, <1>6, <1>8, <2>1, FS_AddElement
    <3>2. Cardinality(T') = Cardinality(T) - 1
      BY <1>3, <1>9, <2>1, FS_RemoveElement
    <3> QED
      BY <3>1, <3>2, <1>8, <1>9
  <2>2. CASE s \notin T
    <3>1. R' = R /\ T' = T
      BY <1>3, <1>5, <2>2
    <3> QED
      BY <3>1
  <2> QED
    BY <2>1, <2>2
<1> QED
  BY <1>10, <1>11 DEF Fits

(* A request that passes has just counted less than the limit: the window    *)
(* had room, and no more than all sessions can threaten it.                  *)
LEMMA PassingFits ==
  ASSUME TypeOK, NEW limit \in Nat, NEW past, NEW from, NEW window, NEW rs,
         UNCHANGED records,
         NEW S \in SUBSET DOMAIN records, Cardinality(S) < limit,
         Rows(from, window, rs) \subseteq S
  PROVE  Fits(limit, past, from, window, rs)'
<1> DEFINE R == Rows(from, window, rs)
           T == Threats(past, from, window, rs)
<1>1. R' = R /\ T' \in SUBSET Sessions
  BY DEF Rows, Threats
<1>2. /\ Cardinality(R) <= Cardinality(S) /\ Cardinality(R) \in Nat
      /\ Cardinality(S) \in Nat
  BY RowsFinite
<1>3. /\ Cardinality(T') <= Cardinality(Sessions) /\ Cardinality(T') \in Nat
      /\ Cardinality(Sessions) \in Nat
  BY <1>1, SomeSessions
<1>4. Cardinality(R') + Cardinality(T') < limit + Cardinality(Sessions)
  <2> HIDE DEF R, T
  <2> QED
    BY <1>1, <1>2, <1>3
<1> QED
  BY <1>4 DEF Fits

(* Whoever touches no record and lets nobody pass threatens no new window.   *)
LEMMA NobodyPasses ==
  ASSUME TypeOK, Headroom, UNCHANGED records,
         \A past \in {PastBudget, PastLimit} : \A s \in Sessions :
           pc'[s] \in past =>
             /\ pc[s] \in past /\ UNCHANGED <<req[s], row[s]>>
  PROVE  Headroom'
<1>1. ASSUME NEW past \in {PastBudget, PastLimit}, NEW from, NEW window, NEW rs
      PROVE  Threats(past, from, window, rs)' \subseteq Threats(past, from, window, rs)
  BY DEF Threats
<1>2. ASSUME NEW from \in 0..MaxClock
      PROVE  /\ Fits(DailyBudget, PastBudget, from, Day, Rooms)'
             /\ \A r \in Rooms : Fits(RoomLimit, PastLimit, from, Hour, {r})'
  BY <1>1, NothingAdded, LimitsAssumption DEF Headroom
<1> QED
  BY <1>2 DEF Headroom

LEMMA InsertFits ==
  ASSUME TypeOK, TypeOK', BegunBefore, Headroom, NEW s \in Sessions, Insert(s)
  PROVE  Headroom'
<1>1. /\ UNCHANGED records /\ pc[s] = "answered" /\ pc'[s] = "inserted" /\ row[s] = None
      /\ req'[s] = req[s] /\ row'[s].room = req[s].room /\ row'[s].created = clock
  BY DEF Insert, Goto, TypeOK
<1>2. \A o \in Sessions \ {s} : pc'[o] = pc[o] /\ req'[o] = req[o] /\ row'[o] = row[o]
  BY DEF Insert, Goto, TypeOK
<1>3. req[s].start <= clock /\ req[s].start \in Nat /\ clock \in Nat
  BY <1>1, BoundsAssumption DEF BegunBefore, TypeOK, Requests
<1>4. row'[s] # None
  BY <1>1 DEF TypeOK
<1>5. ASSUME NEW past \in {PastBudget, PastLimit}, NEW from \in Nat, NEW window \in Nat, NEW rs
      PROVE  Threats(past, from, window, rs)' \subseteq Threats(past, from, window, rs)
  <2>1. pc[s] \in past
    BY <1>1 DEF PastBudget, PastLimit
  <2>2. s \in Threats(past, from, window, rs)' => s \in Threats(past, from, window, rs)
    BY <1>1, <1>3, <1>4, <2>1 DEF Threats, Within
  <2> QED
    BY <1>2, <2>2 DEF Threats
<1>6. ASSUME NEW from \in 0..MaxClock
      PROVE  /\ Fits(DailyBudget, PastBudget, from, Day, Rooms)'
             /\ \A r \in Rooms : Fits(RoomLimit, PastLimit, from, Hour, {r})'
  <2>1. from \in Nat
    BY BoundsAssumption
  <2> QED
    BY <1>1, <1>5, <2>1, NothingAdded, LimitsAssumption DEF Headroom
<1> QED
  BY <1>6 DEF Headroom

(* The counts take in every row of every window the request may add to.      *)
LEMMA CountDayFits ==
  ASSUME TypeOK, Headroom, NEW s \in Sessions, CountDay(s), ~End(s)
  PROVE  Headroom'
<1> DEFINE S == Since(req[s].start, Day)
<1>1. /\ UNCHANGED records /\ pc[s] = "budget" /\ pc'[s] = "limit" /\ Cardinality(S) < DailyBudget
      /\ UNCHANGED <<req, row>> /\ \A o \in Sessions \ {s} : pc'[o] = pc[o]
  BY DEF CountDay, Step, Goto, UsedToday, TypeOK
<1>2. S \in SUBSET DOMAIN records
  BY DEF Since
<1>3. row[s] = None /\ req[s].start \in Nat
  BY <1>1, BoundsAssumption DEF TypeOK, Requests
<1>4. \A i \in DOMAIN records : records[i].created \in Nat
  <2>1. \A i \in DOMAIN records : records[i] \in Records
    BY DEF TypeOK
  <2> QED
    BY <2>1, BoundsAssumption DEF Records
<1>5. ASSUME NEW past, NEW from \in 0..MaxClock, NEW window, NEW rs,
             s \notin Threats(past, from, window, rs)'
      PROVE  Threats(past, from, window, rs)' \subseteq Threats(past, from, window, rs)
  BY <1>1, <1>5 DEF Threats
<1>6. ASSUME NEW from \in 0..MaxClock
      PROVE  Fits(DailyBudget, PastBudget, from, Day, Rooms)'
  <2>1. CASE s \in Threats(PastBudget, from, Day, Rooms)'
    <3>1. req[s].start <= from + Day
      BY <1>1, <1>3, <2>1 DEF Threats
    <3>2. from \in Nat /\ Day \in Nat
      BY BoundsAssumption, LimitsAssumption
    <3>3. Rows(from, Day, Rooms) \subseteq S
      BY <1>3, <1>4, <3>1, <3>2 DEF Rows, Since, Within
    <3> HIDE DEF S
    <3> QED
      BY <1>1, <1>2, <3>3, PassingFits, LimitsAssumption
  <2>2. CASE s \notin Threats(PastBudget, from, Day, Rooms)'
    BY <1>1, <1>5, <2>2, NothingAdded, LimitsAssumption DEF Headroom
  <2> QED
    BY <2>1, <2>2
<1>7. ASSUME NEW from \in 0..MaxClock, NEW r \in Rooms
      PROVE  Fits(RoomLimit, PastLimit, from, Hour, {r})'
  <2>1. s \notin Threats(PastLimit, from, Hour, {r})'
    BY <1>1 DEF Threats, PastLimit
  <2> QED
    BY <1>1, <1>5, <2>1, NothingAdded, LimitsAssumption DEF Headroom
<1> QED
  BY <1>6, <1>7 DEF Headroom

LEMMA CountRoomFits ==
  ASSUME TypeOK, Headroom, NEW s \in Sessions, CountRoom(s), ~End(s)
  PROVE  Headroom'
<1> DEFINE S == {i \in Since(req[s].start, Hour) : records[i].room = req[s].room}
<1>1. /\ UNCHANGED records /\ pc[s] = "limit" /\ pc'[s] = "search" /\ Cardinality(S) < RoomLimit
      /\ UNCHANGED <<req, row>> /\ \A o \in Sessions \ {s} : pc'[o] = pc[o]
  BY DEF CountRoom, Step, Goto, UsedHere, TypeOK
<1>2. S \in SUBSET DOMAIN records
  BY DEF Since
<1>3. row[s] = None /\ req[s].start \in Nat
  BY <1>1, BoundsAssumption DEF TypeOK, Requests
<1>4. \A i \in DOMAIN records : records[i].created \in Nat
  <2>1. \A i \in DOMAIN records : records[i] \in Records
    BY DEF TypeOK
  <2> QED
    BY <2>1, BoundsAssumption DEF Records
<1>5. ASSUME NEW from \in 0..MaxClock
      PROVE  Fits(DailyBudget, PastBudget, from, Day, Rooms)'
  <2>1. Threats(PastBudget, from, Day, Rooms)' \subseteq Threats(PastBudget, from, Day, Rooms)
    BY <1>1 DEF Threats, PastBudget
  <2> QED
    BY <1>1, <2>1, NothingAdded, LimitsAssumption DEF Headroom
<1>6. ASSUME NEW from \in 0..MaxClock, NEW r \in Rooms
      PROVE  Fits(RoomLimit, PastLimit, from, Hour, {r})'
  <2>1. CASE s \in Threats(PastLimit, from, Hour, {r})'
    <3>1. req[s].start <= from + Hour /\ req[s].room = r
      BY <1>1, <1>3, <2>1 DEF Threats
    <3>2. from \in Nat /\ Hour \in Nat
      BY BoundsAssumption, LimitsAssumption
    <3>3. Rows(from, Hour, {r}) \subseteq S
      BY <1>3, <1>4, <3>1, <3>2 DEF Rows, Since, Within
    <3> HIDE DEF S
    <3> QED
      BY <1>1, <1>2, <3>3, PassingFits, LimitsAssumption
  <2>2. CASE s \notin Threats(PastLimit, from, Hour, {r})'
    <3>1. Threats(PastLimit, from, Hour, {r})' \subseteq Threats(PastLimit, from, Hour, {r})
      BY <1>1, <2>2 DEF Threats
    <3> QED
      BY <1>1, <3>1, NothingAdded, LimitsAssumption DEF Headroom
  <2> QED
    BY <2>1, <2>2
<1> QED
  BY <1>5, <1>6 DEF Headroom

LEMMA BoundInitially == Init => BoundInv
<1> SUFFICES ASSUME Init PROVE BoundInv
  OBVIOUS
<1>1. TypeOK
  BY InitInductive DEF Inductive
<1>2. BegunBefore
  BY DEF Init, BegunBefore
<1>3. ASSUME NEW limit \in Nat, NEW past \in {PastBudget, PastLimit}, NEW from, NEW window, NEW rs
      PROVE  Fits(limit, past, from, window, rs)
  <2>1. Rows(from, window, rs) = {} /\ Threats(past, from, window, rs) = {}
    BY DEF Init, Rows, Threats, PastBudget, PastLimit
  <2>2. Cardinality(Sessions) \in Nat /\ Cardinality(Sessions) # 0
    BY SessionsAssumption, FS_CardinalityType, FS_EmptySet
  <2> QED
    BY <2>1, <2>2, FS_EmptySet DEF Fits
<1> QED
  BY <1>1, <1>2, <1>3, LimitsAssumption DEF BoundInv, Headroom

LEMMA BoundInductive ==
  ASSUME BoundInv, TypeOK', [Next]_vars
  PROVE  BoundInv'
<1> USE DEF BoundInv
<1>1. BegunBefore'
  <2>1. ASSUME NEW s \in Sessions, pc'[s] # "idle"
        PROVE  \/ pc[s] # "idle" /\ req'[s] = req[s]
               \/ req'[s].start = clock
    BY <2>1 DEF Next, Begin, ReadRoom, CountDay, CountRoom, Step, End, Goto, Answer,
       SearchFindsNothing, CallModel, ModelAnswers, Unavailable, Insert, Commit, Rollback,
       EndRoom, Tick, vars, TypeOK
  <2>2. clock' >= clock /\ clock \in Nat /\ clock' \in Nat
    BY BoundsAssumption DEF Next, Begin, ReadRoom, CountDay, CountRoom, Step, End, Answer,
       SearchFindsNothing, CallModel, ModelAnswers, Unavailable, Insert, Commit, Rollback,
       EndRoom, Tick, vars, TypeOK
  <2>3. \A s \in Sessions : pc[s] # "idle" => req[s].start \in Nat
    BY BoundsAssumption DEF TypeOK, Requests
  <2> QED
    BY <2>1, <2>2, <2>3 DEF BegunBefore
<1>2. ASSUME NEW s \in Sessions, End(s), UNCHANGED records
      PROVE  Headroom'
  <2>1. pc'[s] = "idle" /\ \A o \in Sessions \ {s} : UNCHANGED <<pc[o], req[o], row[o]>>
    BY <1>2 DEF End, Goto, TypeOK
  <2> QED
    BY <1>2, <2>1, NobodyPasses DEF PastBudget, PastLimit
<1>3. ASSUME NEW s \in Sessions, NEW r \in Rooms, Begin(s, r)
      PROVE  Headroom'
  <2>1. pc'[s] = "begun" /\ \A o \in Sessions \ {s} : UNCHANGED <<pc[o], req[o], row[o]>>
    BY <1>3 DEF Begin, Goto, TypeOK
  <2>2. UNCHANGED records
    BY <1>3 DEF Begin
  <2> QED
    BY <2>1, <2>2, NobodyPasses DEF PastBudget, PastLimit
<1>4. ASSUME NEW s \in Sessions, ReadRoom(s)
      PROVE  Headroom'
  <2>1. CASE End(s)
    BY <1>2, <1>4, <2>1 DEF ReadRoom, Step
  <2>2. CASE ~End(s)
    <3>1. /\ pc'[s] = "budget" /\ UNCHANGED <<records, req, row>>
          /\ \A o \in Sessions \ {s} : pc'[o] = pc[o]
      BY <1>4, <2>2 DEF ReadRoom, Step, Goto, TypeOK
    <3> QED
      BY <3>1, NobodyPasses DEF PastBudget, PastLimit
  <2> QED
    BY <2>1, <2>2
<1>5. ASSUME NEW s \in Sessions, CountDay(s) \/ CountRoom(s)
      PROVE  Headroom'
  <2>1. CASE End(s)
    BY <1>2, <1>5, <2>1 DEF CountDay, CountRoom, Step
  <2>2. CASE ~End(s)
    BY <1>5, <2>2, CountDayFits, CountRoomFits
  <2> QED
    BY <2>1, <2>2
<1>6. ASSUME NEW s \in Sessions, SearchFindsNothing(s) \/ ModelAnswers(s) \/ CallModel(s)
      PROVE  Headroom'
  <2>1. /\ pc[s] \in {"search", "asked"} /\ UNCHANGED <<records, req, row>>
        /\ \A o \in Sessions \ {s} : pc'[o] = pc[o]
    BY <1>6 DEF SearchFindsNothing, ModelAnswers, CallModel, Answer, Goto, TypeOK
  <2> QED
    BY <2>1, NobodyPasses DEF PastBudget, PastLimit
<1>7. ASSUME NEW s \in Sessions, Unavailable(s) \/ Rollback(s)
      PROVE  Headroom'
  BY <1>2, <1>7 DEF Unavailable, Rollback
<1>8. ASSUME NEW s \in Sessions, Insert(s)
      PROVE  Headroom'
  BY <1>8, InsertFits
<1>9. ASSUME NEW s \in Sessions, Commit(s)
      PROVE  Headroom'
  BY <1>9, CommitFits, LimitsAssumption DEF Headroom
<1>10. ASSUME Tick \/ (\E r \in Rooms : EndRoom(r)) \/ UNCHANGED vars
       PROVE  Headroom'
  BY <1>10, NobodyPasses DEF Tick, EndRoom, vars
<1>11. Headroom'
  BY <1>3, <1>4, <1>5, <1>6, <1>7, <1>8, <1>9, <1>10 DEF Next
<1> QED
  BY <1>1, <1>11

LEMMA HeadroomIsEnough ==
  ASSUME BoundInv
  PROVE  OvershootBounded
<1>1. ASSUME NEW limit \in Nat, NEW past \in {PastBudget, PastLimit},
             NEW from, NEW window, NEW rs, Fits(limit, past, from, window, rs)
      PROVE  InWindow(from, window, rs) < limit + Cardinality(Sessions)
  <2> DEFINE R == Rows(from, window, rs)
             T == Threats(past, from, window, rs)
             U == {s \in Sessions : row[s] # None /\ row[s].room \in rs
                                    /\ Within(from, window, row[s].created)}
  <2>1. T \in SUBSET Sessions /\ R \in SUBSET DOMAIN records
    BY DEF Threats, Rows
  <2>2. U \in SUBSET T
    BY DEF BoundInv, TypeOK, Threats, PastBudget, PastLimit
  <2>3. Cardinality(U) <= Cardinality(T) /\ Cardinality(U) \in Nat /\ Cardinality(T) \in Nat
        /\ Cardinality(Sessions) \in Nat
    BY <2>1, <2>2, SomeSessions
  <2>4. Cardinality(R) \in Nat
    BY <2>1, RowsFinite DEF BoundInv
  <2>5. Cardinality(R) + Cardinality(T) < limit + Cardinality(Sessions)
    BY <1>1 DEF Fits
  <2>6. InWindow(from, window, rs) = Cardinality(R) + Cardinality(U)
    BY DEF InWindow, Rows
  <2> HIDE DEF R, T, U
  <2> QED
    BY <2>3, <2>4, <2>5, <2>6
<1> QED
  BY <1>1, LimitsAssumption DEF BoundInv, Headroom, OvershootBounded

(* _enforce_limits counts and request_fact_check inserts seconds later: in   *)
(* any day, and in any room's hour, the overlap costs at most one check for  *)
(* every other session that is served at once.                               *)
THEOREM AlwaysBounded == Spec => []OvershootBounded
<1>1. BoundInv /\ TypeOK' /\ [Next]_vars => BoundInv'
  BY BoundInductive
<1>2. Inductive => TypeOK
  BY DEF Inductive
<1>3. BoundInv => OvershootBounded
  BY HeadroomIsEnough
<1> QED
  BY <1>1, <1>2, <1>3, BoundInitially, AlwaysInductive, PTL DEF Spec

(* Every variable of the fact-check service keeps its type; a session has a  *)
(* result and a row exactly at the statements that have produced them.       *)
THEOREM TypeCorrect == Spec => []TypeOK
<1>1. Inductive => TypeOK
  BY DEF Inductive
<1> QED
  BY <1>1, AlwaysInductive, PTL

(* No verdict is recorded without a trusted source, nor any source that is   *)
(* not trusted, whatever the model answers: _apply_trust_filter is on the    *)
(* only way into fact_checks.                                                *)
THEOREM AlwaysBacked == Spec => []VerdictsAreBacked
<1>1. Inductive => VerdictsAreBacked
  BY DEF Inductive
<1> QED
  BY <1>1, AlwaysInductive, PTL

(* However requests, failures and rollbacks overlap, there are never more    *)
(* rows than checks the provider has completed.                              *)
THEOREM NoTraceOfFailures == Spec => []FailuresLeaveNoTrace
<1>1. Inductive => FailuresLeaveNoTrace
  BY DEF Inductive
<1> QED
  BY <1>1, AlwaysInductive, PTL

------------------------------------------------------------------------------
(* The daily quota of calls, when no call fails.                             *)

NoCallFails == Failures \cap {"model", "session"} = {}

CallsIn(from) == {i \in DOMAIN calls : Within(from, Day, calls[i])}

\* The requests that may still call in the day that begins at from.
Callers(from) == {s \in Sessions : pc[s] \in {"limit", "search"} /\ req[s].start <= from + Day}

RowsSince(from) == {i \in DOMAIN records : records[i].created >= from}

\* The requests that have called, and whose row is not committed.
Owing(from) ==
  {s \in Sessions : \/ pc[s] \in {"asked", "answered"}
                    \/ pc[s] = "inserted" /\ row[s].created >= from}

CallsPast == \A i \in DOMAIN calls : calls[i] <= clock

\* A call of the day has its row in the day or later, or will have.
CallsCovered ==
  \A from \in 0..MaxClock : from <= clock =>
    Cardinality(CallsIn(from)) <= Cardinality(RowsSince(from)) + Cardinality(Owing(from))

CallsFit ==
  \A from \in 0..MaxClock :
    Cardinality(CallsIn(from)) + Cardinality(Callers(from)) < DailyBudget + Cardinality(Sessions)

QuotaInv == CallsPast /\ CallsCovered /\ CallsFit

LEMMA QuotaFinite ==
  ASSUME TypeOK, NEW from
  PROVE  /\ IsFiniteSet(CallsIn(from)) /\ Cardinality(CallsIn(from)) \in Nat
         /\ IsFiniteSet(RowsSince(from)) /\ Cardinality(RowsSince(from)) \in Nat
         /\ Callers(from) \in SUBSET Sessions /\ Owing(from) \in SUBSET Sessions
<1>1. RowsSince(from) \in SUBSET DOMAIN records
  BY DEF RowsSince
<1>2. DOMAIN calls = 1..Len(calls) /\ Len(calls) \in Nat
  BY DEF TypeOK
<1>3. IsFiniteSet(DOMAIN calls)
  BY <1>2, FS_Interval
<1>4. CallsIn(from) \subseteq DOMAIN calls
  BY DEF CallsIn
<1>5. IsFiniteSet(CallsIn(from)) /\ Cardinality(CallsIn(from)) \in Nat
  BY <1>3, <1>4, FS_Subset, FS_CardinalityType
<1>6. Callers(from) \in SUBSET Sessions /\ Owing(from) \in SUBSET Sessions
  BY DEF Callers, Owing
<1> QED
  BY <1>1, <1>5, <1>6, RowsFinite

LEMMA NoCallsAhead ==
  ASSUME TypeOK, CallsPast, NEW from \in 0..MaxClock, ~(from <= clock)
  PROVE  CallsIn(from) = {}
<1>1. \A i \in DOMAIN calls : calls[i] \in Nat /\ calls[i] <= clock
  BY BoundsAssumption DEF TypeOK, CallsPast
<1>2. clock \in Nat /\ from \in Nat
  BY BoundsAssumption DEF TypeOK
<1> QED
  BY <1>1, <1>2 DEF CallsIn, Within

(* A step that neither calls nor commits, nor lets a request past the count. *)
LEMMA NeutralQuota ==
  ASSUME TypeOK, TypeOK', QuotaInv, UNCHANGED <<calls, records>>, clock <= clock',
         \A from \in 0..MaxClock :
           /\ Callers(from)' \subseteq Callers(from)
           /\ from <= clock => Owing(from) \subseteq Owing(from)'
  PROVE  QuotaInv'
<1>1. clock \in Nat /\ clock' \in Nat /\ \A i \in DOMAIN calls : calls[i] \in Nat
  BY BoundsAssumption DEF TypeOK
<1>2. CallsPast'
  BY <1>1 DEF CallsPast, QuotaInv
<1>3. ASSUME NEW from \in 0..MaxClock
      PROVE  /\ CallsIn(from)' = CallsIn(from) /\ RowsSince(from)' = RowsSince(from)
             /\ Cardinality(CallsIn(from)) + Cardinality(Callers(from)') < DailyBudget + Cardinality(Sessions)
             /\ from <= clock => Cardinality(Owing(from)) <= Cardinality(Owing(from)')
  <2>1. CallsIn(from)' = CallsIn(from) /\ RowsSince(from)' = RowsSince(from)
    BY DEF CallsIn, RowsSince
  <2>2. Owing(from)' \in SUBSET Sessions
    BY DEF Owing
  <2>3. /\ Cardinality(Callers(from)') <= Cardinality(Callers(from))
        /\ Cardinality(Callers(from)') \in Nat /\ Cardinality(Callers(from)) \in Nat
        /\ Cardinality(Sessions) \in Nat
    BY QuotaFinite, SomeSessions
  <2>4. Cardinality(CallsIn(from)) + Cardinality(Callers(from)) < DailyBudget + Cardinality(Sessions)
    BY DEF QuotaInv, CallsFit
  <2>5. Cardinality(CallsIn(from)) + Cardinality(Callers(from)') < DailyBudget + Cardinality(Sessions)
    BY <2>3, <2>4, QuotaFinite, LimitsAssumption
  <2>6. from <= clock => Cardinality(Owing(from)) <= Cardinality(Owing(from)')
    BY <2>2, SomeSessions
  <2> QED
    BY <2>1, <2>5, <2>6
<1>4. CallsFit'
  BY <1>3 DEF CallsFit
<1>5. ASSUME NEW from \in 0..MaxClock, from <= clock'
      PROVE  Cardinality(CallsIn(from)) <= Cardinality(RowsSince(from)) + Cardinality(Owing(from)')
  <2>1. Owing(from)' \in SUBSET Sessions
    BY DEF Owing
  <2>2. /\ Cardinality(Owing(from)') \in Nat /\ Cardinality(Owing(from)) \in Nat
        /\ Cardinality(RowsSince(from)) \in Nat /\ Cardinality(CallsIn(from)) \in Nat
    BY <2>1, QuotaFinite, SomeSessions
  <2>3. CASE from <= clock
    <3>1. Cardinality(CallsIn(from)) <= Cardinality(RowsSince(from)) + Cardinality(Owing(from))
      BY <2>3 DEF QuotaInv, CallsCovered
    <3>2. Cardinality(Owing(from)) <= Cardinality(Owing(from)')
      BY <1>3, <2>3
    <3> QED
      BY <2>2, <3>1, <3>2
  <2>4. CASE ~(from <= clock)
    <3>1. Cardinality(CallsIn(from)) = 0
      BY <2>4, NoCallsAhead, FS_EmptySet DEF QuotaInv
    <3> QED
      BY <2>2, <3>1
  <2> QED
    BY <2>3, <2>4
<1>6. CallsCovered'
  BY <1>3, <1>5 DEF CallsCovered
<1> QED
  BY <1>2, <1>4, <1>6 DEF QuotaInv

LEMMA CallModelQuota ==
  ASSUME TypeOK, BegunBefore, QuotaInv, NEW s \in Sessions, CallModel(s)
  PROVE  QuotaInv'
<1>1. /\ pc[s] = "search" /\ pc'[s] = "asked" /\ \A o \in Sessions \ {s} : pc'[o] = pc[o]
      /\ UNCHANGED <<clock, records, req, row>> /\ calls' = Append(calls, clock)
  BY DEF CallModel, Goto, TypeOK
<1>2. calls \in Seq(0..MaxClock) /\ clock \in 0..MaxClock /\ clock \in Nat /\ Len(calls) \in Nat
  BY BoundsAssumption DEF TypeOK
<1>3. /\ DOMAIN calls' = DOMAIN calls \cup {Len(calls) + 1} /\ Len(calls) + 1 \notin DOMAIN calls
      /\ calls'[Len(calls) + 1] = clock /\ \A i \in DOMAIN calls : calls'[i] = calls[i]
  BY <1>1, <1>2
<1>4. CallsPast'
  BY <1>1, <1>2, <1>3 DEF CallsPast, QuotaInv
<1>5. ASSUME NEW from \in 0..MaxClock
      PROVE  /\ from <= clock => Cardinality(CallsIn(from)') <= Cardinality(RowsSince(from)') + Cardinality(Owing(from)')
             /\ Cardinality(CallsIn(from)') + Cardinality(Callers(from)') < DailyBudget + Cardinality(Sessions)
  <2>1. /\ Owing(from)' = Owing(from) \cup {s} /\ s \notin Owing(from)
        /\ Callers(from)' = Callers(from) \ {s} /\ RowsSince(from)' = RowsSince(from)
    BY <1>1 DEF Owing, Callers, RowsSince
  <2>2. IsFiniteSet(Owing(from)) /\ IsFiniteSet(Callers(from))
    BY QuotaFinite, SomeSessions
  <2>3. Cardinality(Owing(from)') = Cardinality(Owing(from)) + 1
    BY <2>1, <2>2, FS_AddElement
  <2>4. /\ Cardinality(CallsIn(from)) \in Nat /\ Cardinality(RowsSince(from)) \in Nat
        /\ Cardinality(Owing(from)) \in Nat /\ Cardinality(Callers(from)) \in Nat
        /\ Cardinality(Sessions) \in Nat
    BY QuotaFinite, SomeSessions
  <2>5. /\ from <= clock => Cardinality(CallsIn(from)) <= Cardinality(RowsSince(from)) + Cardinality(Owing(from))
        /\ Cardinality(CallsIn(from)) + Cardinality(Callers(from)) < DailyBudget + Cardinality(Sessions)
    BY DEF QuotaInv, CallsCovered, CallsFit
  <2>6. CASE Within(from, Day, clock)
    <3>1. CallsIn(from)' = CallsIn(from) \cup {Len(calls) + 1} /\ Len(calls) + 1 \notin CallsIn(from)
      BY <1>3, <2>6 DEF CallsIn
    <3>2. Cardinality(CallsIn(from)') = Cardinality(CallsIn(from)) + 1
      BY <3>1, QuotaFinite, FS_AddElement
    <3>3. s \in Callers(from)
      <4>1. req[s].start <= clock /\ req[s].start \in Nat
        BY <1>1, BoundsAssumption DEF BegunBefore, TypeOK, Requests
      <4>2. from \in Nat /\ Day \in Nat /\ clock <= from + Day
        BY <2>6, BoundsAssumption, LimitsAssumption DEF Within
      <4>3. req[s].start <= from + Day
        BY <1>2, <4>1, <4>2
      <4> QED
        BY <1>1, <4>3 DEF Callers
    <3>4. Cardinality(Callers(from)') = Cardinality(Callers(from)) - 1
      BY <2>1, <2>2, <3>3, FS_RemoveElement
    <3> QED
      BY <2>1, <2>3, <2>4, <2>5, <3>2, <3>4, LimitsAssumption
  <2>7. CASE ~Within(from, Day, clock)
    <3>1. CallsIn(from)' = CallsIn(from)
      BY <1>3, <2>7 DEF CallsIn
    <3>2. Cardinality(Callers(from)') <= Cardinality(Callers(from)) /\ Cardinality(Callers(from)') \in Nat
      BY <2>1, QuotaFinite, SomeSessions
    <3> QED
      BY <2>1, <2>3, <2>4, <2>5, <3>1, <3>2, LimitsAssumption
  <2> QED
    BY <2>6, <2>7
<1>6. CallsCovered' /\ CallsFit'
  BY <1>1, <1>5 DEF CallsCovered, CallsFit
<1> QED
  BY <1>4, <1>6 DEF QuotaInv

(* Passing the count of the day: the calls are the rows counted and those    *)
(* owed by other requests.                                                   *)
LEMMA CountDayQuota ==
  ASSUME TypeOK, QuotaInv, NEW s \in Sessions, CountDay(s), ~End(s)
  PROVE  QuotaInv'
<1> DEFINE S == Since(req[s].start, Day)
<1>1. /\ UNCHANGED <<records, calls, clock>> /\ pc[s] = "budget" /\ pc'[s] = "limit" /\ Cardinality(S) < DailyBudget
      /\ UNCHANGED <<req, row>> /\ \A o \in Sessions \ {s} : pc'[o] = pc[o]
  BY DEF CountDay, Step, Goto, UsedToday, TypeOK
<1>2. S \in SUBSET DOMAIN records
  BY DEF Since
<1>3. req[s].start \in Nat /\ clock \in Nat
  BY <1>1, BoundsAssumption DEF TypeOK, Requests
<1>4. \A i \in DOMAIN records : records[i].created \in Nat
  <2>1. \A i \in DOMAIN records : records[i] \in Records
    BY DEF TypeOK
  <2> QED
    BY <2>1, BoundsAssumption DEF Records
<1>5. CallsPast'
  BY <1>1 DEF CallsPast, QuotaInv
<1>6. ASSUME NEW from \in 0..MaxClock
      PROVE  /\ CallsIn(from)' = CallsIn(from) /\ RowsSince(from)' = RowsSince(from)
             /\ Owing(from)' = Owing(from)
  BY <1>1 DEF CallsIn, RowsSince, Owing
<1>7. CallsCovered'
  BY <1>1, <1>6 DEF CallsCovered, QuotaInv
<1>8. ASSUME NEW from \in 0..MaxClock
      PROVE  Cardinality(CallsIn(from)) + Cardinality(Callers(from)') < DailyBudget + Cardinality(Sessions)
  <2>1. Callers(from)' \in SUBSET Sessions
    BY DEF Callers
  <2>2. /\ Cardinality(CallsIn(from)) \in Nat /\ Cardinality(RowsSince(from)) \in Nat
        /\ Cardinality(Owing(from)) \in Nat /\ Cardinality(Callers(from)) \in Nat
        /\ Cardinality(Sessions) \in Nat /\ Cardinality(Callers(from)') \in Nat
        /\ Cardinality(Callers(from)') <= Cardinality(Sessions)
        /\ IsFiniteSet(Owing(from)) /\ IsFiniteSet(Callers(from)')
    BY <2>1, QuotaFinite, SomeSessions
  <2>3. Cardinality(S) \in Nat /\ DailyBudget \in Nat /\ Cardinality(S) < DailyBudget
    BY <1>1, <1>2, RowsFinite, LimitsAssumption
  <2>4. CASE ~(from <= clock)
    <3>1. Cardinality(CallsIn(from)) = 0
      BY <2>4, NoCallsAhead, FS_EmptySet DEF QuotaInv
    <3> HIDE DEF S
    <3> QED
      BY <2>2, <2>3, <3>1
  <2>5. CASE from <= clock /\ s \in Callers(from)'
    <3>1. req[s].start <= from + Day
      BY <1>1, <2>5 DEF Callers
    <3>2. from \in Nat /\ Day \in Nat
      BY BoundsAssumption, LimitsAssumption
    <3>3. RowsSince(from) \subseteq S
      BY <1>3, <1>4, <3>1, <3>2 DEF RowsSince, Since
    <3>4. Cardinality(RowsSince(from)) <= Cardinality(S)
      BY <1>2, <3>3, RowsFinite
    <3>5. Owing(from) \cap Callers(from)' = {}
      BY <1>1 DEF Owing, Callers
    <3>6. Cardinality(Owing(from) \cup Callers(from)') =
            Cardinality(Owing(from)) + Cardinality(Callers(from)')
      <4>1. Cardinality(Owing(from) \cup Callers(from)') =
              Cardinality(Owing(from)) + Cardinality(Callers(from)')
                - Cardinality(Owing(from) \cap Callers(from)')
        BY <2>2, FS_Union
      <4>2. Cardinality(Owing(from) \cap Callers(from)') = 0
        BY <3>5, FS_EmptySet
      <4> QED
        BY <2>2, <4>1, <4>2
    <3>7. Cardinality(Owing(from) \cup Callers(from)') <= Cardinality(Sessions)
      BY <2>1, QuotaFinite, SomeSessions
    <3>8. Cardinality(CallsIn(from)) <= Cardinality(RowsSince(from)) + Cardinality(Owing(from))
      BY <2>5 DEF QuotaInv, CallsCovered
    <3> HIDE DEF S
    <3> QED
      BY <2>2, <2>3, <3>4, <3>6, <3>7, <3>8
  <2>6. CASE s \notin Callers(from)'
    <3>1. Callers(from)' \subseteq Callers(from)
      BY <1>1, <2>6 DEF Callers
    <3>2. Cardinality(Callers(from)') <= Cardinality(Callers(from))
      BY <3>1, QuotaFinite, SomeSessions
    <3>3. Cardinality(CallsIn(from)) + Cardinality(Callers(from)) < DailyBudget + Cardinality(Sessions)
      BY DEF QuotaInv, CallsFit
    <3> HIDE DEF S
    <3> QED
      BY <2>2, <2>3, <3>2, <3>3
  <2> QED
    BY <2>4, <2>5, <2>6
<1>9. CallsFit'
  BY <1>6, <1>8 DEF CallsFit
<1> QED
  BY <1>5, <1>7, <1>9 DEF QuotaInv

LEMMA CommitQuota ==
  ASSUME TypeOK, QuotaInv, NEW s \in Sessions, Commit(s)
  PROVE  QuotaInv'
<1>1. /\ pc[s] = "inserted" /\ pc'[s] = "idle" /\ UNCHANGED <<clock, calls>>
      /\ \A o \in Sessions \ {s} : UNCHANGED <<pc[o], req[o], row[o]>>
      /\ records' = Append(records, row[s])
  BY DEF Commit, End, Goto, TypeOK
<1>2. records \in Seq(Records) /\ row[s] \in Records /\ Len(records) \in Nat
  BY <1>1, NoneAssumption DEF TypeOK
<1>3. /\ DOMAIN records' = DOMAIN records \cup {Len(records) + 1}
      /\ Len(records) + 1 \notin DOMAIN records
      /\ records'[Len(records) + 1] = row[s] /\ \A i \in DOMAIN records : records'[i] = records[i]
  BY <1>1, <1>2
<1>4. CallsPast'
  BY <1>1 DEF CallsPast, QuotaInv
<1>5. ASSUME NEW from \in 0..MaxClock
      PROVE  /\ CallsIn(from)' = CallsIn(from) /\ Callers(from)' = Callers(from)
             /\ Owing(from)' = Owing(from) \ {s}
  BY <1>1 DEF CallsIn, Callers, Owing
<1>6. CallsFit'
  BY <1>5 DEF CallsFit, QuotaInv
<1>7. ASSUME NEW from \in 0..MaxClock, from <= clock
      PROVE  Cardinality(CallsIn(from)) <= Cardinality(RowsSince(from)') + Cardinality(Owing(from)')
  <2>1. Cardinality(CallsIn(from)) <= Cardinality(RowsSince(from)) + Cardinality(Owing(from))
    BY <1>7 DEF QuotaInv, CallsCovered
  <2>2. /\ Cardinality(CallsIn(from)) \in Nat /\ Cardinality(RowsSince(from)) \in Nat
        /\ Cardinality(Owing(from)) \in Nat /\ IsFiniteSet(RowsSince(from)) /\ IsFiniteSet(Owing(from))
    BY QuotaFinite, SomeSessions
  <2>3. CASE row[s].created >= from
    <3>1. /\ RowsSince(from)' = RowsSince(from) \cup {Len(records) + 1}
          /\ Len(records) + 1 \notin RowsSince(from)
      BY <1>3, <2>3 DEF RowsSince
    <3>2. Cardinality(RowsSince(from)') = Cardinality(RowsSince(from)) + 1
      BY <2>2, <3>1, FS_AddElement
    <3>3. s \in Owing(from)
      BY <1>1, <2>3 DEF Owing
    <3>4. Cardinality(Owing(from)') = Cardinality(Owing(from)) - 1
      BY <1>5, <2>2, <3>3, FS_RemoveElement
    <3> QED
      BY <2>1, <2>2, <3>2, <3>4
  <2>4. CASE ~(row[s].created >= from)
    <3>1. RowsSince(from)' = RowsSince(from)
      BY <1>3, <2>4 DEF RowsSince
    <3>2. s \notin Owing(from)
      BY <1>1, <2>4 DEF Owing
    <3>3. Owing(from)' = Owing(from)
      BY <1>5, <3>2
    <3> QED
      BY <2>1, <3>1, <3>3
  <2> QED
    BY <2>3, <2>4
<1>8. CallsCovered'
  BY <1>1, <1>5, <1>7 DEF CallsCovered
<1> QED
  BY <1>4, <1>6, <1>8 DEF QuotaInv

LEMMA QuotaInitially == Init => QuotaInv
<1> SUFFICES ASSUME Init PROVE QuotaInv
  OBVIOUS
<1>1. \A from : CallsIn(from) = {} /\ RowsSince(from) = {} /\ Owing(from) = {} /\ Callers(from) = {}
  BY DEF Init, CallsIn, RowsSince, Owing, Callers
<1>2. Cardinality(Sessions) \in Nat /\ Cardinality(Sessions) # 0
  BY SessionsAssumption, FS_CardinalityType, FS_EmptySet
<1>3. CallsPast
  BY DEF Init, CallsPast
<1> QED
  BY <1>1, <1>2, <1>3, FS_EmptySet, LimitsAssumption DEF QuotaInv, CallsCovered, CallsFit

LEMMA QuotaInductive ==
  ASSUME NoCallFails, BoundInv, TypeOK', QuotaInv, [Next]_vars
  PROVE  QuotaInv'
<1> USE DEF BoundInv
<1>0. clock \in Nat /\ clock <= clock'
  BY BoundsAssumption DEF Next, Begin, ReadRoom, CountDay, CountRoom, Step, End, Answer,
     SearchFindsNothing, CallModel, ModelAnswers, Unavailable, Insert, Commit, Rollback,
     EndRoom, Tick, vars, TypeOK
<1>1. ASSUME NEW s \in Sessions, End(s), UNCHANGED records, pc[s] \in {"begun", "budget", "limit", "search"}
      PROVE  QuotaInv'
  <2>1. /\ pc'[s] = "idle" /\ \A o \in Sessions \ {s} : UNCHANGED <<pc[o], req[o], row[o]>>
        /\ UNCHANGED <<calls, records>>
    BY <1>1 DEF End, Goto, TypeOK
  <2> QED
    BY <1>0, <1>1, <2>1, NeutralQuota DEF Callers, Owing
<1>2. ASSUME NEW s \in Sessions, NEW r \in Rooms, Begin(s, r) PROVE QuotaInv'
  <2>1. /\ pc[s] = "idle" /\ pc'[s] = "begun" /\ UNCHANGED <<calls, records, row>>
        /\ \A o \in Sessions \ {s} : UNCHANGED <<pc[o], req[o]>>
    BY <1>2 DEF Begin, Goto, TypeOK
  <2> QED
    BY <1>0, <2>1, NeutralQuota DEF Callers, Owing
<1>3. ASSUME NEW s \in Sessions, ReadRoom(s) \/ CountRoom(s) PROVE QuotaInv'
  <2>1. CASE End(s)
    BY <1>1, <1>3, <2>1 DEF ReadRoom, CountRoom, Step
  <2>2. CASE ~End(s)
    <3>1. /\ \/ pc[s] = "begun" /\ pc'[s] = "budget"
             \/ pc[s] = "limit" /\ pc'[s] = "search"
          /\ UNCHANGED <<calls, records, req, row>>
          /\ \A o \in Sessions \ {s} : pc'[o] = pc[o]
      BY <1>3, <2>2 DEF ReadRoom, CountRoom, Step, Goto, TypeOK
    <3> QED
      BY <1>0, <3>1, NeutralQuota DEF Callers, Owing
  <2> QED
    BY <2>1, <2>2
<1>4. ASSUME NEW s \in Sessions, CountDay(s) PROVE QuotaInv'
  <2>1. CASE End(s)
    BY <1>1, <1>4, <2>1 DEF CountDay, Step
  <2> QED
    BY <1>4, <2>1, CountDayQuota
<1>5. ASSUME NEW s \in Sessions, SearchFindsNothing(s) \/ ModelAnswers(s) PROVE QuotaInv'
  <2>1. /\ pc[s] \in {"search", "asked"} /\ pc'[s] = "answered" /\ UNCHANGED <<calls, records, req, row>>
        /\ \A o \in Sessions \ {s} : pc'[o] = pc[o]
    BY <1>5 DEF SearchFindsNothing, ModelAnswers, Answer, Goto, TypeOK
  <2> QED
    BY <1>0, <2>1, NeutralQuota DEF Callers, Owing
<1>6. ASSUME NEW s \in Sessions, CallModel(s) PROVE QuotaInv'
  BY <1>6, CallModelQuota
<1>7. ASSUME NEW s \in Sessions, Unavailable(s) \/ Rollback(s) PROVE QuotaInv'
  <2>1. pc[s] = "search" /\ End(s) /\ UNCHANGED records
    BY <1>7 DEF Unavailable, Rollback, NoCallFails
  <2> QED
    BY <1>1, <2>1
<1>8. ASSUME NEW s \in Sessions, Insert(s) PROVE QuotaInv'
  <2>1. /\ pc[s] = "answered" /\ pc'[s] = "inserted" /\ UNCHANGED <<calls, records, req>>
        /\ row'[s].created = clock
        /\ \A o \in Sessions \ {s} : UNCHANGED <<pc[o], row[o]>>
    BY <1>8 DEF Insert, Goto, TypeOK
  <2>2. ASSUME NEW from \in 0..MaxClock
        PROVE  Callers(from)' \subseteq Callers(from)
    BY <2>1 DEF Callers
  <2>3. ASSUME NEW from \in 0..MaxClock, from <= clock
        PROVE  Owing(from) \subseteq Owing(from)'
    <3>1. row'[s].created >= from
      BY <1>0, <2>1, <2>3, BoundsAssumption
    <3> QED
      BY <2>1, <3>1 DEF Owing
  <2> QED
    BY <1>0, <2>1, <2>2, <2>3, NeutralQuota
<1>9. ASSUME NEW s \in Sessions, Commit(s) PROVE QuotaInv'
  BY <1>9, CommitQuota
<1>10. CASE Tick \/ (\E r \in Rooms : EndRoom(r)) \/ UNCHANGED vars
  <2>1. UNCHANGED <<pc, req, row, calls, records>>
    BY <1>10 DEF Tick, EndRoom, vars
  <2> QED
    BY <1>0, <2>1, NeutralQuota DEF Callers, Owing
<1> QED
  BY <1>2, <1>3, <1>4, <1>5, <1>6, <1>7, <1>8, <1>9, <1>10 DEF Next

(* What _enforce_limits claims of the provider's quota, where every call     *)
(* ends in a row: the calls of any day exceed the budget by less than the    *)
(* requests that are served at once.  So it is the calls that fail, and      *)
(* leave no row to count, that spend the quota unseen.                       *)
THEOREM QuotaNearlyDefended ==
  ASSUME NoCallFails
  PROVE  Spec => []QuotaOvershootBounded
<1>1. QuotaInv /\ TypeOK => QuotaOvershootBounded
  <2> SUFFICES ASSUME QuotaInv, TypeOK, NEW from \in 0..MaxClock
               PROVE  Cardinality(CallsIn(from)) < DailyBudget + Cardinality(Sessions)
    BY DEF QuotaOvershootBounded, CallsIn
  <2>1. Cardinality(CallsIn(from)) + Cardinality(Callers(from)) < DailyBudget + Cardinality(Sessions)
    BY DEF QuotaInv, CallsFit
  <2>2. /\ Cardinality(CallsIn(from)) \in Nat /\ Cardinality(Callers(from)) \in Nat
        /\ Cardinality(Sessions) \in Nat
    BY QuotaFinite, SomeSessions
  <2> QED
    BY <2>1, <2>2, LimitsAssumption
<1>2. BoundInv /\ TypeOK' /\ [Next]_vars => BoundInv'
  BY BoundInductive
<1>3. BoundInv /\ TypeOK' /\ QuotaInv /\ [Next]_vars => QuotaInv'
  BY QuotaInductive
<1>4. Inductive => TypeOK
  BY DEF Inductive
<1> QED
  BY <1>1, <1>2, <1>3, <1>4, BoundInitially, QuotaInitially, AlwaysInductive, PTL DEF Spec

------------------------------------------------------------------------------
(* What is cited.                                                            *)

(* Induction, for a set of numbers.                                          *)
LEMMA SetInduction ==
  ASSUME NEW S, 0 \in S, \A n \in Nat : n \in S => n + 1 \in S
  PROVE  Nat \subseteq S
<1> DEFINE Before == OpToRel(<, Nat)
<1>1. IsWellFoundedOn(Before, Nat)
  BY NatLessThanWellFounded
<1>2. \A m, n \in Nat : m < n => <<m, n>> \in Before
  BY DEF OpToRel
<1> HIDE DEF Before
<1> SUFFICES ASSUME Nat \ S # {} PROVE FALSE
  OBVIOUS
<1>3. PICK n \in Nat \ S : \A m \in Nat \ S : ~(<<m, n>> \in Before)
  <2>1. Nat \ S \subseteq Nat
    OBVIOUS
  <2> QED
    BY <1>1, <2>1, WFMin
<1>4. n # 0
  BY <1>3
<1>5. n - 1 \in Nat /\ n - 1 < n /\ n = (n - 1) + 1
  BY <1>4
<1>6. n - 1 \in S
  BY <1>2, <1>3, <1>5
<1> QED
  BY <1>5, <1>6

Stepwise(f, base, bound, step) ==
  f[0] = base /\ \A n \in 1..bound : f[n] = step[<<n, f[n - 1]>>]

(* A function on 0..bound is built one value at a time.                      *)
LEMMA BuiltStepwise ==
  ASSUME NEW T, NEW base \in T, NEW bound \in Nat, NEW step \in [(1..bound) \X T -> T]
  PROVE  \E f \in [0..bound -> T] : Stepwise(f, base, bound, step)
<1> USE DEF Stepwise
<1> DEFINE Built(f, m) == Stepwise(f, base, m, step)
           S == {m \in Nat : m <= bound => \E f \in [0..m -> T] : Built(f, m)}
<1>1. 0 \in S
  <2>1. Built([n \in 0..0 |-> base], 0)
    OBVIOUS
  <2> QED
    BY <2>1
<1>2. ASSUME NEW m \in Nat, m \in S, m + 1 <= bound PROVE \E f \in [0..m + 1 -> T] : Built(f, m + 1)
  <2>1. PICK f \in [0..m -> T] : Built(f, m)
    BY <1>2
  <2> DEFINE g == [n \in 0..m + 1 |-> IF n = m + 1 THEN step[<<m + 1, f[m]>>] ELSE f[n]]
  <2>2. f[m] \in T /\ <<m + 1, f[m]>> \in (1..bound) \X T
    BY <1>2
  <2>3. g \in [0..m + 1 -> T]
    BY <2>2
  <2>4. g[0] = base
    BY <2>1
  <2>5. ASSUME NEW n \in 1..m + 1 PROVE g[n] = step[<<n, g[n - 1]>>]
    <3>1. CASE n = m + 1
      <4>1. n - 1 = m /\ m \in 0..m + 1 /\ m # m + 1 /\ n \in 0..m + 1
        BY <3>1
      <4>2. g[n] = step[<<m + 1, f[m]>>] /\ g[n - 1] = f[m]
        BY <3>1, <4>1
      <4> QED
        BY <3>1, <4>2
    <3>2. CASE n # m + 1
      <4>1. n \in 1..m /\ n - 1 \in 0..m /\ n - 1 # m + 1
        BY <3>2
      <4> QED
        BY <2>1, <3>2, <4>1
    <3> QED
      BY <3>1, <3>2
  <2> QED
    BY <2>3, <2>4, <2>5
<1>3. Nat \subseteq S
  <2>1. \A m \in Nat : m \in S => m + 1 \in S
    BY <1>2
  <2> HIDE DEF S
  <2> QED
    BY <1>1, <2>1, SetInduction
<1> QED
  BY <1>3

------------------------------------------------------------------------------
KeptBy(kept, pages) ==
  kept = [n \in 0..Len(pages) |->
            IF n = 0 THEN <<>>
            ELSE IF pages[n].blank THEN kept[n - 1] ELSE Append(kept[n - 1], pages[n])]

(* The recursion of Results is well defined.                                 *)
LEMMA ResultsBuilt ==
  ASSUME NEW pages \in Seq(Pages)
  PROVE  \E kept : KeptBy(kept, pages) /\ Results(pages) = kept[Len(pages)]
<1> DEFINE T == Seq(Pages)
           step == [x \in (1..Len(pages)) \X T |->
                      IF pages[x[1]].blank THEN x[2] ELSE Append(x[2], pages[x[1]])]
<1>1. <<>> \in T /\ Len(pages) \in Nat /\ \A n \in 1..Len(pages) : pages[n] \in Pages
  OBVIOUS
<1>2. step \in [(1..Len(pages)) \X T -> T]
  <2>1. ASSUME NEW x \in (1..Len(pages)) \X T
        PROVE  (IF pages[x[1]].blank THEN x[2] ELSE Append(x[2], pages[x[1]])) \in T
    BY <1>1
  <2> QED
    BY <2>1
<1>3. PICK f \in [0..Len(pages) -> T] :
        f[0] = <<>> /\ \A n \in 1..Len(pages) : f[n] = step[<<n, f[n - 1]>>]
  <2> DEFINE none == <<>>
  <2>1. none \in T /\ Len(pages) \in Nat
    BY <1>1
  <2> HIDE DEF T, step, none
  <2>2. \E f \in [0..Len(pages) -> T] : Stepwise(f, none, Len(pages), step)
    BY <1>2, <2>1, BuiltStepwise
  <2> QED
    BY <2>2 DEF none, Stepwise
<1>4. ASSUME NEW n \in 0..Len(pages)
      PROVE  f[n] = IF n = 0 THEN <<>>
                    ELSE IF pages[n].blank THEN f[n - 1] ELSE Append(f[n - 1], pages[n])
  <2>1. CASE n = 0
    BY <1>3, <2>1
  <2>2. CASE n # 0
    <3>1. n \in 1..Len(pages) /\ n - 1 \in 0..Len(pages)
      BY <2>2
    <3>2. <<n, f[n - 1]>> \in (1..Len(pages)) \X T
      BY <3>1
    <3> QED
      BY <1>3, <2>2, <3>1, <3>2
  <2> QED
    BY <2>1, <2>2
<1>5. KeptBy(f, pages)
  BY <1>4 DEF KeptBy
<1>6. KeptBy(CHOOSE kept : KeptBy(kept, pages), pages)
  BY <1>5
<1>7. Results(pages) = (CHOOSE kept : KeptBy(kept, pages))[Len(pages)]
  BY DEF Results, KeptBy
<1> QED
  BY <1>6, <1>7

(* Pages are numbered in turn, blank ones left out.                          *)
LEMMA NumberedInTurn ==
  ASSUME NEW found \in Seq(Pages)
  PROVE  /\ Number(found, 0) = 0
         /\ \A p \in Nat : Number(found, p) \in Nat
         /\ \A p \in 1..Len(found) :
              Number(found, p) = IF found[p].blank THEN Number(found, p - 1)
                                 ELSE Number(found, p - 1) + 1
<1> DEFINE Shown(p) == {q \in 1..p : ~found[q].blank}
<1>1. \A p \in Nat : IsFiniteSet(Shown(p)) /\ Cardinality(Shown(p)) \in Nat
  <2> TAKE p \in Nat
  <2>1. IsFiniteSet(1..p) /\ Shown(p) \subseteq 1..p
    BY FS_Interval
  <2> QED
    BY <2>1, FS_Subset, FS_CardinalityType
<1>2. Number(found, 0) = 0
  <2>1. Shown(0) = {}
    OBVIOUS
  <2> QED
    BY <2>1, FS_EmptySet DEF Number
<1>3. ASSUME NEW p \in 1..Len(found), found[p].blank
      PROVE  Number(found, p) = Number(found, p - 1)
  <2>1. Shown(p) = Shown(p - 1)
    BY <1>3
  <2> QED
    BY <2>1 DEF Number
<1>4. ASSUME NEW p \in 1..Len(found), ~found[p].blank
      PROVE  Number(found, p) = Number(found, p - 1) + 1
  <2>1. Shown(p) = Shown(p - 1) \cup {p} /\ p \notin Shown(p - 1) /\ p - 1 \in Nat
    BY <1>4
  <2>2. Cardinality(Shown(p - 1) \cup {p}) = Cardinality(Shown(p - 1)) + 1
    BY <1>1, <2>1, FS_AddElement
  <2> QED
    BY <2>1, <2>2 DEF Number
<1>5. \A p \in Nat : Number(found, p) \in Nat
  BY <1>1 DEF Number
<1> QED
  BY <1>2, <1>3, <1>4, <1>5

(* The list the model is shown holds the pages with text, each at its number. *)
Numbering(shown, found, n) ==
  /\ shown \in Seq(Pages) /\ Len(shown) = Number(found, n)
  /\ \A p \in 1..n : ~found[p].blank =>
       Number(found, p) \in 1..Len(shown) /\ shown[Number(found, p)] = found[p]
  /\ \A m \in 1..Len(shown) : \E p \in 1..n : ~found[p].blank /\ Number(found, p) = m

LEMMA NumberingExtended ==
  ASSUME NEW found \in Seq(Pages), NEW n \in 1..Len(found), NEW shown,
         Numbering(shown, found, n - 1)
  PROVE  Numbering(IF found[n].blank THEN shown ELSE Append(shown, found[n]), found, n)
<1>1. n - 1 \in Nat /\ found[n] \in Pages /\ Number(found, n - 1) \in Nat
  BY NumberedInTurn
<1>2. CASE found[n].blank
  <2>1. Number(found, n) = Number(found, n - 1)
    BY <1>2, NumberedInTurn
  <2> QED
    BY <1>1, <1>2, <2>1 DEF Numbering
<1>3. CASE ~found[n].blank
  <2> DEFINE longer == Append(shown, found[n])
  <2>1. Number(found, n) = Number(found, n - 1) + 1
    BY <1>3, NumberedInTurn
  <2>2. shown \in Seq(Pages) /\ Len(shown) = Number(found, n - 1)
    BY DEF Numbering
  <2>3. /\ longer \in Seq(Pages) /\ Len(longer) = Number(found, n)
        /\ \A m \in 1..Len(shown) : longer[m] = shown[m]
        /\ longer[Number(found, n)] = found[n]
    BY <1>1, <2>1, <2>2
  <2> HIDE DEF longer
  <2>4. ASSUME NEW p \in 1..n, ~found[p].blank
        PROVE  Number(found, p) \in 1..Len(longer) /\ longer[Number(found, p)] = found[p]
    <3>1. CASE p = n
      BY <1>1, <2>1, <2>3, <3>1
    <3>2. CASE p # n
      <4>1. p \in 1..n - 1
        BY <3>2
      <4>2. Number(found, p) \in 1..Len(shown) /\ shown[Number(found, p)] = found[p]
        BY <2>4, <4>1 DEF Numbering
      <4> QED
        BY <1>1, <2>1, <2>2, <2>3, <4>2
    <3> QED
      BY <3>1, <3>2
  <2>5. ASSUME NEW m \in 1..Len(longer)
        PROVE  \E p \in 1..n : ~found[p].blank /\ Number(found, p) = m
    <3>1. CASE m = Number(found, n)
      BY <1>3, <3>1
    <3>2. CASE m # Number(found, n)
      <4>1. m \in 1..Len(shown)
        BY <1>1, <2>1, <2>2, <2>3, <3>2
      <4>2. PICK p \in 1..n - 1 : ~found[p].blank /\ Number(found, p) = m
        BY <4>1 DEF Numbering
      <4> QED
        BY <4>2
    <3> QED
      BY <3>1, <3>2
  <2>6. Numbering(longer, found, n)
    BY <2>3, <2>4, <2>5 DEF Numbering
  <2> QED
    BY <1>3, <2>6 DEF longer
<1> QED
  BY <1>2, <1>3

LEMMA ResultsNumbered ==
  ASSUME NEW found \in Seq(Pages)
  PROVE  Numbering(Results(found), found, Len(found))
<1>1. PICK kept : KeptBy(kept, found) /\ Results(found) = kept[Len(found)]
  BY ResultsBuilt
<1> DEFINE S == {n \in Nat : n <= Len(found) => Numbering(kept[n], found, n)}
<1>2. Len(found) \in Nat
  OBVIOUS
<1>3. 0 \in S
  <2>1. kept[0] = <<>>
    BY <1>1, <1>2 DEF KeptBy
  <2>2. kept[0] \in Seq(Pages) /\ Len(kept[0]) = 0
    BY <2>1
  <2>3. Numbering(kept[0], found, 0)
    BY <2>2, NumberedInTurn DEF Numbering
  <2> QED
    BY <2>3
<1>4. ASSUME NEW n \in Nat, n \in S PROVE n + 1 \in S
  <2> SUFFICES ASSUME n + 1 <= Len(found) PROVE Numbering(kept[n + 1], found, n + 1)
    OBVIOUS
  <2>1. n + 1 \in 1..Len(found) /\ (n + 1) - 1 = n /\ n + 1 \in 0..Len(found) /\ n + 1 # 0
    BY <1>2
  <2>2. kept[n + 1] = IF found[n + 1].blank THEN kept[n] ELSE Append(kept[n], found[n + 1])
    BY <1>1, <2>1 DEF KeptBy
  <2>3. Numbering(kept[n], found, (n + 1) - 1)
    BY <1>2, <1>4, <2>1
  <2> QED
    BY <2>1, <2>2, <2>3, NumberingExtended
<1>5. Nat \subseteq S
  <2> HIDE DEF S
  <2> QED
    BY <1>3, <1>4, SetInduction
<1> QED
  BY <1>1, <1>2, <1>5

------------------------------------------------------------------------------
CitedBy(cited, results, indices) ==
  cited = [n \in 0..Len(indices) |->
             IF n = 0 THEN <<>>
             ELSE IF \E m \in 1..n - 1 : indices[m] = indices[n] THEN cited[n - 1]
             ELSE cited[n - 1] \o Resolve(results, indices[n])]

LEMMA ResolvedTypes ==
  ASSUME NEW results \in Seq(Pages), NEW i
  PROVE  Resolve(results, i) \in Seq(Pages)
BY DEF Resolve

(* The recursion of Citations is well defined.                               *)
LEMMA CitationsBuilt ==
  ASSUME NEW results \in Seq(Pages), NEW indices \in Seq(Int)
  PROVE  \E cited : CitedBy(cited, results, indices) /\ Citations(results, indices) = cited[Len(indices)]
<1> DEFINE T == Seq(Pages)
           met(n) == \E m \in 1..n - 1 : indices[m] = indices[n]
           step == [x \in (1..Len(indices)) \X T |->
                      IF met(x[1]) THEN x[2] ELSE x[2] \o Resolve(results, indices[x[1]])]
           none == <<>>
<1>1. none \in T /\ Len(indices) \in Nat
  OBVIOUS
<1>2. step \in [(1..Len(indices)) \X T -> T]
  <2>1. ASSUME NEW x \in (1..Len(indices)) \X T
        PROVE  (IF met(x[1]) THEN x[2] ELSE x[2] \o Resolve(results, indices[x[1]])) \in T
    <3>1. x[2] \in T /\ Resolve(results, indices[x[1]]) \in T
      BY ResolvedTypes
    <3>2. x[2] \o Resolve(results, indices[x[1]]) \in T
      BY <3>1
    <3> QED
      BY <3>1, <3>2
  <2> QED
    BY <2>1
<1>3. PICK f \in [0..Len(indices) -> T] : Stepwise(f, none, Len(indices), step)
  <2> HIDE DEF T, step, none
  <2> QED
    BY <1>1, <1>2, BuiltStepwise
<1>4. ASSUME NEW n \in 0..Len(indices)
      PROVE  f[n] = IF n = 0 THEN <<>>
                    ELSE IF \E m \in 1..n - 1 : indices[m] = indices[n] THEN f[n - 1]
                    ELSE f[n - 1] \o Resolve(results, indices[n])
  <2>1. CASE n = 0
    BY <1>3, <2>1 DEF Stepwise
  <2>2. CASE n # 0
    <3>1. n \in 1..Len(indices) /\ n - 1 \in 0..Len(indices)
      BY <2>2
    <3>2. <<n, f[n - 1]>> \in (1..Len(indices)) \X T
      BY <3>1
    <3>3. f[n] = step[<<n, f[n - 1]>>]
      BY <1>3, <3>1 DEF Stepwise
    <3>4. step[<<n, f[n - 1]>>] = IF met(n) THEN f[n - 1] ELSE f[n - 1] \o Resolve(results, indices[n])
      BY <3>2
    <3> QED
      BY <2>2, <3>3, <3>4
  <2> QED
    BY <2>1, <2>2
<1>5. CitedBy(f, results, indices)
  BY <1>4 DEF CitedBy
<1>6. CitedBy(CHOOSE cited : CitedBy(cited, results, indices), results, indices)
  BY <1>5
<1>7. Citations(results, indices) = (CHOOSE cited : CitedBy(cited, results, indices))[Len(indices)]
  BY DEF Citations, CitedBy
<1> QED
  BY <1>6, <1>7

(* The numbers of results among the first n of an answer.                    *)
Named(results, indices, n) == {indices[k] : k \in 1..n} \cap (1..Len(results))

(* The citations are the results named, each once.                           *)
CitesEach(cited, results, indices, n) ==
  /\ cited \in Seq(Pages)
  /\ Range(cited) = {results[i] : i \in Named(results, indices, n)}
  /\ Len(cited) = Cardinality(Named(results, indices, n))

LEMMA NamedFinite ==
  ASSUME NEW results \in Seq(Pages), NEW indices, NEW n
  PROVE  /\ IsFiniteSet(Named(results, indices, n))
         /\ Cardinality(Named(results, indices, n)) \in Nat
<1>1. Len(results) \in Nat /\ IsFiniteSet(1..Len(results))
  BY FS_Interval
<1>2. Named(results, indices, n) \subseteq 1..Len(results)
  BY DEF Named
<1> QED
  BY <1>1, <1>2, FS_Subset, FS_CardinalityType

LEMMA RangeExtended ==
  ASSUME NEW s \in Seq(Pages), NEW e \in Pages
  PROVE  s \o <<e>> \in Seq(Pages) /\ Len(s \o <<e>>) = Len(s) + 1 /\ Range(s \o <<e>>) = Range(s) \cup {e}
<1> DEFINE t == s \o <<e>>
<1>1. t \in Seq(Pages) /\ Len(t) = Len(s) + 1 /\ t[Len(s) + 1] = e /\ \A i \in 1..Len(s) : t[i] = s[i]
  OBVIOUS
<1>2. DOMAIN t = 1..Len(s) + 1 /\ DOMAIN s = 1..Len(s) /\ Len(s) \in Nat
  BY <1>1
<1> HIDE DEF t
<1>3. Range(t) = Range(s) \cup {e}
  BY <1>1, <1>2 DEF Range
<1> QED
  BY <1>1, <1>3 DEF t

LEMMA CitesEachExtended ==
  ASSUME NEW results \in Seq(Pages), NEW indices \in Seq(Int), NEW n \in 1..Len(indices), NEW cited,
         CitesEach(cited, results, indices, n - 1)
  PROVE  CitesEach(IF \E m \in 1..n - 1 : indices[m] = indices[n] THEN cited
                   ELSE cited \o Resolve(results, indices[n]), results, indices, n)
<1> DEFINE old == Named(results, indices, n - 1)
           new == Named(results, indices, n)
           i == indices[n]
<1>1. new = IF i \in 1..Len(results) THEN old \cup {i} ELSE old
  <2>1. {indices[k] : k \in 1..n} = {indices[k] : k \in 1..n - 1} \cup {i}
    <3>1. 1..n = (1..n - 1) \cup {n}
      OBVIOUS
    <3> QED
      BY <3>1
  <2> QED
    BY <2>1 DEF Named
<1>2. CASE \E m \in 1..n - 1 : indices[m] = indices[n]
  <2>1. new = old
    BY <1>1, <1>2 DEF Named
  <2> QED
    BY <1>2, <2>1 DEF CitesEach
<1>3. CASE ~(\E m \in 1..n - 1 : indices[m] = indices[n]) /\ i \notin 1..Len(results)
  <2>1. new = old
    BY <1>1, <1>3
  <2>2. cited \o Resolve(results, i) = cited
    BY <1>3 DEF Resolve, CitesEach
  <2> QED
    BY <1>3, <2>1, <2>2 DEF CitesEach
<1>4. CASE ~(\E m \in 1..n - 1 : indices[m] = indices[n]) /\ i \in 1..Len(results)
  <2>1. new = old \cup {i} /\ i \notin old
    BY <1>1, <1>4 DEF Named
  <2>2. Cardinality(new) = Cardinality(old) + 1
    BY <2>1, NamedFinite, FS_AddElement
  <2>3. Resolve(results, i) = <<results[i]>> /\ results[i] \in Pages /\ cited \in Seq(Pages)
    BY <1>4 DEF Resolve, CitesEach
  <2> DEFINE longer == cited \o <<results[i]>>
  <2>4. longer \in Seq(Pages) /\ Len(longer) = Len(cited) + 1 /\ Range(longer) = Range(cited) \cup {results[i]}
    BY <2>3, RangeExtended
  <2> HIDE DEF longer
  <2>5. {results[j] : j \in new} = {results[j] : j \in old} \cup {results[i]}
    BY <2>1
  <2>6. CitesEach(longer, results, indices, n)
    BY <2>2, <2>4, <2>5 DEF CitesEach
  <2> QED
    BY <1>4, <2>3, <2>6 DEF longer
<1> QED
  BY <1>2, <1>3, <1>4

(* For any results and any answer.                                           *)
LEMMA CitationsCiteEach ==
  ASSUME NEW results \in Seq(Pages), NEW indices \in Seq(Int)
  PROVE  CitesEach(Citations(results, indices), results, indices, Len(indices))
<1>1. PICK cited : CitedBy(cited, results, indices) /\ Citations(results, indices) = cited[Len(indices)]
  BY CitationsBuilt
<1> DEFINE S == {n \in Nat : n <= Len(indices) => CitesEach(cited[n], results, indices, n)}
<1>2. Len(indices) \in Nat
  OBVIOUS
<1>3. 0 \in S
  <2>1. cited[0] = <<>>
    BY <1>1, <1>2 DEF CitedBy
  <2>2. cited[0] \in Seq(Pages) /\ Len(cited[0]) = 0 /\ Range(cited[0]) = {}
    BY <2>1 DEF Range
  <2>3. Named(results, indices, 0) = {}
    BY DEF Named
  <2>4. CitesEach(cited[0], results, indices, 0)
    BY <2>2, <2>3, FS_EmptySet DEF CitesEach
  <2> QED
    BY <2>4
<1>4. ASSUME NEW n \in Nat, n \in S PROVE n + 1 \in S
  <2> SUFFICES ASSUME n + 1 <= Len(indices) PROVE CitesEach(cited[n + 1], results, indices, n + 1)
    OBVIOUS
  <2>1. n + 1 \in 1..Len(indices) /\ (n + 1) - 1 = n /\ n + 1 \in 0..Len(indices) /\ n + 1 # 0
    BY <1>2
  <2>2. cited[n + 1] = IF \E m \in 1..(n + 1) - 1 : indices[m] = indices[n + 1] THEN cited[n]
                       ELSE cited[n] \o Resolve(results, indices[n + 1])
    BY <1>1, <2>1 DEF CitedBy
  <2>3. CitesEach(cited[n], results, indices, (n + 1) - 1)
    BY <1>2, <1>4, <2>1
  <2> QED
    BY <2>1, <2>2, <2>3, CitesEachExtended
<1>5. Nat \subseteq S
  <2> HIDE DEF S
  <2> QED
    BY <1>3, <1>4, SetInduction
<1> QED
  BY <1>1, <1>2, <1>5

LEMMA CitationsAreMeant ==
  ASSUME NEW found \in Seq(Pages), NEW indices \in Seq(Int)
  PROVE  Range(Citations(Results(found), indices)) = Meant(found, indices)
<1> DEFINE shown == Results(found)
<1>1. Numbering(shown, found, Len(found)) /\ shown \in Seq(Pages)
  BY ResultsNumbered DEF Numbering
<1> HIDE DEF shown
<1>2. Range(Citations(shown, indices)) = {shown[i] : i \in Named(shown, indices, Len(indices))}
  BY <1>1, CitationsCiteEach DEF CitesEach
<1>3. Named(shown, indices, Len(indices)) = Range(indices) \cap (1..Len(shown))
  <2>1. Range(indices) = {indices[k] : k \in 1..Len(indices)}
    BY DEF Range
  <2> QED
    BY <2>1 DEF Named
<1>4. DOMAIN found = 1..Len(found)
  OBVIOUS
<1>5. {shown[i] : i \in Range(indices) \cap (1..Len(shown))} \subseteq Meant(found, indices)
  BY <1>1, <1>4 DEF Numbering, Meant
<1>6. Meant(found, indices) \subseteq {shown[i] : i \in Range(indices) \cap (1..Len(shown))}
  BY <1>1, <1>4 DEF Numbering, Meant
<1> QED
  BY <1>2, <1>3, <1>5, <1>6 DEF shown

------------------------------------------------------------------------------
(* What hosts are made of; the provers do not take "." for a string.         *)
Labels == STRING \cup {"."}

LEMMA HostsLabelled ==
  /\ \A d \in TrustedDomains : d \in Seq(Labels) /\ d # <<>>
  /\ \A x \in TrustedSuffixes : x \in Seq(Labels) /\ Len(x) > 1 /\ x[1] = "."
  /\ \A p \in Pages : p.host \in Seq(Labels)
<1>1. \A s \in Seq(STRING) : s \in Seq(Labels)
  BY SeqMonotonic DEF Labels
<1> QED
  BY <1>1, HostsAssumption

LEMMA SuffixEnds ==
  ASSUME NEW part \in Seq(Labels), NEW host \in Seq(Labels), IsSuffix(part, host)
  PROVE  /\ Len(part) <= Len(host)
         /\ \A i \in 1..Len(part) : host[Len(host) - Len(part) + i] = part[i]
<1> DEFINE p == Reverse(part)
           h == Reverse(host)
<1>1. /\ Len(part) \in Nat /\ Len(host) \in Nat
      /\ p \in Seq(Labels) /\ Len(p) = Len(part) /\ \A i \in 1..Len(part) : p[i] = part[Len(part) - i + 1]
      /\ h \in Seq(Labels) /\ Len(h) = Len(host) /\ \A i \in 1..Len(host) : h[i] = host[Len(host) - i + 1]
  BY DEF Reverse
<1>2. Len(p) <= Len(h) /\ SubSeq(p, 1, Len(p)) = SubSeq(h, 1, Len(p))
  BY DEF IsSuffix, IsPrefix
<1> HIDE DEF p, h
<1>3. \A j \in 1..Len(p) : p[j] = h[j]
  <2> TAKE j \in 1..Len(p)
  <2>1. SubSeq(p, 1, Len(p))[j] = p[j] /\ SubSeq(h, 1, Len(p))[j] = h[j]
    BY <1>1, <1>2
  <2> QED
    BY <1>2, <2>1
<1>4. ASSUME NEW i \in 1..Len(part)
      PROVE  host[Len(host) - Len(part) + i] = part[i]
  <2> DEFINE j == Len(part) - i + 1
  <2>1. j \in 1..Len(part) /\ j \in 1..Len(host) /\ Len(part) - j + 1 = i
        /\ Len(host) - j + 1 = Len(host) - Len(part) + i
    BY <1>1, <1>2
  <2> QED
    BY <1>1, <1>3, <2>1
<1> QED
  BY <1>1, <1>2, <1>4

(* A host that ends with a dot and a domain lies in the domain.              *)
LEMMA DottedLiesIn ==
  ASSUME NEW part \in Seq(Labels), NEW host \in Seq(Labels), IsSuffix(part, host),
         Len(part) > 1, part[1] = "."
  PROVE  LiesIn(host, Tail(part))
<1> DEFINE i == Len(host) - Len(part) + 2
<1>1. /\ Len(part) \in Nat /\ Len(host) \in Nat /\ Len(part) <= Len(host)
      /\ \A k \in 1..Len(part) : host[Len(host) - Len(part) + k] = part[k]
  BY SuffixEnds
<1>2. i \in 1..Len(host) /\ i - 1 = Len(host) - Len(part) + 1 /\ 1 \in 1..Len(part)
  BY <1>1
<1>3. host[i - 1] = "."
  BY <1>1, <1>2
<1>4. SubSeq(host, i, Len(host)) = Tail(part)
  <2>1. /\ SubSeq(host, i, Len(host)) \in Seq(Labels)
        /\ Len(SubSeq(host, i, Len(host))) = Len(part) - 1
        /\ \A k \in 1..Len(part) - 1 : SubSeq(host, i, Len(host))[k] = host[i + k - 1]
    BY <1>1, <1>2
  <2>2. Tail(part) \in Seq(Labels) /\ Len(Tail(part)) = Len(part) - 1
        /\ \A k \in 1..Len(part) - 1 : Tail(part)[k] = part[k + 1]
    BY <1>1
  <2>3. \A k \in 1..Len(part) - 1 : host[i + k - 1] = part[k + 1]
    <3> TAKE k \in 1..Len(part) - 1
    <3>1. k + 1 \in 1..Len(part) /\ i + k - 1 = Len(host) - Len(part) + (k + 1)
      BY <1>1
    <3> QED
      BY <1>1, <3>1
  <2>4. \A k \in 1..Len(part) - 1 : SubSeq(host, i, Len(host))[k] = Tail(part)[k]
    BY <2>1, <2>2, <2>3
  <2> QED
    BY <2>1, <2>2, <2>4, SeqEqual
<1> QED
  BY <1>2, <1>3, <1>4 DEF LiesIn

(* What a host without www. lies in, the host lies in.                       *)
LEMMA WwwLiesIn ==
  ASSUME NEW host \in Seq(Labels), NEW domain
  PROVE  /\ WithoutWww(host) \in Seq(Labels)
         /\ LiesIn(WithoutWww(host), domain) => LiesIn(host, domain)
<1>1. CASE ~IsPrefix(Www, host)
  BY <1>1 DEF WithoutWww
<1>2. CASE IsPrefix(Www, host)
  <2> DEFINE bare == SubSeq(host, 3, Len(host))
  <2>1. Len(Www) = 2 /\ Www[2] = "."
    BY DEF Www
  <2>2. Len(host) \in Nat /\ Len(host) >= 2 /\ host[2] = "."
    <3>1. Len(host) \in Nat /\ Len(host) >= 2 /\ SubSeq(Www, 1, 2) = SubSeq(host, 1, 2)
      BY <1>2, <2>1 DEF IsPrefix
    <3>2. SubSeq(host, 1, 2)[2] = host[2]
      BY <3>1
    <3>3. SubSeq(Www, 1, 2)[2] = "."
      BY DEF Www
    <3> QED
      BY <3>1, <3>2, <3>3
  <2>3. WithoutWww(host) = bare
    BY <1>2 DEF WithoutWww
  <2>4. bare \in Seq(Labels) /\ Len(bare) = Len(host) - 2
        /\ \A k \in 1..Len(host) - 2 : bare[k] = host[k + 2]
    <3>1. \A k \in 3..Len(host) : host[k] \in Labels
      BY <2>2
    <3>2. /\ bare \in Seq(Labels) /\ Len(bare) = IF 3 <= Len(host) THEN Len(host) - 3 + 1 ELSE 0
          /\ \A k \in 1..Len(host) - 3 + 1 : bare[k] = host[3 + k - 1]
      BY <2>2, <3>1, SubSeqProperties
    <3> HIDE DEF bare
    <3>3. Len(bare) = Len(host) - 2
      <4>1. CASE Len(host) = 2
        BY <3>2, <4>1
      <4>2. CASE Len(host) >= 3
        BY <2>2, <3>2, <4>2
      <4>3. Len(host) \in Nat /\ Len(host) >= 2
        BY <2>2
      <4>4. \A n \in Nat : n >= 2 => n = 2 \/ n >= 3
        OBVIOUS
      <4>5. Len(host) = 2 \/ Len(host) >= 3
        BY <4>3, <4>4
      <4> QED
        BY <4>1, <4>2, <4>5
    <3>4. \A k \in 1..Len(host) - 2 : bare[k] = host[k + 2]
      BY <2>2, <3>2
    <3> QED
      BY <3>2, <3>3, <3>4
  <2> HIDE DEF bare
  <2>5. ASSUME LiesIn(bare, domain) PROVE LiesIn(host, domain)
    <3>1. PICK i \in 1..Len(bare) : SubSeq(bare, i, Len(bare)) = domain /\ (i = 1 \/ bare[i - 1] = ".")
      BY <2>5 DEF LiesIn
    <3>2. i + 2 \in 1..Len(host)
      BY <2>2, <2>4
    <3>3. SubSeq(host, i + 2, Len(host)) = SubSeq(bare, i, Len(bare))
      <4>1. /\ SubSeq(host, i + 2, Len(host)) \in Seq(Labels)
            /\ Len(SubSeq(host, i + 2, Len(host))) = Len(host) - i - 1
            /\ \A k \in 1..Len(host) - i - 1 : SubSeq(host, i + 2, Len(host))[k] = host[i + 1 + k]
        BY <2>2, <3>2
      <4>2. /\ SubSeq(bare, i, Len(bare)) \in Seq(Labels)
            /\ Len(SubSeq(bare, i, Len(bare))) = Len(host) - i - 1
            /\ \A k \in 1..Len(host) - i - 1 : SubSeq(bare, i, Len(bare))[k] = bare[i + k - 1]
        BY <2>2, <2>4
      <4>3. \A k \in 1..Len(host) - i - 1 : bare[i + k - 1] = host[i + 1 + k]
        BY <2>2, <2>4
      <4> QED
        BY <4>1, <4>2, <4>3, SeqEqual
    <3>4. host[(i + 2) - 1] = "."
      <4>1. CASE i = 1
        BY <2>2, <4>1
      <4>2. CASE i # 1
        <5>1. i - 1 \in 1..Len(host) - 2 /\ (i - 1) + 2 = (i + 2) - 1
          BY <2>2, <2>4, <4>2
        <5> QED
          BY <2>4, <3>1, <4>2, <5>1
      <4> QED
        BY <4>1, <4>2
    <3> QED
      BY <3>1, <3>2, <3>3, <3>4 DEF LiesIn
  <2> QED
    BY <2>3, <2>4, <2>5
<1> QED
  BY <1>1, <1>2

(* The allowlist admits only hosts in a listed domain or suffix.             *)
LEMMA TrustedLiesIn ==
  ASSUME NEW host \in Seq(Labels), host # <<>>, IsTrustedDomain(host)
  PROVE  \/ \E d \in TrustedDomains : LiesIn(host, d)
         \/ \E x \in TrustedSuffixes : LiesIn(host, Tail(x))
<1> DEFINE h == WithoutWww(host)
<1>1. h \in Seq(Labels) /\ \A d : LiesIn(h, d) => LiesIn(host, d)
  BY WwwLiesIn
<1>2. \/ \E d \in TrustedDomains : h = d \/ IsSuffix(<<".">> \o d, h)
      \/ \E x \in TrustedSuffixes : IsSuffix(x, h)
  BY DEF IsTrustedDomain
<1> HIDE DEF h
<1>3. ASSUME NEW d \in TrustedDomains, h = d PROVE LiesIn(h, d)
  <2>1. Len(h) \in Nat /\ Len(h) >= 1
    BY <1>1, <1>3, HostsLabelled
  <2>2. SubSeq(h, 1, Len(h)) = h
    BY <1>1, SubSeqFull
  <2> QED
    BY <1>3, <2>1, <2>2 DEF LiesIn
<1>4. ASSUME NEW d \in TrustedDomains, IsSuffix(<<".">> \o d, h) PROVE LiesIn(h, d)
  <2> DEFINE part == <<".">> \o d
  <2>1. d \in Seq(Labels) /\ Len(d) \in Nat /\ Len(d) >= 1
    BY HostsLabelled
  <2>2. <<".">> \in Seq(Labels)
    <3>1. "." \in Labels
      BY DEF Labels
    <3> QED
      BY <3>1
  <2>3. part \in Seq(Labels) /\ Len(part) = Len(d) + 1 /\ part[1] = "."
        /\ \A k \in 1..Len(d) : part[k + 1] = d[k]
    BY <2>1, <2>2
  <2>4. IsSuffix(part, h)
    BY <1>4
  <2> HIDE DEF part
  <2>5. LiesIn(h, Tail(part))
    BY <1>1, <2>1, <2>3, <2>4, DottedLiesIn
  <2>6. Tail(part) = d
    <3>1. Tail(part) \in Seq(Labels) /\ Len(Tail(part)) = Len(d)
          /\ \A k \in 1..Len(d) : Tail(part)[k] = part[k + 1]
      BY <2>1, <2>3
    <3> QED
      BY <2>1, <2>3, <3>1, SeqEqual
  <2> QED
    BY <2>5, <2>6
<1>5. ASSUME NEW x \in TrustedSuffixes, IsSuffix(x, h) PROVE LiesIn(h, Tail(x))
  BY <1>1, <1>5, HostsLabelled, DottedLiesIn
<1> QED
  BY <1>1, <1>2, <1>3, <1>4, <1>5

LEMMA CitableLies ==
  ASSUME NEW p \in Citable
  PROVE  /\ p \in Pages /\ p.scheme \in {"http", "https"}
         /\ \/ \E d \in TrustedDomains : LiesIn(p.host, d)
            \/ \E x \in TrustedSuffixes : LiesIn(p.host, Tail(x))
<1>1. p \in Pages /\ p.host \in Seq(Labels) /\ IsCitable(p)
  BY HostsLabelled DEF Citable
<1>2. p.scheme \in {"http", "https"} /\ SourceDomain(p) = WithoutWww(p.host) /\ SourceDomain(p) # <<>>
  BY <1>1 DEF IsCitable, SourceDomain
<1>3. SourceDomain(p) \in Seq(Labels) /\ \A d : LiesIn(SourceDomain(p), d) => LiesIn(p.host, d)
  BY <1>1, <1>2, WwwLiesIn
<1>4. IsTrustedDomain(SourceDomain(p))
  BY <1>1 DEF IsCitable
<1>5. \/ \E d \in TrustedDomains : LiesIn(SourceDomain(p), d)
      \/ \E x \in TrustedSuffixes : LiesIn(SourceDomain(p), Tail(x))
  BY <1>2, <1>3, <1>4, TrustedLiesIn
<1> QED
  BY <1>1, <1>2, <1>3, <1>5

------------------------------------------------------------------------------
LEMMA JudgementsAreMeant ==
  ASSUME NEW j \in Judgements
  PROVE  j.sources = Meant(j.found, j.indices) /\ j.found \in Seq(Pages)
<1>1. PICK v \in Verdicts, f \in Searches, i \in Indices :
        j = [verdict |-> v, found |-> f, indices |-> i, sources |-> Range(Citations(Results(f), i))]
  BY DEF Judgements
<1>2. f \in Seq(Pages) /\ i \in Seq(Int)
  BY SearchesAssumption
<1>3. j.found = f /\ j.indices = i /\ j.sources = Range(Citations(Results(f), i))
  BY <1>1
<1> QED
  BY <1>2, <1>3, CitationsAreMeant

(* What the filter leaves of an answer can be checked.                       *)
LEMMA FilterLeavesCheckable ==
  ASSUME NEW answer \in Answers \cup {Nothing}
  PROVE  Filtered(answer).sources \subseteq Checkable
<1>1. Filtered(answer).sources = answer.sources \cap Citable
  BY JudgedAssumption DEF Filtered
<1>2. ASSUME NEW p \in answer.sources, p \in Citable
      PROVE  p \in Checkable
  <2>1. answer \in Judgements
    BY <1>2, JudgedAssumption DEF Nothing
  <2>2. p \in Meant(answer.found, answer.indices) /\ answer.found \in Seq(Pages)
    BY <1>2, <2>1, JudgementsAreMeant
  <2>3. ~p.blank
    BY <2>2 DEF Meant
  <2> QED
    BY <1>2, <2>3, CitableLies DEF Checkable
<1> QED
  BY <1>1, <1>2

\* The rows to come can be checked as well.
RowsCanBeChecked == \A s \in Sessions : row[s] # None => row[s].sources \subseteq Checkable

CheckedInv == CitationsCanBeChecked /\ RowsCanBeChecked

LEMMA InsertChecked ==
  ASSUME TypeOK, CheckedInv, NEW s \in Sessions, Insert(s)
  PROVE  CheckedInv'
<1>1. result[s] \in Answers \cup {Nothing}
  BY DEF TypeOK, Insert
<1>2. row'[s].sources = Filtered(result[s]).sources
  BY DEF TypeOK, Insert
<1>3. \A t \in Sessions \ {s} : row'[t] = row[t]
  BY DEF TypeOK, Insert
<1>4. RowsCanBeChecked'
  BY <1>1, <1>2, <1>3, FilterLeavesCheckable DEF RowsCanBeChecked, CheckedInv
<1>5. CitationsCanBeChecked'
  BY DEF Insert, CitationsCanBeChecked, CheckedInv
<1> QED
  BY <1>4, <1>5 DEF CheckedInv

LEMMA CommitChecked ==
  ASSUME TypeOK, CheckedInv, NEW s \in Sessions, Commit(s)
  PROVE  CheckedInv'
<1>1. row[s] \in Records /\ row[s].sources \subseteq Checkable
  BY NoneAssumption DEF TypeOK, Commit, CheckedInv, RowsCanBeChecked
<1>2. records \in Seq(Records) /\ records' = Append(records, row[s])
  BY DEF TypeOK, Commit
<1>3. \A i \in DOMAIN records' : records'[i] = row[s] \/ (i \in DOMAIN records /\ records'[i] = records[i])
  BY <1>1, <1>2
<1>4. CitationsCanBeChecked'
  BY <1>1, <1>3 DEF CitationsCanBeChecked, CheckedInv
<1>5. RowsCanBeChecked'
  BY DEF Commit, End, TypeOK, RowsCanBeChecked, CheckedInv
<1> QED
  BY <1>4, <1>5 DEF CheckedInv

LEMMA CheckedInductive == TypeOK /\ CheckedInv /\ [Next]_vars => CheckedInv'
<1> SUFFICES ASSUME TypeOK, CheckedInv, [Next]_vars PROVE CheckedInv'
  OBVIOUS
<1> USE DEF CheckedInv, CitationsCanBeChecked, RowsCanBeChecked
<1>1. ASSUME NEW s \in Sessions, End(s), UNCHANGED records PROVE CheckedInv'
  BY <1>1 DEF End, TypeOK
<1>2. ASSUME NEW s \in Sessions, NEW r \in Rooms, Begin(s, r) PROVE CheckedInv'
  BY <1>2 DEF Begin
<1>3. ASSUME NEW s \in Sessions, ReadRoom(s) \/ CountDay(s) \/ CountRoom(s) PROVE CheckedInv'
  BY <1>1, <1>3 DEF ReadRoom, CountDay, CountRoom, Step
<1>4. ASSUME NEW s \in Sessions, SearchFindsNothing(s) \/ ModelAnswers(s) PROVE CheckedInv'
  BY <1>4 DEF SearchFindsNothing, ModelAnswers, Answer
<1>5. ASSUME NEW s \in Sessions, CallModel(s) PROVE CheckedInv'
  BY <1>5 DEF CallModel
<1>6. ASSUME NEW s \in Sessions, Unavailable(s) \/ Rollback(s) PROVE CheckedInv'
  BY <1>1, <1>6 DEF Unavailable, Rollback
<1>7. ASSUME NEW s \in Sessions, Insert(s) PROVE CheckedInv'
  BY <1>7, InsertChecked
<1>8. ASSUME NEW s \in Sessions, Commit(s) PROVE CheckedInv'
  BY <1>8, CommitChecked
<1>9. CASE Tick \/ (\E r \in Rooms : EndRoom(r)) \/ UNCHANGED vars
  BY <1>9 DEF Tick, EndRoom, vars
<1> QED
  BY <1>2, <1>3, <1>4, <1>5, <1>6, <1>7, <1>8, <1>9 DEF Next

(* From the search through _to_provider_result and _apply_trust_filter to    *)
(* the table: whatever searches find and the model cites, a recorded source  *)
(* is a page with text that a debater can open, in a listed domain, one      *)
(* below it or a listed suffix, and not merely spelled like one.             *)
THEOREM AlwaysCheckable == Spec => []CitationsCanBeChecked
<1>1. Init => CheckedInv
  BY DEF Init, CheckedInv, CitationsCanBeChecked, RowsCanBeChecked
<1>2. Inductive => TypeOK
  BY DEF Inductive
<1>3. CheckedInv => CitationsCanBeChecked
  BY DEF CheckedInv
<1> QED
  BY <1>1, <1>2, <1>3, CheckedInductive, AlwaysInductive, PTL DEF Spec

(* _build_prompt numbers what _to_results keeps, _to_provider_result reads   *)
(* the numbers: for a search of any length and any numbers the model         *)
(* returns, repeated or out of range, the sources are what it meant.         *)
THEOREM AlwaysTheModels == Spec => []CitationsAreTheModels
<1>1. CitationsAreTheModels
  BY JudgementsAreMeant DEF CitationsAreTheModels
<1> QED
  BY <1>1, PTL

(* _to_provider_result cites each result once, however often the model       *)
(* names it: as many citations as there are results named.                   *)
THEOREM CitedOnce ==
  ASSUME NEW results \in Seq(Pages), NEW indices \in Seq(Int)
  PROVE  Len(Citations(results, indices)) = Cardinality(Range(indices) \cap (1..Len(results)))
<1>1. Range(indices) = {indices[k] : k \in 1..Len(indices)}
  BY DEF Range
<1> QED
  BY <1>1, CitationsCiteEach DEF CitesEach, Named

(* Requests that do not overlap keep the room's limit: the check and the     *)
(* insert being apart is all that breaks it.                                 *)
THEOREM NoOverlapNoOvershoot ==
  ASSUME Cardinality(Sessions) = 1
  PROVE  Spec => []RoomLimitHolds
<1>1. TypeOK /\ OvershootBounded => RoomLimitHolds
  <2> SUFFICES ASSUME TypeOK, OvershootBounded, NEW from \in 0..MaxClock, NEW r \in Rooms
               PROVE  InWindow(from, Hour, {r}) <= RoomLimit
    BY DEF RoomLimitHolds
  <2> DEFINE U == {s \in Sessions : row[s] # None /\ row[s].room \in {r}
                                    /\ Within(from, Hour, row[s].created)}
             R == Rows(from, Hour, {r})
  <2>1. InWindow(from, Hour, {r}) < RoomLimit + 1
    BY DEF OvershootBounded
  <2>2. Cardinality(U) \in Nat
    BY SomeSessions
  <2>3. Cardinality(R) \in Nat
    BY RowsFinite DEF Rows
  <2>4. InWindow(from, Hour, {r}) = Cardinality(R) + Cardinality(U)
    BY DEF InWindow, Rows
  <2> HIDE DEF R, U
  <2> QED
    BY <2>1, <2>2, <2>3, <2>4, LimitsAssumption
<1>2. Inductive => TypeOK
  BY DEF Inductive
<1> QED
  BY <1>1, <1>2, AlwaysBounded, AlwaysInductive, PTL
==============================================================================
