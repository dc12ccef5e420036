------------------------- MODULE MatchmakingPromises -------------------------
(* What a step of Matchmaking may never do, for every number of people,      *)
(* sessions and rows: proved from the inductive invariant of                 *)
(* MatchmakingProofs.                                                        *)
EXTENDS MatchmakingProofs, Sequences, FiniteSetTheorems

\* The steps of a session, its requests' arrivals included.
StepOf(s) ==
  \/ BeginJoin(s) \/ BeginPoll(s) \/ BeginLeave(s) \/ BeginEnd(s)
  \/ Serve(s) \/ Rollback(s) \/ DeadlockVictim(s)

(* One session's step leaves the others' transactions as they are.           *)
Unmoved(o) ==
  UNCHANGED <<pc[o], req[o], dead[o], touched[o], held[o], claim[o]>>

LEMMA OthersUnmoved ==
  ASSUME TypeOK, NEW s \in Sessions, StepOf(s), NEW o \in Sessions \ {s}
  PROVE  Unmoved(o)
<1> USE DEF TypeOK, Unmoved, Goto, locks
<1>1. CASE Finish(s)
  BY <1>1 DEF Finish
<1>2. ASSUME NEW request, Begin(s, request) PROVE Unmoved(o)
  BY <1>2 DEF Begin
<1>3. ASSUME NEW label, NEW rows, Scan(s, label, rows) PROVE Unmoved(o)
  BY <1>3 DEF Scan
<1>4. ASSUME NEW t \in Tickets, NEW rows, DeleteRow(s, t, rows) PROVE Unmoved(o)
  BY <1>4 DEF DeleteRow, Visit
<1>5. ASSUME NEW t \in Tickets, TouchRow(s, t) PROVE Unmoved(o)
  BY <1>5 DEF TouchRow, Visit
<1>6. CASE \/ FindOpenRoom(s) \/ CloseRoom(s) \/ NobodyToClaim(s) \/ Enqueue(s)
           \/ FindNoRoom(s) \/ ReadOpenRoom(s)
  BY <1>6 DEF FindOpenRoom, CloseRoom, NobodyToClaim, Enqueue, FindNoRoom, ReadOpenRoom
<1>7. CASE Claim(s)
  BY <1>7 DEF Claim
<1>8. CASE CommitPoll(s)
  BY <1>8 DEF CommitPoll
<1>9. CASE BeginJoin(s) \/ BeginPoll(s) \/ BeginLeave(s) \/ BeginEnd(s)
  BY <1>2, <1>9 DEF BeginJoin, BeginPoll, BeginLeave, BeginEnd
<1>10. CASE \E t \in Tickets : SweepRow(s, t) \/ UnpairRow(s, t) \/ DequeueRow(s, t)
  BY <1>4, <1>10 DEF SweepRow, UnpairRow, DequeueRow
<1>11. CASE SweepScan(s) \/ UnpairScan(s) \/ DequeueScan(s) \/ TouchScan(s)
  BY <1>3, <1>11 DEF SweepScan, UnpairScan, DequeueScan, TouchScan
<1>12. CASE \/ RefuseArchived(s) \/ CommitPaired(s) \/ EnqueueConflict(s) \/ CommitQueued(s)
            \/ AnswerMatched(s) \/ AnswerQueued(s) \/ AnswerIdle(s) \/ CommitLeave(s)
            \/ AnswerEnd(s) \/ CommitEnd(s) \/ Rollback(s) \/ DeadlockVictim(s)
  BY <1>1, <1>12 DEF RefuseArchived, CommitPaired, EnqueueConflict, CommitQueued, AnswerMatched,
     AnswerQueued, AnswerIdle, CommitLeave, AnswerEnd, CommitEnd, Rollback, DeadlockVictim, Answer
<1> QED
  BY <1>5, <1>6, <1>7, <1>8, <1>9, <1>10, <1>11, <1>12 DEF StepOf, Serve

(* The steps that write to the tables are the commits.                       *)
Commits(s) ==
  CommitPaired(s) \/ CommitQueued(s) \/ CommitLeave(s) \/ CommitEnd(s) \/ CommitPoll(s)

LEMMA OnlyCommitsWrite ==
  ASSUME NEW s \in Sessions, StepOf(s), ~Commits(s)
  PROVE  UNCHANGED tables
<1>1. ASSUME NEW request, Begin(s, request) PROVE UNCHANGED tables
  BY <1>1 DEF Begin
<1>2. ASSUME NEW label, NEW rows, Scan(s, label, rows) PROVE UNCHANGED tables
  BY <1>2 DEF Scan
<1>3. ASSUME NEW t \in Tickets, Visit(s, t) PROVE UNCHANGED tables
  BY <1>3 DEF Visit
<1>4. CASE Answer(s)
  BY <1>4 DEF Answer
<1>5. CASE BeginJoin(s) \/ BeginPoll(s) \/ BeginLeave(s) \/ BeginEnd(s)
  BY <1>1, <1>5 DEF BeginJoin, BeginPoll, BeginLeave, BeginEnd
<1>6. CASE \E t \in Tickets :
             SweepRow(s, t) \/ UnpairRow(s, t) \/ DequeueRow(s, t) \/ TouchRow(s, t)
  BY <1>3, <1>6 DEF SweepRow, UnpairRow, DequeueRow, TouchRow, DeleteRow
<1>7. CASE SweepScan(s) \/ UnpairScan(s) \/ DequeueScan(s) \/ TouchScan(s)
  BY <1>2, <1>7 DEF SweepScan, UnpairScan, DequeueScan, TouchScan
<1>8. CASE \/ RefuseArchived(s) \/ EnqueueConflict(s) \/ AnswerMatched(s) \/ AnswerQueued(s)
           \/ AnswerIdle(s) \/ AnswerEnd(s) \/ Rollback(s) \/ DeadlockVictim(s)
  BY <1>4, <1>8 DEF RefuseArchived, EnqueueConflict, AnswerMatched, AnswerQueued, AnswerIdle,
     AnswerEnd, Rollback, DeadlockVictim
<1>9. CASE \/ FindOpenRoom(s) \/ CloseRoom(s) \/ NobodyToClaim(s) \/ Enqueue(s)
           \/ FindNoRoom(s) \/ ReadOpenRoom(s) \/ Claim(s)
  BY <1>9 DEF FindOpenRoom, CloseRoom, NobodyToClaim, Enqueue, FindNoRoom, ReadOpenRoom, Claim
<1> QED
  BY <1>5, <1>6, <1>7, <1>8, <1>9 DEF StepOf, Serve, Commits

------------------------------------------------------------------------------
(* Rooms.                                                                    *)

LEMMA RoomsEndOnly ==
  ASSUME Inductive, NEW s \in Sessions, pc[s] # "idle",
         NEW r \in Rooms, rooms[r] # None
  PROVE  /\ RoomsAfter(s)[r] # None
         /\ [RoomsAfter(s)[r] EXCEPT !.ended = None] = [rooms[r] EXCEPT !.ended = None]
         /\ RoomsAfter(s)[r].ended = None => rooms[r].ended = None
<1>1. rooms[r] \in DebateRoom /\ req[s].start \in Time
  BY DEF Inductive, TypeOK, Request
<1>2. RoomsAfter(s)[r] = IF r = room[s] THEN [rooms[r] EXCEPT !.ended = req[s].start] ELSE rooms[r]
  BY DEF RoomsAfter
<1>3. CASE r = room[s]
  <2>1. RoomsAfter(s)[r] = [rooms[r] EXCEPT !.ended = req[s].start]
    BY <1>2, <1>3
  <2>2. [rooms[r] EXCEPT !.ended = req[s].start] \in DebateRoom
    BY <1>1 DEF DebateRoom
  <2>3. [rooms[r] EXCEPT !.ended = req[s].start].ended = req[s].start
    BY <1>1 DEF DebateRoom
  <2>4. [[rooms[r] EXCEPT !.ended = req[s].start] EXCEPT !.ended = None]
          = [rooms[r] EXCEPT !.ended = None]
    BY <1>1 DEF DebateRoom
  <2> QED
    BY <1>1, <2>1, <2>2, <2>3, <2>4, NoneAssumption
<1>4. CASE r # room[s]
  BY <1>2, <1>4
<1> QED
  BY <1>3, <1>4

\* The room keeps its people and its topic, and an end is not undone.
Stays(r) ==
  /\ rooms'[r] # None
  /\ [rooms'[r] EXCEPT !.ended = None] = [rooms[r] EXCEPT !.ended = None]
  /\ rooms'[r].ended = None => rooms[r].ended = None

LEMMA StepsOnlyEnd ==
  ASSUME Inductive, NEW s \in Sessions, StepOf(s), NEW r \in Rooms, rooms[r] # None
  PROVE  Stays(r)
<1>1. CASE rooms' = rooms
  BY <1>1 DEF Stays
<1>2. CASE Commits(s) /\ rooms' # rooms
  <2>1. CommitPaired(s) \/ CommitQueued(s) \/ CommitEnd(s)
    BY <1>2 DEF Commits, CommitLeave, CommitPoll
  <2>2. pc[s] # "idle"
    BY <2>1 DEF CommitPaired, CommitQueued, CommitEnd, At
  <2>3. RoomsAfter(s) \in [Rooms -> DebateRoom \cup {None}]
    BY <2>2, RoomsAfterCommit
  <2>4. r # opened + 1
    BY DEF Inductive, KeysIssued, TypeOK
  <2>5. rooms'[r] = RoomsAfter(s)[r]
    BY <2>1, <2>3, <2>4 DEF CommitPaired, CommitQueued, CommitEnd
  <2> QED
    BY <2>2, <2>5, RoomsEndOnly DEF Stays
<1> QED
  BY <1>1, <1>2, OnlyCommitsWrite DEF tables

(* Ends, and joins that abandon a room, only ever end rooms; a pairing adds  *)
(* its own under a key that no room has.                                     *)
THEOREM RoomsAlwaysOnlyEnd == Spec => RoomsOnlyEnd
<1>1. Inductive /\ [Next]_vars => [\A r \in Rooms : rooms[r] # None => Stays(r)]_vars
  <2> SUFFICES ASSUME Inductive, Next, NEW r \in Rooms, rooms[r] # None
               PROVE  Stays(r)
    OBVIOUS
  <2>1. CASE Tick
    BY <2>1 DEF Tick, tables, Stays
  <2> QED
    BY <2>1, StepsOnlyEnd DEF Next, StepOf
<1>2. [][\A r \in Rooms : rooms[r] # None => Stays(r)]_vars <=> RoomsOnlyEnd
  BY DEF RoomsOnlyEnd, Stays
<1> QED
  BY <1>1, <1>2, AlwaysInductive, PTL DEF Spec

------------------------------------------------------------------------------
(* Queue rows: why one may leave, and what one that is claimed still is.     *)

\* A join refreshes no row, so what it sees of a row's age is what is stored.
OnlyPollsTouch(s) == touched[s] # {} => req[s].op = "poll"

GoodClaim(s) ==
  claim[s] # None =>
    LET row == queue[claim[s].entry]
    IN  /\ row.user = claim[s].user /\ row.user # req[s].user
        /\ row.topic = req[s].topic
        /\ ~IsStale(row.seen, req[s].start)

\* s may delete row t: it is its user's, it is claimed, or it is stale.
MayDelete(s, t) ==
  \/ req[s].user = queue[t].user /\ req[s].op \in {"join", "leave"}
  \/ claim[s] # None /\ claim[s].entry = t
  \/ IsStale(queue[t].seen, req[s].start)

Fair(s) ==
  /\ OnlyPollsTouch(s) /\ GoodClaim(s)
  /\ \A t \in dead[s] : MayDelete(s, t)

AllFair == \A s \in Sessions : Fair(s)

\* A commit writes its own rows and no others.
LEMMA QueueWrites ==
  ASSUME Inductive, NEW s \in Sessions, StepOf(s), NEW t \in Live
  PROVE  \/ queue'[t] = queue[t]
         \/ Commits(s) /\ pc[s] # "idle" /\ pc'[s] # pc[s] /\ queue'[t] = QueueAfter(s)[t]
<1>1. CASE ~Commits(s)
  BY <1>1, OnlyCommitsWrite DEF tables
<1>2. CASE Commits(s)
  <2>1. pc[s] # "idle" /\ pc[s] # "polled" /\ pc'[s] \in {"idle", "polled"}
    BY <1>2 DEF Inductive, TypeOK, Commits, CommitPaired, CommitQueued, CommitLeave, CommitEnd,
       CommitPoll, At, Finish, Goto
  <2>2. t # issued + 1
    BY DEF Inductive, KeysIssued, TypeOK
  <2>3. QueueAfter(s) \in [Tickets -> QueueEntry \cup {None}] /\ t \in Tickets
    BY <2>1, QueueAfterCommit DEF Live
  <2>4. queue'[t] \in {queue[t], QueueAfter(s)[t]}
    BY <1>2, <2>2, <2>3
    DEF Commits, CommitPaired, CommitQueued, CommitLeave, CommitEnd, CommitPoll
  <2> QED
    BY <1>2, <2>1, <2>4
<1> QED
  BY <1>1, <1>2

(* A row that another transaction has locked stays as it is.                 *)
LEMMA LockedRowsStay ==
  ASSUME Inductive, NEW s \in Sessions, StepOf(s),
         NEW o \in Sessions \ {s}, NEW t \in held[o]
  PROVE  queue'[t] = queue[t]
<1>1. t \in Live /\ t \notin dead[s] /\ t \notin touched[s] /\ t \in Tickets
  BY DEF Inductive, LocksProtectWrites, TypeOK
<1>2. QueueAfter(s)[t] = queue[t]
  BY <1>1 DEF QueueAfter
<1> QED
  BY <1>1, <1>2, QueueWrites

LEMMA OthersFair ==
  ASSUME Inductive, NEW s \in Sessions, StepOf(s), NEW o \in Sessions \ {s}, Fair(o)
  PROVE  Fair(o)'
<1>1. Unmoved(o)
  BY OthersUnmoved DEF Inductive
<1>2. dead[o] \subseteq held[o] /\ (claim[o] # None => claim[o].entry \in held[o])
  BY DEF Inductive, LocksProtectWrites
<1>3. OnlyPollsTouch(o)'
  BY <1>1 DEF Unmoved, Fair, OnlyPollsTouch
<1>4. GoodClaim(o)'
  BY <1>1, <1>2, LockedRowsStay DEF Unmoved, Fair, GoodClaim
<1>5. \A t \in dead'[o] : MayDelete(o, t)'
  BY <1>1, <1>2, LockedRowsStay DEF Unmoved, Fair, MayDelete
<1> QED
  BY <1>3, <1>4, <1>5 DEF Fair

(* What s itself does to its own.                                            *)
LEMMA EmptyIsFair ==
  ASSUME NEW s \in Sessions, dead'[s] = {}, touched'[s] = {}, claim'[s] = None
  PROVE  Fair(s)'
BY DEF Fair, OnlyPollsTouch, GoodClaim

LEMMA SameIsFair ==
  ASSUME NEW s \in Sessions, Fair(s),
         UNCHANGED <<queue, req[s], dead[s], touched[s], claim[s]>>
  PROVE  Fair(s)'
BY DEF Fair, OnlyPollsTouch, GoodClaim, MayDelete

LEMMA DeletingIsFair ==
  ASSUME Inductive, NEW s \in Sessions, Fair(s), NEW t \in Tickets,
         SweepRow(s, t) \/ UnpairRow(s, t) \/ DequeueRow(s, t)
  PROVE  Fair(s)'
<1>1. PICK rows : /\ DeleteRow(s, t, rows)
                  /\ \/ rows = StaleRows(s)
                     \/ rows = PairRows(s) /\ pc[s] = "unpair" /\ req[s].op = "join"
                     \/ rows = OwnRows(s) /\ req[s].op \in {"join", "leave"}
  BY DEF SweepRow, UnpairRow, DequeueRow, At
<1>2. /\ UNCHANGED <<queue, req, touched, claim>> /\ dead'[s] = dead[s] \cup ({t} \cap rows)
  BY <1>1 DEF DeleteRow, Visit, tables, Inductive, TypeOK
<1>3. ASSUME t \in rows
      PROVE  MayDelete(s, t)
  <2>1. CASE rows = StaleRows(s)
    <3>1. t \in Live /\ IsStale(SeenBy(s, t), req[s].start)
      BY <1>3, <2>1 DEF StaleRows, Visible
    <3>2. CASE t \in touched[s]
      <4>1. req[s] # None
        BY <3>2 DEF Inductive, TypeOK, IdleIsEmpty
      <4>2. req[s].start \in Nat /\ StaleAfter \in Nat
        BY <4>1, BoundsAssumption DEF Inductive, TypeOK, Request, Time
      <4> QED
        BY <3>1, <3>2, <4>2 DEF SeenBy, IsStale
    <3>3. CASE t \notin touched[s]
      BY <3>1, <3>3 DEF SeenBy, MayDelete
    <3> QED
      BY <3>2, <3>3
  <2>2. CASE rows = PairRows(s) /\ pc[s] = "unpair" /\ req[s].op = "join"
    <3>1. t \in Live /\ queue[t].user \in {req[s].user, claim[s].user}
      BY <1>3, <2>2 DEF PairRows, Visible
    <3>2. /\ claim[s] # None /\ claim[s].entry \in Live
          /\ queue[claim[s].entry].user = claim[s].user
      BY <2>2 DEF Inductive, ClaimedRowGoes, LocksProtectWrites
    <3>3. queue[t].user = claim[s].user => t = claim[s].entry
      BY <3>1, <3>2 DEF Inductive, UniqueEntry
    <3> QED
      BY <2>2, <3>1, <3>2, <3>3 DEF MayDelete
  <2>3. CASE rows = OwnRows(s) /\ req[s].op \in {"join", "leave"}
    BY <1>3, <2>3 DEF OwnRows, MayDelete
  <2> QED
    BY <1>1, <2>1, <2>2, <2>3
<1> QED
  BY <1>2, <1>3 DEF Fair, OnlyPollsTouch, GoodClaim, MayDelete

LEMMA ClaimIsFair ==
  ASSUME Inductive, NEW s \in Sessions, Fair(s), Claim(s)
  PROVE  Fair(s)'
<1>1. PICK t \in Oldest(Candidates(s)) :
        claim' = [claim EXCEPT ![s] = [entry |-> t, user |-> queue[t].user]]
  BY DEF Claim
<1>2. UNCHANGED <<queue, req, dead, touched>> /\ req[s].op = "join" /\ claim[s] = None
  BY DEF Claim, At, tables, Inductive, ClaimedRowGoes
<1>3. touched[s] = {}
  BY <1>2 DEF Fair, OnlyPollsTouch
<1>4. /\ queue[t].topic = req[s].topic /\ queue[t].user # req[s].user
      /\ ~IsStale(queue[t].seen, req[s].start)
  BY <1>1, <1>3 DEF Oldest, Candidates, SeenBy
<1>5. claim'[s] = [entry |-> t, user |-> queue[t].user]
  BY <1>1 DEF Inductive, TypeOK
<1>6. GoodClaim(s)'
  BY <1>2, <1>4, <1>5 DEF GoodClaim
<1>7. \A d \in dead'[s] : MayDelete(s, d)'
  BY <1>2 DEF Fair, MayDelete
<1> QED
  BY <1>2, <1>6, <1>7 DEF Fair, OnlyPollsTouch

LEMMA OwnFair ==
  ASSUME Inductive, NEW s \in Sessions, StepOf(s), Fair(s)
  PROVE  Fair(s)'
<1> USE DEF Goto, tables, locks
<1>1. ASSUME Finish(s) PROVE Fair(s)'
  BY <1>1, EmptyIsFair DEF Finish, Inductive, TypeOK
<1>2. ASSUME NEW request, Begin(s, request) PROVE Fair(s)'
  <2>1. dead[s] = {} /\ touched[s] = {} /\ claim[s] = None
    BY <1>2 DEF Begin, Inductive, IdleIsEmpty
  <2> QED
    BY <1>2, <2>1, EmptyIsFair DEF Begin
<1>3. ASSUME NEW label, NEW rows, Scan(s, label, rows) PROVE Fair(s)'
  BY <1>3, SameIsFair DEF Scan
<1>4. ASSUME NEW t \in Tickets, TouchRow(s, t) PROVE Fair(s)'
  BY <1>4 DEF TouchRow, Visit, At, Fair, OnlyPollsTouch, GoodClaim, MayDelete
<1>5. CASE CommitPoll(s)
  <2>1. claim'[s] = None
    BY <1>5 DEF CommitPoll, At, Inductive, ClaimedRowGoes
  <2> QED
    BY <1>5, <2>1, EmptyIsFair DEF CommitPoll, Inductive, TypeOK
<1>6. CASE BeginJoin(s) \/ BeginPoll(s) \/ BeginLeave(s) \/ BeginEnd(s)
  BY <1>2, <1>6 DEF BeginJoin, BeginPoll, BeginLeave, BeginEnd
<1>7. CASE SweepScan(s) \/ UnpairScan(s) \/ DequeueScan(s) \/ TouchScan(s)
  BY <1>3, <1>7 DEF SweepScan, UnpairScan, DequeueScan, TouchScan
<1>8. CASE \/ FindOpenRoom(s) \/ CloseRoom(s) \/ NobodyToClaim(s) \/ Enqueue(s)
           \/ FindNoRoom(s) \/ ReadOpenRoom(s)
  <2>1. UNCHANGED <<queue, req, dead, touched, claim>>
    BY <1>8 DEF FindOpenRoom, CloseRoom, NobodyToClaim, Enqueue, FindNoRoom, ReadOpenRoom
  <2> QED
    BY <2>1, SameIsFair
<1>9. CASE \/ RefuseArchived(s) \/ CommitPaired(s) \/ EnqueueConflict(s) \/ CommitQueued(s)
           \/ AnswerMatched(s) \/ AnswerQueued(s) \/ AnswerIdle(s) \/ CommitLeave(s)
           \/ AnswerEnd(s) \/ CommitEnd(s) \/ Rollback(s) \/ DeadlockVictim(s)
  BY <1>1, <1>9 DEF RefuseArchived, CommitPaired, EnqueueConflict, CommitQueued, AnswerMatched,
     AnswerQueued, AnswerIdle, CommitLeave, AnswerEnd, CommitEnd, Rollback, DeadlockVictim, Answer
<1> QED
  BY <1>4, <1>5, <1>6, <1>7, <1>8, <1>9, ClaimIsFair, DeletingIsFair DEF StepOf, Serve

LEMMA AllFairInductive ==
  ASSUME Inductive, AllFair, [Next]_vars
  PROVE  AllFair'
<1>1. ASSUME NEW s \in Sessions, StepOf(s) PROVE AllFair'
  BY <1>1, OwnFair, OthersFair DEF AllFair
<1>2. ASSUME Tick \/ UNCHANGED vars PROVE AllFair'
  BY <1>2, SameIsFair DEF AllFair, Tick, vars, tables, session, locks
<1> QED
  BY <1>1, <1>2 DEF Next, StepOf

LEMMA AlwaysFair == Spec => [](Inductive /\ AllFair)
<1>1. Init => AllFair
  BY DEF Init, AllFair, Fair, OnlyPollsTouch, GoodClaim
<1>2. Inductive /\ AllFair /\ [Next]_vars => AllFair'
  BY AllFairInductive
<1> QED
  BY <1>1, <1>2, AlwaysInductive, PTL DEF Spec

(* claim_waiting_opponent: from the claim to the commit, the claimed row is  *)
(* another user's, on the topic asked for, and fresh.                        *)
THEOREM ClaimsStayGood == Spec => []ClaimStaysGood
<1>1. AllFair => ClaimStaysGood
  BY DEF AllFair, Fair, GoodClaim, ClaimStaysGood
<1> QED
  BY <1>1, AlwaysFair, PTL

(* delete_stale, dequeue and dequeue_many, with a heartbeat or a rejoin that *)
(* may come in between: nobody leaves the queue without a reason.            *)
THEOREM RemovalsAreFair == Spec => FairRemoval
<1> DEFINE Reason(t) ==
      \E s \in {o \in Sessions : pc[o] # "idle" /\ pc'[o] # pc[o]} :
        \/ req[s].user = queue[t].user /\ req[s].op \in {"join", "leave"}
        \/ claim[s] # None /\ claim[s].entry = t /\ opened' = opened + 1
        \/ IsStale(queue[t].seen, req[s].start)
<1>1. ASSUME Inductive, AllFair, NEW s \in Sessions, StepOf(s),
             NEW t \in Live, queue'[t] = None
      PROVE  Reason(t)
  <2>1. queue[t] # None
    BY DEF Live
  <2>2. Commits(s) /\ pc[s] # "idle" /\ pc'[s] # pc[s] /\ QueueAfter(s)[t] = None
    BY <1>1, <2>1, QueueWrites
  <2>3. t \in dead[s]
    BY <1>1, <2>2, QueueAfterCommit DEF Live
  <2>4. MayDelete(s, t)
    BY <1>1, <2>3 DEF AllFair, Fair
  <2>5. claim[s] # None => opened' = opened + 1
    BY <1>1, <2>2 DEF Inductive, ClaimedRowGoes, Commits, CommitPaired, CommitQueued, CommitLeave,
       CommitEnd, CommitPoll, At
  <2> QED
    BY <2>2, <2>4, <2>5 DEF MayDelete
<1>2. Inductive /\ AllFair /\ [Next]_vars => [\A t \in Live : queue'[t] = None => Reason(t)]_vars
  <2> SUFFICES ASSUME Inductive, AllFair, Next, NEW t \in Live, queue'[t] = None
               PROVE  Reason(t)
    OBVIOUS
  <2>1. CASE Tick
    BY <2>1 DEF Tick, tables, Live
  <2> QED
    BY <1>1, <2>1 DEF Next, StepOf
<1>3. [][\A t \in Live : queue'[t] = None => Reason(t)]_vars <=> FairRemoval
  BY DEF FairRemoval
<1> QED
  BY <1>2, <1>3, AlwaysFair, PTL DEF Spec

------------------------------------------------------------------------------
(* The refinement of DebatePool.                                             *)

\* What a session closes is a room of the person it serves.
ClosesItsOwn(s) == room[s] # None => IsParticipant(req[s].user, room[s])

AllCloseTheirOwn == \A s \in Sessions : ClosesItsOwn(s)

LEMMA ParticipantsStay ==
  ASSUME Inductive, Inductive', NEW s \in Sessions, StepOf(s), NEW r \in Rooms, NEW u,
         IsParticipant(u, r)
  PROVE  IsParticipant(u, r)'
<1>1. rooms[r] # None /\ Stays(r)
  BY StepsOnlyEnd DEF IsParticipant
<1>2. rooms[r] \in DebateRoom /\ rooms'[r] \in DebateRoom
  BY <1>1 DEF Inductive, TypeOK, Stays
<1>3. /\ [rooms[r] EXCEPT !.ended = None].user1 = rooms[r].user1
      /\ [rooms[r] EXCEPT !.ended = None].user2 = rooms[r].user2
      /\ [rooms'[r] EXCEPT !.ended = None].user1 = rooms'[r].user1
      /\ [rooms'[r] EXCEPT !.ended = None].user2 = rooms'[r].user2
  BY <1>2 DEF DebateRoom
<1> QED
  BY <1>1, <1>3 DEF Stays, IsParticipant

LEMMA RoomOfOthers ==
  ASSUME TypeOK, NEW s \in Sessions, StepOf(s)
  PROVE  /\ \A o \in Sessions \ {s} : room'[o] = room[o]
         /\ \/ room'[s] = None
            \/ room'[s] = room[s] /\ (req'[s] = req[s] \/ pc[s] = "idle")
            \/ req'[s] = req[s] /\ rooms' = rooms /\ IsParticipant(req[s].user, room'[s])
<1> DEFINE Goal == /\ \A o \in Sessions \ {s} : room'[o] = room[o]
                   /\ \/ room'[s] = None
                      \/ room'[s] = room[s] /\ (req'[s] = req[s] \/ pc[s] = "idle")
                      \/ /\ req'[s] = req[s] /\ rooms' = rooms
                         /\ IsParticipant(req[s].user, room'[s])
<1> SUFFICES Goal
  OBVIOUS
<1> USE DEF TypeOK, locks, tables
<1>1. ASSUME Finish(s) PROVE Goal
  BY <1>1 DEF Finish
<1>2. ASSUME NEW request, Begin(s, request) PROVE Goal
  BY <1>2 DEF Begin
<1>3. ASSUME NEW label, NEW rows, Scan(s, label, rows) PROVE Goal
  BY <1>3 DEF Scan
<1>4. ASSUME NEW t \in Tickets, Visit(s, t) PROVE Goal
  BY <1>4 DEF Visit
<1>5. CASE CloseRoom(s) \/ NobodyToClaim(s) \/ Enqueue(s) \/ FindNoRoom(s) \/ Claim(s)
  BY <1>5 DEF CloseRoom, NobodyToClaim, Enqueue, FindNoRoom, Claim
<1>6. CASE CommitPoll(s)
  BY <1>6 DEF CommitPoll
<1>7. CASE FindOpenRoom(s)
  BY <1>7 DEF FindOpenRoom, Latest, ActiveRooms
<1>8. CASE ReadOpenRoom(s)
  BY <1>8 DEF ReadOpenRoom
<1> HIDE DEF Goal
<1>9. CASE BeginJoin(s) \/ BeginPoll(s) \/ BeginLeave(s) \/ BeginEnd(s)
  BY <1>2, <1>9 DEF BeginJoin, BeginPoll, BeginLeave, BeginEnd
<1>10. CASE \E t \in Tickets :
              SweepRow(s, t) \/ UnpairRow(s, t) \/ DequeueRow(s, t) \/ TouchRow(s, t)
  BY <1>4, <1>10 DEF SweepRow, UnpairRow, DequeueRow, TouchRow, DeleteRow
<1>11. CASE SweepScan(s) \/ UnpairScan(s) \/ DequeueScan(s) \/ TouchScan(s)
  BY <1>3, <1>11 DEF SweepScan, UnpairScan, DequeueScan, TouchScan
<1>12. CASE \/ RefuseArchived(s) \/ CommitPaired(s) \/ EnqueueConflict(s) \/ CommitQueued(s)
            \/ AnswerMatched(s) \/ AnswerQueued(s) \/ AnswerIdle(s) \/ CommitLeave(s)
            \/ AnswerEnd(s) \/ CommitEnd(s) \/ Rollback(s) \/ DeadlockVictim(s)
  BY <1>1, <1>12 DEF RefuseArchived, CommitPaired, EnqueueConflict, CommitQueued, AnswerMatched,
     AnswerQueued, AnswerIdle, CommitLeave, AnswerEnd, CommitEnd, Rollback, DeadlockVictim, Answer
<1> QED
  BY <1>5, <1>6, <1>7, <1>8, <1>9, <1>10, <1>11, <1>12 DEF StepOf, Serve

LEMMA AllCloseTheirOwnInductive ==
  ASSUME Inductive, Inductive', AllCloseTheirOwn, [Next]_vars
  PROVE  AllCloseTheirOwn'
<1>1. ASSUME NEW s \in Sessions, StepOf(s), NEW o \in Sessions PROVE ClosesItsOwn(o)'
  <2>1. room[o] # None => room[o] \in Rooms
    BY DEF Inductive, TypeOK
  <2>2. CASE o # s
    <3>1. room'[o] = room[o] /\ req'[o] = req[o]
      BY <1>1, <2>2, RoomOfOthers, OthersUnmoved DEF Inductive, Unmoved
    <3> QED
      BY <1>1, <2>1, <3>1, ParticipantsStay DEF AllCloseTheirOwn, ClosesItsOwn
  <2>3. CASE o = s
    <3>1. CASE room'[s] = None
      BY <2>3, <3>1 DEF ClosesItsOwn
    <3>2. CASE room'[s] = room[s] /\ req'[s] = req[s]
      BY <1>1, <2>1, <2>3, <3>2, ParticipantsStay DEF AllCloseTheirOwn, ClosesItsOwn
    <3>3. CASE room'[s] = room[s] /\ pc[s] = "idle"
      BY <2>3, <3>3 DEF Inductive, IdleIsEmpty, ClosesItsOwn
    <3>4. CASE req'[s] = req[s] /\ rooms' = rooms /\ IsParticipant(req[s].user, room'[s])
      BY <2>3, <3>4 DEF ClosesItsOwn, IsParticipant
    <3> QED
      BY <1>1, <3>1, <3>2, <3>3, <3>4, RoomOfOthers DEF Inductive
  <2> QED
    BY <2>2, <2>3
<1>2. ASSUME Tick \/ UNCHANGED vars PROVE AllCloseTheirOwn'
  BY <1>2 DEF AllCloseTheirOwn, ClosesItsOwn, IsParticipant, Tick, vars, tables, session
<1> QED
  BY <1>1, <1>2 DEF Next, StepOf, AllCloseTheirOwn

LEMMA AlwaysCloseTheirOwn == Spec => []AllCloseTheirOwn
<1>1. Init => AllCloseTheirOwn
  BY DEF Init, AllCloseTheirOwn, ClosesItsOwn
<1>2. Inductive /\ Inductive' /\ AllCloseTheirOwn /\ [Next]_vars => AllCloseTheirOwn'
  BY AllCloseTheirOwnInductive
<1> QED
  BY <1>1, <1>2, AlwaysInductive, PTL DEF Spec

\* Why debate r may end, as DebatesEndForAReason has it.
EndReason(r) ==
  \E u \in {rooms[r].user1, rooms[r].user2} :
    \/ \E s \in Sessions :
         /\ pc[s] # "idle" /\ pc'[s] = "idle"
         /\ req[s].op = "end" /\ req[s].user = u
    \/ \E t \in Tickets \ Live : queue'[t] # None /\ queue'[t].user = u
    \/ \E q \in Rooms :
         rooms[q] = None /\ rooms'[q] # None /\ u \in {rooms'[q].user1, rooms'[q].user2}

LEMMA EndsHaveReasons ==
  ASSUME Inductive, AllCloseTheirOwn, NEW s \in Sessions, StepOf(s),
         NEW r \in Rooms, rooms[r] # None, rooms[r].ended = None, rooms'[r].ended # None
  PROVE  EndReason(r)
<1>1. CommitPaired(s) \/ CommitQueued(s) \/ CommitEnd(s)
  BY OnlyCommitsWrite DEF Commits, CommitLeave, CommitPoll, tables
<1>2. pc[s] # "idle" /\ s \in DOMAIN pc /\ opened \in Nat /\ r # opened + 1
  BY <1>1, BoundsAssumption
     DEF CommitPaired, CommitQueued, CommitEnd, At, Inductive, TypeOK, KeysIssued, Rooms
<1>3. /\ RoomsAfter(s) \in [Rooms -> DebateRoom \cup {None}]
      /\ RoomsAfter(s)[r] = IF r = room[s] THEN [rooms[r] EXCEPT !.ended = req[s].start]
                            ELSE rooms[r]
  BY <1>2, RoomsAfterCommit DEF RoomsAfter
<1>4. rooms'[r] = RoomsAfter(s)[r]
  BY <1>1, <1>2, <1>3 DEF CommitPaired, CommitQueued, CommitEnd
<1>5. req[s].user \in {rooms[r].user1, rooms[r].user2}
  <2>1. r = room[s] /\ r # None
    BY <1>3, <1>4, NoneAssumption
  <2> QED
    BY <2>1 DEF AllCloseTheirOwn, ClosesItsOwn, IsParticipant
<1>6. CASE CommitEnd(s)
  BY <1>2, <1>5, <1>6 DEF CommitEnd, At, Finish, Goto, EndReason
<1>7. CASE CommitQueued(s)
  <2> DEFINE new == issued + 1
  <2>1. new \in Tickets \ Live
    <3>1. issued \in Nat /\ issued < MaxTickets
      BY <1>7, BoundsAssumption DEF CommitQueued, Inductive, TypeOK
    <3> QED
      BY <3>1, BoundsAssumption DEF Inductive, KeysIssued, Tickets
  <2>2. queue'[new] = [user |-> req[s].user, topic |-> req[s].topic,
                       created |-> req[s].start, seen |-> req[s].start]
    BY <1>7, <2>1 DEF CommitQueued, QueueAfter
  <2>3. queue'[new] \in QueueEntry
    <3>1. req[s] \in Request /\ req[s].topic \in Topics
      BY <1>2, <1>7 DEF CommitQueued, At, Inductive, TypeOK, RequestShape
    <3> QED
      BY <2>2, <3>1 DEF Request, QueueEntry
  <2>4. queue'[new] # None /\ queue'[new].user = req[s].user
    BY <2>2, <2>3, NoneAssumption
  <2> QED
    BY <1>5, <2>1, <2>4 DEF EndReason
<1>8. CASE CommitPaired(s)
  <2> DEFINE new == opened + 1
             opening == [topic |-> req[s].topic, user1 |-> claim[s].user,
                         user2 |-> req[s].user, started |-> req[s].start,
                         ended |-> None, from |-> claim[s].entry]
  <2>1. new \in Rooms /\ rooms[new] = None
    <3>1. opened < MaxRooms /\ new \in Rooms
      BY <1>2, <1>8, BoundsAssumption DEF CommitPaired, Rooms
    <3> QED
      BY <1>2, <3>1 DEF Inductive, KeysIssued
  <2>2. rooms' = [RoomsAfter(s) EXCEPT ![new] = opening]
    BY <1>8 DEF CommitPaired
  <2>3. rooms'[new] = opening
    BY <1>3, <2>1, <2>2
  <2>4. opening \in DebateRoom
    <3>1. claim[s] \in Opponent /\ req[s] \in Request /\ req[s].topic \in Topics
      BY <1>2, <1>8 DEF CommitPaired, At, Inductive, TypeOK, RequestShape, ClaimedRowGoes
    <3> QED
      BY <3>1 DEF Opponent, Request, DebateRoom
  <2>5. rooms'[new] # None /\ rooms'[new].user2 = req[s].user
    BY <2>3, <2>4, NoneAssumption
  <2> QED
    BY <1>5, <2>1, <2>5 DEF EndReason
<1> QED
  BY <1>1, <1>6, <1>7, <1>8

(* A debate ends in the commit of its own people's request, which either     *)
(* asks for the end or takes them into the queue or to another debate.       *)
THEOREM DebatesAlwaysEndForAReason == Spec => DebatesEndForAReason
<1>1. Inductive /\ AllCloseTheirOwn /\ [Next]_vars
        => [\A r \in Rooms :
              rooms[r] # None /\ rooms[r].ended = None /\ rooms'[r].ended # None
                => EndReason(r)]_vars
  <2> SUFFICES ASSUME Inductive, AllCloseTheirOwn, Next, NEW r \in Rooms,
                      rooms[r] # None, rooms[r].ended = None, rooms'[r].ended # None
               PROVE  EndReason(r)
    OBVIOUS
  <2>1. ~Tick
    BY DEF Tick, tables
  <2> QED
    BY <2>1, EndsHaveReasons DEF Next, StepOf
<1>2. [][\A r \in Rooms :
           rooms[r] # None /\ rooms[r].ended = None /\ rooms'[r].ended # None
             => EndReason(r)]_vars <=> DebatesEndForAReason
  BY DEF DebatesEndForAReason, EndReason
<1> QED
  BY <1>1, <1>2, AlwaysCloseTheirOwn, AlwaysInductive, PTL DEF Spec

\* The refinement mapping, entry by entry and debate by debate.
Entry(t) == [id |-> t, user |-> queue[t].user, topic |-> queue[t].topic]

Debate(table, r) ==
  [people |-> {table[r].user1, table[r].user2}, topic |-> table[r].topic,
   from |-> table[r].from, over |-> table[r].ended # None]

PoolNow == {Entry(t) : t \in Live}

DebatesIn(table) == [r \in 1..opened |-> Debate(table, r)]

LEMMA Mapping ==
  /\ Pool!Spec <=> (Pool!Init /\ [][Pool!Next]_<<PoolNow, issued, DebatesIn(rooms)>>)
  /\ Pool!pvars = <<PoolNow, issued, DebatesIn(rooms)>>
BY DEF Pool!Spec, Pool!pvars, PoolNow, Entry, DebatesIn, Debate

(* A commit that closes a debate closes one of the person it serves.         *)
LEMMA ClosingIsTheirOwn ==
  ASSUME Inductive, AllCloseTheirOwn, NEW s \in Sessions, pc[s] # "idle"
  PROVE  DebatesIn(RoomsAfter(s)) \in Pool!Closing(req[s].user)
<1> DEFINE D == DebatesIn(rooms)
           C == DebatesIn(RoomsAfter(s))
<1>1. D = [r \in 1..opened |-> [people |-> {rooms[r].user1, rooms[r].user2},
                                topic |-> rooms[r].topic, from |-> rooms[r].from,
                                over |-> rooms[r].ended # None]]
  BY DEF DebatesIn, Debate
<1>2. Pool!Closing(req[s].user) =
        {D} \cup {[D EXCEPT ![d].over = TRUE] :
                    d \in {d \in DOMAIN D : req[s].user \in D[d].people}}
  BY <1>1 DEF Pool!Closing
<1>3. 1..opened \subseteq Rooms /\ req[s].start \in Time
  <2>1. opened \in 0..MaxRooms /\ req[s] \in Request
    BY DEF Inductive, TypeOK
  <2> QED
    BY <2>1, BoundsAssumption DEF Rooms, Request
<1>4. CASE room[s] = None
  <2>1. \A r \in 1..opened : RoomsAfter(s)[r] = rooms[r]
    BY <1>3, <1>4, NoneAssumption DEF RoomsAfter
  <2>2. C = D
    BY <2>1 DEF DebatesIn, Debate
  <2> QED
    BY <1>2, <2>2
<1>5. CASE room[s] # None
  <2>1. IsParticipant(req[s].user, room[s]) /\ room[s] \in Rooms
    BY <1>5 DEF AllCloseTheirOwn, ClosesItsOwn, Inductive, TypeOK
  <2>2. room[s] \in 1..opened
    BY <2>1 DEF IsParticipant, Inductive, KeysIssued, Rooms, TypeOK
  <2>3. room[s] \in DOMAIN D /\ req[s].user \in D[room[s]].people
    BY <2>1, <2>2 DEF DebatesIn, Debate, IsParticipant
  <2>4. rooms[room[s]] \in DebateRoom
    BY <2>1 DEF IsParticipant, Inductive, TypeOK
  <2>5. Debate(RoomsAfter(s), room[s]) = [Debate(rooms, room[s]) EXCEPT !.over = TRUE]
    <3>1. RoomsAfter(s)[room[s]] = [rooms[room[s]] EXCEPT !.ended = req[s].start]
      BY <2>1 DEF RoomsAfter
    <3>2. req[s].start # None
      BY <1>3, NoneAssumption
    <3>3. /\ [rooms[room[s]] EXCEPT !.ended = req[s].start].user1 = rooms[room[s]].user1
          /\ [rooms[room[s]] EXCEPT !.ended = req[s].start].user2 = rooms[room[s]].user2
          /\ [rooms[room[s]] EXCEPT !.ended = req[s].start].topic = rooms[room[s]].topic
          /\ [rooms[room[s]] EXCEPT !.ended = req[s].start].from = rooms[room[s]].from
          /\ [rooms[room[s]] EXCEPT !.ended = req[s].start].ended = req[s].start
      BY <2>4 DEF DebateRoom
    <3>4. Debate(RoomsAfter(s), room[s]) =
            [people |-> {rooms[room[s]].user1, rooms[room[s]].user2},
             topic |-> rooms[room[s]].topic, from |-> rooms[room[s]].from, over |-> TRUE]
      BY <3>1, <3>2, <3>3 DEF Debate
    <3> DEFINE R == [people : SUBSET Users, topic : Topics, from : Tickets, over : BOOLEAN]
               X == Debate(rooms, room[s])
    <3>5. Debate(RoomsAfter(s), room[s]) \in R /\ X \in R
      BY <2>4, <3>4 DEF Debate, DebateRoom
    <3>6. /\ [X EXCEPT !.over = TRUE] \in R /\ [X EXCEPT !.over = TRUE].over = TRUE
          /\ [X EXCEPT !.over = TRUE].people = X.people
          /\ [X EXCEPT !.over = TRUE].topic = X.topic
          /\ [X EXCEPT !.over = TRUE].from = X.from
      <4> HIDE DEF X
      <4> QED
        BY <3>5
    <3>7. /\ Debate(RoomsAfter(s), room[s]).people = X.people
          /\ Debate(RoomsAfter(s), room[s]).topic = X.topic
          /\ Debate(RoomsAfter(s), room[s]).from = X.from
          /\ Debate(RoomsAfter(s), room[s]).over = TRUE
      BY <3>4 DEF Debate
    <3> QED
      <4> HIDE DEF X
      <4>1. Debate(RoomsAfter(s), room[s]) = [X EXCEPT !.over = TRUE]
        BY <3>5, <3>6, <3>7
      <4> QED
        BY <4>1 DEF X
  <2>6. \A r \in 1..opened : r # room[s] => RoomsAfter(s)[r] = rooms[r]
    BY <1>3 DEF RoomsAfter
  <2>7. C = [D EXCEPT ![room[s]] = [Debate(rooms, room[s]) EXCEPT !.over = TRUE]]
    BY <2>2, <2>5, <2>6 DEF DebatesIn, Debate
  <2>8. D[room[s]] = Debate(rooms, room[s])
    BY <2>2 DEF DebatesIn
  <2>9. C = [D EXCEPT ![room[s]].over = TRUE]
    BY <2>7, <2>8
  <2>10. C \in {[D EXCEPT ![d].over = TRUE] :
                  d \in {d \in DOMAIN D : req[s].user \in D[d].people}}
    <3> DEFINE Closed(d) == [D EXCEPT ![d].over = TRUE]
               Theirs == {d \in DOMAIN D : req[s].user \in D[d].people}
    <3>1. room[s] \in Theirs
      BY <2>3
    <3>2. C = Closed(room[s])
      BY <2>9
    <3>3. C \in {Closed(d) : d \in Theirs}
      <4> HIDE DEF C, D, Closed, Theirs
      <4> QED
        BY <3>1, <3>2
    <3> QED
      BY <3>3
  <2> QED
    BY <1>2, <2>10
<1> QED
  BY <1>4, <1>5

(* A commit leaves the rows it has not deleted, with their users and topics. *)
LEMMA EntriesAfter ==
  ASSUME Inductive, NEW s \in Sessions, pc[s] # "idle", NEW t \in Tickets
  PROVE  /\ QueueAfter(s)[t] # None <=> t \in Live \ dead[s]
         /\ t \in Live \ dead[s] => /\ QueueAfter(s)[t].user = queue[t].user
                                    /\ QueueAfter(s)[t].topic = queue[t].topic
<1>1. t \in Live \ dead[s] => queue[t] \in QueueEntry
  BY DEF Inductive, TypeOK, Live
<1>2. ASSUME t \in Live \ dead[s] PROVE QueueAfter(s)[t].topic = queue[t].topic
  <2>1. CASE t \in touched[s]
    <3>1. QueueAfter(s)[t] = [queue[t] EXCEPT !.seen = req[s].start]
      BY <1>2, <2>1 DEF QueueAfter
    <3> QED
      BY <1>1, <1>2, <3>1 DEF QueueEntry
  <2>2. CASE t \notin touched[s]
    BY <1>2, <2>2 DEF QueueAfter
  <2> QED
    BY <2>1, <2>2
<1> QED
  BY <1>2, QueueAfterCommit

Kept(s) == {Entry(t) : t \in Live \ dead[s]}

LEMMA PoolAfter ==
  ASSUME Inductive, NEW s \in Sessions, pc[s] # "idle", queue' = QueueAfter(s)
  PROVE  PoolNow' = Kept(s)
<1>1. Live' = Live \ dead[s]
  BY EntriesAfter DEF Live
<1>2. \A t \in Live \ dead[s] : Entry(t)' = Entry(t)
  BY EntriesAfter DEF Entry, Live
<1> QED
  BY <1>1, <1>2 DEF PoolNow, Kept

LEMMA KeptIsThere == ASSUME NEW s \in Sessions PROVE Kept(s) \in SUBSET PoolNow
BY DEF Kept, PoolNow

LEMMA WithdrawalsMap ==
  ASSUME Inductive, NEW s \in Sessions, CommitLeave(s) \/ CommitPoll(s)
  PROVE  Pool!Withdraw
<1>1. pc[s] # "idle" /\ queue' = QueueAfter(s) /\ UNCHANGED <<issued, rooms, opened>>
  BY DEF CommitLeave, CommitPoll, At
<1>2. PoolNow' \in SUBSET PoolNow
  BY <1>1, PoolAfter, KeptIsThere
<1>3. DebatesIn(rooms)' = DebatesIn(rooms)
  BY <1>1 DEF DebatesIn, Debate
<1> QED
  BY <1>1, <1>2, <1>3 DEF Pool!Withdraw, PoolNow, Entry, DebatesIn, Debate

LEMMA EndsMap ==
  ASSUME Inductive, AllCloseTheirOwn, NEW s \in Sessions, CommitEnd(s)
  PROVE  Pool!End(req[s].user)
<1>1. pc[s] # "idle" /\ rooms' = RoomsAfter(s) /\ UNCHANGED <<queue, issued, opened>>
  BY DEF CommitEnd, At
<1>2. DebatesIn(rooms)' \in Pool!Closing(req[s].user)
  BY <1>1, ClosingIsTheirOwn DEF DebatesIn, Debate
<1>3. PoolNow' = PoolNow
  BY <1>1 DEF PoolNow, Entry, Live
<1> QED
  BY <1>1, <1>2, <1>3 DEF Pool!End, PoolNow, Entry, DebatesIn, Debate

LEMMA QueuedMaps ==
  ASSUME Inductive, Inductive', AllCloseTheirOwn, NEW s \in Sessions, CommitQueued(s)
  PROVE  Pool!Enter(req[s].user, req[s].topic)
<1> DEFINE new == [id |-> issued + 1, user |-> req[s].user, topic |-> req[s].topic]
<1>1. /\ pc[s] = "inserted" /\ rooms' = RoomsAfter(s) /\ opened' = opened
      /\ issued' = issued + 1 /\ issued < MaxTickets
      /\ queue' = [QueueAfter(s) EXCEPT ![issued + 1] =
                     [user |-> req[s].user, topic |-> req[s].topic,
                      created |-> req[s].start, seen |-> req[s].start]]
  BY DEF CommitQueued, At
<1>2. issued + 1 \in Tickets /\ issued + 1 \notin Live
  BY <1>1, BoundsAssumption DEF Inductive, TypeOK, KeysIssued, Tickets
<1>3. QueueAfter(s) \in [Tickets -> QueueEntry \cup {None}]
  BY <1>1, QueueAfterCommit
<1>4. /\ \A t \in Tickets \ {issued + 1} : queue'[t] = QueueAfter(s)[t]
      /\ queue'[issued + 1].user = req[s].user /\ queue'[issued + 1].topic = req[s].topic
  BY <1>1, <1>2, <1>3
<1>5. queue'[issued + 1] # None
  <2>1. issued + 1 <= issued'
    BY <1>1 DEF Inductive, TypeOK
  <2>2. queue'[issued + 1] = [user |-> req[s].user, topic |-> req[s].topic,
                              created |-> req[s].start, seen |-> req[s].start]
    BY <1>1, <1>2, <1>3
  <2>3. req[s] \in Request /\ req[s].topic \in Topics
    BY <1>1 DEF CommitQueued, At, Inductive, TypeOK, RequestShape
  <2>4. queue'[issued + 1] \in QueueEntry
    BY <2>2, <2>3 DEF Request, QueueEntry
  <2> QED
    BY <2>4, NoneAssumption
<1>6. Live' = (Live \ dead[s]) \cup {issued + 1}
  BY <1>1, <1>2, <1>4, <1>5, EntriesAfter DEF Live
<1>7. \A t \in Live \ dead[s] : Entry(t)' = Entry(t)
  BY <1>1, <1>2, <1>4, EntriesAfter DEF Entry, Live
<1>8. PICK n \in Tickets : n = issued + 1
  BY <1>2
<1>9. PoolNow' = Kept(s) \cup {new}
  <2>1. Entry(n)' = new
    BY <1>4, <1>8 DEF Entry
  <2>2. Live' = (Live \ dead[s]) \cup {n}
    BY <1>6, <1>8
  <2> HIDE DEF new
  <2> QED
    BY <1>7, <2>1, <2>2 DEF PoolNow, Kept
<1>10. Kept(s) \in SUBSET {e \in PoolNow : e.user # req[s].user}
  <2>1. \A t \in Live \ dead[s] : queue[t].user # req[s].user
    BY <1>1 DEF Inductive, PendingInsert, OwnRows, Visible
  <2> QED
    BY <2>1, KeptIsThere DEF Kept, Entry
<1>11. DebatesIn(rooms)' \in Pool!Closing(req[s].user)
  BY <1>1, ClosingIsTheirOwn DEF DebatesIn, Debate
<1> QED
  BY <1>1, <1>9, <1>10, <1>11 DEF Pool!Enter, PoolNow, Entry, DebatesIn, Debate

LEMMA PairingsMap ==
  ASSUME Inductive, Inductive', AllFair, AllCloseTheirOwn,
         NEW s \in Sessions, CommitPaired(s)
  PROVE  Pool!Pair(req[s].user, req[s].topic)
<1> DEFINE opening == [topic |-> req[s].topic, user1 |-> claim[s].user,
                       user2 |-> req[s].user, started |-> req[s].start,
                       ended |-> None, from |-> claim[s].entry]
           e == Entry(claim[s].entry)
           C == DebatesIn(RoomsAfter(s))
           debate == [people |-> {e.user, req[s].user}, topic |-> req[s].topic,
                      from |-> e.id, over |-> FALSE]
<1>1. /\ pc[s] = "unpair" /\ todo[s] = {} /\ queue' = QueueAfter(s) /\ issued' = issued
      /\ opened < MaxRooms /\ opened' = opened + 1
      /\ rooms' = [RoomsAfter(s) EXCEPT ![opened + 1] = opening]
  BY DEF CommitPaired, At
<1>2. /\ claim[s] # None /\ claim[s].entry \in Live /\ claim[s].entry \in dead[s]
      /\ queue[claim[s].entry].user = claim[s].user
  BY <1>1 DEF Inductive, ClaimedRowGoes, LocksProtectWrites
<1>3. e \in PoolNow /\ e.user # req[s].user /\ e.topic = req[s].topic
  BY <1>2 DEF PoolNow, Entry, AllFair, Fair, GoodClaim
<1>4. e.user = claim[s].user /\ e.id = claim[s].entry
  BY <1>2 DEF Entry
<1>5. PoolNow' \in SUBSET (PoolNow \ {e})
  <2>1. PoolNow' = Kept(s)
    BY <1>1, PoolAfter
  <2>2. \A t \in Live \ dead[s] : Entry(t) # e
    BY <1>2 DEF Entry
  <2> HIDE DEF e
  <2> QED
    BY <2>1, <2>2, KeptIsThere DEF Kept
<1>6. C \in Pool!Closing(req[s].user)
  BY <1>1, ClosingIsTheirOwn
<1>7. RoomsAfter(s) \in [Rooms -> DebateRoom \cup {None}]
  BY <1>1, RoomsAfterCommit
<1>8. opened \in Nat /\ opened + 1 \in Rooms /\ 1..opened \subseteq Rooms
  BY <1>1, BoundsAssumption DEF Inductive, TypeOK, Rooms
<1>9. PICK n \in Rooms : n = opened + 1
  BY <1>8
<1>10. Debate(rooms, n)' = debate
  <2>1. rooms'[n] = opening
    BY <1>1, <1>7, <1>9
  <2>2. /\ rooms'[n].user1 = e.user /\ rooms'[n].user2 = req[s].user
        /\ rooms'[n].topic = req[s].topic /\ rooms'[n].from = e.id /\ rooms'[n].ended = None
    BY <1>4, <2>1
  <2>3. Debate(rooms, n)' =
          [people |-> {rooms'[n].user1, rooms'[n].user2}, topic |-> rooms'[n].topic,
           from |-> rooms'[n].from, over |-> rooms'[n].ended # None]
    BY DEF Debate
  <2>4. (rooms'[n].ended # None) = FALSE
    BY <2>2
  <2> HIDE DEF e
  <2> QED
    BY <2>2, <2>3, <2>4
<1>11. \A r \in 1..opened : Debate(rooms, r)' = Debate(RoomsAfter(s), r)
  <2>1. \A r \in 1..opened : rooms'[r] = RoomsAfter(s)[r]
    BY <1>1, <1>7, <1>8
  <2> QED
    BY <2>1 DEF Debate
<1>12. DebatesIn(rooms)' = Append(C, debate)
  <2>1. DebatesIn(rooms)' = [r \in 1..n |-> Debate(rooms, r)']
    BY <1>1, <1>9 DEF DebatesIn
  <2>2. C = [r \in 1..opened |-> Debate(RoomsAfter(s), r)]
    BY DEF DebatesIn
  <2>3. DOMAIN C = 1..opened /\ Len(C) = opened
    BY <1>8, <2>2
  <2> QED
    BY <1>8, <1>9, <1>10, <1>11, <2>1, <2>2, <2>3
<1> QED
  BY <1>1, <1>3, <1>5, <1>6, <1>12 DEF Pool!Pair, PoolNow, Entry, DebatesIn, Debate

(* Everything else is not seen in the pool.                                  *)
LEMMA StutterMaps ==
  ASSUME UNCHANGED tables
  PROVE  UNCHANGED Pool!pvars
BY DEF tables, Pool!pvars, Live

(* services/match.py: every request takes effect at once, at its commit, or   *)
(* not at all, however the statements of the requests overlap.               *)
THEOREM ImplementsDebatePool == Spec => RefinesDebatePool
<1>1. Init => Pool!Init
  BY DEF Init, Pool!Init, Live
<1>2. ASSUME Inductive, Inductive', AllFair, AllCloseTheirOwn, Next
      PROVE  Pool!Next \/ UNCHANGED Pool!pvars
  <2>1. CASE Tick
    BY <2>1, StutterMaps DEF Tick
  <2>2. ASSUME NEW s \in Sessions, StepOf(s)
        PROVE  Pool!Next \/ UNCHANGED Pool!pvars
    <3>1. CASE ~Commits(s)
      BY <2>2, <3>1, OnlyCommitsWrite, StutterMaps
    <3>2. CASE CommitLeave(s) \/ CommitPoll(s)
      BY <1>2, <3>2, WithdrawalsMap DEF Pool!Next
    <3>3. CASE CommitEnd(s)
      <4>1. req[s] \in Request
        BY <1>2, <3>3 DEF CommitEnd, At, Inductive, TypeOK
      <4>2. req[s].user \in Users
        BY <4>1 DEF Request
      <4>3. Pool!End(req[s].user)
        BY <1>2, <3>3, EndsMap
      <4>4. \E u \in Users : Pool!End(u)
        BY <4>2, <4>3, Zenon DEF Pool!End
      <4> QED
        BY <4>4, Zenon DEF Pool!Next
    <3>4. CASE CommitQueued(s) \/ CommitPaired(s)
      <4>1. req[s] \in Request /\ req[s].topic \in Topics
        BY <1>2, <3>4 DEF CommitQueued, CommitPaired, At, Inductive, TypeOK, RequestShape
      <4>2. req[s].user \in Users
        BY <4>1 DEF Request
      <4>3. \/ Pool!Enter(req[s].user, req[s].topic)
            \/ Pool!Pair(req[s].user, req[s].topic)
        BY <1>2, <3>4, QueuedMaps, PairingsMap
      <4>4. ASSUME NEW u \in Users, NEW topic \in Topics,
                   Pool!Enter(u, topic) \/ Pool!Pair(u, topic)
            PROVE  Pool!Next
        BY <4>4, Zenon DEF Pool!Next
      <4> QED
        BY <4>1, <4>2, <4>3, <4>4, Zenon DEF Pool!Enter, Pool!Pair
    <3> QED
      BY <3>1, <3>2, <3>3, <3>4 DEF Commits
  <2> QED
    BY <1>2, <2>1, <2>2 DEF Next, StepOf
<1>3. Inductive /\ Inductive' /\ AllFair /\ AllCloseTheirOwn /\ [Next]_vars
        => [Pool!Next]_(Pool!pvars)
  <2>1. UNCHANGED vars => UNCHANGED Pool!pvars
    BY StutterMaps DEF vars
  <2> QED
    BY <1>2, <2>1
<1> QED
  BY <1>1, <1>3, AlwaysCloseTheirOwn, AlwaysFair, AlwaysInductive, PTL
     DEF Spec, RefinesDebatePool, Pool!Spec

------------------------------------------------------------------------------
(* Waiting: whom a request waits for, and how a ring of waits is broken.     *)

\* A session that is about to close a room knows which.
ClosersKnow == \A s \in Sessions : pc[s] = "closing" => room[s] # None

LEMMA ClosingHasRoom ==
  ASSUME Inductive, NEW s \in Sessions, StepOf(s), pc'[s] = "closing"
  PROVE  room'[s] # None
<1> USE DEF Inductive, TypeOK, Goto, locks, At
<1>1. CASE Finish(s)
  BY <1>1 DEF Finish
<1>2. ASSUME NEW request, Begin(s, request) PROVE FALSE
  BY <1>2 DEF Begin
<1>3. ASSUME NEW label \in {"sweep", "unpair", "dequeue", "touch"}, NEW rows, Scan(s, label, rows)
      PROVE  FALSE
  BY <1>3 DEF Scan
<1>4. ASSUME NEW t \in Tickets, Visit(s, t), pc[s] # "closing" PROVE FALSE
  BY <1>4 DEF Visit
<1>5. CASE FindOpenRoom(s)
  BY <1>5, NoneAssumption DEF FindOpenRoom, Latest, ActiveRooms
<1>6. CASE ReadOpenRoom(s)
  BY <1>6, NoneAssumption DEF ReadOpenRoom, RequestShape
<1>7. CASE CloseRoom(s) \/ NobodyToClaim(s) \/ Enqueue(s) \/ FindNoRoom(s) \/ Claim(s) \/ CommitPoll(s)
  BY <1>7 DEF CloseRoom, NobodyToClaim, Enqueue, FindNoRoom, Claim, CommitPoll
<1>8. CASE \E t \in Tickets :
             SweepRow(s, t) \/ UnpairRow(s, t) \/ DequeueRow(s, t) \/ TouchRow(s, t)
  BY <1>4, <1>8 DEF SweepRow, UnpairRow, DequeueRow, TouchRow, DeleteRow
<1>9. CASE SweepScan(s) \/ UnpairScan(s) \/ DequeueScan(s) \/ TouchScan(s)
  BY <1>3, <1>9 DEF SweepScan, UnpairScan, DequeueScan, TouchScan
<1>10. CASE BeginJoin(s) \/ BeginPoll(s) \/ BeginLeave(s) \/ BeginEnd(s)
  BY <1>2, <1>10 DEF BeginJoin, BeginPoll, BeginLeave, BeginEnd
<1>11. CASE \/ RefuseArchived(s) \/ CommitPaired(s) \/ EnqueueConflict(s) \/ CommitQueued(s)
            \/ AnswerMatched(s) \/ AnswerQueued(s) \/ AnswerIdle(s) \/ CommitLeave(s)
            \/ AnswerEnd(s) \/ CommitEnd(s) \/ Rollback(s) \/ DeadlockVictim(s)
  BY <1>1, <1>11 DEF RefuseArchived, CommitPaired, EnqueueConflict, CommitQueued, AnswerMatched,
     AnswerQueued, AnswerIdle, CommitLeave, AnswerEnd, CommitEnd, Rollback, DeadlockVictim, Answer
<1> QED
  BY <1>5, <1>6, <1>7, <1>8, <1>9, <1>10, <1>11 DEF StepOf, Serve

LEMMA ClosersKnowInductive ==
  ASSUME Inductive, ClosersKnow, [Next]_vars
  PROVE  ClosersKnow'
<1>1. ASSUME NEW s \in Sessions, StepOf(s), NEW o \in Sessions, pc'[o] = "closing"
      PROVE  room'[o] # None
  <2>1. CASE o = s
    BY <1>1, <2>1, ClosingHasRoom
  <2>2. CASE o # s
    <3>1. room'[o] = room[o] /\ pc'[o] = pc[o]
      BY <1>1, <2>2, RoomOfOthers, OthersUnmoved DEF Inductive, Unmoved
    <3> QED
      BY <1>1, <3>1 DEF ClosersKnow
  <2> QED
    BY <2>1, <2>2
<1>2. ASSUME Tick \/ UNCHANGED vars PROVE ClosersKnow'
  BY <1>2 DEF ClosersKnow, Tick, vars, session
<1> QED
  BY <1>1, <1>2 DEF Next, StepOf, ClosersKnow

(* A session in the pool holds nothing, and waits for nothing.               *)
LEMMA OnlyServedAreInvolved ==
  ASSUME Inductive, ClosersKnow, NEW s \in Sessions, NEW o \in WaitsFor(s)
  PROVE  pc[s] # "idle" /\ pc[o] # "idle" /\ o \in Sessions
<1>1. o \in Sessions
  BY DEF WaitsFor
<1>2. CASE todo[s] \cap held[o] # {}
  BY <1>1, <1>2 DEF Inductive, IdleIsEmpty
<1>3. CASE pc[s] = "closing" /\ HoldsRoom(o, room[s])
  BY <1>1, <1>3 DEF Inductive, IdleIsEmpty, ClosersKnow, HoldsRoom
<1>4. CASE pc[s] = "dequeue" /\ Inserting(s, o)
  BY <1>1, <1>4 DEF Inductive, IdleIsEmpty, Inserting
<1> QED
  BY <1>1, <1>2, <1>3, <1>4 DEF WaitsFor

\* Whoever s waits for is in the set, if s is.
ClosedUnderWaiting(C) == \A s \in C : WaitsFor(s) \subseteq C

\* What is left of R inside a set closed under waiting.
Rings(R) ==
  {T \in SUBSET R : T # {} /\ \E C \in SUBSET Sessions : ClosedUnderWaiting(C) /\ T = R \cap C}

(* In the smallest of them everybody is on a cycle of waits: a set closed    *)
(* under waiting that leaves one of them out would cut out a smaller one.    *)
LEMMA SmallestRing ==
  ASSUME NEW R \in SUBSET Sessions, Stuck(R)
  PROVE  \E s \in R : Deadlocked(s)
<1> DEFINE Smaller == StrictSubsetOrdering(Sessions)
<1>1. IsWellFoundedOn(Smaller, SUBSET Sessions)
  <2>1. FiniteSubsetsOf(Sessions) = SUBSET Sessions
    BY SessionsAssumption, FS_FiniteSubsetsOfFinite
  <2> QED
    BY <2>1, FS_StrictSubsetOrderingWellFounded
<1>2. \A T, U \in SUBSET Sessions : T \subseteq U /\ T # U => <<T, U>> \in Smaller
  BY DEF StrictSubsetOrdering
<1> HIDE DEF Smaller
<1>3. Rings(R) \subseteq SUBSET Sessions /\ R \in Rings(R)
  <2>1. ClosedUnderWaiting(Sessions) /\ R = R \cap Sessions
    BY DEF ClosedUnderWaiting, WaitsFor
  <2> QED
    BY <2>1 DEF Rings, Stuck
<1>4. PICK T \in Rings(R) : \A U \in Rings(R) : ~(<<U, T>> \in Smaller)
  BY <1>1, <1>3, WFMin
<1>5. PICK C \in SUBSET Sessions : ClosedUnderWaiting(C) /\ T = R \cap C
  BY DEF Rings
<1>6. PICK s \in T : TRUE
  BY DEF Rings
<1>7. PICK o \in WaitsFor(s) \cap R : TRUE
  BY <1>5, <1>6 DEF Stuck
<1>8. ASSUME NEW D \in SUBSET Sessions, WaitsFor(s) \subseteq D, ClosedUnderWaiting(D), s \notin D
      PROVE  FALSE
  <2>1. ClosedUnderWaiting(C \cap D)
    BY <1>5, <1>8 DEF ClosedUnderWaiting
  <2>2. o \in R \cap (C \cap D)
    BY <1>5, <1>6, <1>7, <1>8 DEF ClosedUnderWaiting
  <2>3. R \cap (C \cap D) \in Rings(R)
    BY <2>1, <2>2 DEF Rings
  <2>4. /\ R \cap (C \cap D) \subseteq T /\ R \cap (C \cap D) # T
        /\ R \cap (C \cap D) \in SUBSET Sessions /\ T \in SUBSET Sessions
    BY <1>5, <1>6, <1>8
  <2> QED
    BY <1>2, <1>4, <2>3, <2>4
<1>9. Deadlocked(s)
  BY <1>7, <1>8 DEF Deadlocked, ClosedUnderWaiting
<1> QED
  BY <1>5, <1>6, <1>9

(* What the lock manager and the deadlock detector make of the statements of *)
(* services/match.py: a request only ever waits for one that is being        *)
(* served, and a ring of waits, of any length, has a victim in it.           *)
THEOREM DeadlocksAreAlwaysFound == Spec => []DeadlocksAreFound
<1>1. Init => ClosersKnow
  BY DEF Init, ClosersKnow
<1>2. Inductive /\ ClosersKnow /\ [Next]_vars => ClosersKnow'
  BY ClosersKnowInductive
<1>3. Inductive /\ ClosersKnow => DeadlocksAreFound
  BY OnlyServedAreInvolved, SmallestRing DEF DeadlocksAreFound
<1> QED
  BY <1>1, <1>2, <1>3, AlwaysInductive, PTL DEF Spec

------------------------------------------------------------------------------
(* Requests that do not overlap.                                             *)

OneAtATime == \A s, o \in Sessions : s = o

\* Who waits is in no debate, and nobody is in two.
TablesApart ==
  /\ \A t \in Live : ActiveRooms(queue[t].user) = {}
  /\ \A u \in Users : \A q, r \in ActiveRooms(u) : q = r

\* What a request has read is so until it commits.
ReadsHold(s) ==
  /\ room[s] # None => rooms[room[s]].ended = None
  /\ pc[s] \notin {"idle", "begun"} /\ req[s].op = "join" => ActiveRooms(req[s].user) \subseteq {room[s]}
  /\ pc[s] \notin {"idle", "begun"} /\ req[s].op = "poll" => ActiveRooms(req[s].user) = {}
  /\ pc[s] = "unpair" => PairRows(s) \subseteq todo[s]

AloneInv == TablesApart /\ \A s \in Sessions : ReadsHold(s)

(* A commit closes the room the request found, and no other.                 *)
LEMMA RoomsAfterShrink ==
  ASSUME Inductive, NEW s \in Sessions, pc[s] # "idle", NEW r \in Rooms,
         RoomsAfter(s)[r] # None, RoomsAfter(s)[r].ended = None
  PROVE  /\ r # room[s] /\ RoomsAfter(s)[r] = rooms[r]
<1>1. req[s].start \in Time
  BY DEF Inductive, TypeOK, Request
<1>2. CASE r = room[s]
  <2>1. rooms[r] \in DebateRoom
    BY <1>2, NoneAssumption DEF Inductive, TypeOK, ClosesARoom
  <2>2. RoomsAfter(s)[r] = [rooms[r] EXCEPT !.ended = req[s].start]
    BY <1>2 DEF RoomsAfter
  <2>3. RoomsAfter(s)[r].ended = req[s].start
    BY <2>1, <2>2 DEF DebateRoom
  <2> QED
    BY <1>1, <2>3, NoneAssumption
<1>3. CASE r # room[s]
  BY <1>3 DEF RoomsAfter
<1> QED
  BY <1>2, <1>3

LEMMA ActiveAfter ==
  ASSUME Inductive, NEW s \in Sessions, pc[s] # "idle", rooms' = RoomsAfter(s), NEW u
  PROVE  ActiveRooms(u)' \subseteq ActiveRooms(u) \ {room[s]}
<1> SUFFICES ASSUME NEW r \in ActiveRooms(u)' PROVE r \in ActiveRooms(u) \ {room[s]}
  OBVIOUS
<1>1. r \in Rooms /\ rooms'[r] # None /\ u \in {rooms'[r].user1, rooms'[r].user2} /\ rooms'[r].ended = None
  BY DEF ActiveRooms, IsParticipant
<1>2. r # room[s] /\ rooms'[r] = rooms[r]
  BY <1>1, RoomsAfterShrink
<1> QED
  BY <1>1, <1>2 DEF ActiveRooms, IsParticipant

LEMMA ApartWhenUnwritten ==
  ASSUME TablesApart, UNCHANGED tables
  PROVE  TablesApart'
BY DEF TablesApart, tables, Live, ActiveRooms, IsParticipant

LEMMA MovesOn ==
  ASSUME NEW s \in Sessions, ReadsHold(s), UNCHANGED tables, req'[s] = req[s], room'[s] = room[s],
         pc[s] \notin {"idle", "begun"}, pc'[s] # "unpair"
  PROVE  ReadsHold(s)'
BY DEF ReadsHold, tables, ActiveRooms, IsParticipant

LEMMA AnsweredHolds ==
  ASSUME TypeOK, NEW s \in Sessions, Finish(s)
  PROVE  ReadsHold(s)'
BY DEF ReadsHold, TypeOK, Finish, Goto

LEMMA ArrivalHolds ==
  ASSUME Inductive, NEW s \in Sessions, NEW request, Begin(s, request)
  PROVE  ReadsHold(s)'
BY DEF ReadsHold, Inductive, TypeOK, IdleIsEmpty, Begin, Goto

LEMMA LookupHolds ==
  ASSUME Inductive, TablesApart, NEW s \in Sessions, ReadsHold(s),
         FindOpenRoom(s) \/ FindNoRoom(s) \/ ReadOpenRoom(s)
  PROVE  ReadsHold(s)'
<1> USE DEF Inductive, TypeOK, At, Goto, tables
<1>1. CASE FindOpenRoom(s)
  <2>1. /\ req'[s] = req[s] /\ rooms' = rooms /\ pc'[s] \in {"ready", "closing"}
        /\ req[s].op = "join" /\ req[s].user \in Users
    BY <1>1 DEF FindOpenRoom, Request
  <2>2. CASE ActiveRooms(req[s].user) = {} /\ UNCHANGED room
    BY <2>1, <2>2 DEF ReadsHold, ActiveRooms, IsParticipant
  <2>3. CASE \E r \in Latest(ActiveRooms(req[s].user)) : room' = [room EXCEPT ![s] = r]
    <3>1. PICK r \in ActiveRooms(req[s].user) : room' = [room EXCEPT ![s] = r]
      BY <2>3 DEF Latest
    <3>2. ActiveRooms(req[s].user) \subseteq {r}
      BY <2>1 DEF TablesApart
    <3>3. room'[s] = r /\ rooms[r].ended = None
      BY <3>1 DEF ActiveRooms
    <3> QED
      BY <2>1, <3>2, <3>3 DEF ReadsHold, ActiveRooms, IsParticipant
  <2> QED
    BY <1>1, <2>2, <2>3 DEF FindOpenRoom
<1>2. CASE FindNoRoom(s)
  BY <1>2 DEF FindNoRoom, ReadsHold, ActiveRooms, IsParticipant
<1>3. CASE ReadOpenRoom(s)
  BY <1>3 DEF ReadOpenRoom, ReadsHold
<1> QED
  BY <1>1, <1>2, <1>3

LEMMA UnpairingHolds ==
  ASSUME Inductive, NEW s \in Sessions, ReadsHold(s),
         UnpairScan(s) \/ \E t \in Tickets : UnpairRow(s, t)
  PROVE  ReadsHold(s)'
<1> USE DEF Inductive, TypeOK, At, Goto, tables, locks
<1>1. CASE UnpairScan(s)
  BY <1>1 DEF UnpairScan, Scan, ReadsHold, ActiveRooms, IsParticipant, PairRows, Visible, Live
<1>2. ASSUME NEW t \in Tickets, UnpairRow(s, t) PROVE ReadsHold(s)'
  <2>1. /\ UNCHANGED tables /\ req'[s] = req[s] /\ room'[s] = room[s] /\ claim'[s] = claim[s]
        /\ pc[s] = "unpair" /\ pc'[s] = "unpair" /\ req[s].op = "join"
        /\ todo'[s] = todo[s] \ {t} /\ dead'[s] = dead[s] \cup ({t} \cap PairRows(s))
    BY <1>2 DEF UnpairRow, DeleteRow, Visit
  <2>2. PairRows(s)' \subseteq PairRows(s) \ {t}
    BY <2>1 DEF PairRows, Visible, Live
  <2>3. PairRows(s)' \subseteq todo'[s]
    BY <2>1, <2>2 DEF ReadsHold
  <2> QED
    BY <2>1, <2>3 DEF ReadsHold, ActiveRooms, IsParticipant
<1> QED
  BY <1>1, <1>2

LEMMA QuietHolds ==
  ASSUME Inductive, TablesApart, NEW s \in Sessions, ReadsHold(s), StepOf(s), ~Commits(s)
  PROVE  ReadsHold(s)'
<1>0. UNCHANGED tables
  BY OnlyCommitsWrite
<1>1. ASSUME Answer(s) PROVE ReadsHold(s)'
  BY <1>1, AnsweredHolds DEF Inductive, Answer
<1>2. CASE BeginJoin(s) \/ BeginPoll(s) \/ BeginLeave(s) \/ BeginEnd(s)
  BY <1>2, ArrivalHolds DEF BeginJoin, BeginPoll, BeginLeave, BeginEnd
<1>3. CASE FindOpenRoom(s) \/ FindNoRoom(s) \/ ReadOpenRoom(s)
  BY <1>3, LookupHolds
<1>4. CASE UnpairScan(s) \/ \E t \in Tickets : UnpairRow(s, t)
  BY <1>4, UnpairingHolds
<1>5. CASE DequeueScan(s) /\ At(s, "begun", {"leave"})
  BY <1>5 DEF DequeueScan, Scan, ReadsHold, At, Goto, Inductive, TypeOK, tables
<1>6. CASE \/ CloseRoom(s) \/ NobodyToClaim(s) \/ Enqueue(s) \/ Claim(s) \/ SweepScan(s)
           \/ TouchScan(s) \/ (DequeueScan(s) /\ ~At(s, "begun", {"leave"}))
  <2>1. /\ req'[s] = req[s] /\ room'[s] = room[s] /\ pc'[s] # "unpair"
        /\ pc[s] \notin {"idle", "begun"}
    BY <1>6 DEF CloseRoom, NobodyToClaim, Enqueue, Claim, SweepScan, TouchScan, DequeueScan, Scan,
       At, Goto, Inductive, TypeOK
  <2> QED
    BY <1>0, <2>1, MovesOn
<1>7. CASE \E t \in Tickets : SweepRow(s, t) \/ DequeueRow(s, t) \/ TouchRow(s, t)
  <2>1. /\ req'[s] = req[s] /\ room'[s] = room[s] /\ pc'[s] = pc[s]
        /\ pc[s] \in {"sweep", "dequeue", "touch"}
    BY <1>7 DEF SweepRow, DequeueRow, TouchRow, DeleteRow, Visit, At
  <2> QED
    BY <1>0, <2>1, MovesOn
<1>8. CASE \/ RefuseArchived(s) \/ EnqueueConflict(s) \/ AnswerMatched(s) \/ AnswerQueued(s)
           \/ AnswerIdle(s) \/ AnswerEnd(s) \/ Rollback(s) \/ DeadlockVictim(s)
  BY <1>1, <1>8 DEF RefuseArchived, EnqueueConflict, AnswerMatched, AnswerQueued, AnswerIdle,
     AnswerEnd, Rollback, DeadlockVictim
<1> QED
  BY <1>2, <1>3, <1>4, <1>5, <1>6, <1>7, <1>8 DEF StepOf, Serve, Commits

(* The queue after a commit has some of the rows, with their users.          *)
LEMMA QueueShrinks ==
  ASSUME Inductive, NEW s \in Sessions, pc[s] # "idle", queue' = QueueAfter(s), NEW t \in Live'
  PROVE  t \in Live \ dead[s] /\ queue'[t].user = queue[t].user
BY EntriesAfter DEF Live

LEMMA CommitPollHolds ==
  ASSUME Inductive, TablesApart, NEW s \in Sessions, ReadsHold(s), CommitPoll(s)
  PROVE  TablesApart' /\ ReadsHold(s)'
<1>1. /\ queue' = QueueAfter(s) /\ rooms' = rooms /\ req'[s] = req[s] /\ room'[s] = room[s]
      /\ pc[s] = "sweep" /\ pc'[s] = "polled"
  BY DEF CommitPoll, At, Goto, Inductive, TypeOK
<1>2. \A t \in Live' : t \in Live /\ queue'[t].user = queue[t].user
  BY <1>1, QueueShrinks
<1>3. TablesApart'
  BY <1>1, <1>2 DEF TablesApart, ActiveRooms, IsParticipant
<1>4. ReadsHold(s)'
  BY <1>1 DEF ReadsHold, ActiveRooms, IsParticipant
<1> QED
  BY <1>3, <1>4

LEMMA CommitLeaveHolds ==
  ASSUME Inductive, TablesApart, NEW s \in Sessions, CommitLeave(s)
  PROVE  TablesApart'
<1>1. queue' = QueueAfter(s) /\ rooms' = rooms /\ pc[s] # "idle"
  BY DEF CommitLeave, At
<1>2. \A t \in Live' : t \in Live /\ queue'[t].user = queue[t].user
  BY <1>1, QueueShrinks
<1> QED
  BY <1>1, <1>2 DEF TablesApart, ActiveRooms, IsParticipant

LEMMA CommitEndHolds ==
  ASSUME Inductive, TablesApart, NEW s \in Sessions, CommitEnd(s)
  PROVE  TablesApart'
<1>1. queue' = queue /\ rooms' = RoomsAfter(s) /\ pc[s] # "idle"
  BY DEF CommitEnd, At
<1>2. ASSUME NEW u PROVE ActiveRooms(u)' \subseteq ActiveRooms(u)
  BY <1>1, ActiveAfter
<1>3. ASSUME NEW t \in Live' PROVE ActiveRooms(queue[t].user)' = {}
  <2>1. t \in Live /\ queue'[t] = queue[t]
    BY <1>1 DEF Live
  <2> DEFINE u == queue[t].user
  <2>2. ActiveRooms(u) = {}
    BY <2>1 DEF TablesApart
  <2>3. PICK w : w = u
    OBVIOUS
  <2>4. ActiveRooms(w)' = {}
    BY <1>2, <2>2, <2>3
  <2>5. queue'[t].user = w
    BY <2>1, <2>3
  <2> QED
    BY <2>4, <2>5 DEF ActiveRooms, IsParticipant
<1> QED
  BY <1>1, <1>2, <1>3 DEF TablesApart

(* A join that finds nobody closes the debate its user was in.               *)
LEMMA CommitQueuedHolds ==
  ASSUME Inductive, TablesApart, NEW s \in Sessions, ReadsHold(s), CommitQueued(s)
  PROVE  TablesApart'
<1> DEFINE row == [user |-> req[s].user, topic |-> req[s].topic,
                   created |-> req[s].start, seen |-> req[s].start]
<1>1. /\ pc[s] = "inserted" /\ req[s].op = "join" /\ rooms' = RoomsAfter(s)
      /\ queue' = [QueueAfter(s) EXCEPT ![issued + 1] = row]
  BY DEF CommitQueued, At
<1>2. ASSUME NEW u PROVE ActiveRooms(u)' \subseteq ActiveRooms(u) \ {room[s]}
  BY <1>1, ActiveAfter
<1>3. \A u \in Users : \A q, r \in ActiveRooms(u)' : q = r
  BY <1>2 DEF TablesApart
<1>4. ASSUME NEW t \in Live' PROVE ActiveRooms(queue[t].user)' = {}
  <2>1. QueueAfter(s) \in [Tickets -> QueueEntry \cup {None}]
    BY <1>1, QueueAfterCommit
  <2>2. t \in Tickets /\ queue'[t] # None
    BY DEF Live
  <2>3. PICK w : w = queue'[t].user
    OBVIOUS
  <2>4. ActiveRooms(w) \ {room[s]} = {}
    <3>1. CASE t = issued + 1
      <4>1. w = req[s].user
        BY <1>1, <2>1, <2>2, <2>3, <3>1
      <4> QED
        BY <1>1, <4>1 DEF ReadsHold
    <3>2. CASE t # issued + 1
      <4>1. queue'[t] = QueueAfter(s)[t]
        BY <1>1, <2>1, <2>2, <3>2
      <4>2. t \in Live /\ w = queue[t].user
        BY <1>1, <2>2, <2>3, <4>1, EntriesAfter
      <4> QED
        BY <4>2 DEF TablesApart
    <3> QED
      BY <3>1, <3>2
  <2>5. ActiveRooms(w)' = {}
    BY <1>2, <2>4
  <2> QED
    BY <2>3, <2>5 DEF ActiveRooms, IsParticipant
<1> QED
  BY <1>3, <1>4 DEF TablesApart

(* A join that pairs closes the debate its user was in, takes both people    *)
(* out of the queue and opens one room.                                      *)
LEMMA CommitPairedHolds ==
  ASSUME Inductive, TablesApart, NEW s \in Sessions, ReadsHold(s), CommitPaired(s)
  PROVE  TablesApart'
<1> DEFINE opening == [topic |-> req[s].topic, user1 |-> claim[s].user,
                       user2 |-> req[s].user, started |-> req[s].start,
                       ended |-> None, from |-> claim[s].entry]
<1>1. /\ pc[s] = "unpair" /\ req[s].op = "join" /\ todo[s] = {} /\ queue' = QueueAfter(s)
      /\ rooms' = [RoomsAfter(s) EXCEPT ![opened + 1] = opening]
  BY DEF CommitPaired, At
<1>2. /\ claim[s] # None /\ claim[s].entry \in Live
      /\ queue[claim[s].entry].user = claim[s].user
  BY <1>1 DEF Inductive, ClaimedRowGoes, LocksProtectWrites
<1>3. ActiveRooms(claim[s].user) = {}
  BY <1>2 DEF TablesApart
<1>4. ActiveRooms(req[s].user) \subseteq {room[s]}
  BY <1>1 DEF ReadsHold
<1>5. RoomsAfter(s) \in [Rooms -> DebateRoom \cup {None}]
  BY <1>1, RoomsAfterCommit
<1>6. \A r \in Rooms : r # opened + 1 => rooms'[r] = RoomsAfter(s)[r]
  BY <1>1, <1>5
<1>7. ASSUME NEW u, NEW r \in ActiveRooms(u)', r # opened + 1
      PROVE  r \in ActiveRooms(u) \ {room[s]}
  <2>1. /\ r \in Rooms /\ rooms'[r] # None /\ rooms'[r].ended = None
        /\ u \in {rooms'[r].user1, rooms'[r].user2}
    BY DEF ActiveRooms, IsParticipant
  <2>2. rooms'[r] = RoomsAfter(s)[r]
    BY <1>6, <1>7, <2>1
  <2>3. r # room[s] /\ RoomsAfter(s)[r] = rooms[r]
    BY <1>1, <2>1, <2>2, RoomsAfterShrink
  <2> QED
    BY <2>1, <2>2, <2>3 DEF ActiveRooms, IsParticipant
<1>8. ASSUME NEW u, opened + 1 \in ActiveRooms(u)'
      PROVE  u \in {req[s].user, claim[s].user}
  <2>1. PICK n \in Rooms : n = opened + 1
    BY <1>8 DEF ActiveRooms
  <2>2. rooms'[n] = opening
    BY <1>1, <1>5, <2>1
  <2>3. u \in {rooms'[n].user1, rooms'[n].user2}
    BY <1>8, <2>1 DEF ActiveRooms, IsParticipant
  <2> QED
    BY <2>2, <2>3
<1>9. ASSUME NEW u \in Users, NEW q \in ActiveRooms(u)', NEW r \in ActiveRooms(u)'
      PROVE  q = r
  <2>1. CASE opened + 1 \in ActiveRooms(u)'
    <3>1. ActiveRooms(u) \ {room[s]} = {}
      BY <1>3, <1>4, <1>8, <2>1
    <3> QED
      BY <1>7, <3>1
  <2>2. CASE opened + 1 \notin ActiveRooms(u)'
    <3>1. q \in ActiveRooms(u) /\ r \in ActiveRooms(u)
      BY <1>7, <2>2
    <3> QED
      BY <3>1 DEF TablesApart
  <2> QED
    BY <2>1, <2>2
<1>10. ASSUME NEW t \in Live' PROVE ActiveRooms(queue[t].user)' = {}
  <2>1. t \in Live \ dead[s] /\ queue'[t].user = queue[t].user
    BY <1>1, QueueShrinks
  <2>2. PICK w : w = queue[t].user
    OBVIOUS
  <2>3. w \notin {req[s].user, claim[s].user}
    BY <1>1, <2>1, <2>2 DEF ReadsHold, PairRows, Visible
  <2>4. ActiveRooms(w) = {}
    BY <2>1, <2>2 DEF TablesApart
  <2>5. ActiveRooms(w)' = {}
    BY <1>7, <1>8, <2>3, <2>4
  <2> QED
    BY <2>1, <2>2, <2>5 DEF ActiveRooms, IsParticipant
<1> QED
  BY <1>9, <1>10 DEF TablesApart

LEMMA AloneInductive ==
  ASSUME OneAtATime, Inductive, AloneInv, [Next]_vars
  PROVE  AloneInv'
<1>1. ASSUME NEW s \in Sessions, StepOf(s) PROVE AloneInv'
  <2>1. TablesApart /\ ReadsHold(s) /\ \A o \in Sessions : o = s
    BY <1>1 DEF AloneInv, OneAtATime
  <2>2. CASE ~Commits(s)
    <3>1. TablesApart' /\ ReadsHold(s)'
      BY <1>1, <2>1, <2>2, OnlyCommitsWrite, ApartWhenUnwritten, QuietHolds
    <3> QED
      BY <2>1, <3>1 DEF AloneInv
  <2>3. CASE CommitPoll(s)
    <3>1. TablesApart' /\ ReadsHold(s)'
      BY <2>1, <2>3, CommitPollHolds
    <3> QED
      BY <2>1, <3>1 DEF AloneInv
  <2>4. CASE CommitLeave(s) \/ CommitEnd(s) \/ CommitQueued(s) \/ CommitPaired(s)
    <3>1. TablesApart'
      BY <2>1, <2>4, CommitLeaveHolds, CommitEndHolds, CommitQueuedHolds, CommitPairedHolds
    <3>2. Finish(s)
      BY <2>4 DEF CommitLeave, CommitEnd, CommitQueued, CommitPaired
    <3>3. ReadsHold(s)'
      BY <3>2, AnsweredHolds DEF Inductive
    <3> QED
      BY <2>1, <3>1, <3>3 DEF AloneInv
  <2> QED
    BY <2>2, <2>3, <2>4 DEF Commits
<1>2. ASSUME UNCHANGED <<tables, session>> PROVE AloneInv'
  <2>1. TablesApart'
    BY <1>2, ApartWhenUnwritten DEF AloneInv
  <2>2. ASSUME NEW s \in Sessions PROVE ReadsHold(s)'
    BY <1>2 DEF AloneInv, ReadsHold, tables, session, locks, ActiveRooms, IsParticipant,
       PairRows, Visible, Live
  <2> QED
    BY <2>1, <2>2 DEF AloneInv
<1> QED
  BY <1>1, <1>2 DEF Next, StepOf, Tick, vars

LEMMA AlwaysAlone == OneAtATime => (Spec => [](Inductive /\ AloneInv))
<1>1. Init => AloneInv
  BY DEF Init, AloneInv, TablesApart, ReadsHold, Live, ActiveRooms, IsParticipant
<1>2. OneAtATime /\ Inductive /\ AloneInv /\ [Next]_vars => AloneInv'
  BY AloneInductive
<1> SUFFICES ASSUME OneAtATime PROVE Spec => [](Inductive /\ AloneInv)
  OBVIOUS
<1>3. Inductive /\ AloneInv /\ [Next]_vars => AloneInv'
  BY <1>2
<1> QED
  BY <1>1, <1>3, AlwaysInductive, PTL DEF Spec

\* What tests/test_match_concurrency.py says of a waiting user - "exactly one
\* room, never two" - is so when requests do not overlap: what breaks it in
\* MCDoubleBooked is the overlap alone, not a request by itself.
THEOREM AloneNobodyIsDoubleBooked ==
  ASSUME OneAtATime PROVE Spec => []NobodyIsDoubleBooked
<1>1. Inductive /\ AloneInv => NobodyIsDoubleBooked
  <2> SUFFICES ASSUME Inductive, AloneInv, NEW u \in Users
               PROVE  Cardinality(ActiveRooms(u)) <= 1
    BY DEF NobodyIsDoubleBooked
  <2>1. CASE ActiveRooms(u) = {}
    BY <2>1, FS_EmptySet
  <2>2. CASE ActiveRooms(u) # {}
    <3>1. PICK r \in ActiveRooms(u) : TRUE
      BY <2>2
    <3>2. ActiveRooms(u) = {r}
      BY <3>1 DEF AloneInv, TablesApart
    <3>3. Cardinality({r}) = 1
      BY FS_Singleton
    <3> QED
      BY <3>2, <3>3
  <2> QED
    BY <2>1, <2>2
<1>2. Spec => [](Inductive /\ AloneInv)
  BY AlwaysAlone
<1> QED
  BY <1>1, <1>2, PTL

\* What end_room says of itself - "an already-ended room keeps its original
\* end time" - is so when requests do not overlap.
THEOREM AloneEndTimeIsKept == ASSUME OneAtATime PROVE Spec => EndTimeIsKept
<1> DEFINE Kept1(r) == rooms[r] # None /\ rooms[r].ended # None => rooms'[r].ended = rooms[r].ended
<1>1. ASSUME Inductive, AloneInv, NEW s \in Sessions, StepOf(s), NEW r \in Rooms,
             rooms[r] # None, rooms[r].ended # None
      PROVE  rooms'[r] = rooms[r]
  <2>1. CASE UNCHANGED tables
    BY <2>1 DEF tables
  <2>2. CASE Commits(s)
    <3>1. room[s] # r
      BY <1>1, NoneAssumption DEF AloneInv, ReadsHold
    <3>2. RoomsAfter(s)[r] = rooms[r]
      BY <3>1 DEF RoomsAfter
    <3>3. CASE CommitPaired(s)
      <4>1. r # opened + 1
        BY <1>1 DEF Inductive, TypeOK, KeysIssued
      <4>2. rooms'[r] = RoomsAfter(s)[r]
        BY <3>3, <4>1 DEF CommitPaired, RoomsAfter
      <4> QED
        BY <3>2, <4>2
    <3>4. CASE CommitQueued(s) \/ CommitEnd(s)
      BY <3>2, <3>4 DEF CommitQueued, CommitEnd
    <3>5. CASE CommitPoll(s) \/ CommitLeave(s)
      BY <3>5 DEF CommitPoll, CommitLeave
    <3> QED
      BY <2>2, <3>3, <3>4, <3>5 DEF Commits
  <2> QED
    BY <1>1, <2>1, <2>2, OnlyCommitsWrite
<1>2. Inductive /\ AloneInv /\ [Next]_vars => [\A r \in Rooms : Kept1(r)]_vars
  <2> SUFFICES ASSUME Inductive, AloneInv, Next, NEW r \in Rooms PROVE Kept1(r)
    OBVIOUS
  <2>1. CASE Tick
    BY <2>1 DEF Tick, tables
  <2>2. CASE \E s \in Sessions : StepOf(s)
    BY <1>1, <2>2
  <2> QED
    BY <2>1, <2>2 DEF Next, StepOf
<1>3. Spec => [](Inductive /\ AloneInv)
  BY AlwaysAlone
<1> QED
  BY <1>2, <1>3, PTL DEF Spec, EndTimeIsKept

\* What MatchStatus.IDLE says - "neither queued nor in a room" - is so of a
\* poll that no other request overlaps.
THEOREM AloneIdleIsIdle == ASSUME OneAtATime PROVE Spec => IdleIsIdle
<1>1. Inductive /\ AloneInv /\ [Next]_vars =>
        [\A s \in Sessions : AnswerIdle(s) =>
           ActiveRooms(req[s].user) = {} /\ OwnRows(s) = {}]_vars
  BY DEF AnswerIdle, At, AloneInv, ReadsHold
<1>2. Spec => [](Inductive /\ AloneInv)
  BY AlwaysAlone
<1> QED
  BY <1>1, <1>2, PTL DEF Spec, IdleIsIdle
=============================================================================
