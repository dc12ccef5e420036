----------------------------- MODULE Matchmaking -----------------------------
(***************************************************************************)
(* The matchmaking backend: the four requests of api/v1/match.py, served   *)
(* by services/match.py over the match_queue and debate_rooms tables.      *)
(*                                                                         *)
(* A request is one transaction of a pooled database session, at           *)
(* PostgreSQL's default isolation, READ COMMITTED.  A session takes one    *)
(* step per statement, and one per row of an UPDATE or a DELETE, so        *)
(* everything two requests can do to each other in between is a behaviour: *)
(*   - a statement finds its rows in a snapshot of the committed tables    *)
(*     taken when it starts (the *Scan actions);                           *)
(*   - it then visits the rows one at a time, waits while another          *)
(*     transaction holds a row's lock, and re-evaluates its WHERE clause   *)
(*     on the row as it is by then (the *Row actions);                     *)
(*   - writes become visible, and locks are released, at COMMIT;           *)
(*   - a ROLLBACK (a dead worker, a lost connection, a cancelled request,  *)
(*     a deadlock victim) can end the transaction after any step.          *)
(* now() is the time the transaction began, which is req[s].start.         *)
(***************************************************************************)
EXTENDS Naturals, FiniteSets

CONSTANTS
  Users,       \* users.id
  Topics,      \* topics.id
  Archived,    \* the topics whose status is ARCHIVED (no code path changes it)
  Sessions,    \* pooled database sessions, over all worker processes
  MaxTickets,  \* a bound on how many match_queue rows are ever inserted
  MaxRooms,    \* a bound on how many debate_rooms rows are ever inserted
  Ops,         \* the requests this instance serves
  StaleAfter,  \* QUEUE_STALE_AFTER
  MaxClock,    \* a bound on the clock
  None         \* SQL NULL, and "no such row"

Time == 0..MaxClock

\* The primary keys, match_queue.id and debate_rooms.id, in order of insertion.
Tickets == 1..MaxTickets
Rooms == 1..MaxRooms

QueueEntry == [user : Users, topic : Topics, created : Time, seen : Time]

\* "from" is history: the queue row the room was made of.
DebateRoom == [topic : Topics, user1 : Users, user2 : Users,
               started : Time, ended : Time \cup {None}, from : Tickets]

\* What the code keeps of the row claim_waiting_opponent returned.
Opponent == [entry : Tickets, user : Users]

Request == [op : {"join", "poll", "leave", "end"}, user : Users,
            topic : Topics \cup {None}, room : Rooms \cup {None}, start : Time]

ASSUME OpsAssumption == Ops \subseteq {"join", "poll", "leave", "end"}
ASSUME ArchivedAssumption == Archived \subseteq Topics
ASSUME BoundsAssumption ==
         MaxClock \in Nat /\ StaleAfter \in Nat /\ MaxTickets \in Nat /\ MaxRooms \in Nat
ASSUME SessionsAssumption == IsFiniteSet(Sessions)
ASSUME NoneAssumption ==
         /\ None \notin Tickets /\ None \notin Rooms /\ None \notin Time
         /\ None \notin QueueEntry /\ None \notin DebateRoom
         /\ None \notin Request /\ None \notin Opponent

VARIABLES
  clock,    \* the database server's clock
  queue,    \* match_queue, as committed: ticket -> row, or None
  issued,   \* how many rows match_queue has ever had
  rooms,    \* debate_rooms, as committed
  opened,   \* how many rooms debate_rooms has
  pc,       \* the statement a session is executing or has just executed
  req,      \* the request a session serves, None between requests
  room,     \* the room this transaction closes, or wants to close
  todo,     \* rows the current statement has found and not yet visited
  held,     \* rows this transaction has locked
  dead,     \* rows this transaction has deleted
  touched,  \* rows whose last_seen_at this transaction has set to now()
  claim     \* the row claim_waiting_opponent returned

locks == <<todo, held, dead, touched>>
tables == <<queue, issued, rooms, opened>>
session == <<pc, req, room, locks, claim>>
vars == <<clock, tables, session>>

PCs == {"idle", "begun", "closing", "ready", "touch", "sweep", "claimed",
        "unpair", "unclaimed", "dequeue", "inserted", "polled"}

TypeOK ==
  /\ clock \in Time
  /\ queue \in [Tickets -> QueueEntry \cup {None}]
  /\ issued \in 0..MaxTickets
  /\ rooms \in [Rooms -> DebateRoom \cup {None}]
  /\ opened \in 0..MaxRooms
  /\ pc \in [Sessions -> PCs]
  /\ req \in [Sessions -> Request \cup {None}]
  /\ room \in [Sessions -> Rooms \cup {None}]
  /\ todo \in [Sessions -> SUBSET Tickets]
  /\ held \in [Sessions -> SUBSET Tickets]
  /\ dead \in [Sessions -> SUBSET Tickets]
  /\ touched \in [Sessions -> SUBSET Tickets]
  /\ claim \in [Sessions -> Opponent \cup {None}]
  /\ \A s \in Sessions : pc[s] = "idle" <=> req[s] = None

Init ==
  /\ clock = 0
  /\ queue = [t \in Tickets |-> None]
  /\ issued = 0
  /\ rooms = [r \in Rooms |-> None]
  /\ opened = 0
  /\ pc = [s \in Sessions |-> "idle"]
  /\ req = [s \in Sessions |-> None]
  /\ room = [s \in Sessions |-> None]
  /\ todo = [s \in Sessions |-> {}]
  /\ held = [s \in Sessions |-> {}]
  /\ dead = [s \in Sessions |-> {}]
  /\ touched = [s \in Sessions |-> {}]
  /\ claim = [s \in Sessions |-> None]

------------------------------------------------------------------------------
(* What a statement of session s reads.                                      *)

Live == {t \in Tickets : queue[t] # None}

Visible(s) == Live \ dead[s]

\* last_seen_at < now() - QUEUE_STALE_AFTER, for a row seen at time "seen".
IsStale(seen, now) == seen + StaleAfter < now

SeenBy(s, t) == IF t \in touched[s] THEN req[s].start ELSE queue[t].seen

OwnRows(s) == {t \in Visible(s) : queue[t].user = req[s].user}

StaleRows(s) == {t \in Visible(s) : IsStale(SeenBy(s, t), req[s].start)}

\* Mutant: only the caller is taken out of the queue.
PairRows_Own(s) == {t \in Visible(s) : queue[t].user = req[s].user}

PairRows(s) ==
  {t \in Visible(s) : queue[t].user \in {req[s].user, claim[s].user}}

LockedByOther(s, t) == \E o \in Sessions \ {s} : t \in held[o]

\* Mutant: no check that the opponent is still polling.
Candidates_Stale(s) ==
  {t \in Visible(s) : /\ queue[t].topic = req[s].topic
                      /\ queue[t].user # req[s].user
                      /\ ~LockedByOther(s, t)}

\* Mutant: FOR UPDATE without SKIP LOCKED's exclusion.
Candidates_Locked(s) ==
  {t \in Visible(s) : /\ queue[t].topic = req[s].topic
                      /\ queue[t].user # req[s].user
                      /\ ~IsStale(SeenBy(s, t), req[s].start)}

\* The rows claim_waiting_opponent chooses from, SKIP LOCKED included.
Candidates(s) ==
  {t \in Visible(s) : /\ queue[t].topic = req[s].topic
                      /\ queue[t].user # req[s].user
                      /\ ~IsStale(SeenBy(s, t), req[s].start)
                      /\ ~LockedByOther(s, t)}

Oldest(rows) == {t \in rows : \A o \in rows : queue[t].created <= queue[o].created}

IsParticipant(u, r) == rooms[r] # None /\ u \in {rooms[r].user1, rooms[r].user2}

ActiveRooms(u) == {r \in Rooms : IsParticipant(u, r) /\ rooms[r].ended = None}

Latest(rs) == {r \in rs : \A o \in rs : rooms[o].started <= rooms[r].started}

\* The row lock an UPDATE of debate_rooms takes, from the update to the commit.
HoldsRoom(s, r) == room[s] = r /\ pc[s] # "closing"

------------------------------------------------------------------------------
(* How a statement, and a transaction, proceeds.                             *)

Goto(s, label) == pc' = [pc EXCEPT ![s] = label]

\* A DELETE or an UPDATE starts: the snapshot gives the rows to visit.
Scan(s, label, rows) ==
  /\ Goto(s, label)
  /\ todo' = [todo EXCEPT ![s] = rows]
  /\ UNCHANGED <<clock, tables, req, room, held, dead, touched, claim>>

\* The statement gets to row t: it locks the row if it still exists.
Visit(s, t) ==
  /\ t \in todo[s]
  /\ ~LockedByOther(s, t)
  /\ todo' = [todo EXCEPT ![s] = @ \ {t}]
  /\ held' = [held EXCEPT ![s] = @ \cup ({t} \cap Live)]
  /\ UNCHANGED <<clock, tables, pc, req, room, claim>>

\* ... and deletes it if it still qualifies, which is if it is one of "rows".
DeleteRow(s, t, rows) ==
  /\ Visit(s, t)
  /\ dead' = [dead EXCEPT ![s] = @ \cup ({t} \cap rows)]
  /\ UNCHANGED touched

\* Mutant: the session is released with its transaction still open.
Finish_KeepsLocks(s) ==
  /\ Goto(s, "idle")
  /\ req' = [req EXCEPT ![s] = None]
  /\ room' = [room EXCEPT ![s] = None]
  /\ todo' = [todo EXCEPT ![s] = {}]
  /\ claim' = [claim EXCEPT ![s] = None]
  /\ UNCHANGED <<clock, held, dead, touched>>

\* Mutant: the session goes back to the pool with the request still on it.
Finish_KeepsRequest(s) ==
  /\ Goto(s, "idle")
  /\ room' = [room EXCEPT ![s] = None]
  /\ todo' = [todo EXCEPT ![s] = {}]
  /\ held' = [held EXCEPT ![s] = {}]
  /\ dead' = [dead EXCEPT ![s] = {}]
  /\ touched' = [touched EXCEPT ![s] = {}]
  /\ claim' = [claim EXCEPT ![s] = None]
  /\ UNCHANGED <<clock, req>>

\* The transaction is over and the session goes back to the pool.
Finish(s) ==
  /\ Goto(s, "idle")
  /\ req' = [req EXCEPT ![s] = None]
  /\ room' = [room EXCEPT ![s] = None]
  /\ todo' = [todo EXCEPT ![s] = {}]
  /\ held' = [held EXCEPT ![s] = {}]
  /\ dead' = [dead EXCEPT ![s] = {}]
  /\ touched' = [touched EXCEPT ![s] = {}]
  /\ claim' = [claim EXCEPT ![s] = None]
  /\ UNCHANGED clock

\* It ends without writing anything: an answer to a read, an error, a ROLLBACK.
Answer(s) == Finish(s) /\ UNCHANGED tables

\* The queue and the rooms with the writes of s, as its COMMIT leaves them.
QueueAfter(s) ==
  [t \in Tickets |->
     IF t \in dead[s] THEN None
     ELSE IF t \in touched[s] THEN [queue[t] EXCEPT !.seen = req[s].start]
     ELSE queue[t]]

\* Mutant: ending a room twice opens it again.
RoomsAfter_Toggle(s) ==
  [r \in Rooms |->
     IF r = room[s]
     THEN [rooms[r] EXCEPT !.ended = IF @ = None THEN req[s].start ELSE None]
     ELSE rooms[r]]

RoomsAfter(s) ==
  [r \in Rooms |->
     IF r = room[s] THEN [rooms[r] EXCEPT !.ended = req[s].start] ELSE rooms[r]]

------------------------------------------------------------------------------
(* Requests arrive.  resolve_user's SELECT opens the transaction.            *)

Begin(s, request) ==
  /\ pc[s] = "idle"
  /\ request.op \in Ops
  /\ Goto(s, "begun")
  /\ req' = [req EXCEPT ![s] = request]
  /\ UNCHANGED <<clock, tables, room, locks, claim>>

NewRequest(op, u, topic, r) ==
  [op |-> op, user |-> u, topic |-> topic, room |-> r, start |-> clock]

\* The bound: a join is accepted while there is a ticket and a room to spare
\* for it and for every join in flight.
JoinsInFlight == Cardinality({s \in Sessions : req[s] # None /\ req[s].op = "join"})

BeginJoin(s) ==
  /\ JoinsInFlight + issued < MaxTickets
  /\ JoinsInFlight + opened < MaxRooms
  /\ \E u \in Users, topic \in Topics : Begin(s, NewRequest("join", u, topic, None))

BeginPoll(s) == \E u \in Users : Begin(s, NewRequest("poll", u, None, None))

BeginLeave(s) == \E u \in Users : Begin(s, NewRequest("leave", u, None, None))

BeginEnd(s) ==
  \E u \in Users, r \in Rooms :
    rooms[r] # None /\ Begin(s, NewRequest("end", u, None, r))

At(s, label, ops) == pc[s] = label /\ req[s].op \in ops

------------------------------------------------------------------------------
(* join: look up the topic, abandon an open room, sweep, claim.              *)

RefuseArchived(s) ==
  /\ At(s, "begun", {"join"})
  /\ req[s].topic \in Archived
  /\ Answer(s)

\* get_active_room_for_user takes no lock.
FindOpenRoom(s) ==
  /\ At(s, "begun", {"join"})
  /\ req[s].topic \notin Archived
  /\ \/ /\ ActiveRooms(req[s].user) = {}
        /\ Goto(s, "ready")
        /\ UNCHANGED room
     \/ \E r \in Latest(ActiveRooms(req[s].user)) :
          /\ room' = [room EXCEPT ![s] = r]
          /\ Goto(s, "closing")
  /\ UNCHANGED <<clock, tables, req, locks, claim>>

\* end_room's UPDATE, of join and of the end request.  It names the room by id
\* alone: once it has the lock it writes, whatever the room has become.
CloseRoom(s) ==
  /\ At(s, "closing", {"join", "end"})
  /\ \A o \in Sessions \ {s} : ~HoldsRoom(o, room[s])
  /\ Goto(s, "ready")
  /\ UNCHANGED <<clock, tables, req, room, locks, claim>>

SweepScan(s) ==
  /\ \/ At(s, "ready", {"join"})
     \/ At(s, "touch", {"poll"}) /\ todo[s] = {}
  /\ Scan(s, "sweep", StaleRows(s))

\* Mutant: the stale rows are selected first and deleted by id.
SweepRow_ById(s, t) == At(s, "sweep", {"join", "poll"}) /\ DeleteRow(s, t, {t} \cap Live)

SweepRow(s, t) == At(s, "sweep", {"join", "poll"}) /\ DeleteRow(s, t, StaleRows(s))

\* Mutant: SELECT without FOR UPDATE.
Claim_NoLock(s) ==
  /\ At(s, "sweep", {"join"}) /\ todo[s] = {}
  /\ \E t \in Oldest(Candidates(s)) :
       claim' = [claim EXCEPT ![s] = [entry |-> t, user |-> queue[t].user]]
  /\ Goto(s, "claimed")
  /\ UNCHANGED <<clock, tables, req, room, locks>>

Claim(s) ==
  /\ At(s, "sweep", {"join"}) /\ todo[s] = {}
  /\ \E t \in Oldest(Candidates(s)) :
       /\ claim' = [claim EXCEPT ![s] = [entry |-> t, user |-> queue[t].user]]
       /\ held' = [held EXCEPT ![s] = @ \cup {t}]
  /\ Goto(s, "claimed")
  /\ UNCHANGED <<clock, tables, req, room, todo, dead, touched>>

NobodyToClaim(s) ==
  /\ At(s, "sweep", {"join"}) /\ todo[s] = {}
  /\ Candidates(s) = {}
  /\ Goto(s, "unclaimed")
  /\ UNCHANGED <<clock, tables, req, room, locks, claim>>

(* join, with an opponent: dequeue_many, create_room, commit.                *)

UnpairScan(s) == At(s, "claimed", {"join"}) /\ Scan(s, "unpair", PairRows(s))

UnpairRow(s, t) == At(s, "unpair", {"join"}) /\ DeleteRow(s, t, PairRows(s))

CommitPaired(s) ==
  /\ At(s, "unpair", {"join"}) /\ todo[s] = {}
  /\ opened < MaxRooms
  /\ opened' = opened + 1
  /\ rooms' = [RoomsAfter(s) EXCEPT ![opened + 1] =
       [topic |-> req[s].topic, user1 |-> claim[s].user,
        user2 |-> req[s].user, started |-> req[s].start,
        ended |-> None, from |-> claim[s].entry]]
  /\ queue' = QueueAfter(s)
  /\ UNCHANGED issued
  /\ Finish(s)

(* join, with nobody to claim: dequeue, enqueue, commit.                     *)

DequeueScan(s) ==
  /\ At(s, "unclaimed", {"join"}) \/ At(s, "begun", {"leave"})
  /\ Scan(s, "dequeue", OwnRows(s))

DequeueRow(s, t) ==
  At(s, "dequeue", {"join", "leave"}) /\ DeleteRow(s, t, OwnRows(s))

\* Mutant: no unique index on user_id.
Inserting_NoIndex(s, o) == OwnRows(s) \cap dead[o] # {}

\* The other transactions whose outcome the unique index on user_id waits for.
Inserting(s, o) ==
  \/ pc[o] = "inserted" /\ req[o].user = req[s].user
  \/ OwnRows(s) \cap dead[o] # {}

Enqueue(s) ==
  /\ At(s, "dequeue", {"join"}) /\ todo[s] = {}
  /\ OwnRows(s) = {}
  /\ \A o \in Sessions \ {s} : ~Inserting(s, o)
  /\ Goto(s, "inserted")
  /\ UNCHANGED <<clock, tables, req, room, locks, claim>>

\* Mutant: only the insert is undone, as with a savepoint, and the rest committed.
EnqueueConflict_KeepsClosed(s) ==
  /\ At(s, "dequeue", {"join"}) /\ todo[s] = {}
  /\ \E t \in OwnRows(s) : \A o \in Sessions : t \notin dead[o]
  /\ rooms' = RoomsAfter(s) /\ UNCHANGED <<queue, issued, opened>>
  /\ Finish(s)

\* IntegrityError: the whole transaction rolls back, the closed room included.
EnqueueConflict(s) ==
  /\ At(s, "dequeue", {"join"}) /\ todo[s] = {}
  /\ \E t \in OwnRows(s) : \A o \in Sessions : t \notin dead[o]
  /\ Answer(s)

CommitQueued(s) ==
  /\ At(s, "inserted", {"join"})
  /\ issued < MaxTickets
  /\ issued' = issued + 1
  /\ queue' = [QueueAfter(s) EXCEPT ![issued + 1] =
       [user |-> req[s].user, topic |-> req[s].topic,
        created |-> req[s].start, seen |-> req[s].start]]
  /\ rooms' = RoomsAfter(s)
  /\ UNCHANGED opened
  /\ Finish(s)

------------------------------------------------------------------------------
(* poll (get_state), leave and end.                                          *)

AnswerMatched(s) ==
  /\ At(s, "begun", {"poll"})
  /\ ActiveRooms(req[s].user) # {}
  /\ Answer(s)

FindNoRoom(s) ==
  /\ At(s, "begun", {"poll"})
  /\ ActiveRooms(req[s].user) = {}
  /\ Goto(s, "ready")
  /\ UNCHANGED <<clock, tables, req, room, locks, claim>>

TouchScan(s) == At(s, "ready", {"poll"}) /\ Scan(s, "touch", OwnRows(s))

TouchRow(s, t) ==
  /\ At(s, "touch", {"poll"})
  /\ Visit(s, t)
  /\ touched' = [touched EXCEPT ![s] = @ \cup ({t} \cap OwnRows(s))]
  /\ UNCHANGED dead

\* The commit ends the transaction; the entry is read in the next one.
CommitPoll(s) ==
  /\ At(s, "sweep", {"poll"}) /\ todo[s] = {}
  /\ queue' = QueueAfter(s)
  /\ Goto(s, "polled")
  /\ held' = [held EXCEPT ![s] = {}]
  /\ dead' = [dead EXCEPT ![s] = {}]
  /\ touched' = [touched EXCEPT ![s] = {}]
  /\ UNCHANGED <<clock, issued, rooms, opened, req, room, todo, claim>>

AnswerQueued(s) ==
  /\ At(s, "polled", {"poll"})
  /\ OwnRows(s) # {}
  /\ Answer(s)

AnswerIdle(s) ==
  /\ At(s, "polled", {"poll"})
  /\ OwnRows(s) = {}
  /\ Answer(s)

CommitLeave(s) ==
  /\ At(s, "dequeue", {"leave"}) /\ todo[s] = {}
  /\ queue' = QueueAfter(s)
  /\ UNCHANGED <<issued, rooms, opened>>
  /\ Finish(s)

\* A stranger is refused (403); a room read as ended is left as it is.
AnswerEnd(s) ==
  /\ At(s, "begun", {"end"})
  /\ ~IsParticipant(req[s].user, req[s].room) \/ rooms[req[s].room].ended # None
  /\ Answer(s)

ReadOpenRoom(s) ==
  /\ At(s, "begun", {"end"})
  /\ IsParticipant(req[s].user, req[s].room)
  /\ rooms[req[s].room].ended = None
  /\ room' = [room EXCEPT ![s] = req[s].room]
  /\ Goto(s, "closing")
  /\ UNCHANGED <<clock, tables, req, locks, claim>>

CommitEnd(s) ==
  /\ At(s, "ready", {"end"})
  /\ rooms' = RoomsAfter(s)
  /\ UNCHANGED <<queue, issued, opened>>
  /\ Finish(s)

------------------------------------------------------------------------------
(* What the database does of its own accord.                                 *)

Rollback(s) == pc[s] # "idle" /\ Answer(s)

\* The transactions that s cannot proceed without.
WaitsFor(s) ==
  {o \in Sessions \ {s} :
     \/ todo[s] \cap held[o] # {}
     \/ pc[s] = "closing" /\ HoldsRoom(o, room[s])
     \/ pc[s] = "dequeue" /\ req[s].op = "join" /\ todo[s] = {} /\ Inserting(s, o)}

\* s is on a cycle of waits: every set closed under waiting that has the
\* transactions s waits for has s as well.
Deadlocked(s) ==
  /\ WaitsFor(s) # {}
  /\ \A R \in SUBSET Sessions :
       (WaitsFor(s) \subseteq R /\ \A o \in R : WaitsFor(o) \subseteq R) => s \in R

\* The deadlock detector makes s its victim; the request answers 500.
DeadlockVictim(s) == Deadlocked(s) /\ Rollback(s)

Tick == clock < MaxClock /\ clock' = clock + 1 /\ UNCHANGED <<tables, session>>

\* A request that is being served goes on.
Serve(s) ==
  \/ RefuseArchived(s) \/ FindOpenRoom(s) \/ CloseRoom(s) \/ SweepScan(s)
  \/ Claim(s) \/ NobodyToClaim(s) \/ UnpairScan(s) \/ CommitPaired(s)
  \/ DequeueScan(s) \/ Enqueue(s) \/ EnqueueConflict(s) \/ CommitQueued(s)
  \/ AnswerMatched(s) \/ FindNoRoom(s) \/ TouchScan(s) \/ CommitPoll(s)
  \/ AnswerQueued(s) \/ AnswerIdle(s) \/ CommitLeave(s)
  \/ AnswerEnd(s) \/ ReadOpenRoom(s) \/ CommitEnd(s)
  \/ \E t \in Tickets :
       SweepRow(s, t) \/ UnpairRow(s, t) \/ DequeueRow(s, t) \/ TouchRow(s, t)

Next ==
  \/ Tick
  \/ \E s \in Sessions :
       \/ BeginJoin(s) \/ BeginPoll(s) \/ BeginLeave(s) \/ BeginEnd(s)
       \/ Serve(s)
       \/ Rollback(s)
       \/ DeadlockVictim(s)

Spec == Init /\ [][Next]_vars

\* The event loop serves every request, a row lock is granted in the order it
\* was asked for, and the deadlock detector runs.
Fairness ==
  \A s \in Sessions : SF_vars(Serve(s)) /\ WF_vars(DeadlockVictim(s))

FairSpec == Spec /\ Fairness

------------------------------------------------------------------------------
(* Properties.                                                               *)

\* A row lock is exclusive, a transaction writes only the rows it has locked,
\* and the row claim_waiting_opponent returned stays locked and stays in the
\* queue until the claiming transaction ends: what FOR UPDATE is there for.
LocksProtectWrites ==
  \A s \in Sessions :
    /\ \A o \in Sessions \ {s} : held[s] \cap held[o] = {}
    /\ dead[s] \cup touched[s] \subseteq held[s]
    /\ held[s] \subseteq Live
    /\ claim[s] # None => claim[s].entry \in held[s]

\* A person waits in at most one place, whatever joins, retries and deletes
\* overlap: the unique index on match_queue.user_id, and what enqueue does
\* about the transactions it finds in its way.
UniqueEntry ==
  \A t, o \in Live : queue[t].user = queue[o].user => t = o

\* One waiting row makes at most one room: the promise of SKIP LOCKED, that
\* the same opponent is never handed to two people.
OneRoomPerTicket ==
  \A q, r \in Rooms :
    rooms[q] # None /\ rooms[r] # None /\ rooms[q].from = rooms[r].from => q = r

\* From the claim to the commit the claimed row is somebody else's, on the
\* topic asked for, and fresh by the claimer's clock: nobody deletes it, moves
\* it or ages it in between, so nobody is paired with a tab long closed.
ClaimStaysGood ==
  \A s \in Sessions :
    claim[s] # None =>
      LET row == queue[claim[s].entry]
      IN  /\ row.user = claim[s].user /\ row.user # req[s].user
          /\ row.topic = req[s].topic
          /\ ~IsStale(row.seen, req[s].start)

\* Why a row may leave the queue: its user asked (joined again or left), a
\* room was made of it, or it was stale when it was deleted, and not merely
\* when the sweep first saw it.
FairRemoval ==
  [][\A t \in Live :
       queue'[t] = None =>
         \E s \in {o \in Sessions : pc[o] # "idle" /\ pc'[o] # pc[o]} :
           \/ req[s].user = queue[t].user /\ req[s].op \in {"join", "leave"}
           \/ claim[s] # None /\ claim[s].entry = t /\ opened' = opened + 1
           \/ IsStale(queue[t].seen, req[s].start)]_vars

\* A room, once open, keeps its people and its topic, and once ended is never
\* open again, although two ends and an abandoning join may race for it.
RoomsOnlyEnd ==
  [][\A r \in Rooms : rooms[r] # None =>
       /\ rooms'[r] # None
       /\ [rooms'[r] EXCEPT !.ended = None] = [rooms[r] EXCEPT !.ended = None]
       /\ rooms'[r].ended = None => rooms[r].ended = None]_vars

\* A debate ends because one of its people asked for its end, or went on from it:
\* into the queue or into another debate, in the same commit.  A join that is
\* rolled back or refused, after it has closed the debate, leaves it open.
DebatesEndForAReason ==
  [][\A r \in Rooms :
       rooms[r] # None /\ rooms[r].ended = None /\ rooms'[r].ended # None =>
         \E u \in {rooms[r].user1, rooms[r].user2} :
           \/ \E s \in Sessions :
                /\ pc[s] # "idle" /\ pc'[s] = "idle"
                /\ req[s].op = "end" /\ req[s].user = u
           \/ \E t \in Tickets \ Live : queue'[t] # None /\ queue'[t].user = u
           \/ \E q \in Rooms :
                rooms[q] = None /\ rooms'[q] # None /\ u \in {rooms'[q].user1, rooms'[q].user2}]_vars

\* Every request is answered: no set of requests waits on itself for ever.
Answered == \A s \in Sessions : pc[s] # "idle" ~> pc[s] = "idle"

\* Requests of which each waits for another of them, and maybe for more: none
\* will ever proceed.
Stuck(R) == R # {} /\ \A s \in R : WaitsFor(s) \cap R # {}

\* What Answered rests on: a request waits only for requests that are being
\* served, never for a session in the pool, and wherever they wait in a ring
\* the deadlock detector has a victim among them.
DeadlocksAreFound ==
  /\ \A s \in Sessions : \A o \in WaitsFor(s) : pc[s] # "idle" /\ pc[o] # "idle"
  /\ \A R \in SUBSET Sessions : Stuck(R) => \E s \in R : Deadlocked(s)

\* The committed tables show each request taking effect at once or not at all:
\* a row is spent in the commit that opens its room, only participants close a
\* room, and a room is made of another user's row on the topic asked for.
Pool == INSTANCE DebatePool WITH
  pool <- {[id |-> t, user |-> queue[t].user, topic |-> queue[t].topic] : t \in Live},
  entered <- issued,
  debates <- [r \in 1..opened |->
                [people |-> {rooms[r].user1, rooms[r].user2}, topic |-> rooms[r].topic,
                 from |-> rooms[r].from, over |-> rooms[r].ended # None]]

RefinesDebatePool == Pool!Spec

\* Claimed by tests/test_match_concurrency.py: "a waiting user ends up in
\* exactly one room, never two".
NobodyIsDoubleBooked == \A u \in Users : Cardinality(ActiveRooms(u)) <= 1

\* Claimed by end_room: "an already-ended room keeps its original end time".
EndTimeIsKept ==
  [][\A r \in Rooms : rooms[r] # None /\ rooms[r].ended # None
       => rooms'[r].ended = rooms[r].ended]_vars

\* Claimed by MatchStatus.IDLE: "Neither queued nor in a room."
IdleIsIdle ==
  [][\A s \in Sessions : AnswerIdle(s) =>
       ActiveRooms(req[s].user) = {} /\ OwnRows(s) = {}]_vars
==============================================================================
