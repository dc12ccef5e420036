-------------------------- MODULE MatchmakingProofs --------------------------
(* What holds of Matchmaking for every number of people, sessions and rows.  *)
EXTENDS MatchmakingInv, TLAPS

LEMMA InitInductive == Init => Inductive
<1> SUFFICES ASSUME Init PROVE Inductive
  OBVIOUS
<1> USE BoundsAssumption DEF Init
<1>1. TypeOK
  BY DEF TypeOK, Time, PCs
<1>2. Live = {}
  BY DEF Live
<1>3. KeysIssued /\ IdleIsEmpty /\ RequestShape /\ ClosesARoom
  BY <1>2 DEF KeysIssued, IdleIsEmpty, RequestShape, ClosesARoom, Rooms
<1>4. LocksProtectWrites
  BY <1>2 DEF LocksProtectWrites
<1>5. ClaimedRowGoes /\ SpentRows /\ PendingInsert
  BY DEF ClaimedRowGoes, SpentRows, PendingInsert
<1>6. UniqueEntry /\ OneRoomPerTicket
  BY <1>2 DEF UniqueEntry, OneRoomPerTicket
<1> QED
  BY <1>1, <1>3, <1>4, <1>5, <1>6 DEF Inductive

LEMMA AnswerInductive ==
  ASSUME Inductive, NEW s \in Sessions, Answer(s)
  PROVE  Inductive'
<1> USE DEF Inductive, Answer, Finish, Goto, tables
<1>1. TypeOK'
  BY DEF TypeOK, PCs
<1>2. Live' = Live
  BY DEF Live
<1>3. KeysIssued'
  BY <1>2 DEF KeysIssued
<1>4. IdleIsEmpty'
  BY DEF IdleIsEmpty, TypeOK
<1>5. RequestShape'
  BY DEF RequestShape, TypeOK
<1>6. ClosesARoom'
  BY DEF ClosesARoom, TypeOK
<1>7. LocksProtectWrites'
  BY <1>2 DEF LocksProtectWrites, TypeOK
<1>8. ClaimedRowGoes'
  BY DEF ClaimedRowGoes, TypeOK
<1>9. SpentRows' /\ OneRoomPerTicket'
  BY DEF SpentRows, OneRoomPerTicket
<1>10. PendingInsert'
  BY <1>2 DEF PendingInsert, OwnRows, Visible, TypeOK
<1>11. UniqueEntry'
  BY <1>2 DEF UniqueEntry
<1> QED
  BY <1>1, <1>3, <1>4, <1>5, <1>6, <1>7, <1>8, <1>9, <1>10, <1>11

(* A session takes a request from the pool of connections.                   *)
LEMMA BeginInductive ==
  ASSUME Inductive, NEW s \in Sessions, NEW request \in Request,
         Begin(s, request),
         request.op = "join" => request.topic \in Topics,
         request.op = "end" => request.room \in Rooms
  PROVE  Inductive'
<1> USE NoneAssumption DEF Inductive, Begin, Goto, tables, locks
<1>1. Live' = Live
  BY DEF Live
<1>2. TypeOK'
  BY <1>1 DEF TypeOK, PCs
<1>3. KeysIssued'
  BY <1>1 DEF KeysIssued
<1>4. IdleIsEmpty'
  BY <1>1 DEF IdleIsEmpty, TypeOK
<1>5. RequestShape'
  BY <1>1 DEF RequestShape, TypeOK
<1>6. ClosesARoom'
  BY <1>1 DEF ClosesARoom, TypeOK
<1>7. LocksProtectWrites'
  BY <1>1 DEF LocksProtectWrites, TypeOK
<1>8. ClaimedRowGoes'
  BY <1>1 DEF ClaimedRowGoes, TypeOK
<1>9. SpentRows'
  BY <1>1 DEF SpentRows
<1>10. OneRoomPerTicket'
  BY <1>1 DEF OneRoomPerTicket
<1>11. PendingInsert'
  BY <1>1 DEF PendingInsert, OwnRows, Visible, TypeOK
<1>12. UniqueEntry'
  BY <1>1 DEF UniqueEntry
<1> QED
  BY <1>2, <1>3, <1>4, <1>5, <1>6, <1>7, <1>8, <1>9, <1>10, <1>11, <1>12

(* A step that reads, or that locks a room, and writes no queue row.         *)
LEMMA MoveInductive ==
  ASSUME Inductive, NEW s \in Sessions,
         NEW label \in {"closing", "ready", "unclaimed"},
         NEW r \in Rooms \cup {None},
         pc[s] \notin {"idle", "claimed", "unpair", "inserted"},
         r # None => rooms[r] # None,
         Goto(s, label), room' = [room EXCEPT ![s] = r],
         UNCHANGED <<clock, tables, req, locks, claim>>
  PROVE  Inductive'
<1> USE DEF Inductive, Goto, tables, locks
<1>1. Live' = Live
  BY DEF Live
<1>2. TypeOK'
  BY <1>1 DEF TypeOK, PCs
<1>3. KeysIssued'
  BY <1>1 DEF KeysIssued
<1>4. IdleIsEmpty'
  BY <1>1 DEF IdleIsEmpty, TypeOK
<1>5. RequestShape'
  BY <1>1 DEF RequestShape, TypeOK
<1>6. ClosesARoom'
  BY <1>1 DEF ClosesARoom, TypeOK
<1>7. LocksProtectWrites'
  BY <1>1 DEF LocksProtectWrites, TypeOK
<1>8. ClaimedRowGoes'
  BY <1>1 DEF ClaimedRowGoes, TypeOK
<1>9. SpentRows'
  BY <1>1 DEF SpentRows
<1>10. OneRoomPerTicket'
  BY <1>1 DEF OneRoomPerTicket
<1>11. PendingInsert'
  BY <1>1 DEF PendingInsert, OwnRows, Visible, TypeOK
<1>12. UniqueEntry'
  BY <1>1 DEF UniqueEntry
<1> QED
  BY <1>2, <1>3, <1>4, <1>5, <1>6, <1>7, <1>8, <1>9, <1>10, <1>11, <1>12

(* A DELETE or an UPDATE takes its snapshot.                                 *)
LEMMA ScanInductive ==
  ASSUME Inductive, NEW s \in Sessions,
         NEW label \in {"sweep", "unpair", "dequeue", "touch"},
         NEW rows \in SUBSET Tickets,
         pc[s] \notin {"idle", "unpair", "inserted"},
         pc[s] = "claimed" <=> label = "unpair",
         label = "unpair" => claim[s].entry \in rows,
         Scan(s, label, rows)
  PROVE  Inductive'
<1> USE DEF Inductive, Scan, Goto, tables
<1>1. Live' = Live
  BY DEF Live
<1>2. TypeOK'
  BY <1>1 DEF TypeOK, PCs
<1>3. KeysIssued'
  BY <1>1 DEF KeysIssued
<1>4. IdleIsEmpty'
  BY <1>1 DEF IdleIsEmpty, TypeOK
<1>5. RequestShape'
  BY <1>1 DEF RequestShape, TypeOK
<1>6. ClosesARoom'
  BY <1>1 DEF ClosesARoom, TypeOK
<1>7. LocksProtectWrites'
  BY <1>1 DEF LocksProtectWrites, TypeOK
<1>8. ClaimedRowGoes'
  BY <1>1 DEF ClaimedRowGoes, TypeOK
<1>9. SpentRows'
  BY <1>1 DEF SpentRows
<1>10. OneRoomPerTicket'
  BY <1>1 DEF OneRoomPerTicket
<1>11. PendingInsert'
  BY <1>1 DEF PendingInsert, OwnRows, Visible, TypeOK
<1>12. UniqueEntry'
  BY <1>1 DEF UniqueEntry
<1> QED
  BY <1>2, <1>3, <1>4, <1>5, <1>6, <1>7, <1>8, <1>9, <1>10, <1>11, <1>12

(* A DELETE visits a row: it gets the lock, or finds the row gone.           *)
LEMMA DeleteRowInductive ==
  ASSUME Inductive, NEW s \in Sessions, NEW t \in Tickets, NEW rows \in SUBSET Live,
         pc[s] \in {"sweep", "unpair", "dequeue"},
         pc[s] = "unpair" /\ claim[s].entry = t => t \in rows,
         DeleteRow(s, t, rows)
  PROVE  Inductive'
<1> USE DEF Inductive, DeleteRow, Visit, LockedByOther, tables
<1>1. Live' = Live
  BY DEF Live
<1>2. TypeOK'
  BY <1>1 DEF TypeOK, PCs
<1>3. KeysIssued'
  BY <1>1 DEF KeysIssued
<1>4. IdleIsEmpty'
  BY <1>1 DEF IdleIsEmpty, TypeOK
<1>5. RequestShape'
  BY <1>1 DEF RequestShape, TypeOK
<1>6. ClosesARoom'
  BY <1>1 DEF ClosesARoom, TypeOK
<1>7. LocksProtectWrites'
  BY <1>1 DEF LocksProtectWrites, TypeOK
<1>8. ClaimedRowGoes'
  BY <1>1 DEF ClaimedRowGoes, TypeOK
<1>9. SpentRows'
  BY <1>1 DEF SpentRows
<1>10. OneRoomPerTicket'
  BY <1>1 DEF OneRoomPerTicket
<1>11. PendingInsert'
  BY <1>1 DEF PendingInsert, OwnRows, Visible, TypeOK
<1>12. UniqueEntry'
  BY <1>1 DEF UniqueEntry
<1> QED
  BY <1>2, <1>3, <1>4, <1>5, <1>6, <1>7, <1>8, <1>9, <1>10, <1>11, <1>12

(* A heartbeat visits a row.                                                 *)
LEMMA TouchRowInductive ==
  ASSUME Inductive, NEW s \in Sessions, NEW t \in Tickets, TouchRow(s, t)
  PROVE  Inductive'
<1> USE DEF Inductive, TouchRow, At, Visit, LockedByOther, OwnRows, Visible, tables
<1>1. Live' = Live
  BY DEF Live
<1>2. TypeOK'
  BY <1>1 DEF TypeOK, PCs
<1>3. KeysIssued'
  BY <1>1 DEF KeysIssued
<1>4. IdleIsEmpty'
  BY <1>1 DEF IdleIsEmpty, TypeOK
<1>5. RequestShape'
  BY <1>1 DEF RequestShape, TypeOK
<1>6. ClosesARoom'
  BY <1>1 DEF ClosesARoom, TypeOK
<1>7. LocksProtectWrites'
  BY <1>1 DEF LocksProtectWrites, TypeOK
<1>8. ClaimedRowGoes'
  BY <1>1 DEF ClaimedRowGoes, TypeOK
<1>9. SpentRows'
  BY <1>1 DEF SpentRows
<1>10. OneRoomPerTicket'
  BY <1>1 DEF OneRoomPerTicket
<1>11. PendingInsert'
  BY <1>1 DEF PendingInsert, OwnRows, Visible, TypeOK
<1>12. UniqueEntry'
  BY <1>1 DEF UniqueEntry
<1> QED
  BY <1>2, <1>3, <1>4, <1>5, <1>6, <1>7, <1>8, <1>9, <1>10, <1>11, <1>12

(* FOR UPDATE SKIP LOCKED: the claimed row was nobody's, and now is locked.  *)
LEMMA ClaimInductive ==
  ASSUME Inductive, NEW s \in Sessions, Claim(s)
  PROVE  Inductive'
<1> DEFINE opponent(t) == [entry |-> t, user |-> queue[t].user]
<1> USE NoneAssumption DEF Inductive
<1>1. PICK t \in Candidates(s) :
         /\ claim' = [claim EXCEPT ![s] = opponent(t)]
         /\ held' = [held EXCEPT ![s] = @ \cup {t}]
  BY DEF Claim, Oldest
<1>2. t \in Live /\ t \notin dead[s] /\ \A o \in Sessions \ {s} : t \notin held[o]
  BY DEF Candidates, Visible, LockedByOther
<1>3. opponent(t) \in Opponent
  BY <1>2 DEF TypeOK, Live, QueueEntry, Opponent
<1> HIDE DEF opponent
<1>4. pc[s] = "sweep" /\ Goto(s, "claimed")
      /\ UNCHANGED <<clock, tables, req, room, todo, dead, touched>>
  BY DEF Claim, At
<1>5. Live' = Live
  BY <1>4 DEF Live, tables
<1> USE DEF Goto, tables
<1>6. TypeOK'
  BY <1>1, <1>2, <1>3, <1>4 DEF TypeOK, PCs, Live
<1>7. KeysIssued' /\ SpentRows' /\ OneRoomPerTicket' /\ UniqueEntry'
  BY <1>4, <1>5 DEF KeysIssued, SpentRows, OneRoomPerTicket, UniqueEntry
<1>8. IdleIsEmpty' /\ RequestShape' /\ ClosesARoom'
  BY <1>1, <1>4 DEF IdleIsEmpty, RequestShape, ClosesARoom, TypeOK
<1>9. opponent(t).entry = t /\ opponent(t).user = queue[t].user /\ opponent(t) # None
  BY <1>3 DEF opponent
<1>10. LocksProtectWrites'
  BY <1>1, <1>2, <1>4, <1>5, <1>9 DEF LocksProtectWrites, TypeOK
<1>11. ClaimedRowGoes'
  BY <1>1, <1>2, <1>4, <1>9 DEF ClaimedRowGoes, TypeOK
<1>12. PendingInsert'
  BY <1>4, <1>5 DEF PendingInsert, OwnRows, Visible, TypeOK
<1> QED
  BY <1>6, <1>7, <1>8, <1>10, <1>11, <1>12

(* The INSERT found no other row of its user, committed or not.              *)
LEMMA EnqueueInductive ==
  ASSUME Inductive, NEW s \in Sessions, Enqueue(s)
  PROVE  Inductive'
<1> USE DEF Inductive, Enqueue, Inserting, At, Goto, tables, locks
<1>1. Live' = Live
  BY DEF Live
<1>2. TypeOK'
  BY <1>1 DEF TypeOK, PCs
<1>3. KeysIssued'
  BY <1>1 DEF KeysIssued
<1>4. IdleIsEmpty'
  BY <1>1 DEF IdleIsEmpty, TypeOK
<1>5. RequestShape'
  BY <1>1 DEF RequestShape, TypeOK
<1>6. ClosesARoom'
  BY <1>1 DEF ClosesARoom, TypeOK
<1>7. LocksProtectWrites'
  BY <1>1 DEF LocksProtectWrites, TypeOK
<1>8. ClaimedRowGoes'
  BY <1>1 DEF ClaimedRowGoes, TypeOK
<1>9. SpentRows'
  BY <1>1 DEF SpentRows
<1>10. OneRoomPerTicket'
  BY <1>1 DEF OneRoomPerTicket
<1>11. PendingInsert'
  BY <1>1 DEF PendingInsert, OwnRows, Visible, TypeOK
<1>12. UniqueEntry'
  BY <1>1 DEF UniqueEntry
<1> QED
  BY <1>2, <1>3, <1>4, <1>5, <1>6, <1>7, <1>8, <1>9, <1>10, <1>11, <1>12

(* The clock.                                                                *)
LEMMA TickInductive ==
  ASSUME Inductive, Tick
  PROVE  Inductive'
<1> USE BoundsAssumption DEF Inductive, Tick, tables, session, locks
<1>1. Live' = Live
  BY DEF Live
<1>2. TypeOK'
  BY <1>1 DEF TypeOK, Time
<1>3. KeysIssued'
  BY <1>1 DEF KeysIssued
<1>4. IdleIsEmpty'
  BY <1>1 DEF IdleIsEmpty, TypeOK
<1>5. RequestShape'
  BY <1>1 DEF RequestShape, TypeOK
<1>6. ClosesARoom'
  BY <1>1 DEF ClosesARoom, TypeOK
<1>7. LocksProtectWrites'
  BY <1>1 DEF LocksProtectWrites, TypeOK
<1>8. ClaimedRowGoes'
  BY <1>1 DEF ClaimedRowGoes, TypeOK
<1>9. SpentRows'
  BY <1>1 DEF SpentRows
<1>10. OneRoomPerTicket'
  BY <1>1 DEF OneRoomPerTicket
<1>11. PendingInsert'
  BY <1>1 DEF PendingInsert, OwnRows, Visible, TypeOK
<1>12. UniqueEntry'
  BY <1>1 DEF UniqueEntry
<1> QED
  BY <1>2, <1>3, <1>4, <1>5, <1>6, <1>7, <1>8, <1>9, <1>10, <1>11, <1>12

(* What a COMMIT writes: its deletes and heartbeats, and nothing else.       *)
LEMMA QueueAfterCommit ==
  ASSUME Inductive, NEW s \in Sessions, pc[s] # "idle"
  PROVE  /\ QueueAfter(s) \in [Tickets -> QueueEntry \cup {None}]
         /\ \A t \in Tickets :
              /\ QueueAfter(s)[t] # None <=> t \in Live \ dead[s]
              /\ t \in Live \ dead[s] => QueueAfter(s)[t].user = queue[t].user
<1> USE NoneAssumption DEF Inductive, TypeOK
<1>1. req[s].start \in Time
  BY DEF Request
<1>2. \A t \in touched[s] : t \in Live
  BY DEF LocksProtectWrites
<1>3. \A t \in Live : queue[t] \in QueueEntry
  BY DEF Live
<1>4. ASSUME NEW t \in touched[s]
      PROVE  /\ [queue[t] EXCEPT !.seen = req[s].start] \in QueueEntry
             /\ [queue[t] EXCEPT !.seen = req[s].start].user = queue[t].user
  BY <1>1, <1>2, <1>3 DEF QueueEntry
<1>5. ASSUME NEW t \in Tickets
      PROVE  /\ QueueAfter(s)[t] \in QueueEntry \cup {None}
             /\ QueueAfter(s)[t] # None <=> t \in Live \ dead[s]
             /\ t \in Live \ dead[s] => QueueAfter(s)[t].user = queue[t].user
  <2>1. CASE t \in dead[s]
    BY <2>1 DEF QueueAfter
  <2>2. CASE t \notin dead[s] /\ t \in touched[s]
    BY <2>2, <1>2, <1>4 DEF QueueAfter
  <2>3. CASE t \notin dead[s] /\ t \notin touched[s]
    BY <2>3 DEF QueueAfter, Live
  <2> QED
    BY <2>1, <2>2, <2>3
<1> QED
  BY <1>5 DEF QueueAfter

LEMMA RoomsAfterCommit ==
  ASSUME Inductive, NEW s \in Sessions, pc[s] # "idle"
  PROVE  /\ RoomsAfter(s) \in [Rooms -> DebateRoom \cup {None}]
         /\ \A r \in Rooms :
              /\ RoomsAfter(s)[r] = None <=> rooms[r] = None
              /\ rooms[r] # None => RoomsAfter(s)[r].from = rooms[r].from
<1> USE NoneAssumption DEF Inductive, TypeOK
<1>1. req[s].start \in Time
  BY DEF Request
<1>2. ASSUME NEW r \in Rooms, r = room[s]
      PROVE  /\ [rooms[r] EXCEPT !.ended = req[s].start] \in DebateRoom
             /\ [rooms[r] EXCEPT !.ended = req[s].start].from = rooms[r].from
             /\ rooms[r] # None
  <2>1. rooms[r] \in DebateRoom
    BY <1>2 DEF ClosesARoom
  <2> QED
    BY <1>1, <2>1 DEF DebateRoom
<1>3. ASSUME NEW r \in Rooms
      PROVE  /\ RoomsAfter(s)[r] \in DebateRoom \cup {None}
             /\ RoomsAfter(s)[r] = None <=> rooms[r] = None
             /\ rooms[r] # None => RoomsAfter(s)[r].from = rooms[r].from
  <2>1. CASE r = room[s]
    BY <2>1, <1>2 DEF RoomsAfter
  <2>2. CASE r # room[s]
    BY <2>2 DEF RoomsAfter
  <2> QED
    BY <2>1, <2>2
<1> QED
  BY <1>3 DEF RoomsAfter

(* A COMMIT of s that deletes the rows "gone", may refresh others and may     *)
(* close a room.                                                             *)
CommitWrites(gone) ==
  /\ queue' \in [Tickets -> QueueEntry \cup {None}]
  /\ \A t \in Tickets : /\ queue'[t] # None <=> t \in Live \ gone
                        /\ t \in Live \ gone => queue'[t].user = queue[t].user
  /\ rooms' \in [Rooms -> DebateRoom \cup {None}]
  /\ \A r \in Rooms : /\ rooms'[r] = None <=> rooms[r] = None
                      /\ rooms[r] # None => rooms'[r].from = rooms[r].from
  /\ UNCHANGED <<issued, opened>>

LEMMA CommitTables ==
  ASSUME Inductive, NEW s \in Sessions, NEW gone \in SUBSET dead[s], CommitWrites(gone)
  PROVE  /\ Live' = Live \ gone
         /\ KeysIssued' /\ SpentRows' /\ OneRoomPerTicket' /\ UniqueEntry'
<1> USE DEF Inductive, CommitWrites
<1>1. Live' = Live \ gone /\ Live \subseteq Tickets
  BY DEF Live
<1>2. KeysIssued'
  BY <1>1 DEF KeysIssued
<1>3. \A r \in Rooms : rooms[r] # None => rooms[r].from \in Tickets
  BY DEF TypeOK, DebateRoom
<1>4. SpentRows'
  BY <1>3 DEF SpentRows, Live
<1>5. OneRoomPerTicket'
  BY DEF OneRoomPerTicket
<1>6. UniqueEntry'
  BY <1>1 DEF UniqueEntry
<1> QED
  BY <1>1, <1>2, <1>4, <1>5, <1>6

LEMMA CommitInductive ==
  ASSUME Inductive, NEW s \in Sessions, pc[s] # "idle",
         NEW gone \in SUBSET dead[s], CommitWrites(gone), Finish(s)
  PROVE  Inductive'
<1> USE NoneAssumption DEF Inductive, Finish, Goto
<1>1. /\ Live' = Live \ gone
      /\ KeysIssued' /\ SpentRows' /\ OneRoomPerTicket' /\ UniqueEntry'
  BY CommitTables
<1>2. \A o \in Sessions \ {s} : held[o] \cap gone = {}
  BY DEF LocksProtectWrites
<1> USE DEF CommitWrites
<1>3. TypeOK'
  BY DEF TypeOK, PCs
<1>4. IdleIsEmpty' /\ RequestShape'
  BY DEF IdleIsEmpty, RequestShape, TypeOK
<1>5. ClosesARoom'
  BY DEF ClosesARoom, TypeOK
<1>6. LocksProtectWrites'
  BY <1>1, <1>2 DEF LocksProtectWrites, TypeOK
<1>7. ClaimedRowGoes'
  <2>1. \A o \in Sessions \ {s} : claim[o] # None =>
           queue'[claim[o].entry].user = queue[claim[o].entry].user
    BY <1>2 DEF LocksProtectWrites, Live
  <2> QED
    BY <2>1 DEF ClaimedRowGoes, TypeOK
<1>8. PendingInsert'
  BY <1>1 DEF PendingInsert, OwnRows, Visible, TypeOK, Live
<1> QED
  BY <1>1, <1>3, <1>4, <1>5, <1>6, <1>7, <1>8

LEMMA CommitLeaveInductive ==
  ASSUME Inductive, NEW s \in Sessions, CommitLeave(s)
  PROVE  Inductive'
<1>1. pc[s] # "idle" /\ Finish(s) /\ queue' = QueueAfter(s)
      /\ UNCHANGED <<issued, rooms, opened>>
  BY DEF CommitLeave, At
<1>2. CommitWrites(dead[s])
  BY <1>1, QueueAfterCommit DEF CommitWrites, Inductive, TypeOK
<1> QED
  BY <1>1, <1>2, CommitInductive

LEMMA CommitEndInductive ==
  ASSUME Inductive, NEW s \in Sessions, CommitEnd(s)
  PROVE  Inductive'
<1>1. pc[s] # "idle" /\ Finish(s) /\ rooms' = RoomsAfter(s)
      /\ UNCHANGED <<queue, issued, opened>>
  BY DEF CommitEnd, At
<1>2. CommitWrites({})
  BY <1>1, RoomsAfterCommit DEF CommitWrites, Inductive, TypeOK, Live
<1> QED
  BY <1>1, <1>2, CommitInductive

(* A poll's commit, after which the session goes on to read.                 *)
LEMMA CommitPollInductive ==
  ASSUME Inductive, NEW s \in Sessions, CommitPoll(s)
  PROVE  Inductive'
<1> USE DEF Inductive, Goto
<1>1. /\ pc[s] = "sweep" /\ queue' = QueueAfter(s) /\ pc' = [pc EXCEPT ![s] = "polled"]
      /\ held' = [held EXCEPT ![s] = {}] /\ dead' = [dead EXCEPT ![s] = {}]
      /\ touched' = [touched EXCEPT ![s] = {}]
      /\ UNCHANGED <<clock, issued, rooms, opened, req, room, todo, claim>>
  BY DEF CommitPoll, At
<1>2. CommitWrites(dead[s])
  BY <1>1, QueueAfterCommit DEF CommitWrites, TypeOK
<1>3. /\ Live' = Live \ dead[s]
      /\ KeysIssued' /\ SpentRows' /\ OneRoomPerTicket' /\ UniqueEntry'
  BY <1>2, CommitTables
<1>4. \A o \in Sessions \ {s} : held[o] \cap dead[s] = {}
  BY DEF LocksProtectWrites
<1> USE DEF CommitWrites
<1>5. TypeOK'
  BY <1>1, <1>2 DEF TypeOK, PCs
<1>6. IdleIsEmpty' /\ RequestShape' /\ ClosesARoom'
  BY <1>1 DEF IdleIsEmpty, RequestShape, ClosesARoom, TypeOK
<1>7. LocksProtectWrites'
  BY <1>1, <1>3, <1>4 DEF LocksProtectWrites, TypeOK, ClaimedRowGoes
<1>8. ClaimedRowGoes'
  <2>1. \A o \in Sessions \ {s} : claim[o] # None =>
           queue'[claim[o].entry].user = queue[claim[o].entry].user
    BY <1>2, <1>4 DEF LocksProtectWrites, Live
  <2> QED
    BY <1>1, <2>1 DEF ClaimedRowGoes, TypeOK
<1>9. PendingInsert'
  BY <1>1, <1>2, <1>3 DEF PendingInsert, OwnRows, Visible, TypeOK, Live
<1> QED
  BY <1>3, <1>5, <1>6, <1>7, <1>8, <1>9

(* The pairing: the claimed row is among the deleted ones, and no room was    *)
(* ever made of it, since it still was in the queue.                         *)
LEMMA CommitPairedInductive ==
  ASSUME Inductive, NEW s \in Sessions, CommitPaired(s)
  PROVE  Inductive'
<1> DEFINE entry == claim[s].entry
           new == opened + 1
           opening == [topic |-> req[s].topic, user1 |-> claim[s].user,
                       user2 |-> req[s].user, started |-> req[s].start,
                       ended |-> None, from |-> entry]
<1> USE NoneAssumption, BoundsAssumption DEF Inductive
<1>1. /\ pc[s] = "unpair" /\ req[s].op = "join" /\ todo[s] = {}
      /\ opened < MaxRooms /\ opened' = opened + 1 /\ UNCHANGED issued
      /\ rooms' = [RoomsAfter(s) EXCEPT ![new] = opening]
      /\ queue' = QueueAfter(s) /\ Finish(s)
  BY DEF CommitPaired, At
<1>2. new \in Rooms /\ opened \in Nat
  BY <1>1 DEF TypeOK, Rooms
<1>3. /\ claim[s] \in Opponent /\ entry \in held[s] /\ entry \in dead[s]
      /\ entry \in Live /\ entry \in Tickets
  BY <1>1 DEF TypeOK, ClaimedRowGoes, LocksProtectWrites, Opponent
<1>4. req[s] \in Request /\ req[s].topic \in Topics
  BY <1>1 DEF TypeOK, RequestShape
<1>5. opening \in DebateRoom /\ opening.from = entry
  BY <1>3, <1>4 DEF DebateRoom, Request, Opponent
<1>6. /\ queue' \in [Tickets -> QueueEntry \cup {None}]
      /\ \A t \in Tickets : /\ queue'[t] # None <=> t \in Live \ dead[s]
                            /\ t \in Live \ dead[s] => queue'[t].user = queue[t].user
  BY <1>1, QueueAfterCommit
<1>7. /\ RoomsAfter(s) \in [Rooms -> DebateRoom \cup {None}]
      /\ \A r \in Rooms : /\ RoomsAfter(s)[r] = None <=> rooms[r] = None
                          /\ rooms[r] # None => RoomsAfter(s)[r].from = rooms[r].from
  BY <1>1, RoomsAfterCommit
<1> HIDE DEF opening, entry
<1>8. /\ rooms' \in [Rooms -> DebateRoom \cup {None}]
      /\ rooms'[new] = opening /\ rooms[new] = None
      /\ \A r \in Rooms \ {new} : rooms'[r] = RoomsAfter(s)[r]
  BY <1>1, <1>2, <1>5, <1>7 DEF KeysIssued
<1>9. Live' = Live \ dead[s] /\ Live \subseteq Tickets
  BY <1>6 DEF Live
<1>10. \A o \in Sessions \ {s} : held[o] \cap dead[s] = {}
  BY DEF LocksProtectWrites
<1>11. \A r \in Rooms : rooms[r] # None => rooms[r].from \in Tickets /\ rooms[r].from # entry
  BY <1>3 DEF TypeOK, DebateRoom, SpentRows, Live
<1> USE DEF Finish, Goto
<1>12. TypeOK'
  BY <1>1, <1>2, <1>6, <1>8 DEF TypeOK, PCs, Rooms
<1>13. KeysIssued'
  <2>1. \A t \in Live' : t <= issued'
    BY <1>1, <1>9 DEF KeysIssued
  <2>2. opening # None
    BY <1>5
  <2>3. \A r \in Rooms : rooms'[r] # None <=> (rooms[r] # None \/ r = new)
    BY <1>7, <1>8, <2>2
  <2>4. \A r \in Rooms : r <= opened + 1 <=> (r <= opened \/ r = opened + 1)
    BY <1>2 DEF Rooms
  <2> HIDE DEF new
  <2> QED
    BY <1>1, <2>1, <2>3, <2>4 DEF KeysIssued, new
<1>14. IdleIsEmpty' /\ RequestShape'
  BY <1>1 DEF IdleIsEmpty, RequestShape, TypeOK
<1>15. ClosesARoom'
  BY <1>1, <1>5, <1>7, <1>8 DEF ClosesARoom, TypeOK
<1>16. LocksProtectWrites'
  BY <1>1, <1>9, <1>10 DEF LocksProtectWrites, TypeOK
<1>17. ClaimedRowGoes'
  <2>1. \A o \in Sessions \ {s} : claim[o] # None =>
           queue'[claim[o].entry].user = queue[claim[o].entry].user
    BY <1>6, <1>10 DEF LocksProtectWrites, Live
  <2> QED
    BY <1>1, <2>1 DEF ClaimedRowGoes, TypeOK
<1>18. SpentRows'
  BY <1>1, <1>2, <1>3, <1>5, <1>6, <1>7, <1>8, <1>11 DEF SpentRows, Live, KeysIssued
<1>19. OneRoomPerTicket'
  BY <1>2, <1>5, <1>7, <1>8, <1>11 DEF OneRoomPerTicket
<1>20. PendingInsert'
  BY <1>1, <1>6, <1>9 DEF PendingInsert, OwnRows, Visible, TypeOK
<1>21. UniqueEntry'
  BY <1>6, <1>9 DEF UniqueEntry
<1> QED
  BY <1>12, <1>13, <1>14, <1>15, <1>16, <1>17, <1>18, <1>19, <1>20, <1>21

(* The enqueue: the new row is its user's only one, and its key was unused.   *)
LEMMA CommitQueuedInductive ==
  ASSUME Inductive, NEW s \in Sessions, CommitQueued(s)
  PROVE  Inductive'
<1> DEFINE new == issued + 1
           row == [user |-> req[s].user, topic |-> req[s].topic,
                   created |-> req[s].start, seen |-> req[s].start]
<1> USE NoneAssumption, BoundsAssumption DEF Inductive
<1>1. /\ pc[s] = "inserted" /\ req[s].op = "join"
      /\ issued < MaxTickets /\ issued' = issued + 1 /\ UNCHANGED opened
      /\ queue' = [QueueAfter(s) EXCEPT ![new] = row]
      /\ rooms' = RoomsAfter(s) /\ Finish(s)
  BY DEF CommitQueued, At
<1>2. new \in Tickets /\ issued \in Nat
  BY <1>1 DEF TypeOK, Tickets
<1>3. req[s] \in Request /\ req[s].topic \in Topics
  BY <1>1 DEF TypeOK, RequestShape
<1>4. row \in QueueEntry /\ row.user = req[s].user
  BY <1>3 DEF QueueEntry, Request
<1>5. /\ QueueAfter(s) \in [Tickets -> QueueEntry \cup {None}]
      /\ \A t \in Tickets :
           /\ QueueAfter(s)[t] # None <=> t \in Live \ dead[s]
           /\ t \in Live \ dead[s] => QueueAfter(s)[t].user = queue[t].user
  BY <1>1, QueueAfterCommit
<1>6. /\ rooms' \in [Rooms -> DebateRoom \cup {None}]
      /\ \A r \in Rooms : /\ rooms'[r] = None <=> rooms[r] = None
                          /\ rooms[r] # None => rooms'[r].from = rooms[r].from
  BY <1>1, RoomsAfterCommit
<1> HIDE DEF row
<1>7. /\ queue' \in [Tickets -> QueueEntry \cup {None}] /\ queue'[new] = row
      /\ \A t \in Tickets \ {new} : queue'[t] = QueueAfter(s)[t]
  BY <1>1, <1>2, <1>4, <1>5
<1>8. new \notin Live
  BY <1>2 DEF KeysIssued
<1>9. Live' = (Live \ dead[s]) \cup {new} /\ Live \subseteq Tickets
  BY <1>2, <1>4, <1>5, <1>7 DEF Live
<1>10. \A o \in Sessions \ {s} : held[o] \cap dead[s] = {}
  BY DEF LocksProtectWrites
<1>11. \A t \in Live \ dead[s] : queue'[t].user = queue[t].user /\ queue[t].user # req[s].user
  BY <1>1, <1>5, <1>7, <1>8, <1>9 DEF PendingInsert, OwnRows, Visible
<1> USE DEF Finish, Goto
<1>12. TypeOK'
  BY <1>1, <1>2, <1>6, <1>7 DEF TypeOK, PCs, Tickets
<1>13. KeysIssued'
  BY <1>1, <1>2, <1>6, <1>9 DEF KeysIssued, Tickets
<1>14. IdleIsEmpty' /\ RequestShape'
  BY <1>1 DEF IdleIsEmpty, RequestShape, TypeOK
<1>15. ClosesARoom'
  BY <1>1, <1>6 DEF ClosesARoom, TypeOK
<1>16. LocksProtectWrites'
  BY <1>1, <1>9, <1>10 DEF LocksProtectWrites, TypeOK
<1>17. ClaimedRowGoes'
  <2>1. \A o \in Sessions \ {s} : claim[o] # None =>
           queue'[claim[o].entry].user = queue[claim[o].entry].user
    BY <1>10, <1>11 DEF LocksProtectWrites
  <2> QED
    BY <1>1, <2>1 DEF ClaimedRowGoes, TypeOK
<1>18. SpentRows'
  <2>1. \A r \in Rooms : rooms[r] # None =>
           rooms[r].from \in Tickets /\ rooms[r].from # new /\ rooms[r].from <= issued
    BY <1>2 DEF TypeOK, DebateRoom, SpentRows, Tickets
  <2> QED
    BY <1>1, <1>2, <1>5, <1>6, <1>7, <2>1 DEF SpentRows, Live, Tickets
<1>19. OneRoomPerTicket'
  BY <1>6 DEF OneRoomPerTicket
<1>20. PendingInsert'
  <2>1. ASSUME NEW o \in Sessions \ {s}, pc[o] = "inserted"
        PROVE  OwnRows(o)' = {}
    <3>1. req[o].user # req[s].user /\ OwnRows(o) = {}
      BY <1>1, <2>1 DEF PendingInsert
    <3>2. req'[o] = req[o] /\ dead'[o] = dead[o]
      BY <1>1, <2>1 DEF TypeOK
    <3> QED
      BY <1>4, <1>7, <1>9, <1>11, <3>1, <3>2 DEF OwnRows, Visible
  <2> QED
    BY <1>1, <2>1 DEF PendingInsert, TypeOK
<1>21. UniqueEntry'
  BY <1>4, <1>7, <1>9, <1>11 DEF UniqueEntry
<1> QED
  BY <1>12, <1>13, <1>14, <1>15, <1>16, <1>17, <1>18, <1>19, <1>20, <1>21

------------------------------------------------------------------------------
(* Every step is one of the kinds above.                                     *)

LEMMA ReadingInductive ==
  ASSUME Inductive, NEW s \in Sessions,
         \/ FindOpenRoom(s) \/ CloseRoom(s) \/ NobodyToClaim(s)
         \/ FindNoRoom(s) \/ ReadOpenRoom(s)
  PROVE  Inductive'
<1> USE DEF At
<1>1. \A r \in ActiveRooms(req[s].user) : r \in Rooms /\ rooms[r] # None
  BY DEF ActiveRooms, IsParticipant
<1>2. room[s] \in Rooms \cup {None} /\ room = [room EXCEPT ![s] = room[s]]
      /\ (room[s] # None => rooms[room[s]] # None)
  BY DEF Inductive, TypeOK, ClosesARoom
<1>3. CASE FindOpenRoom(s)
  <2>1. CASE ActiveRooms(req[s].user) = {} /\ Goto(s, "ready") /\ UNCHANGED room
    BY <1>2, <1>3, <2>1, MoveInductive DEF FindOpenRoom
  <2>2. CASE \E r \in Latest(ActiveRooms(req[s].user)) :
               room' = [room EXCEPT ![s] = r] /\ Goto(s, "closing")
    <3>1. PICK r \in ActiveRooms(req[s].user) :
            room' = [room EXCEPT ![s] = r] /\ Goto(s, "closing")
      BY <2>2 DEF Latest
    <3> QED
      BY <1>1, <1>3, <3>1, MoveInductive DEF FindOpenRoom
  <2> QED
    BY <1>3, <2>1, <2>2 DEF FindOpenRoom
<1>4. CASE CloseRoom(s) \/ NobodyToClaim(s) \/ FindNoRoom(s)
  BY <1>2, <1>4, MoveInductive DEF CloseRoom, NobodyToClaim, FindNoRoom
<1>5. CASE ReadOpenRoom(s)
  <2>1. req[s].room \in Rooms /\ rooms[req[s].room] # None
    BY <1>5 DEF ReadOpenRoom, IsParticipant, Inductive, TypeOK, RequestShape
  <2> QED
    BY <1>5, <2>1, MoveInductive DEF ReadOpenRoom
<1> QED
  BY <1>3, <1>4, <1>5

LEMMA ScanningInductive ==
  ASSUME Inductive, NEW s \in Sessions,
         SweepScan(s) \/ UnpairScan(s) \/ DequeueScan(s) \/ TouchScan(s)
  PROVE  Inductive'
<1> USE DEF At
<1>1. StaleRows(s) \in SUBSET Tickets /\ OwnRows(s) \in SUBSET Tickets
      /\ PairRows(s) \in SUBSET Tickets
  BY DEF StaleRows, OwnRows, PairRows, Visible, Live
<1>2. CASE SweepScan(s) \/ DequeueScan(s) \/ TouchScan(s)
  BY <1>1, <1>2, ScanInductive DEF SweepScan, DequeueScan, TouchScan
<1>3. CASE UnpairScan(s)
  <2>1. claim[s].entry \in PairRows(s)
    BY <1>3, NoneAssumption
    DEF UnpairScan, Inductive, ClaimedRowGoes, LocksProtectWrites, PairRows, Visible
  <2> QED
    BY <1>1, <1>3, <2>1, ScanInductive DEF UnpairScan
<1> QED
  BY <1>2, <1>3

LEMMA DeletingInductive ==
  ASSUME Inductive, NEW s \in Sessions, NEW t \in Tickets,
         SweepRow(s, t) \/ UnpairRow(s, t) \/ DequeueRow(s, t)
  PROVE  Inductive'
<1> USE DEF At
<1>1. StaleRows(s) \in SUBSET Live /\ OwnRows(s) \in SUBSET Live
      /\ PairRows(s) \in SUBSET Live
  BY DEF StaleRows, OwnRows, PairRows, Visible
<1>2. CASE SweepRow(s, t) \/ DequeueRow(s, t)
  BY <1>1, <1>2, DeleteRowInductive DEF SweepRow, DequeueRow
<1>3. CASE UnpairRow(s, t)
  <2>1. pc[s] = "unpair" /\ claim[s] # None
    BY <1>3 DEF UnpairRow, Inductive, ClaimedRowGoes
  <2>2. claim[s].entry = t => t \in PairRows(s) \/ t \in dead[s]
    BY <2>1 DEF Inductive, ClaimedRowGoes, LocksProtectWrites, PairRows, Visible
  <2>3. DeleteRow(s, t, PairRows(s) \cup ({t} \cap dead[s]))
    BY <1>3, <2>1 DEF UnpairRow, DeleteRow, Visit, Inductive, TypeOK
  <2>4. {t} \cap dead[s] \subseteq Live
    BY DEF Inductive, LocksProtectWrites
  <2> QED
    BY <1>1, <2>1, <2>2, <2>3, <2>4, DeleteRowInductive
<1> QED
  BY <1>2, <1>3

LEMMA AnsweringInductive ==
  ASSUME Inductive, NEW s \in Sessions,
         \/ RefuseArchived(s) \/ EnqueueConflict(s) \/ AnswerMatched(s)
         \/ AnswerQueued(s) \/ AnswerIdle(s) \/ AnswerEnd(s)
         \/ Rollback(s) \/ DeadlockVictim(s)
  PROVE  Inductive'
BY AnswerInductive
DEF RefuseArchived, EnqueueConflict, AnswerMatched, AnswerQueued, AnswerIdle,
    AnswerEnd, Rollback, DeadlockVictim

LEMMA ServeInductive ==
  ASSUME Inductive, NEW s \in Sessions, Serve(s)
  PROVE  Inductive'
BY AnsweringInductive, ReadingInductive, ScanningInductive, DeletingInductive,
   ClaimInductive, EnqueueInductive, TouchRowInductive, CommitPairedInductive,
   CommitQueuedInductive, CommitPollInductive, CommitLeaveInductive,
   CommitEndInductive
DEF Serve

LEMMA ArrivalInductive ==
  ASSUME Inductive, NEW s \in Sessions,
         BeginJoin(s) \/ BeginPoll(s) \/ BeginLeave(s) \/ BeginEnd(s)
  PROVE  Inductive'
<1> USE DEF NewRequest
<1>1. ASSUME NEW u \in Users, NEW topic \in Topics \cup {None}, NEW r \in Rooms \cup {None},
             NEW op \in {"join", "poll", "leave", "end"},
             op = "join" => topic \in Topics, op = "end" => r \in Rooms,
             Begin(s, NewRequest(op, u, topic, r))
      PROVE  Inductive'
  <2>1. NewRequest(op, u, topic, r) \in Request
    BY DEF Request, Inductive, TypeOK
  <2> QED
    BY <1>1, <2>1, BeginInductive
<1> HIDE DEF NewRequest
<1>2. CASE BeginJoin(s)
  BY <1>1, <1>2 DEF BeginJoin
<1>3. CASE BeginPoll(s)
  BY <1>1, <1>3 DEF BeginPoll
<1>4. CASE BeginLeave(s)
  BY <1>1, <1>4 DEF BeginLeave
<1>5. CASE BeginEnd(s)
  BY <1>1, <1>5 DEF BeginEnd
<1> QED
  BY <1>2, <1>3, <1>4, <1>5

LEMMA NextInductive == Inductive /\ [Next]_vars => Inductive'
<1> SUFFICES ASSUME Inductive, [Next]_vars PROVE Inductive'
  OBVIOUS
<1>1. CASE Tick
  BY <1>1, TickInductive
<1>2. ASSUME NEW s \in Sessions,
             BeginJoin(s) \/ BeginPoll(s) \/ BeginLeave(s) \/ BeginEnd(s)
      PROVE  Inductive'
  BY <1>2, ArrivalInductive
<1>3. ASSUME NEW s \in Sessions, Serve(s) PROVE Inductive'
  BY <1>3, ServeInductive
<1>4. ASSUME NEW s \in Sessions, Rollback(s) \/ DeadlockVictim(s) PROVE Inductive'
  BY <1>4, AnsweringInductive
<1>5. CASE UNCHANGED vars
  BY <1>5
  DEF vars, tables, session, locks, Inductive, TypeOK, KeysIssued, IdleIsEmpty,
      RequestShape, ClosesARoom, LocksProtectWrites, ClaimedRowGoes, SpentRows,
      PendingInsert, UniqueEntry, OneRoomPerTicket, Live, OwnRows, Visible
<1> QED
  BY <1>1, <1>2, <1>3, <1>4, <1>5 DEF Next

------------------------------------------------------------------------------
(* The theorems.                                                             *)

\* The inductive invariant holds of every run of the backend: services/match.py
\* over match_queue and debate_rooms, for any number of people and sessions.
THEOREM AlwaysInductive == Spec => []Inductive
<1>1. Init => Inductive
  BY InitInductive
<1>2. Inductive /\ [Next]_vars => Inductive'
  BY NextInductive
<1> QED
  BY <1>1, <1>2, PTL DEF Spec

\* Every variable keeps its type; in particular end_room never writes to a
\* room that does not exist, and a heartbeat never to a row that is gone.
THEOREM TypeCorrect == Spec => []TypeOK
<1>1. Inductive => TypeOK
  BY DEF Inductive
<1> QED
  BY <1>1, AlwaysInductive, PTL

\* FOR UPDATE: a claimed row is locked by its claimer alone and stays in the
\* queue until the claimer's transaction ends.
THEOREM LocksAlwaysProtect == Spec => []LocksProtectWrites
<1>1. Inductive => LocksProtectWrites
  BY DEF Inductive
<1> QED
  BY <1>1, AlwaysInductive, PTL

\* The unique index: no overlap of joins leaves a person with two queue rows.
THEOREM OnePlaceInTheQueue == Spec => []UniqueEntry
<1>1. Inductive => UniqueEntry
  BY DEF Inductive
<1> QED
  BY <1>1, AlwaysInductive, PTL

\* SKIP LOCKED: no waiting row is ever handed to two people.
THEOREM OneRoomPerWaiter == Spec => []OneRoomPerTicket
<1>1. Inductive => OneRoomPerTicket
  BY DEF Inductive
<1> QED
  BY <1>1, AlwaysInductive, PTL
==============================================================================
