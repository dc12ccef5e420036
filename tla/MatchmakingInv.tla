---------------------------- MODULE MatchmakingInv ----------------------------
(* The inductive invariant of Matchmaking: why the locks are enough.         *)
EXTENDS Matchmaking

\* Keys are handed out in order: every row and every room has one already
\* issued, every issued room exists.
KeysIssued ==
  /\ \A t \in Live : t <= issued
  /\ \A r \in Rooms : rooms[r] # None <=> r <= opened

\* A session in the pool carries nothing over to its next request.
IdleIsEmpty ==
  \A s \in Sessions : pc[s] = "idle" =>
    /\ todo[s] = {} /\ held[s] = {} /\ dead[s] = {} /\ touched[s] = {}
    /\ room[s] = None /\ claim[s] = None

\* A join names a topic, an end names a room.
RequestShape ==
  \A s \in Sessions : req[s] # None =>
    /\ req[s].op = "join" => req[s].topic \in Topics
    /\ req[s].op = "end" => req[s].room \in Rooms

ClosesARoom == \A s \in Sessions : room[s] # None => rooms[room[s]] # None

\* The claimed row still is the claimed person's, and is deleted by the time
\* the room is opened.
ClaimedRowGoes ==
  \A s \in Sessions :
    /\ claim[s] # None <=> pc[s] \in {"claimed", "unpair"}
    /\ claim[s] # None => queue[claim[s].entry].user = claim[s].user
    /\ pc[s] = "claimed" => claim[s].entry \notin dead[s]
    /\ pc[s] = "unpair" => claim[s].entry \in todo[s] \cup dead[s]

\* The row a room was made of is gone for good.
SpentRows ==
  \A r \in Rooms : rooms[r] # None =>
    rooms[r].from <= issued /\ queue[rooms[r].from] = None

\* What an uncommitted INSERT has made sure of in the unique index.
PendingInsert ==
  \A s \in Sessions : pc[s] = "inserted" =>
    /\ OwnRows(s) = {}
    /\ \A o \in Sessions \ {s} :
         pc[o] = "inserted" => req[o].user # req[s].user

\* Everything above holds together, and each step keeps it so.
Inductive ==
  /\ TypeOK /\ KeysIssued /\ IdleIsEmpty /\ RequestShape /\ ClosesARoom
  /\ LocksProtectWrites /\ ClaimedRowGoes /\ SpentRows /\ PendingInsert
  /\ UniqueEntry /\ OneRoomPerTicket
===============================================================================
