-------------------------------- MODULE Ratings --------------------------------
(***************************************************************************)
(* Ratings and the profile: services/rating.py over repositories/rating.py *)
(* and the ratings table.  Requests overlap; each takes one step per       *)
(* statement, and a statement sees what is committed when it runs.         *)
(***************************************************************************)
EXTENDS Integers

CONSTANTS
  Rooms,
  Users,
  Debaters,  \* the two participants of each room
  Requests,  \* requests ever made; each is made once
  Offered,   \* the scores clients send, valid or not
  Texts,     \* the comments clients send
  Blank,     \* one of them: nothing but white space
  None

ASSUME DebatersAssumption ==
  Debaters \in [Rooms -> SUBSET Users]
  /\ \A r \in Rooms : \E u, v \in Users : u # v /\ Debaters[r] = {u, v}
ASSUME OfferedAssumption == Offered \subseteq Int
ASSUME NoneAssumption == None \notin Texts \cup Rooms \cup Users

VARIABLES
  ended,   \* the rooms whose ended_at is set
  ratings, \* the ratings table, as committed, by room and reviewer
  pc,      \* where a request is, or how it was answered
  req,     \* [room, user, row]: row is what a POST would insert
  before,  \* history: what the user had received when the request came
  seen     \* what a request for the profile has read: [rooms, scores, average]

vars == <<ended, ratings, pc, req, before, seen>>

Scores == 1..5
Comments == (Texts \ {Blank}) \cup {None}
Rows == [reviewed : Users, score : Scores, comment : Comments]
Asked == [room : Rooms \cup {None}, user : Users, score : Int, comment : Comments]
Places == Rooms \X Users
Received == SUBSET (Rooms \X Scores)
Nothing == [rooms |-> {}, scores |-> {}, average |-> {}]

ASSUME RowsAssumption == None \notin Rows

TypeOK ==
  /\ ended \subseteq Rooms
  /\ ratings \in [Places -> Rows \cup {None}]
  /\ pc \in [Requests -> {"new", "room", "insert", "inserted", "stateRoom", "state", "rooms",
                          "scores", "average", "invalid", "forbidden", "unfinished", "rated",
                          "duplicate", "unrated", "submitted", "shown", "lost"}]
  /\ req \in [Requests -> Asked \cup {None}]
  /\ \A r \in Requests : pc[r] # "new" => req[r] \in Asked
  /\ before \in [Requests -> Received]
  /\ seen \in [Requests -> [rooms : SUBSET Rooms, scores : Received, average : Received]]

Init ==
  /\ ended = {} /\ ratings = [p \in Places |-> None]
  /\ pc = [r \in Requests |-> "new"] /\ req = [r \in Requests |-> None]
  /\ before = [r \in Requests |-> {}] /\ seen = [r \in Requests |-> Nothing]

------------------------------------------------------------------------------

Goto(r, label) == pc' = [pc EXCEPT ![r] = label]

Place(r) == <<req[r].room, req[r].user>>

\* _opponent_of: the other debater.
Opponent(room, user) == CHOOSE u \in Debaters[room] : u # user

\* The scores of the rows that name "user".
ReceivedBy(user) ==
  {<<p[1], ratings[p].score>> :
     p \in {q \in Places : ratings[q] # None /\ ratings[q].reviewed = user}}

\* Mutant: a blank comment is a comment.
Comment_Kept(text) == text

\* RatingCreate: an empty text box is no comment.
Comment(text) == IF text = Blank THEN None ELSE text

\* A request arrives.
Arrive(r, room, user, score, text, label) ==
  /\ pc[r] = "new"
  /\ req' = [req EXCEPT ![r] =
       [room |-> room, user |-> user, score |-> score, comment |-> Comment(text)]]
  /\ before' = [before EXCEPT ![r] = ReceivedBy(user)]
  /\ Goto(r, label)
  /\ UNCHANGED <<ended, ratings, seen>>

\* POST /rooms/{id}/rating: RatingCreate refuses a score that is out of range.
Post(r, room, user, score, text) ==
  Arrive(r, room, user, score, text, IF score \in Scores THEN "room" ELSE "invalid")

\* GET /rooms/{id}/rating, GET /profile.
AskState(r, room, user) == Arrive(r, room, user, 0, Blank, "stateRoom")
AskProfile(r, user) == Arrive(r, None, user, 0, Blank, "rooms")

Step(r, label) == Goto(r, label) /\ UNCHANGED <<ended, ratings, req, before, seen>>

\* submit, as far as the insert: the room is read once.
Admitted(r) ==
  IF req[r].user \notin Debaters[req[r].room] THEN "forbidden"
  ELSE IF req[r].room \notin ended THEN "unfinished" ELSE "insert"

ReadRoom(r) == pc[r] = "room" /\ Step(r, Admitted(r))

Row(r) == [reviewed |-> Opponent(req[r].room, req[r].user),
           score |-> req[r].score, comment |-> req[r].comment]

\* Mutant: an attempt that is still open counts as a rating.
Taken_Early(r) ==
  \/ ratings[Place(r)] # None
  \/ \E o \in Requests \ {r} : pc[o] = "inserted" /\ Place(o) = Place(r)

\* Mutant: a second rating replaces the first.
Taken_Never(r) == FALSE

\* uq_ratings_room_reviewer.
Taken(r) == ratings[Place(r)] # None

\* The INSERT waits for a transaction that has inserted the same key.
Contended(r) == \E o \in Requests \ {r} : pc[o] = "inserted" /\ Place(o) = Place(r)

Insert(r) ==
  /\ pc[r] = "insert" /\ (Taken(r) \/ ~Contended(r))
  /\ Step(r, IF Taken(r) THEN "duplicate" ELSE "inserted")

Commit(r) ==
  /\ pc[r] = "inserted" /\ Goto(r, "rated")
  /\ ratings' = [ratings EXCEPT ![Place(r)] = Row(r)]
  /\ UNCHANGED <<ended, req, before, seen>>

\* get_state.
ReadRoomOfState(r) ==
  pc[r] = "stateRoom" /\ Step(r,
       IF req[r].user \notin Debaters[req[r].room] THEN "forbidden" ELSE "state")

ReadState(r) ==
  pc[r] = "state" /\ Step(r, IF ratings[Place(r)] = None THEN "unrated" ELSE "submitted")

\* finished_rooms_for.
FinishedRooms(user) == {room \in ended : user \in Debaters[room]}

\* Mutant: the average is of the scores they gave.
Averaged_Given(user) ==
  {<<room, ratings[<<room, user>>].score>> : room \in {o \in Rooms : ratings[<<o, user>>] # None}}

\* average_score_for.
Averaged(user) == ReceivedBy(user)

Read(r, from, label, what) ==
  /\ pc[r] = from /\ Goto(r, label)
  /\ seen' = [seen EXCEPT ![r] = what]
  /\ UNCHANGED <<ended, ratings, req, before>>

\* get_profile: the rooms, the scores received in them, and then the average.
ReadRooms(r) ==
  Read(r, "rooms", "scores", [seen[r] EXCEPT !.rooms = FinishedRooms(req[r].user)])

ReadScores(r) ==
  Read(r, "scores", "average",
       [seen[r] EXCEPT !.scores = {x \in ReceivedBy(req[r].user) : x[1] \in seen[r].rooms}])

ReadAverage(r) ==
  Read(r, "average", "shown", [seen[r] EXCEPT !.average = Averaged(req[r].user)])

\* A dead worker, a lost connection: the session is rolled back.
Rollback(r) ==
  /\ pc[r] \in {"room", "insert", "inserted", "stateRoom", "state", "rooms", "scores", "average"}
  /\ Goto(r, "lost") /\ UNCHANGED <<ended, ratings, req, before, seen>>

\* A participant ends the debate (Matchmaking).
End(room) ==
  /\ room \notin ended /\ ended' = ended \cup {room}
  /\ UNCHANGED <<ratings, pc, req, before, seen>>

Next ==
  \/ \E r \in Requests :
       \/ \E room \in Rooms, user \in Users :
            \/ \E score \in Offered, text \in Texts : Post(r, room, user, score, text)
            \/ AskState(r, room, user)
       \/ \E user \in Users : AskProfile(r, user)
       \/ ReadRoom(r) \/ Insert(r) \/ Commit(r)
       \/ ReadRoomOfState(r) \/ ReadState(r)
       \/ ReadRooms(r) \/ ReadScores(r) \/ ReadAverage(r)
       \/ Rollback(r)
  \/ \E room \in Rooms : End(room)

Spec == Init /\ [][Next]_vars

------------------------------------------------------------------------------
(* Properties.                                                               *)

\* What a POST answers is so: "rated" is stored as sent, and "you have already
\* rated this debate" is never said to somebody with no rating stored, although
\* the first attempt may be rolled back while the second one waits for it.
AnswersAreTrue ==
  \A r \in Requests :
    /\ pc[r] = "rated" => ratings[Place(r)] = Row(r)
    /\ pc[r] = "duplicate" => ratings[Place(r)] # None

\* A profile adds up: what was received before it was asked for is in the
\* history, and each score of the history is counted in the average, although
\* debates end and ratings arrive between its three statements.
ProfileAddsUp ==
  \A r \in Requests : pc[r] = "shown" =>
    before[r] \subseteq seen[r].scores /\ seen[r].scores \subseteq seen[r].average

\* A rating is stored once, whole, and never revised.
Table == INSTANCE WriteOnce WITH Keys <- Places, Values <- Rows, Absent <- None, store <- ratings

RefinesWriteOnce == Table!Spec
================================================================================
