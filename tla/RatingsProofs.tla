---------------------------- MODULE RatingsProofs ----------------------------
(* What holds of Ratings for any number of debates, people and requests.     *)
EXTENDS Ratings, TLAPS

USE DebatersAssumption, OfferedAssumption, NoneAssumption, RowsAssumption

(* The requests that are past a check know what it has found.                *)
Posting == {"room", "insert", "inserted", "rated", "unfinished", "duplicate"}
Admissible == {"insert", "inserted", "rated", "duplicate"}

Posted ==
  \A r \in Requests :
    /\ pc[r] \in Posting => req[r].room \in Rooms /\ req[r].score \in Scores
    /\ pc[r] \in Admissible =>
         req[r].user \in Debaters[req[r].room] /\ req[r].room \in ended

StateAsked ==
  \A r \in Requests : pc[r] \in {"stateRoom", "state"} => req[r].room \in Rooms

\* An open insert is the only one at its key, and the key is free.
InsertsAreAlone ==
  \A r \in Requests : pc[r] = "inserted" =>
    /\ ratings[Place(r)] = None
    /\ \A o \in Requests \ {r} : pc[o] = "inserted" => Place(o) # Place(r)

\* A rating is about an opponent, in a debate that is over.
RatingsAreFair ==
  \A p \in Places : ratings[p] # None =>
    p[1] \in ended /\ ratings[p].reviewed \in Debaters[p[1]]

\* What a profile has read so far, between what was there before and what is.
ProfileGrows ==
  \A r \in Requests :
    /\ pc[r] \in {"rooms", "scores", "average", "shown"} =>
         before[r] \subseteq ReceivedBy(req[r].user)
    /\ pc[r] = "scores" => \A x \in before[r] : x[1] \in seen[r].rooms
    /\ pc[r] = "average" =>
         before[r] \subseteq seen[r].scores /\ seen[r].scores \subseteq ReceivedBy(req[r].user)

Inv ==
  /\ TypeOK /\ Posted /\ StateAsked /\ InsertsAreAlone
  /\ RatingsAreFair /\ ProfileGrows /\ AnswersAreTrue /\ ProfileAddsUp

LEMMA CommentType ==
  ASSUME NEW text \in Texts \cup {Blank}
  PROVE  Comment(text) \in Comments
BY DEF Comment, Comments

LEMMA OpponentIsOther ==
  ASSUME NEW room \in Rooms, NEW user \in Debaters[room]
  PROVE  Opponent(room, user) \in Debaters[room] /\ Opponent(room, user) \in Users
<1>1. \E u \in Debaters[room] : u # user
  OBVIOUS
<1>2. Opponent(room, user) \in Debaters[room]
  BY <1>1 DEF Opponent
<1> QED
  BY <1>2

LEMMA RowType ==
  ASSUME Inv, NEW r \in Requests, pc[r] = "inserted"
  PROVE  /\ Place(r) \in Places /\ Row(r) \in Rows
         /\ Row(r).reviewed \in Debaters[req[r].room]
<1>1. req[r].room \in Rooms /\ req[r].score \in Scores /\ req[r].user \in Debaters[req[r].room]
  BY DEF Inv, Posted, Posting, Admissible
<1>2. req[r].user \in Users /\ req[r].comment \in Comments
  BY DEF Inv, TypeOK, Asked
<1>3. Opponent(req[r].room, req[r].user) \in Debaters[req[r].room] \cap Users
  BY <1>1, OpponentIsOther
<1> QED
  BY <1>1, <1>2, <1>3 DEF Place, Places, Row, Rows

LEMMA ReceivedType ==
  ASSUME TypeOK, NEW user
  PROVE  ReceivedBy(user) \in Received
<1>1. ASSUME NEW q \in Places, ratings[q] # None
      PROVE  q[1] \in Rooms /\ ratings[q].score \in Scores
  BY <1>1 DEF TypeOK, Rows, Places
<1> QED
  BY <1>1 DEF ReceivedBy, Received

(* Whatever a request asks for, it comes with nothing read.                  *)
LEMMA ArriveInductive ==
  ASSUME Inv, NEW r \in Requests, NEW room \in Rooms \cup {None}, NEW user \in Users,
         NEW score \in Int, NEW text \in Texts \cup {Blank},
         NEW label \in {"room", "invalid", "stateRoom", "rooms"},
         label = "room" => room \in Rooms /\ score \in Scores,
         label = "stateRoom" => room \in Rooms,
         Arrive(r, room, user, score, text, label)
  PROVE  Inv'
<1> USE DEF Inv, Arrive, Goto
<1>1. req'[r] = [room |-> room, user |-> user, score |-> score, comment |-> Comment(text)]
      /\ req'[r] \in Asked /\ \A o \in Requests \ {r} : req'[o] = req[o] /\ pc'[o] = pc[o]
  BY CommentType DEF TypeOK, Asked
<1>2. pc'[r] = label /\ before'[r] = ReceivedBy(user)
  BY DEF TypeOK
<1>3. TypeOK'
  <2>1. req' \in [Requests -> Asked \cup {None}]
    BY <1>1 DEF TypeOK
  <2>2. before' \in [Requests -> Received]
    BY ReceivedType DEF TypeOK
  <2>3. \A o \in Requests : pc'[o] # "new" => req'[o] \in Asked
    BY <1>1, <1>2 DEF TypeOK
  <2> QED
    BY <2>1, <2>2, <2>3 DEF TypeOK
<1>4. Posted' /\ StateAsked'
  BY <1>1, <1>2 DEF Posted, StateAsked, Posting, Admissible
<1>5. InsertsAreAlone'
  <2>1. \A o \in Requests : pc'[o] = "inserted" => o # r /\ pc[o] = "inserted" /\ Place(o)' = Place(o)
    BY <1>1, <1>2 DEF Place
  <2> QED
    BY <2>1 DEF InsertsAreAlone
<1>6. RatingsAreFair'
  BY DEF RatingsAreFair
<1>7. ProfileGrows'
  <2>1. \A u : ReceivedBy(u)' = ReceivedBy(u)
    BY DEF ReceivedBy
  <2> QED
    BY <1>1, <1>2, <2>1 DEF ProfileGrows
<1>8. AnswersAreTrue'
  BY <1>1, <1>2 DEF AnswersAreTrue, Place, Row
<1>9. ProfileAddsUp'
  BY <1>1, <1>2 DEF ProfileAddsUp, TypeOK
<1> QED
  BY <1>3, <1>4, <1>5, <1>6, <1>7, <1>8, <1>9

(* A request goes on, and no table and no record changes.                    *)
LEMMA StepInductive ==
  ASSUME Inv, NEW r \in Requests, NEW label,
         pc[r] # "new", Step(r, label),
         label \in {"insert", "inserted", "state", "forbidden", "unfinished", "duplicate",
                    "unrated", "submitted", "lost"},
         label \in {"insert", "inserted", "unfinished", "duplicate"} => pc[r] \in Posting,
         label = "insert" =>
           req[r].user \in Debaters[req[r].room] /\ req[r].room \in ended,
         label \in {"inserted", "duplicate"} => pc[r] = "insert",
         label = "inserted" => ~Taken(r) /\ ~Contended(r),
         label = "duplicate" => Taken(r),
         label = "state" => pc[r] = "stateRoom"
  PROVE  Inv'
<1> USE DEF Inv, Step, Goto
<1>1. pc'[r] = label /\ \A o \in Requests \ {r} : pc'[o] = pc[o]
  BY DEF TypeOK
<1>2. TypeOK'
  BY DEF TypeOK
<1>3. Posted' /\ StateAsked'
  BY <1>1 DEF Posted, StateAsked, Posting, Admissible
<1>4. InsertsAreAlone'
  BY <1>1 DEF InsertsAreAlone, Contended, Place, Taken
<1>5. RatingsAreFair'
  BY DEF RatingsAreFair
<1>6. ProfileGrows'
  BY <1>1 DEF ProfileGrows, ReceivedBy
<1>7. AnswersAreTrue'
  BY <1>1 DEF AnswersAreTrue, Place, Row, Taken
<1>8. ProfileAddsUp'
  BY <1>1 DEF ProfileAddsUp
<1> QED
  BY <1>2, <1>3, <1>4, <1>5, <1>6, <1>7, <1>8

(* The row appears.                                                          *)
LEMMA CommitInductive ==
  ASSUME Inv, NEW r \in Requests, Commit(r)
  PROVE  Inv'
<1> DEFINE p == Place(r)
<1> USE DEF Inv, Commit, Goto
<1>1. /\ p \in Places /\ Row(r) \in Rows /\ ratings[p] = None
      /\ Row(r).reviewed \in Debaters[p[1]] /\ p[1] \in ended
      /\ p = <<req[r].room, req[r].user>>
  <2>1. p \in Places /\ Row(r) \in Rows /\ Row(r).reviewed \in Debaters[req[r].room]
    BY RowType
  <2>2. p = <<req[r].room, req[r].user>> /\ p[1] = req[r].room
    BY DEF Place
  <2>3. ratings[p] = None /\ req[r].room \in ended
    BY DEF InsertsAreAlone, Posted, Admissible
  <2> QED
    BY <2>1, <2>2, <2>3
<1>2. ratings' = [ratings EXCEPT ![p] = Row(r)] /\ Row(r) # None
  BY <1>1
<1> HIDE DEF p
<1>3. ratings'[p] = Row(r) /\ \A q \in Places \ {p} : ratings'[q] = ratings[q]
  BY <1>1, <1>2 DEF TypeOK
<1>4. pc'[r] = "rated" /\ \A o \in Requests \ {r} : pc'[o] = pc[o]
  BY DEF TypeOK
<1>5. \A o \in Requests : Place(o)' = Place(o) /\ Row(o)' = Row(o)
  BY DEF Place, Row
<1>6. TypeOK'
  <2>1. ratings' \in [Places -> Rows \cup {None}]
    BY <1>1, <1>2 DEF TypeOK
  <2> QED
    BY <2>1 DEF TypeOK
<1>7. Posted' /\ StateAsked'
  BY <1>4 DEF Posted, StateAsked, Posting, Admissible
<1>8. InsertsAreAlone'
  <2>1. ASSUME NEW o \in Requests, pc'[o] = "inserted"
        PROVE  o # r /\ pc[o] = "inserted" /\ Place(o) # p /\ ratings[Place(o)] = None
    BY <1>4, <2>1 DEF InsertsAreAlone, p
  <2>2. ASSUME NEW o \in Requests, pc'[o] = "inserted"
        PROVE  ratings'[Place(o)] = None
    <3>1. Place(o) \in Places
      BY <2>1, <2>2, RowType
    <3> QED
      BY <3>1, <2>1, <2>2, <1>3
  <2> QED
    BY <2>1, <2>2, <1>4, <1>5 DEF InsertsAreAlone
<1>9. RatingsAreFair'
  BY <1>1, <1>3 DEF RatingsAreFair
<1>10. \A user : ReceivedBy(user) \subseteq ReceivedBy(user)'
  <2>1. \A q \in Places : ratings[q] # None => ratings'[q] = ratings[q]
    BY <1>1, <1>3
  <2> QED
    BY <2>1 DEF ReceivedBy
<1>11. ProfileGrows'
  <2>1. \A o \in Requests :
          pc'[o] \in {"rooms", "scores", "average", "shown"} => pc'[o] = pc[o]
    BY <1>4
  <2>2. ASSUME NEW o \in Requests, pc'[o] \in {"rooms", "scores", "average", "shown"}
        PROVE  before[o] \subseteq ReceivedBy(req[o].user)'
    BY <1>10, <2>1, <2>2 DEF ProfileGrows
  <2>3. ASSUME NEW o \in Requests, pc'[o] = "average"
        PROVE  before[o] \subseteq seen[o].scores /\ seen[o].scores \subseteq ReceivedBy(req[o].user)'
    BY <1>10, <2>1, <2>3 DEF ProfileGrows
  <2> QED
    BY <2>1, <2>2, <2>3 DEF ProfileGrows
<1>12. AnswersAreTrue'
  <2>1. ASSUME NEW o \in Requests, pc[o] \in {"rated", "duplicate"}
        PROVE  Place(o) \in Places
    BY <2>1 DEF Posted, Posting, Place, Places, TypeOK, Asked
  <2>2. ASSUME NEW o \in Requests, pc[o] = "rated"
        PROVE  ratings[Place(o)] = Row(o) /\ Row(o) # None
    <3>1. req[o].room \in Rooms /\ req[o].score \in Scores /\ req[o].user \in Debaters[req[o].room]
      BY <2>2 DEF Posted, Posting, Admissible
    <3>2. Opponent(req[o].room, req[o].user) \in Users
      BY <3>1, OpponentIsOther
    <3>3. req[o] \in Asked
      BY <2>2 DEF TypeOK
    <3>4. req[o].comment \in Comments
      BY <3>3 DEF Asked
    <3>5. Row(o) \in Rows
      BY <3>1, <3>2, <3>4 DEF Row, Rows
    <3> QED
      BY <2>2, <3>5, RowsAssumption DEF AnswersAreTrue
  <2>3. ASSUME NEW o \in Requests, pc[o] = "rated"
        PROVE  ratings'[Place(o)] = Row(o)
    BY <1>1, <1>3, <2>1, <2>2, <2>3
  <2>4. ASSUME NEW o \in Requests, pc[o] = "duplicate"
        PROVE  ratings'[Place(o)] # None
    BY <1>1, <1>2, <1>3, <2>1, <2>4 DEF AnswersAreTrue
  <2> QED
    BY <1>3, <1>4, <1>5, <2>3, <2>4 DEF AnswersAreTrue, p
<1>13. ProfileAddsUp'
  BY <1>4 DEF ProfileAddsUp
<1> QED
  BY <1>6, <1>7, <1>8, <1>9, <1>11, <1>12, <1>13

(* One statement of the profile.                                             *)
LEMMA ReadInductive ==
  ASSUME Inv, NEW r \in Requests, ReadRooms(r) \/ ReadScores(r) \/ ReadAverage(r)
  PROVE  Inv'
<1> USE DEF Inv, ReadRooms, ReadScores, ReadAverage, Read, Goto
<1>1. \A o \in Requests \ {r} : pc'[o] = pc[o] /\ seen'[o] = seen[o]
  BY DEF TypeOK
<1>2. UNCHANGED <<ended, ratings, req, before>>
  OBVIOUS
<1>3. \A user : ReceivedBy(user)' = ReceivedBy(user) /\ ReceivedBy(user) \in Received
  BY <1>2, ReceivedType DEF ReceivedBy
<1>4. pc'[r] \in {"scores", "average", "shown"} /\ pc[r] \in {"rooms", "scores", "average"}
  BY DEF TypeOK
<1>5. seen'[r] \in [rooms : SUBSET Rooms, scores : Received, average : Received]
  <2>1. seen[r] \in [rooms : SUBSET Rooms, scores : Received, average : Received]
    BY DEF TypeOK
  <2>2. CASE ReadRooms(r)
    BY <2>1, <2>2 DEF FinishedRooms, TypeOK
  <2>3. CASE ReadScores(r)
    BY <2>1, <2>3, <1>3 DEF TypeOK, Received
  <2>4. CASE ReadAverage(r)
    BY <2>1, <2>4, <1>3 DEF TypeOK, Averaged
  <2> QED
    BY <2>2, <2>3, <2>4
<1>6. TypeOK'
  <2>1. seen' \in [Requests -> [rooms : SUBSET Rooms, scores : Received, average : Received]]
    BY <1>5 DEF TypeOK
  <2>2. pc' = [pc EXCEPT ![r] = pc'[r]]
    BY DEF TypeOK
  <2> QED
    BY <1>2, <1>4, <2>1, <2>2 DEF TypeOK
<1>7. Posted' /\ StateAsked'
  BY <1>1, <1>2, <1>4 DEF Posted, StateAsked, Posting, Admissible
<1>8. InsertsAreAlone' /\ AnswersAreTrue'
  BY <1>1, <1>2, <1>4 DEF InsertsAreAlone, AnswersAreTrue, Place, Row
<1>9. RatingsAreFair'
  BY <1>2 DEF RatingsAreFair
<1>10. ProfileGrows'
  <2>1. before[r] \subseteq ReceivedBy(req[r].user)
    BY <1>4 DEF ProfileGrows
  <2>2. CASE ReadRooms(r)
    <3>1. ASSUME NEW x \in before[r]
          PROVE  x[1] \in FinishedRooms(req[r].user)
      <4>1. PICK q \in Places : /\ ratings[q] # None /\ ratings[q].reviewed = req[r].user
                                /\ x = <<q[1], ratings[q].score>>
        BY <2>1 DEF ReceivedBy
      <4> QED
        BY <4>1 DEF RatingsAreFair, FinishedRooms
    <3>2. pc'[r] = "scores" /\ seen'[r].rooms = FinishedRooms(req[r].user)
      BY <2>2 DEF TypeOK
    <3> QED
      BY <1>1, <1>2, <1>3, <2>1, <3>1, <3>2 DEF ProfileGrows
  <2>3. CASE ReadScores(r)
    <3>1. pc'[r] = "average"
          /\ seen'[r].scores = {x \in ReceivedBy(req[r].user) : x[1] \in seen[r].rooms}
      BY <2>3 DEF TypeOK
    <3>2. before[r] \subseteq seen'[r].scores
      BY <2>1, <2>3, <3>1 DEF ProfileGrows
    <3> QED
      BY <1>1, <1>2, <1>3, <2>1, <3>1, <3>2 DEF ProfileGrows
  <2>4. CASE ReadAverage(r)
    <3>1. pc'[r] = "shown"
      BY <2>4 DEF TypeOK
    <3> QED
      BY <1>1, <1>2, <1>3, <2>1, <3>1 DEF ProfileGrows
  <2> QED
    BY <2>2, <2>3, <2>4
<1>11. ProfileAddsUp'
  <2>1. ASSUME pc'[r] = "shown"
        PROVE  before[r] \subseteq seen'[r].scores /\ seen'[r].scores \subseteq seen'[r].average
    <3>1. ReadAverage(r)
      BY <2>1 DEF TypeOK
    <3>2. seen'[r].scores = seen[r].scores /\ seen'[r].average = ReceivedBy(req[r].user)
      BY <3>1 DEF TypeOK, Averaged
    <3> QED
      BY <3>1, <3>2 DEF ProfileGrows
  <2> QED
    BY <1>1, <1>2, <2>1 DEF ProfileAddsUp
<1> QED
  BY <1>6, <1>7, <1>8, <1>9, <1>10, <1>11

LEMMA EndInductive ==
  ASSUME Inv, NEW room \in Rooms, End(room)
  PROVE  Inv'
<1> USE DEF Inv, End
<1>1. TypeOK'
  BY DEF TypeOK
<1>2. Posted' /\ StateAsked' /\ RatingsAreFair'
  BY DEF Posted, StateAsked, RatingsAreFair
<1>3. InsertsAreAlone' /\ AnswersAreTrue'
  BY DEF InsertsAreAlone, AnswersAreTrue, Place, Row
<1>4. ProfileGrows' /\ ProfileAddsUp'
  BY DEF ProfileGrows, ProfileAddsUp, ReceivedBy
<1> QED
  BY <1>1, <1>2, <1>3, <1>4

LEMMA InvInitially == Init => Inv
BY DEF Init, Inv, TypeOK, Received, Nothing, Posted, Posting, Admissible, StateAsked,
       InsertsAreAlone, RatingsAreFair, ProfileGrows, AnswersAreTrue, ProfileAddsUp

LEMMA InvInductive == Inv /\ [Next]_vars => Inv'
<1> SUFFICES ASSUME Inv, [Next]_vars PROVE Inv'
  OBVIOUS
<1>1. ASSUME NEW r \in Requests, NEW room \in Rooms, NEW user \in Users,
             NEW score \in Offered, NEW text \in Texts, Post(r, room, user, score, text)
      PROVE  Inv'
  <2>1. CASE score \in Scores
    BY <1>1, <2>1, ArriveInductive DEF Post
  <2>2. CASE score \notin Scores
    BY <1>1, <2>2, ArriveInductive DEF Post
  <2> QED
    BY <2>1, <2>2
<1>2. ASSUME NEW r \in Requests, NEW room \in Rooms, NEW user \in Users, AskState(r, room, user)
      PROVE  Inv'
  BY <1>2, ArriveInductive DEF AskState
<1>3. ASSUME NEW r \in Requests, NEW user \in Users, AskProfile(r, user)
      PROVE  Inv'
  BY <1>3, ArriveInductive DEF AskProfile
<1>4. ASSUME NEW r \in Requests, ReadRoom(r)
      PROVE  Inv'
  BY <1>4, StepInductive DEF ReadRoom, Admitted, Posting
<1>5. ASSUME NEW r \in Requests, Insert(r)
      PROVE  Inv'
  BY <1>5, StepInductive DEF Insert, Posting
<1>6. ASSUME NEW r \in Requests, ReadRoomOfState(r)
      PROVE  Inv'
  BY <1>6, StepInductive DEF ReadRoomOfState
<1>7. ASSUME NEW r \in Requests, ReadState(r)
      PROVE  Inv'
  BY <1>7, StepInductive DEF ReadState
<1>8. ASSUME NEW r \in Requests, Rollback(r)
      PROVE  Inv'
  BY <1>8, StepInductive DEF Rollback, Step
<1>9. CASE UNCHANGED vars
  BY <1>9 DEF vars, Inv, TypeOK, Posted, StateAsked, InsertsAreAlone, RatingsAreFair,
              ProfileGrows, AnswersAreTrue, ProfileAddsUp, Place, Row, ReceivedBy
<1> QED
  BY <1>1, <1>2, <1>3, <1>4, <1>5, <1>6, <1>7, <1>8, <1>9,
     CommitInductive, ReadInductive, EndInductive DEF Next

LEMMA AlwaysInv == Spec => []Inv
BY InvInitially, InvInductive, PTL DEF Spec

(* Every request and every row of the ratings table has its type, whatever   *)
(* scores and comments clients send.                                         *)
THEOREM TypeCorrect == Spec => []TypeOK
<1>1. Inv => TypeOK
  BY DEF Inv
<1> QED
  BY AlwaysInv, <1>1, PTL

(* services/rating.py, submit: whoever is told that a rating is recorded, or *)
(* that there is one already, is told the truth.                             *)
THEOREM AnswersTrue == Spec => []AnswersAreTrue
<1>1. Inv => AnswersAreTrue
  BY DEF Inv
<1> QED
  BY AlwaysInv, <1>1, PTL

(* services/rating.py, get_profile: history and average agree, although they *)
(* are read by three statements.                                             *)
THEOREM ProfilesAddUp == Spec => []ProfileAddsUp
<1>1. Inv => ProfileAddsUp
  BY DEF Inv
<1> QED
  BY AlwaysInv, <1>1, PTL

(* The ratings table is a write-once store: a step puts one rating at a free *)
(* key, or leaves the table alone.                                           *)
THEOREM ImplementsWriteOnce == Spec => RefinesWriteOnce
<1>1. Init => Table!Init
  BY DEF Init, Table!Init
<1>2. Inv /\ [Next]_vars => [Table!Next]_ratings
  <2> SUFFICES ASSUME Inv, [Next]_vars, ratings' # ratings PROVE Table!Next
    OBVIOUS
  <2>1. PICK r \in Requests : Commit(r)
    BY DEF vars, Next, Post, AskState, AskProfile, Arrive, ReadRoom, Insert, ReadRoomOfState,
           ReadState, ReadRooms, ReadScores, ReadAverage, Read, Rollback, End, Step
  <2>2. Place(r) \in Places /\ Row(r) \in Rows /\ ratings[Place(r)] = None
    BY <2>1, RowType DEF Commit, Inv, InsertsAreAlone
  <2>3. Table!Put(Place(r), Row(r))
    BY <2>1, <2>2 DEF Commit, Table!Put
  <2> QED
    BY <2>2, <2>3 DEF Table!Next
<1> QED
  BY <1>1, <1>2, AlwaysInv, PTL DEF Spec, RefinesWriteOnce, Table!Spec
==============================================================================
