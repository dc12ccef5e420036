-------------------------- MODULE WaitingRoomProofs --------------------------
(* What holds of WaitingRoom for any users, topics, retries and visits.      *)
EXTENDS WaitingRoom, FiniteSetTheorems, TLAPS

USE BoundsAssumption, NoneAssumption

Debates ==
  [people : SUBSET Users, over : BOOLEAN, since : UNION {[P -> Nat] : P \in SUBSET Users}]

IsCall(c) ==
  /\ DOMAIN c = {"kind", "user", "visit", "no", "topic", "tries", "answer"}
  /\ c.user \in Users /\ c.topic \in Topics

\* The types of what the server keeps, and of what it is asked.
Typed ==
  /\ queue \in [Users -> Topics \cup {None}] /\ rooms \in Seq(Debates)
  /\ visit \in [Users -> Nat] /\ topic \in [Users -> Topics]
  /\ \A c \in calls : IsCall(c)

\* A user is in one open debate at most, and in none while queued.
Alone(u) ==
  /\ \A r, s \in OpenRooms(u) : r = s
  /\ queue[u] # None => OpenRooms(u) = {}

Inv == Typed /\ \A u \in Users : Alone(u)

------------------------------------------------------------------------------

LEMMA AbandoningType ==
  ASSUME Typed, NEW u \in Users
  PROVE  /\ Abandoning(u) \in Seq(Debates) /\ Len(Abandoning(u)) = Len(rooms)
         /\ \A r \in DOMAIN rooms :
              /\ Abandoning(u)[r].people = rooms[r].people
              /\ Abandoning(u)[r].over <=> rooms[r].over \/ r \in OpenRooms(u)
<1>1. ASSUME NEW r \in DOMAIN rooms
      PROVE  [rooms[r] EXCEPT !.over = rooms[r].over \/ r \in OpenRooms(u)] \in Debates
  <2>1. rooms[r] \in Debates
    BY DEF Typed
  <2> QED
    BY <2>1 DEF Debates
<1>2. Abandoning(u) \in Seq(Debates) /\ Len(Abandoning(u)) = Len(rooms)
  BY <1>1 DEF Abandoning, Typed
<1>3. \A r \in DOMAIN rooms :
        Abandoning(u)[r] = [rooms[r] EXCEPT !.over = rooms[r].over \/ r \in OpenRooms(u)]
  BY DEF Abandoning
<1>4. \A r \in DOMAIN rooms : rooms[r] \in Debates
  BY DEF Typed
<1> QED
  BY <1>2, <1>3, <1>4 DEF Debates

LEMMA PairKeeps ==
  ASSUME Inv, NEW u \in Users, NEW t \in Topics, NEW o \in Waiting(u, t), Pair(u, o)
  PROVE  /\ queue' \in [Users -> Topics \cup {None}] /\ rooms' \in Seq(Debates)
         /\ \A w \in Users : Alone(w)'
<1> DEFINE new == [people |-> {u, o}, over |-> FALSE, since |-> [p \in {u, o} |-> visit[p]]]
<1>1. o \in Users /\ o # u /\ queue[o] # None
  BY DEF Waiting
<1>2. new \in Debates
  <2>1. [p \in {u, o} |-> visit[p]] \in [{u, o} -> Nat] /\ {u, o} \in SUBSET Users
    BY <1>1 DEF Inv, Typed
  <2>2. [p \in {u, o} |-> visit[p]] \in UNION {[P -> Nat] : P \in SUBSET Users}
    BY <2>1
  <2> QED
    BY <2>1, <2>2 DEF Debates
<1>3. rooms' = Append(Abandoning(u), new) /\ queue' = [queue EXCEPT ![u] = None, ![o] = None]
  BY DEF Pair
<1>4. rooms' \in Seq(Debates) /\ DOMAIN rooms' = DOMAIN rooms \cup {Len(rooms) + 1}
      /\ rooms'[Len(rooms) + 1] = new
      /\ \A r \in DOMAIN rooms : rooms'[r] = Abandoning(u)[r]
  <2> HIDE DEF new
  <2> QED
    BY <1>2, <1>3, AbandoningType DEF Inv, Typed
<1>5. queue' \in [Users -> Topics \cup {None}]
  BY <1>3 DEF Inv, Typed
<1>6. ASSUME NEW w \in Users, NEW r \in OpenRooms(w)'
      PROVE  \/ r \in OpenRooms(w) /\ r \notin OpenRooms(u) /\ r # Len(rooms) + 1
             \/ r = Len(rooms) + 1 /\ w \in {u, o}
  <2>1. r \in DOMAIN rooms' /\ ~rooms'[r].over /\ w \in rooms'[r].people
    BY <1>6 DEF OpenRooms
  <2>2. Len(rooms) + 1 \notin DOMAIN rooms
    BY DEF Inv, Typed
  <2>3. CASE r = Len(rooms) + 1
    BY <2>1, <2>3, <1>4
  <2>4. CASE r \in DOMAIN rooms
    BY <2>1, <2>2, <2>4, <1>4, AbandoningType DEF Inv, OpenRooms
  <2> QED
    BY <2>1, <2>3, <2>4, <1>4
<1>7. OpenRooms(o) = {}
  BY <1>1 DEF Inv, Alone
<1>8. ASSUME NEW w \in Users
      PROVE  Alone(w)'
  <2>1. CASE w \in {u, o}
    <3>1. queue'[w] = None
      BY <1>1, <1>3, <2>1 DEF Inv, Typed
    <3>2. \A r \in OpenRooms(w)' : r = Len(rooms) + 1
      BY <1>6, <1>7, <2>1
    <3> QED
      BY <3>1, <3>2 DEF Alone
  <2>2. CASE w \notin {u, o}
    <3>1. queue'[w] = queue[w]
      BY <1>3, <2>2 DEF Inv, Typed
    <3>2. OpenRooms(w)' \subseteq OpenRooms(w)
      BY <1>6, <2>2
    <3> QED
      BY <3>1, <3>2 DEF Inv, Alone
  <2> QED
    BY <2>1, <2>2
<1> QED
  BY <1>4, <1>5, <1>8

LEMMA EnqueueKeeps ==
  ASSUME Inv, NEW u \in Users, NEW t \in Topics, Enqueue(u, t)
  PROVE  /\ queue' \in [Users -> Topics \cup {None}] /\ rooms' \in Seq(Debates)
         /\ \A w \in Users : Alone(w)'
<1>1. rooms' = Abandoning(u) /\ queue' = [queue EXCEPT ![u] = t]
  BY DEF Enqueue
<1>2. rooms' \in Seq(Debates) /\ queue' \in [Users -> Topics \cup {None}]
  BY <1>1, AbandoningType DEF Inv, Typed
<1>3. DOMAIN rooms' = DOMAIN rooms
  BY <1>1 DEF Abandoning
<1>4. \A w \in Users : OpenRooms(w)' \subseteq OpenRooms(w) \ OpenRooms(u)
  BY <1>1, <1>3, AbandoningType DEF Inv, OpenRooms
<1>5. \A w \in Users \ {u} : queue'[w] = queue[w]
  BY <1>1 DEF Inv, Typed
<1> QED
  BY <1>2, <1>4, <1>5 DEF Inv, Alone

\* Debates that end, and entries that go.
LEMMA LessIsAlone ==
  ASSUME Inv, queue' \in [Users -> Topics \cup {None}],
         \A u \in Users : queue'[u] \in {queue[u], None},
         rooms' = rooms \/ \E i : rooms' = [rooms EXCEPT ![i].over = TRUE]
  PROVE  rooms' \in Seq(Debates) /\ \A u \in Users : Alone(u)'
<1>1. CASE rooms' = rooms
  BY <1>1 DEF Inv, Typed, Alone, OpenRooms
<1>2. ASSUME NEW i, rooms' = [rooms EXCEPT ![i].over = TRUE]
      PROVE  rooms' \in Seq(Debates) /\ \A u \in Users : Alone(u)'
  <2>1. \A r \in DOMAIN rooms :
          rooms'[r] = IF r = i THEN [rooms[r] EXCEPT !.over = TRUE] ELSE rooms[r]
    BY <1>2
  <2>2. ASSUME NEW r \in DOMAIN rooms
        PROVE  /\ rooms'[r] \in Debates /\ rooms'[r].people = rooms[r].people
               /\ rooms[r].over => rooms'[r].over
    <3>1. rooms[r] \in Debates
      BY DEF Inv, Typed
    <3>2. CASE r = i
      <4>1. rooms'[r] = [rooms[r] EXCEPT !.over = TRUE]
        BY <2>1, <3>2
      <4> QED
        BY <3>1, <4>1 DEF Debates
    <3>3. CASE r # i
      <4>1. rooms'[r] = rooms[r]
        BY <2>1, <3>3
      <4> QED
        BY <3>1, <4>1
    <3> QED
      BY <3>2, <3>3
  <2>3. DOMAIN rooms' = DOMAIN rooms /\ rooms' \in Seq(Debates)
    <3>1. /\ DOMAIN rooms = 1..Len(rooms) /\ Len(rooms) \in Nat
      BY DEF Inv, Typed
    <3>2. rooms' \in [DOMAIN rooms -> Debates]
      BY <1>2, <2>2
    <3> QED
      BY <3>1, <3>2
  <2>4. \A u \in Users : OpenRooms(u)' \subseteq OpenRooms(u)
    BY <2>2, <2>3 DEF OpenRooms
  <2> QED
    BY <2>3, <2>4 DEF Inv, Alone
<1> QED
  BY <1>1, <1>2

------------------------------------------------------------------------------

\* What is asked of the server, and what becomes of it.
LEMMA CallType ==
  ASSUME Typed, NEW kind, NEW u \in Users, NEW no
  PROVE  IsCall(Call(kind, u, no))
BY DEF Typed, IsCall, Call

LEMMA ReplyType ==
  ASSUME Typed, NEW c \in calls, NEW answer, Reply(c, answer)
  PROVE  /\ \A d \in calls' : IsCall(d)
         /\ visit' = visit /\ topic' = topic
<1>1. IsCall([c EXCEPT !.answer = answer])
  BY DEF Typed, IsCall
<1> QED
  BY <1>1 DEF Typed, Reply, tab

LEMMA ServeInductive ==
  ASSUME Inv, NEW c \in calls, Serve(c)
  PROVE  Inv'
<1>1. c.user \in Users /\ c.topic \in Topics
  BY DEF Inv, Typed, IsCall
<1>2. \E answer : Reply(c, answer)
  BY DEF Serve, ServeJoin, ServePoll, ServeLeave
<1>3. (\A d \in calls' : IsCall(d)) /\ visit' = visit /\ topic' = topic
  BY <1>2, ReplyType DEF Inv
<1>4. CASE ServeJoin(c)
  BY <1>1, <1>3, <1>4, PairKeeps, EnqueueKeeps DEF ServeJoin, Inv, Typed
<1>5. CASE ServePoll(c) \/ ServeLeave(c)
  <2>1. rooms' = rooms /\ queue' \in {queue, [queue EXCEPT ![c.user] = None]}
    BY <1>5 DEF ServePoll, ServeLeave, server
  <2>2. /\ queue' \in [Users -> Topics \cup {None}]
        /\ \A u \in Users : queue'[u] \in {queue[u], None}
    BY <2>1, <1>1 DEF Inv, Typed
  <2> QED
    BY <1>3, <2>1, <2>2, LessIsAlone DEF Inv, Typed
<1> QED
  BY <1>4, <1>5 DEF Serve

LEMMA StrangerInductive ==
  ASSUME Inv, NEW u \in Users, Stranger(u) \/ Expire(u)
  PROVE  Inv'
<1>1. UNCHANGED <<visit, topic, calls>>
  BY DEF Stranger, Expire, tab
<1>2. CASE \E t \in Topics : \E o \in Waiting(u, t) : Pair(u, o)
  BY <1>1, <1>2, PairKeeps DEF Inv, Typed
<1>3. CASE \E t \in Topics : Enqueue(u, t)
  BY <1>1, <1>3, EnqueueKeeps DEF Inv, Typed
<1>4. CASE /\ queue' \in {queue, [queue EXCEPT ![u] = None]}
           /\ rooms' = rooms \/ \E i : rooms' = [rooms EXCEPT ![i].over = TRUE]
  <2>1. /\ queue' \in [Users -> Topics \cup {None}]
        /\ \A w \in Users : queue'[w] \in {queue[w], None}
    BY <1>4 DEF Inv, Typed
  <2> QED
    BY <1>1, <1>4, <2>1, LessIsAlone DEF Inv, Typed
<1> QED
  BY <1>2, <1>3, <1>4 DEF Stranger, Expire

\* The tab asks, and forgets.
LEMMA AsksInductive ==
  ASSUME Inv, queue' = queue, visit' \in [Users -> Nat], topic' \in [Users -> Topics],
         rooms' = rooms \/ \E i : rooms' = [rooms EXCEPT ![i].over = TRUE],
         \A d \in calls' : d \in calls \/ IsCall(d)
  PROVE  Inv'
<1>1. \A u \in Users : queue'[u] \in {queue[u], None}
  OBVIOUS
<1> QED
  BY <1>1, LessIsAlone DEF Inv, Typed

LEMMA VisitInductive ==
  ASSUME Inv, NEW u \in Users, NEW t \in Topics, Visit(u, t)
  PROVE  Inv'
<1> DEFINE first == [Call("join", u, 1) EXCEPT !.visit = @ + 1, !.topic = t]
<1>1. IsCall(first) /\ IsCall([first EXCEPT !.kind = "poll", !.no = 0])
      /\ IsCall([first EXCEPT !.no = 2])
  BY DEF Call, IsCall
<1>2. \A d \in calls' : d \in calls \/ IsCall(d)
  BY <1>1 DEF Visit
<1>3. /\ UNCHANGED server
      /\ visit' = [visit EXCEPT ![u] = @ + 1] /\ topic' = [topic EXCEPT ![u] = t]
  BY DEF Visit
<1>4. visit' \in [Users -> Nat] /\ topic' \in [Users -> Topics]
  BY <1>3 DEF Inv, Typed
<1> QED
  BY <1>2, <1>3, <1>4, AsksInductive DEF server

LEMMA TabInductive ==
  ASSUME Inv, NEW u \in Users,
         \/ Poll(u) \/ Focus(u) \/ Rejoin(u) \/ Leave(u) \/ Cancel(u)
         \/ Enter(u) \/ LeaveDebate(u)
  PROVE  Inv'
<1>1. UNCHANGED <<queue, visit, topic>>
  BY DEF Poll, Focus, Refetch, Rejoin, Leave, Cancel, Enter, LeaveDebate, Depart, server, tab
<1>2. rooms' = rooms \/ \E i : rooms' = [rooms EXCEPT ![i].over = TRUE]
  BY DEF Poll, Focus, Refetch, Rejoin, Leave, Cancel, Enter, LeaveDebate, server, tab
<1>3. \A d \in calls' : d \in calls \/ \E kind, no : d = Call(kind, u, no)
  BY DEF Poll, Focus, Refetch, Rejoin, Leave, Cancel, Enter, LeaveDebate, Depart
<1>4. \A d \in calls' : d \in calls \/ IsCall(d)
  BY <1>3, CallType DEF Inv
<1> QED
  BY <1>1, <1>2, <1>4, AsksInductive DEF Inv, Typed

LEMMA AnswerInductive ==
  ASSUME Inv, NEW c \in calls, Answered(c) \/ Fail(c)
  PROVE  Inv'
<1>1. c.user \in Users /\ IsCall([c EXCEPT !.tries = @ + 1, !.answer = None])
  BY DEF Inv, Typed, IsCall
<1>2. UNCHANGED <<queue, rooms, visit, topic>>
  BY DEF Answered, JoinAnswered, PollAnswered, LeaveAnswered, CancelAnswered, Fail, Cancelled,
         Depart, server, tab
<1>3. \A d \in calls' : \/ d \in calls \/ d = [c EXCEPT !.tries = @ + 1, !.answer = None]
                        \/ \E kind, no : d = Call(kind, c.user, no)
  BY DEF Answered, JoinAnswered, PollAnswered, LeaveAnswered, CancelAnswered, Fail, Cancelled,
         Depart, tab
<1>4. \A d \in calls' : d \in calls \/ IsCall(d)
  BY <1>1, <1>3, CallType DEF Inv
<1> QED
  BY <1>2, <1>4, AsksInductive DEF Inv, Typed

LEMMA InvInitially == Init => Inv
<1> SUFFICES ASSUME Init PROVE Inv
  OBVIOUS
<1>1. rooms \in Seq(Debates) /\ DOMAIN rooms = {}
  BY DEF Init
<1> QED
  BY <1>1 DEF Init, Inv, Typed, Alone, OpenRooms

LEMMA InvInductive == Inv /\ [Next]_vars => Inv'
<1> SUFFICES ASSUME Inv, [Next]_vars PROVE Inv'
  OBVIOUS
<1>1. CASE UNCHANGED vars
  BY <1>1 DEF vars, server, tab, Inv, Typed, Alone, OpenRooms
<1>2. CASE Next
  BY <1>2, ServeInductive, AnswerInductive, VisitInductive, TabInductive, StrangerInductive
     DEF Next
<1> QED
  BY <1>1, <1>2

(* components/waiting-room.tsx: however often a join is sent again, lost or  *)
(* late, the server keeps its user in one place, the queue or one debate.    *)
THEOREM AlwaysOnePlace == Spec => []OnePlace
<1>1. Inv => OnePlace
  <2> SUFFICES ASSUME Inv, NEW u \in Users
               PROVE  Cardinality(OpenRooms(u)) + (IF queue[u] = None THEN 0 ELSE 1) <= 1
    BY DEF OnePlace
  <2>1. CASE OpenRooms(u) = {}
    BY <2>1, FS_EmptySet
  <2>2. CASE OpenRooms(u) # {}
    <3>1. PICK r \in OpenRooms(u) : OpenRooms(u) = {r}
      BY <2>2 DEF Inv, Alone
    <3>2. Cardinality(OpenRooms(u)) = 1 /\ queue[u] = None
      BY <2>2, <3>1, FS_Singleton DEF Inv, Alone
    <3> QED
      BY <3>2
  <2> QED
    BY <2>1, <2>2
<1> QED
  BY <1>1, InvInitially, InvInductive, PTL DEF Spec

------------------------------------------------------------------------------
(* Types.                                                                    *)

\* A match state that can be true of the server's rooms.
Fits(state) == state \in States /\ state.room <= Len(rooms)

TabTyped ==
  /\ page \in [Users -> {"away", "waiting", "debate"}]
  /\ debate \in [Users -> Nat]
  /\ \A u \in Users : debate[u] <= Len(rooms) /\ (page[u] = "debate" <=> debate[u] # 0)
  /\ join \in [Users -> {"idle", "pending", "success", "error"}]
  /\ rejoins \in [Users -> 0..MaxRejoins]
  /\ dequeue \in [Users -> BOOLEAN] /\ failed \in [Users -> BOOLEAN]
  /\ DOMAIN view = Users /\ \A u \in Users : view[u] # None => Fits(view[u])
  /\ losses \in 0..MaxLosses

\* What is asked, and what a tab may be answered.
CallTyped(c) ==
  /\ c \in Calls /\ c.visit <= visit[c.user] /\ (c.kind = "poll" => page[c.user] = "waiting")
  /\ c.answer = None \/ Fits(c.answer) \/ (c.answer = NoRoom /\ c.kind = "poll")

CallsTyped ==
  /\ visit \in [Users -> 0..MaxVisits]
  /\ \A c \in calls : CallTyped(c)
  /\ \A c, d \in calls : c.kind = "poll" /\ d.kind = "poll" /\ c.user = d.user => c = d

Pairs == \A r \in DOMAIN rooms : Cardinality(rooms[r].people) = 2

Grows == Len(rooms) \in Nat /\ Len(rooms') \in Nat /\ Len(rooms) <= Len(rooms')

\* No debate is forgotten, and its people stay.
LEMMA RoomsGrow ==
  ASSUME Inv, Pairs, [Next]_vars
  PROVE  Pairs' /\ Grows
<1> USE DEF Grows
<1>1. Len(rooms) \in Nat /\ DOMAIN rooms = 1..Len(rooms)
  BY DEF Inv, Typed
<1>2. ASSUME NEW u \in Users, NEW t \in Topics, NEW o \in Waiting(u, t), Pair(u, o)
      PROVE  Pairs' /\ Len(rooms') = Len(rooms) + 1
  <2> DEFINE new == [people |-> {u, o}, over |-> FALSE, since |-> [p \in {u, o} |-> visit[p]]]
  <2>1. rooms' = Append(Abandoning(u), new) /\ new.people = {u, o}
    BY <1>2 DEF Pair
  <2>2. u # o
    BY DEF Waiting
  <2>3. Cardinality({u, o}) = 2
    <3>1. Cardinality({u}) = 1 /\ IsFiniteSet({u})
      BY FS_Singleton
    <3>2. Cardinality({u} \cup {o}) = 2
      BY <2>2, <3>1, FS_AddElement
    <3>3. {u} \cup {o} = {u, o}
      OBVIOUS
    <3> QED
      BY <3>2, <3>3
  <2>4. /\ Abandoning(u) \in Seq(Debates) /\ Len(Abandoning(u)) = Len(rooms)
        /\ \A r \in DOMAIN rooms : Abandoning(u)[r].people = rooms[r].people
    BY AbandoningType DEF Inv
  <2> HIDE DEF new
  <2>5. /\ Len(rooms') = Len(rooms) + 1 /\ DOMAIN rooms' = 1..Len(rooms) + 1
        /\ rooms'[Len(rooms) + 1] = new
        /\ \A r \in 1..Len(rooms) : rooms'[r] = Abandoning(u)[r]
    BY <1>1, <2>1, <2>4
  <2>6. 1..Len(rooms) + 1 = 1..Len(rooms) \cup {Len(rooms) + 1}
    BY <1>1
  <2>7. \A r \in 1..Len(rooms) : rooms'[r].people = rooms[r].people
    BY <1>1, <2>4, <2>5
  <2>8. rooms'[Len(rooms) + 1].people = {u, o}
    BY <2>1, <2>5
  <2> QED
    BY <1>1, <2>3, <2>5, <2>6, <2>7, <2>8 DEF Pairs
<1>3. ASSUME NEW u \in Users, NEW t, Enqueue(u, t)
      PROVE  Pairs' /\ Len(rooms') = Len(rooms)
  BY <1>3, AbandoningType DEF Enqueue, Abandoning, Pairs, Inv
<1>4. ASSUME NEW i, rooms' = [rooms EXCEPT ![i].over = TRUE]
      PROVE  Pairs' /\ Len(rooms') = Len(rooms)
  <2>1. DOMAIN rooms' = DOMAIN rooms /\ \A r \in DOMAIN rooms : rooms[r] \in Debates
    BY <1>4 DEF Inv, Typed
  <2>2. \A r \in DOMAIN rooms : rooms'[r].people = rooms[r].people
    <3>1. \A r \in DOMAIN rooms :
            rooms'[r] = IF r = i THEN [rooms[r] EXCEPT !.over = TRUE] ELSE rooms[r]
      BY <1>4
    <3> QED
      BY <2>1, <3>1 DEF Debates
  <2>3. Len(rooms') = Len(rooms)
    BY <1>1, <1>4, LessIsAlone, <2>1
  <2> QED
    BY <2>1, <2>2, <2>3 DEF Pairs
<1>5. CASE rooms' = rooms
  BY <1>1, <1>5 DEF Pairs
<1>6. ASSUME NEW c \in calls, ServeJoin(c)
      PROVE  Pairs' /\ Len(rooms) <= Len(rooms') /\ Len(rooms') \in Nat
  <2>1. c.user \in Users /\ c.topic \in Topics
    BY DEF Inv, Typed, IsCall
  <2> QED
    BY <1>1, <1>2, <1>3, <1>6, <2>1 DEF ServeJoin
<1>7. ASSUME NEW u \in Users, Stranger(u)
      PROVE  Pairs' /\ Len(rooms) <= Len(rooms') /\ Len(rooms') \in Nat
  BY <1>1, <1>2, <1>3, <1>4, <1>7 DEF Stranger
<1>8. CASE \E c \in calls : ServePoll(c) \/ ServeLeave(c) \/ Answered(c) \/ Fail(c)
  BY <1>5, <1>8, <1>1 DEF ServePoll, ServeLeave, Answered, JoinAnswered, PollAnswered,
     LeaveAnswered, CancelAnswered, Fail, Cancelled, server
<1>9. CASE \E u \in Users : \/ \E t \in Topics : Visit(u, t)
                            \/ Poll(u) \/ Focus(u) \/ Rejoin(u) \/ Expire(u)
                            \/ Leave(u) \/ Cancel(u) \/ Enter(u)
  BY <1>5, <1>9, <1>1 DEF Visit, Poll, Focus, Refetch, Rejoin, Expire, Leave, Cancel, Enter, server
<1>10. CASE \E u \in Users : LeaveDebate(u)
  BY <1>1, <1>4, <1>5, <1>10 DEF LeaveDebate
<1> QED
  BY <1>1, <1>5, <1>6, <1>7, <1>8, <1>9, <1>10 DEF Next, Serve, vars, server

\* What fitted still fits.
LEMMA FitsStill ==
  ASSUME NEW state, Fits(state), Grows
  PROVE  Fits(state)'
BY DEF Fits, States, Grows

\* What the page shows still fits.
LEMMA ViewStays ==
  ASSUME TabTyped, Grows, NEW u \in Users, view'[u] = view[u], view'[u] # None
  PROVE  Fits(view[u])'
BY DEF TabTyped, Fits, States, Grows

\* A call that was typed is, as long as its page and visit are.
LEMMA CallStays ==
  ASSUME NEW c, CallTyped(c), Grows, c.user \in Users,
         visit[c.user] \in Nat, visit'[c.user] \in Nat, visit[c.user] <= visit'[c.user],
         c.kind = "poll" => page'[c.user] = "waiting"
  PROVE  CallTyped(c)'
<1>1. c.visit \in Nat
  BY DEF CallTyped, Calls
<1>2. c.visit <= visit'[c.user]
  BY <1>1 DEF CallTyped
<1>3. c.answer = None \/ Fits(c.answer)' \/ (c.answer = NoRoom /\ c.kind = "poll")
  BY FitsStill DEF CallTyped
<1> QED
  BY <1>2, <1>3 DEF CallTyped

\* A step that takes calls away and adds some.
LEMMA CallsStay ==
  ASSUME Typed, CallsTyped, Grows,
         visit' \in [Users -> 0..MaxVisits], \A u \in Users : visit[u] <= visit'[u],
         \A c \in calls' \ calls : CallTyped(c)',
         \A c \in calls' \cap calls : c.kind = "poll" => page'[c.user] = "waiting",
         \A c, d \in calls' :
           c \notin calls /\ c.kind = "poll" /\ d.kind = "poll" /\ c.user = d.user => c = d
  PROVE  CallsTyped'
<1>1. ASSUME NEW c \in calls'
      PROVE  CallTyped(c)'
  <2>1. CASE c \in calls
    <3>1. c.user \in Users /\ CallTyped(c)
      BY <2>1 DEF Typed, IsCall, CallsTyped
    <3>2. visit[c.user] \in Nat /\ visit'[c.user] \in Nat
      BY <3>1 DEF CallsTyped
    <3>3. c.kind = "poll" => page'[c.user] = "waiting"
      BY <1>1, <2>1
    <3> QED
      BY <3>1, <3>2, <3>3, CallStays
  <2> QED
    BY <1>1, <2>1
<1>2. \A c, d \in calls' : c.kind = "poll" /\ d.kind = "poll" /\ c.user = d.user => c = d
  BY DEF CallsTyped
<1> QED
  BY <1>1, <1>2 DEF CallsTyped

\* A tab that does nothing.
LEMMA ServerStays ==
  ASSUME TabTyped, Grows, UNCHANGED <<tab, losses>>
  PROVE  TabTyped'
<1>1. \A u \in Users : view'[u] # None => Fits(view[u])'
  BY ViewStays DEF tab
<1>2. \A u \in Users : debate'[u] <= Len(rooms')
  BY DEF TabTyped, Grows, tab
<1> QED
  BY <1>1, <1>2 DEF TabTyped, tab

\* A tab of which only the error of its poll changes.
LEMMA QuietTyped ==
  ASSUME TabTyped, Grows, UNCHANGED <<page, debate, join, rejoins, dequeue, view, losses>>,
         failed' \in [Users -> BOOLEAN]
  PROVE  TabTyped'
<1>1. \A u \in Users : view'[u] # None => Fits(view[u])'
  BY ViewStays
<1>2. \A u \in Users : debate'[u] <= Len(rooms')
  BY DEF TabTyped, Grows
<1> QED
  BY <1>1, <1>2 DEF TabTyped

LEMMA ReplyTyped ==
  ASSUME Typed, TabTyped, CallsTyped, Grows, NEW c \in calls, NEW answer, Reply(c, answer),
         Fits(answer)' \/ (answer = NoRoom /\ c.kind = "poll")
  PROVE  TabTyped' /\ CallsTyped'
<1> DEFINE reply == [c EXCEPT !.answer = answer]
<1>1. calls' = (calls \ {c}) \cup {reply} /\ UNCHANGED <<tab, losses>>
  BY DEF Reply
<1>2. TabTyped'
  BY <1>1, ServerStays
<1>3. /\ c \in Calls /\ c.user \in Users /\ c.visit <= visit[c.user] /\ c.visit \in Nat
      /\ c.kind = "poll" => page[c.user] = "waiting"
  BY DEF CallsTyped, CallTyped, Calls
<1>4. answer \in States \cup {None, NoRoom}
  BY DEF Fits, States
<1>5. reply \in Calls /\ reply.user = c.user /\ reply.visit = c.visit /\ reply.kind = c.kind
      /\ reply.answer = answer
  BY <1>3, <1>4 DEF Calls
<1> HIDE DEF reply
<1>6. \A d \in calls' \ calls : CallTyped(d)'
  <2> SUFFICES ASSUME NEW d \in calls' \ calls PROVE CallTyped(d)'
    OBVIOUS
  <2>1. d = reply
    BY <1>1
  <2> QED
    BY <2>1, <1>1, <1>3, <1>5 DEF CallTyped, tab
<1>7. \A d \in calls' \cap calls : d.kind = "poll" => page'[d.user] = "waiting"
  BY <1>1 DEF CallsTyped, CallTyped, tab
<1>8. \A d, e \in calls' :
        d \notin calls /\ d.kind = "poll" /\ e.kind = "poll" /\ d.user = e.user => d = e
  BY <1>1, <1>5 DEF CallsTyped
<1>9. visit' \in [Users -> 0..MaxVisits] /\ \A u \in Users : visit[u] <= visit'[u]
  BY <1>1 DEF CallsTyped, tab
<1> QED
  BY <1>2, <1>6, <1>7, <1>8, <1>9, CallsStay

LEMMA ServeTyped ==
  ASSUME Inv, TabTyped, CallsTyped, Grows, NEW c \in calls, Serve(c)
  PROVE  TabTyped' /\ CallsTyped'
<1>1. CASE ServeJoin(c)
  <2>1. CASE \E o \in Waiting(c.user, c.topic) : Pair(c.user, o)
             /\ Reply(c, State("matched", Len(rooms) + 1))
    <3>1. Len(rooms') = Len(rooms) + 1 /\ Len(rooms) \in Nat
      <4>1. Abandoning(c.user) \in Seq(Debates) /\ Len(Abandoning(c.user)) = Len(rooms)
        BY AbandoningType DEF Inv, Typed, IsCall
      <4> QED
        BY <2>1, <4>1 DEF Pair, Grows
    <3>2. PICK n \in Nat : n = Len(rooms) + 1 /\ Reply(c, State("matched", n))
      BY <2>1, <3>1
    <3>3. Fits(State("matched", n))'
      BY <3>1, <3>2 DEF Fits, State, States
    <3> QED
      BY <3>2, <3>3, ReplyTyped DEF Inv
  <2>2. CASE Reply(c, State("queued", 0))
    <3>1. Fits(State("queued", 0))'
      BY DEF Fits, State, States, Grows
    <3> QED
      BY <2>2, <3>1, ReplyTyped DEF Inv
  <2> QED
    BY <1>1, <2>1, <2>2 DEF ServeJoin
<1>2. CASE ServePoll(c)
  <2>1. c.kind = "poll" /\ rooms' = rooms
    BY <1>2 DEF ServePoll, server
  <2>2. c.user \in Users /\ Len(rooms) \in Nat /\ DOMAIN rooms = 1..Len(rooms)
    BY DEF Inv, Typed, IsCall
  <2>3. CASE \E status \in {"idle", "queued"} : Reply(c, State(status, 0))
    <3>1. PICK status \in {"idle", "queued"} : Reply(c, State(status, 0))
      BY <2>3
    <3>2. Fits(State(status, 0))'
      BY <2>1, <2>2 DEF Fits, State, States
    <3> QED
      BY <3>1, <3>2, ReplyTyped DEF Inv
  <2>4. CASE Reply(c, NoRoom)
    BY <2>1, <2>4, ReplyTyped DEF Inv
  <2>5. CASE OpenRooms(c.user) # {} /\ Reply(c, State("matched", Max(OpenRooms(c.user))))
    <3>1. PICK r \in OpenRooms(c.user) : OpenRooms(c.user) = {r}
      BY <2>2, <2>5 DEF Inv, Alone
    <3>2. r \in 1..Len(rooms)
      BY <2>2, <3>1 DEF OpenRooms
    <3>3. Max(OpenRooms(c.user)) = r
      BY <3>1, <3>2 DEF Max
    <3>4. Fits(State("matched", r))'
      BY <2>1, <2>2, <3>2 DEF Fits, State, States
    <3> QED
      BY <2>5, <3>3, <3>4, ReplyTyped DEF Inv
  <2> QED
    BY <1>2, <2>3, <2>4, <2>5 DEF ServePoll
<1>3. CASE ServeLeave(c)
  <2>1. Fits(State("idle", 0))'
    BY DEF Fits, State, States, Grows
  <2> QED
    BY <1>3, <2>1, ReplyTyped DEF ServeLeave, Inv
<1> QED
  BY <1>1, <1>2, <1>3 DEF Serve

\* The server acts without a request.
LEMMA ServerTyped ==
  ASSUME Typed, TabTyped, CallsTyped, Grows, UNCHANGED <<tab, calls, losses>>
  PROVE  TabTyped' /\ CallsTyped'
<1>1. TabTyped'
  BY ServerStays
<1>2. CallsTyped'
  <2>1. \A c \in calls : c.kind = "poll" => page'[c.user] = "waiting"
    BY DEF CallsTyped, CallTyped, tab
  <2>2. visit' \in [Users -> 0..MaxVisits] /\ \A u \in Users : visit[u] <= visit'[u]
    BY DEF CallsTyped, tab
  <2> QED
    BY <2>1, <2>2, CallsStay
<1> QED
  BY <1>1, <1>2

LEMMA NewCall ==
  ASSUME Typed, CallsTyped, NEW u \in Users, NEW no \in Nat,
         NEW kind \in {"join", "poll", "leave", "cancel"}
  PROVE  /\ Call(kind, u, no) \in Calls
         /\ Call(kind, u, no).user = u /\ Call(kind, u, no).kind = kind
         /\ Call(kind, u, no).visit = visit[u] /\ Call(kind, u, no).answer = None
<1>1. visit[u] \in Nat /\ topic[u] \in Topics /\ 0 \in 0..Retries
  BY DEF Typed
<1> QED
  BY <1>1 DEF Call, Calls

\* A step of a tab that stays where it is: it sends something else than a poll.
LEMMA SendTyped ==
  ASSUME Typed, CallsTyped, Grows, UNCHANGED <<page, visit>>, NEW u \in Users, NEW no \in Nat,
         NEW kind \in {"join", "leave", "cancel"}, calls' = calls \cup {Call(kind, u, no)}
  PROVE  CallsTyped'
<1>1. \A c \in calls' \ calls : CallTyped(c)' /\ c.kind = kind
  <2> SUFFICES ASSUME NEW c \in calls' \ calls PROVE CallTyped(c)' /\ c.kind = kind
    OBVIOUS
  <2>1. c \in Calls /\ c.user = u /\ c.kind = kind /\ c.visit = visit[u] /\ c.answer = None
    BY NewCall
  <2> QED
    BY <2>1 DEF CallTyped, Calls, CallsTyped
<1>2. \A c \in calls : c.kind = "poll" => page'[c.user] = "waiting"
  BY DEF CallsTyped, CallTyped
<1>3. visit' \in [Users -> 0..MaxVisits] /\ \A w \in Users : visit[w] <= visit'[w]
  BY DEF CallsTyped
<1> QED
  BY <1>1, <1>2, <1>3, CallsStay

\* A step of a tab that stays where it is: nothing is sent.
LEMMA DropTyped ==
  ASSUME Typed, CallsTyped, Grows, UNCHANGED <<page, visit>>, calls' \subseteq calls
  PROVE  CallsTyped'
<1>1. \A c \in calls : c.kind = "poll" => page'[c.user] = "waiting"
  BY DEF CallsTyped, CallTyped
<1>2. visit' \in [Users -> 0..MaxVisits] /\ \A w \in Users : visit[w] <= visit'[w]
  BY DEF CallsTyped
<1> QED
  BY <1>1, <1>2, CallsStay

LEMMA RefetchTyped ==
  ASSUME Typed, TabTyped, CallsTyped, Grows, NEW u \in Users, Refetch(u)
  PROVE  TabTyped' /\ CallsTyped'
<1>1. TabTyped'
  <2>1. UNCHANGED <<server, page, debate, join, rejoins, dequeue, view, losses>>
        /\ failed' = [failed EXCEPT ![u] = @ /\ view[u] # None]
    BY DEF Refetch
  <2>2. failed' \in [Users -> BOOLEAN]
    BY <2>1 DEF TabTyped
  <2> QED
    BY <2>1, <2>2, QuietTyped
<1>2. /\ page[u] = "waiting" /\ UNCHANGED <<page, visit>>
      /\ calls' = (calls \ Of(u, "poll")) \cup {Call("poll", u, 0)}
  BY DEF Refetch
<1>3. \A c \in calls' \ calls : CallTyped(c)'
  <2> SUFFICES ASSUME NEW c \in calls' \ calls PROVE CallTyped(c)'
    OBVIOUS
  <2>1. c \in Calls /\ c.user = u /\ c.kind = "poll" /\ c.visit = visit[u] /\ c.answer = None
    BY <1>2, NewCall
  <2> QED
    BY <1>2, <2>1 DEF CallTyped, Calls, CallsTyped
<1>4. \A c \in calls : c.kind = "poll" => page'[c.user] = "waiting"
  BY <1>2 DEF CallsTyped, CallTyped
<1>5. \A c, d \in calls' :
        c \notin calls /\ c.kind = "poll" /\ d.kind = "poll" /\ c.user = d.user => c = d
  <2>1. Call("poll", u, 0).user = u
    BY NewCall
  <2> QED
    BY <1>2, <2>1 DEF Of
<1>6. visit' \in [Users -> 0..MaxVisits] /\ \A w \in Users : visit[w] <= visit'[w]
  BY <1>2 DEF CallsTyped
<1> QED
  BY <1>1, <1>3, <1>4, <1>5, <1>6, CallsStay

LEMMA VisitTyped ==
  ASSUME Typed, TabTyped, CallsTyped, Grows, NEW u \in Users, NEW t \in Topics, Visit(u, t)
  PROVE  TabTyped' /\ CallsTyped'
<1> DEFINE first == [Call("join", u, 1) EXCEPT !.visit = @ + 1, !.topic = t]
           poll == [first EXCEPT !.kind = "poll", !.no = 0]
           second == [first EXCEPT !.no = 2]
<1>1. /\ page[u] = "away" /\ visit[u] < MaxVisits
      /\ page' = [page EXCEPT ![u] = "waiting"] /\ visit' = [visit EXCEPT ![u] = @ + 1]
      /\ calls' \subseteq calls \cup {first, poll, second}
  BY DEF Visit
<1>2. visit' \in [Users -> 0..MaxVisits] /\ visit'[u] = visit[u] + 1
      /\ \A w \in Users : visit[w] <= visit'[w]
  BY <1>1 DEF CallsTyped
<1>3. Call("join", u, 1) \in Calls /\ Call("join", u, 1).user = u /\ visit[u] \in Nat
      /\ Call("join", u, 1).visit = visit[u] /\ Call("join", u, 1).answer = None
      /\ Call("join", u, 1).kind = "join"
  BY NewCall DEF CallsTyped
<1>4. first \in Calls /\ first.user = u /\ first.visit = visit'[u] /\ first.answer = None
      /\ first.kind = "join"
  <2>1. PICK c \in Calls : c = Call("join", u, 1)
    BY <1>3
  <2>2. first = [c EXCEPT !.visit = visit[u] + 1, !.topic = t]
    <3>1. first = [c EXCEPT !.visit = c.visit + 1, !.topic = t]
      BY <2>1
    <3> QED
      BY <3>1, <2>1, <1>3
  <2> HIDE DEF first
  <2>3. visit[u] + 1 \in Nat /\ c.visit = visit[u]
    BY <1>3, <2>1
  <2> QED
    BY <1>2, <1>3, <2>1, <2>2, <2>3 DEF Calls
<1> HIDE DEF first
<1>5. /\ poll \in Calls /\ poll.user = u /\ poll.visit = visit'[u] /\ poll.answer = None
      /\ second \in Calls /\ second.user = u /\ second.visit = visit'[u]
      /\ second.answer = None /\ second.kind = "join"
  BY <1>4 DEF Calls
<1> HIDE DEF poll, second
<1>6. page'[u] = "waiting" /\ \A w \in Users \ {u} : page'[w] = page[w]
  BY <1>1 DEF TabTyped
<1>7. \A c \in calls' \ calls : CallTyped(c)' /\ (c.kind = "poll" => c = poll)
  <2> SUFFICES ASSUME NEW c \in calls' \ calls
               PROVE  CallTyped(c)' /\ (c.kind = "poll" => c = poll)
    OBVIOUS
  <2>1. /\ c \in Calls /\ c.user = u /\ c.visit = visit'[u] /\ c.answer = None
        /\ c.kind = "poll" => c = poll
    BY <1>1, <1>4, <1>5
  <2> QED
    BY <1>2, <1>6, <2>1 DEF CallTyped
<1>8. \A c \in calls : c.kind = "poll" => page'[c.user] = "waiting" /\ c.user # u
  BY <1>1, <1>6 DEF CallsTyped, CallTyped, Typed, IsCall
<1>9. \A c, d \in calls' :
        c \notin calls /\ c.kind = "poll" /\ d.kind = "poll" /\ c.user = d.user => c = d
  BY <1>5, <1>7, <1>8
<1>10. CallsTyped'
  BY <1>2, <1>7, <1>8, <1>9, CallsStay
<1>11. TabTyped'
  <2>1. UNCHANGED <<rooms, debate, view, losses>>
    BY DEF Visit, server
  <2>2. \A w \in Users : view'[w] # None => Fits(view[w])'
    BY <2>1, ViewStays
  <2>3. \A w \in Users : debate'[w] <= Len(rooms') /\ (page'[w] = "debate" <=> debate'[w] # 0)
    BY <1>1, <1>6, <2>1 DEF TabTyped
  <2>4. join' \in [Users -> {"idle", "pending", "success", "error"}]
    BY DEF Visit, TabTyped
  <2>5. dequeue' \in [Users -> BOOLEAN]
    BY DEF Visit, TabTyped
  <2>6. rejoins' \in [Users -> 0..MaxRejoins]
    BY DEF Visit, TabTyped
  <2>7. page' \in [Users -> {"away", "waiting", "debate"}]
    BY <1>1 DEF TabTyped
  <2>8. failed' \in [Users -> BOOLEAN]
    BY DEF Visit, TabTyped
  <2> QED
    BY <2>1, <2>2, <2>3, <2>4, <2>5, <2>6, <2>7, <2>8 DEF TabTyped
<1> QED
  BY <1>10, <1>11

LEMMA RejoinTyped ==
  ASSUME Typed, TabTyped, CallsTyped, Grows, NEW u \in Users, Rejoin(u)
  PROVE  TabTyped' /\ CallsTyped'
<1>1. rejoins[u] \in Nat /\ rejoins[u] < MaxRejoins /\ rejoins[u] + 2 \in Nat
  BY DEF Rejoin, TabTyped
<1>2. CallsTyped'
  BY <1>1, SendTyped DEF Rejoin
<1>3. \A w \in Users : view'[w] # None => Fits(view[w])'
  BY ViewStays DEF Rejoin
<1>4. rejoins' \in [Users -> 0..MaxRejoins]
      /\ join' \in [Users -> {"idle", "pending", "success", "error"}]
  BY <1>1 DEF Rejoin, TabTyped
<1> QED
  BY <1>2, <1>3, <1>4 DEF Rejoin, TabTyped, server

\* The answer to a join goes to the cache, and its status to the component.
LEMMA JoinAnsweredTyped ==
  ASSUME Typed, TabTyped, CallsTyped, Grows, NEW c \in calls, JoinAnswered(c)
  PROVE  TabTyped' /\ CallsTyped'
<1>1. CallsTyped'
  BY DropTyped DEF JoinAnswered
<1>2. c.user \in Users /\ Fits(c.answer) /\ rooms' = rooms
  BY DEF JoinAnswered, CallsTyped, CallTyped, Typed, IsCall, server
<1>3. \A w \in Users : view'[w] # None => Fits(view'[w])
  BY <1>2 DEF JoinAnswered, Show, TabTyped
<1>4. \A w \in Users : view'[w] # None => Fits(view[w])'
  BY <1>2, <1>3 DEF Fits
<1>5. DOMAIN view' = Users
  BY DEF JoinAnswered, Show, TabTyped
<1>6. join' \in [Users -> {"idle", "pending", "success", "error"}]
  BY DEF JoinAnswered, Settle, TabTyped
<1>7. dequeue' \in [Users -> BOOLEAN] /\ failed' \in [Users -> BOOLEAN]
  BY DEF JoinAnswered, Show, TabTyped
<1> QED
  BY <1>1, <1>2, <1>4, <1>5, <1>6, <1>7 DEF JoinAnswered, TabTyped

LEMMA PollAnsweredTyped ==
  ASSUME Typed, TabTyped, CallsTyped, Grows, NEW c \in calls, PollAnswered(c)
  PROVE  TabTyped' /\ CallsTyped'
<1>1. CallsTyped'
  BY DropTyped DEF PollAnswered
<1>2. c.user \in Users /\ Fits(c.answer) /\ rooms' = rooms
  BY DEF PollAnswered, CallsTyped, CallTyped, Typed, IsCall, server
<1>3. \A w \in Users : view'[w] # None => Fits(view'[w])
  BY <1>2 DEF PollAnswered, Show, TabTyped
<1>4. \A w \in Users : view'[w] # None => Fits(view[w])'
  BY <1>2, <1>3 DEF Fits
<1>5. DOMAIN view' = Users /\ failed' \in [Users -> BOOLEAN]
  BY DEF PollAnswered, Show, TabTyped
<1> QED
  BY <1>1, <1>2, <1>4, <1>5 DEF PollAnswered, TabTyped

LEMMA CancelTyped ==
  ASSUME Typed, TabTyped, CallsTyped, Grows, NEW u \in Users, Cancel(u)
  PROVE  TabTyped' /\ CallsTyped'
<1>1. CallsTyped'
  BY SendTyped DEF Cancel
<1>2. \A w \in Users : view'[w] # None => Fits(view[w])'
  BY ViewStays DEF Cancel
<1>3. dequeue' \in [Users -> BOOLEAN]
  BY DEF Cancel, TabTyped
<1> QED
  BY <1>1, <1>2, <1>3 DEF Cancel, TabTyped, server

\* A tab that leaves its page takes its poll with it.
LEMMA DepartTyped ==
  ASSUME Typed, TabTyped, CallsTyped, Grows, NEW u \in Users, NEW to \in {"away", "debate"},
         NEW room \in Nat, room <= Len(rooms), to = "debate" <=> room # 0,
         NEW rest \in SUBSET calls, Depart(u, to, room, rest)
  PROVE  /\ CallsTyped'
         /\ page' \in [Users -> {"away", "waiting", "debate"}] /\ debate' \in [Users -> Nat]
         /\ \A w \in Users :
              debate'[w] <= Len(rooms') /\ (page'[w] = "debate" <=> debate'[w] # 0)
<1>1. /\ page' = [page EXCEPT ![u] = to] /\ debate' = [debate EXCEPT ![u] = room]
      /\ UNCHANGED <<visit, topic, join, rejoins>>
      /\ calls' \subseteq (rest \ Of(u, "poll")) \cup {Call("leave", u, 0)}
  BY DEF Depart
<1>2. \A c \in calls' \ calls : CallTyped(c)' /\ c.kind = "leave"
  <2> SUFFICES ASSUME NEW c \in calls' \ calls PROVE CallTyped(c)' /\ c.kind = "leave"
    OBVIOUS
  <2>1. c \in Calls /\ c.user = u /\ c.kind = "leave" /\ c.visit = visit[u] /\ c.answer = None
    BY <1>1, NewCall
  <2> QED
    BY <1>1, <2>1 DEF CallTyped, Calls, CallsTyped
<1>3. \A c \in calls' \cap calls : c.kind = "poll" => page'[c.user] = "waiting"
  <2> SUFFICES ASSUME NEW c \in calls' \cap calls, c.kind = "poll"
               PROVE  page'[c.user] = "waiting"
    OBVIOUS
  <2>1. c.user \in Users /\ page[c.user] = "waiting"
    BY DEF CallsTyped, CallTyped, Typed, IsCall
  <2>2. c.user # u
    <3>1. Call("leave", u, 0).kind = "leave"
      BY NewCall
    <3> QED
      BY <1>1, <3>1 DEF Of
  <2> QED
    BY <1>1, <2>1, <2>2 DEF TabTyped
<1>4. visit' \in [Users -> 0..MaxVisits] /\ \A w \in Users : visit[w] <= visit'[w]
  BY <1>1 DEF CallsTyped
<1>5. CallsTyped'
  BY <1>2, <1>3, <1>4, CallsStay
<1>6. page' \in [Users -> {"away", "waiting", "debate"}] /\ debate' \in [Users -> Nat]
  BY <1>1 DEF TabTyped
<1>7. ASSUME NEW w \in Users
      PROVE  debate'[w] <= Len(rooms') /\ (page'[w] = "debate" <=> debate'[w] # 0)
  <2>1. CASE w = u
    BY <1>1, <2>1 DEF TabTyped, Grows
  <2>2. CASE w # u
    BY <1>1, <2>2 DEF TabTyped, Grows
  <2> QED
    BY <2>1, <2>2
<1> QED
  BY <1>5, <1>6, <1>7

\* The rest of a tab whose page changes.
LEMMA RestTyped ==
  ASSUME TabTyped, Grows, UNCHANGED <<join, rejoins>>,
         dequeue' \in [Users -> BOOLEAN], failed' \in [Users -> BOOLEAN],
         losses' \in 0..MaxLosses, DOMAIN view' = Users,
         \A w \in Users : view'[w] \in {view[w], None},
         page' \in [Users -> {"away", "waiting", "debate"}], debate' \in [Users -> Nat],
         \A w \in Users :
           debate'[w] <= Len(rooms') /\ (page'[w] = "debate" <=> debate'[w] # 0)
  PROVE  TabTyped'
<1>1. \A w \in Users : view'[w] # None => Fits(view[w])'
  BY ViewStays
<1> QED
  BY <1>1 DEF TabTyped

LEMMA LeaveTyped ==
  ASSUME Typed, TabTyped, CallsTyped, Grows, NEW u \in Users,
         Leave(u) \/ Enter(u) \/ LeaveDebate(u)
  PROVE  TabTyped' /\ CallsTyped'
<1>1. UNCHANGED <<join, rejoins, view, failed, losses>>
  BY DEF Leave, Enter, LeaveDebate, Depart
<1>2. dequeue' \in [Users -> BOOLEAN] /\ failed' \in [Users -> BOOLEAN]
  BY <1>1 DEF Leave, Enter, LeaveDebate, TabTyped
<1>3. \A w \in Users : view'[w] \in {view[w], None}
  BY <1>1
<1>4. DOMAIN view' = Users /\ losses' \in 0..MaxLosses
  BY <1>1 DEF TabTyped
<1>5. CASE Depart(u, "away", 0, calls)
  <2>1. 0 <= Len(rooms)
    BY DEF Grows
  <2> QED
    BY <1>1, <1>2, <1>3, <1>4, <1>5, <2>1, DepartTyped, RestTyped
<1>6. CASE Enter(u)
  <2>1. Depart(u, "debate", view[u].room, calls) /\ Fits(view[u]) /\ view[u].status = "matched"
    BY <1>6 DEF Enter, Matched, TabTyped
  <2>2. PICK room \in Nat : room = view[u].room /\ room # 0 /\ room <= Len(rooms)
    BY <2>1 DEF Fits, States
  <2>3. Depart(u, "debate", room, calls)
    BY <2>1, <2>2
  <2> QED
    BY <1>1, <1>2, <1>3, <1>4, <2>2, <2>3, DepartTyped, RestTyped
<1> QED
  BY <1>5, <1>6 DEF Leave, LeaveDebate

LEMMA CancelledTyped ==
  ASSUME Typed, TabTyped, CallsTyped, Grows, NEW c \in calls, Cancelled(c),
         losses' \in 0..MaxLosses
  PROVE  TabTyped' /\ CallsTyped'
<1>1. c.user \in Users /\ 0 <= Len(rooms) /\ calls \ {c} \in SUBSET calls
  BY DEF Typed, IsCall, Grows
<1>2. Depart(c.user, "away", 0, calls \ {c}) /\ UNCHANGED <<join, rejoins, dequeue>>
  BY DEF Cancelled, Depart
<1>3. DOMAIN view' = Users /\ \A w \in Users : view'[w] \in {view[w], None}
  BY DEF Cancelled, Show, TabTyped
<1>4. dequeue' \in [Users -> BOOLEAN] /\ failed' \in [Users -> BOOLEAN]
  BY <1>2 DEF Cancelled, Show, TabTyped
<1> QED
  BY <1>1, <1>2, <1>3, <1>4, DepartTyped, RestTyped

LEMMA FailTyped ==
  ASSUME Typed, TabTyped, CallsTyped, Grows, NEW c \in calls, Fail(c)
  PROVE  TabTyped' /\ CallsTyped'
<1>1. losses' \in 0..MaxLosses
  BY DEF Fail, TabTyped
<1>2. CASE Cancelled(c)
  BY <1>1, <1>2, CancelledTyped
<1>3. CASE /\ c.kind = "join" /\ c.tries < Retries
           /\ calls' = (calls \ {c}) \cup {[c EXCEPT !.tries = @ + 1, !.answer = None]}
           /\ UNCHANGED <<server, tab>>
  <2> DEFINE again == [c EXCEPT !.tries = @ + 1, !.answer = None]
  <2>1. c \in Calls /\ c.user \in Users /\ c.visit <= visit[c.user]
    BY DEF CallsTyped, CallTyped, Calls
  <2>2. /\ again \in Calls /\ again.user = c.user /\ again.visit = c.visit
        /\ again.kind = "join" /\ again.answer = None
    <3>1. c.tries + 1 \in 0..Retries
      BY <1>3, <2>1 DEF Calls
    <3>2. again = [c EXCEPT !.tries = c.tries + 1, !.answer = None]
      OBVIOUS
    <3> HIDE DEF again
    <3> QED
      BY <1>3, <2>1, <3>1, <3>2 DEF Calls
  <2> HIDE DEF again
  <2>3. \A d \in calls' \ calls : CallTyped(d)' /\ d.kind = "join"
    <3> SUFFICES ASSUME NEW d \in calls' \ calls PROVE CallTyped(d)' /\ d.kind = "join"
      OBVIOUS
    <3>1. d = again
      BY <1>3 DEF again
    <3> QED
      BY <1>3, <2>1, <2>2, <3>1 DEF CallTyped, tab
  <2>4. \A d \in calls : d.kind = "poll" => page'[d.user] = "waiting"
    BY <1>3 DEF CallsTyped, CallTyped, tab
  <2>5. visit' \in [Users -> 0..MaxVisits] /\ \A w \in Users : visit[w] <= visit'[w]
    BY <1>3 DEF CallsTyped, tab
  <2>6. CallsTyped'
    BY <2>3, <2>4, <2>5, CallsStay
  <2>7. \A w \in Users : view'[w] # None => Fits(view[w])'
    BY <1>3, ViewStays DEF tab
  <2>8. rooms' = rooms
    BY <1>3 DEF server
  <2> QED
    BY <1>1, <1>3, <2>6, <2>7, <2>8 DEF TabTyped, tab
<1>4. CASE /\ IF c.kind = "join" THEN Settle(c, "error") ELSE UNCHANGED join
           /\ calls' = calls \ {c}
           /\ failed' = [failed EXCEPT ![c.user] = @ \/ c.kind = "poll"]
           /\ UNCHANGED <<server, page, debate, visit, topic, rejoins, dequeue, view>>
  <2>1. CallsTyped'
    BY <1>4, DropTyped
  <2>2. \A w \in Users : view'[w] # None => Fits(view[w])'
    BY <1>4, ViewStays
  <2>3. join' \in [Users -> {"idle", "pending", "success", "error"}]
    BY <1>4 DEF Settle, TabTyped
  <2>4. rooms' = rooms
    BY <1>4 DEF server
  <2>5. failed' \in [Users -> BOOLEAN]
    BY <1>4 DEF TabTyped
  <2> QED
    BY <1>1, <1>4, <2>1, <2>2, <2>3, <2>4, <2>5 DEF TabTyped
<1> QED
  BY <1>2, <1>3, <1>4 DEF Fail

TypeInv == Inv /\ Pairs /\ TabTyped /\ CallsTyped

LEMMA TypeInductive == TypeInv /\ [Next]_vars => TypeInv'
<1> SUFFICES ASSUME TypeInv, [Next]_vars PROVE TypeInv'
  OBVIOUS
<1> USE DEF TypeInv
<1>1. Inv' /\ Pairs' /\ Grows /\ Typed
  BY InvInductive, RoomsGrow DEF Inv
<1>2. CASE UNCHANGED vars
  BY <1>1, <1>2, ServerTyped DEF vars
<1>3. ASSUME NEW c \in calls, Serve(c) \/ Answered(c) \/ Fail(c)
      PROVE  TabTyped' /\ CallsTyped'
  <2>1. CASE LeaveAnswered(c)
    <3>1. CallsTyped'
      BY <1>1, <2>1, DropTyped DEF LeaveAnswered, tab
    <3> QED
      BY <1>1, <2>1, <3>1, ServerStays DEF LeaveAnswered
  <2>2. CASE CancelAnswered(c)
    <3>1. losses' \in 0..MaxLosses
      BY <2>2 DEF CancelAnswered, TabTyped
    <3> QED
      BY <1>1, <2>2, <3>1, CancelledTyped DEF CancelAnswered
  <2> QED
    BY <1>1, <1>3, <2>1, <2>2, ServeTyped, JoinAnsweredTyped, PollAnsweredTyped, FailTyped
       DEF Answered
<1>4. ASSUME NEW u \in Users,
             \/ \E t \in Topics : Visit(u, t)
             \/ Poll(u) \/ Focus(u) \/ Rejoin(u) \/ Expire(u) \/ Stranger(u)
             \/ Leave(u) \/ Cancel(u) \/ Enter(u) \/ LeaveDebate(u)
      PROVE  TabTyped' /\ CallsTyped'
  <2>1. CASE Expire(u) \/ Stranger(u)
    BY <1>1, <2>1, ServerTyped DEF Expire, Stranger
  <2>2. CASE Poll(u) \/ Focus(u)
    BY <1>1, <2>2, RefetchTyped DEF Poll, Focus
  <2> QED
    BY <1>1, <1>4, <2>1, <2>2, VisitTyped, RejoinTyped, LeaveTyped, CancelTyped
<1> QED
  BY <1>1, <1>2, <1>3, <1>4 DEF Next

LEMMA TypeInitially == Init => TypeInv
<1> SUFFICES ASSUME Init PROVE TypeInv
  OBVIOUS
<1>1. Inv
  BY InvInitially
<1>2. Pairs /\ TabTyped /\ CallsTyped
  BY DEF Init, Pairs, TabTyped, CallsTyped
<1> QED
  BY <1>1, <1>2 DEF TypeInv

LEMMA TypeInvSuffices == TypeInv => TypeOK
<1> SUFFICES ASSUME TypeInv PROVE TypeOK
  OBVIOUS
<1> USE DEF TypeInv
<1>1. \A r \in DOMAIN rooms : rooms[r].people \subseteq Users /\ Cardinality(rooms[r].people) = 2
  <2>1. \A r \in DOMAIN rooms : rooms[r] \in Debates
    BY DEF Inv, Typed
  <2> QED
    BY <2>1 DEF Pairs, Debates
<1>2. Len(rooms) \in Nat
  BY DEF Inv, Typed
<1>3. \A u \in Users : debate[u] \in 0..Len(rooms) /\ (page[u] = "debate" <=> debate[u] # 0)
  BY <1>2 DEF TabTyped
<1>4. \A u \in Users : view[u] # None => view[u] \in States /\ view[u].room <= Len(rooms)
  BY DEF TabTyped, Fits
<1>5. \A c \in calls : c \in Calls /\ c.visit <= visit[c.user]
  BY DEF CallsTyped, CallTyped
<1>6. ASSUME NEW u \in Users
      PROVE  Cardinality({c \in calls : c.user = u /\ c.kind = "poll"}) <= 1
  <2> DEFINE polls == {c \in calls : c.user = u /\ c.kind = "poll"}
  <2>1. CASE polls = {}
    BY <2>1, FS_EmptySet
  <2>2. CASE polls # {}
    <3>1. PICK c \in polls : polls = {c}
      BY <2>2 DEF CallsTyped
    <3>2. Cardinality({c}) = 1
      BY FS_Singleton
    <3> QED
      BY <3>1, <3>2
  <2> QED
    BY <2>1, <2>2
<1> QED
  BY <1>1, <1>3, <1>4, <1>5, <1>6 DEF TypeOK, Inv, Typed, TabTyped, CallsTyped

(* components/waiting-room.tsx: every variable keeps its type; in particular *)
(* a tab has one poll under way at most, however often it asks again, and    *)
(* what it shows or enters is a debate that exists.                          *)
THEOREM TypeCorrect == Spec => []TypeOK
BY TypeInitially, TypeInductive, TypeInvSuffices, PTL DEF Spec
===============================================================================
