----------------------------- MODULE WaitingRoom -----------------------------
(***************************************************************************)
(* The waiting room of a browser tab (components/waiting-room.tsx over     *)
(* services/match.ts and TanStack Query), and the matchmaking requests it  *)
(* makes.  The server serves each request at once, but for the poll, which *)
(* reads the rooms and then the queue: what overlapping statements do is   *)
(* the subject of Matchmaking, not of this module.  The users are signed   *)
(* in.                                                                     *)
(***************************************************************************)
EXTENDS Naturals, Sequences, FiniteSets, FiniteSetsExt

CONSTANTS
  Users, Topics,
  Strangers,   \* the users whose tabs are left out
  Retries,     \* "retry" of the join mutation
  MaxRejoins,  \* MAX_REJOIN_ATTEMPTS
  Faults,      \* "hidden": polls throttled to death; "slow": polls of over 2 s
  MaxVisits,   \* a bound on the visits of a user
  MaxLosses,   \* a bound on the requests that fail
  MaxRooms,    \* a bound on the debates strangers open
  None

ASSUME BoundsAssumption == {Retries, MaxRejoins, MaxVisits, MaxLosses, MaxRooms} \subseteq Nat
ASSUME NoneAssumption == None \notin Topics

VARIABLES
  queue,    \* the topic a user is queued for, at the server
  rooms,    \* the debates: [people, over], and the visits their people were on
  page,     \* where a tab is: "away", "waiting" or "debate"
  debate,   \* the room of its debate page, or 0
  visit,    \* how many times it has come to the waiting room
  topic,    \* the topic of the last visit
  join,     \* joinStatus of the mounted component
  rejoins,  \* its rejoinAttempts
  dequeue,  \* its shouldDequeue
  view,     \* the cached match state: it outlives the component
  failed,   \* isError of that query: its last poll failed
  calls,    \* requests sent, and answers on their way
  losses    \* how many have failed

server == <<queue, rooms>>
tab == <<page, debate, visit, topic, join, rejoins, dequeue, view, failed>>
vars == <<server, tab, calls, losses>>

States ==
  [status : {"idle", "queued"}, room : {0}] \cup [status : {"matched"}, room : Nat \ {0}]

\* A poll that found no open room has the queue still to read.
NoRoom == [status |-> "noroom", room |-> 0]

Calls ==
  [kind : {"join", "poll", "leave", "cancel"}, user : Users, visit : Nat, no : Nat,
   topic : Topics, tries : 0..Retries, answer : States \cup {None, NoRoom}]

TypeOK ==
  /\ queue \in [Users -> Topics \cup {None}]
  /\ \A r \in DOMAIN rooms : rooms[r].people \subseteq Users /\ Cardinality(rooms[r].people) = 2
  /\ page \in [Users -> {"away", "waiting", "debate"}]
  /\ \A u \in Users : debate[u] \in 0..Len(rooms) /\ (page[u] = "debate" <=> debate[u] # 0)
  /\ visit \in [Users -> 0..MaxVisits] /\ topic \in [Users -> Topics]
  /\ join \in [Users -> {"idle", "pending", "success", "error"}]
  /\ rejoins \in [Users -> 0..MaxRejoins]
  /\ dequeue \in [Users -> BOOLEAN] /\ failed \in [Users -> BOOLEAN]
  /\ \A u \in Users : view[u] # None => view[u] \in States /\ view[u].room <= Len(rooms)
  /\ \A c \in calls : c \in Calls /\ c.visit <= visit[c.user]
  /\ \A u \in Users : Cardinality({c \in calls : c.user = u /\ c.kind = "poll"}) <= 1
  /\ losses \in 0..MaxLosses

Init ==
  /\ queue = [u \in Users |-> None] /\ rooms = <<>>
  /\ page = [u \in Users |-> "away"] /\ debate = [u \in Users |-> 0]
  /\ visit = [u \in Users |-> 0] /\ topic \in [Users -> Topics]
  /\ join = [u \in Users |-> "idle"] /\ rejoins = [u \in Users |-> 0]
  /\ dequeue = [u \in Users |-> FALSE] /\ view = [u \in Users |-> None]
  /\ failed = [u \in Users |-> FALSE]
  /\ calls = {} /\ losses = 0

------------------------------------------------------------------------------
(* The server.                                                               *)

State(status, room) == [status |-> status, room |-> room]

OpenRooms(u) == {r \in DOMAIN rooms : ~rooms[r].over /\ u \in rooms[r].people}

Reply(c, answer) ==
  /\ calls' = (calls \ {c}) \cup {[c EXCEPT !.answer = answer]}
  /\ UNCHANGED <<tab, losses>>

\* Mutant: a debate that is still open stays open.
Abandoning_Not(u) == rooms

\* A join abandons the debate its user has open.
Abandoning(u) ==
  [r \in DOMAIN rooms |-> [rooms[r] EXCEPT !.over = @ \/ r \in OpenRooms(u)]]

Pair(u, opponent) ==
  /\ rooms' = Append(Abandoning(u),
       [people |-> {u, opponent}, over |-> FALSE,
        since |-> [p \in {u, opponent} |-> visit[p]]])
  /\ queue' = [queue EXCEPT ![u] = None, ![opponent] = None]

Enqueue(u, t) == rooms' = Abandoning(u) /\ queue' = [queue EXCEPT ![u] = t]

Waiting(u, t) == {o \in Users \ {u} : queue[o] = t}

ServeJoin(c) ==
  /\ c.kind = "join" /\ c.answer = None
  /\ \/ /\ \E o \in Waiting(c.user, c.topic) : Pair(c.user, o)
        /\ Reply(c, State("matched", Len(rooms) + 1))
     \/ /\ Waiting(c.user, c.topic) = {} /\ Enqueue(c.user, c.topic)
        /\ Reply(c, State("queued", 0))

\* get_state: the rooms first, and the queue in the next transaction.
ServePoll(c) ==
  /\ c.kind = "poll" /\ c.answer \in {None, NoRoom}
  /\ IF c.answer = NoRoom
     THEN Reply(c, State(IF queue[c.user] = None THEN "idle" ELSE "queued", 0))
     ELSE Reply(c, IF OpenRooms(c.user) = {} THEN NoRoom
                   ELSE State("matched", Max(OpenRooms(c.user))))
  /\ UNCHANGED server

ServeLeave(c) ==
  /\ c.kind \in {"leave", "cancel"} /\ c.answer = None
  /\ queue' = [queue EXCEPT ![c.user] = None] /\ UNCHANGED rooms
  /\ Reply(c, State("idle", 0))

\* What somebody with another tab may ask the server: to join, leave or end.
Stranger(u) ==
  /\ u \in Strangers
  /\ \/ \E t \in Topics :
          \/ Len(rooms) < MaxRooms /\ \E o \in Waiting(u, t) : Pair(u, o)
          \/ Waiting(u, t) = {} /\ Enqueue(u, t)
     \/ \E r \in OpenRooms(u) : rooms' = [rooms EXCEPT ![r].over = TRUE] /\ UNCHANGED queue
  /\ UNCHANGED <<tab, calls, losses>>

\* The entry of a tab that stopped polling is swept.
Expire(u) ==
  /\ queue[u] # None
  /\ page[u] # "waiting" \/ "hidden" \in Faults
  /\ queue' = [queue EXCEPT ![u] = None]
  /\ UNCHANGED <<rooms, tab, calls, losses>>

------------------------------------------------------------------------------
(* The tab.                                                                  *)

\* matched: the cached state has a room.
Matched(u) == view[u] # None /\ view[u].status = "matched"

\* failure: the page shows it in the place of everything else, a match included.
Failing(u) == join[u] = "error" \/ failed[u]

Call(kind, u, no) ==
  [kind |-> kind, user |-> u, visit |-> visit[u], no |-> no, topic |-> topic[u],
   tries |-> 0, answer |-> None]

Of(u, kind) == {c \in calls : c.user = u /\ c.kind = kind}

\* The component is mounted: it joins and polls; and if an earlier visit left an
\* idle state in the cache, the rejoin effect of the first render joins as well.
Visit(u, t) ==
  LET twice == MaxRejoins > 0 /\ view[u] = State("idle", 0)
      first == [Call("join", u, 1) EXCEPT !.visit = @ + 1, !.topic = t]
  IN  /\ page[u] = "away" /\ visit[u] < MaxVisits /\ u \notin Strangers
      /\ page' = [page EXCEPT ![u] = "waiting"]
      /\ visit' = [visit EXCEPT ![u] = @ + 1] /\ topic' = [topic EXCEPT ![u] = t]
      /\ join' = [join EXCEPT ![u] = "pending"]
      /\ rejoins' = [rejoins EXCEPT ![u] = IF twice THEN 1 ELSE 0]
      /\ dequeue' = [dequeue EXCEPT ![u] = FALSE]
      /\ calls' = calls \cup {first, [first EXCEPT !.kind = "poll", !.no = 0]}
                        \cup (IF twice THEN {[first EXCEPT !.no = 2]} ELSE {})
      /\ failed' = [failed EXCEPT ![u] = @ /\ view[u] # None]
      /\ UNCHANGED <<server, debate, view, losses>>

\* A new poll cancels the one under way; a query without data is pending again.
Refetch(u) ==
  /\ page[u] = "waiting" /\ calls' = (calls \ Of(u, "poll")) \cup {Call("poll", u, 0)}
  /\ failed' = [failed EXCEPT ![u] = @ /\ view[u] # None]
  /\ UNCHANGED <<server, page, debate, visit, topic, join, rejoins, dequeue, view, losses>>

\* Mutant: the timer asks again, and nothing is cancelled.
Poll_Overlaps(u) ==
  /\ page[u] = "waiting" /\ ~Matched(u) /\ calls' = calls \cup {Call("poll", u, 0)}
  /\ UNCHANGED <<server, tab, losses>>

\* Mutant: no poll until the join has succeeded.
Poll_Coupled(u) == ~Matched(u) /\ join[u] = "success" /\ Of(u, "poll") = {} /\ Refetch(u)

\* The poll loop stops when the cached state is a match.  A slow poll is asked again,
\* or, as long as there is no data, waited for.
Poll(u) ==
  /\ ~Matched(u) /\ Refetch(u)
  /\ Of(u, "poll") = {} \/ ("slow" \in Faults /\ view[u] # None)

\* refetchOnWindowFocus asks whatever the page shows, unless it is asking already.
Focus(u) == Matched(u) /\ Of(u, "poll") = {} /\ Refetch(u)

Rejoin(u) ==
  /\ page[u] = "waiting" /\ view[u] = State("idle", 0) /\ join[u] # "pending"
  /\ rejoins[u] < MaxRejoins
  /\ rejoins' = [rejoins EXCEPT ![u] = @ + 1]
  /\ join' = [join EXCEPT ![u] = "pending"]
  /\ calls' = calls \cup {Call("join", u, rejoins[u] + 2)}
  /\ UNCHANGED <<server, page, debate, visit, topic, dequeue, view, failed, losses>>

Mounted(c) == page[c.user] = "waiting" /\ visit[c.user] = c.visit

\* joinStatus is that of the component's last join.
Settle(c, status) ==
  join' = [join EXCEPT ![c.user] =
             IF Mounted(c) /\ c.no = rejoins[c.user] + 1 THEN status ELSE @]

\* The cache is written, and no error with it.
Show(u, state) ==
  view' = [view EXCEPT ![u] = state] /\ failed' = [failed EXCEPT ![u] = FALSE]

\* onSuccess writes the cache, whatever has become of the component.
JoinAnswered(c) ==
  /\ c.kind = "join" /\ c.answer # None
  /\ Settle(c, "success") /\ Show(c.user, c.answer)
  /\ dequeue' = [dequeue EXCEPT ![c.user] =
                   IF Mounted(c) THEN c.answer.status = "queued" ELSE @]
  /\ calls' = calls \ {c}
  /\ UNCHANGED <<server, page, debate, visit, topic, rejoins, losses>>

PollAnswered(c) ==
  /\ c.kind = "poll" /\ c.answer \notin {None, NoRoom}
  /\ Show(c.user, c.answer)
  /\ calls' = calls \ {c}
  /\ UNCHANGED <<server, page, debate, visit, topic, join, rejoins, dequeue, losses>>

LeaveAnswered(c) ==
  /\ c.kind = "leave" /\ c.answer # None
  /\ calls' = calls \ {c} /\ UNCHANGED <<server, tab, losses>>

\* The tab goes to another page; the component unmounts: its poll is cancelled,
\* and it withdraws if its last join left it queued.
Depart(u, to, room, rest) ==
  /\ page' = [page EXCEPT ![u] = to] /\ debate' = [debate EXCEPT ![u] = room]
  /\ calls' = (rest \ Of(u, "poll"))
              \cup (IF page[u] = "waiting" /\ to = "away" /\ dequeue[u]
                    THEN {Call("leave", u, 0)} ELSE {})
  /\ UNCHANGED <<visit, topic, join, rejoins>>

Leave(u) ==
  /\ page[u] = "waiting" /\ Depart(u, "away", 0, calls)
  /\ UNCHANGED <<server, dequeue, view, failed, losses>>

\* The button is there while no match and no failure is shown.  The page waits for
\* the answer.
Cancel(u) ==
  /\ page[u] = "waiting" /\ ~Matched(u) /\ ~Failing(u) /\ Of(u, "cancel") = {}
  /\ dequeue' = [dequeue EXCEPT ![u] = FALSE]
  /\ calls' = calls \cup {Call("cancel", u, 0)}
  /\ UNCHANGED <<server, page, debate, visit, topic, join, rejoins, view, failed, losses>>

\* Answered or failed: the cache is emptied and the tab goes to the topics,
\* wherever it is by then.
Cancelled(c) ==
  /\ c.kind = "cancel" /\ Show(c.user, None)
  /\ Depart(c.user, "away", 0, calls \ {c})
  /\ UNCHANGED <<server, dequeue>>

CancelAnswered(c) == c.answer # None /\ Cancelled(c) /\ UNCHANGED losses

Enter(u) ==
  /\ page[u] = "waiting" /\ Matched(u) /\ ~Failing(u)
  /\ dequeue' = [dequeue EXCEPT ![u] = FALSE]
  /\ Depart(u, "debate", view[u].room, calls)
  /\ UNCHANGED <<server, view, failed, losses>>

\* A debater walks away, or presses End, which ends the room of that page.
LeaveDebate(u) ==
  /\ page[u] = "debate"
  /\ rooms' \in {rooms, [rooms EXCEPT ![debate[u]].over = TRUE]}
  /\ Depart(u, "away", 0, calls)
  /\ UNCHANGED <<queue, dequeue, view, failed, losses>>

\* A request or its answer is lost; the join is tried again, a few times.  (The
\* retries of a poll are one poll here, which fails if the last of them does.)
Fail(c) ==
  /\ losses < MaxLosses /\ losses' = losses + 1
  /\ \/ c.kind = "cancel" /\ Cancelled(c)
     \/ /\ c.kind = "join" /\ c.tries < Retries
        /\ calls' = (calls \ {c}) \cup {[c EXCEPT !.tries = @ + 1, !.answer = None]}
        /\ UNCHANGED <<server, tab>>
     \/ /\ c.kind \in {"poll", "leave"} \/ (c.kind = "join" /\ c.tries = Retries)
        /\ IF c.kind = "join" THEN Settle(c, "error") ELSE UNCHANGED join
        /\ failed' = [failed EXCEPT ![c.user] = @ \/ c.kind = "poll"]
        /\ calls' = calls \ {c}
        /\ UNCHANGED <<server, page, debate, visit, topic, rejoins, dequeue, view>>

Serve(c) == ServeJoin(c) \/ ServePoll(c) \/ ServeLeave(c)

Answered(c) == JoinAnswered(c) \/ PollAnswered(c) \/ LeaveAnswered(c) \/ CancelAnswered(c)

Next ==
  \/ \E c \in calls : Serve(c) \/ Answered(c) \/ Fail(c)
  \/ \E u \in Users :
       \/ \E t \in Topics : Visit(u, t)
       \/ Poll(u) \/ Focus(u) \/ Rejoin(u) \/ Expire(u) \/ Stranger(u)
       \/ Leave(u) \/ Cancel(u) \/ Enter(u) \/ LeaveDebate(u)

Spec == Init /\ [][Next]_vars

\* The server serves, the network delivers, and the tab's timer fires.
Fairness ==
  \A u \in Users :
    /\ WF_vars(Poll(u))
    /\ WF_vars(\E c \in Of(u, "poll") : Serve(c) \/ Answered(c))

FairSpec == Spec /\ Fairness

------------------------------------------------------------------------------
(* Properties.                                                               *)

\* What a poll that found all at rest would answer.
Truth(u) ==
  IF OpenRooms(u) # {} THEN State("matched", Max(OpenRooms(u)))
  ELSE State(IF queue[u] = None THEN "idle" ELSE "queued", 0)

\* Requests of a user that are retried, late or from two visits, but not served
\* at the same time, leave them in one place: never queued and in an open debate,
\* and never in two.
OnePlace ==
  \A u \in Users :
    Cardinality(OpenRooms(u)) + (IF queue[u] = None THEN 0 ELSE 1) <= 1

\* "The poll is now the source of truth": a waiting room that has no match does not
\* go on with another state than what the server knows, nor with the failure of a
\* poll, whatever became of its joins.
PollIsTruth ==
  \A u \in Users :
    page[u] = "waiting" /\ ~Matched(u) /\ (view[u] # Truth(u) \/ failed[u])
      ~> page[u] # "waiting" \/ Matched(u) \/ (view[u] = Truth(u) /\ ~failed[u])

\* Claimed by the poll: it "is now the source of truth and the join is just an action
\* that kicks it off", so that who is in a debate is shown it.
MatchesAreShown ==
  \A u \in Users :
    page[u] = "waiting" /\ OpenRooms(u) # {}
      ~> page[u] # "waiting" \/ OpenRooms(u) = {} \/ (Matched(u) /\ ~Failing(u))

\* Claimed by join: a debate is abandoned by "an unambiguous request for a new
\* debate": a visit after it was opened, or by somebody who is in it.
RoomsEndOnPurpose ==
  [][\A r \in DOMAIN rooms : rooms'[r].over /\ ~rooms[r].over =>
       \E u \in rooms[r].people : visit[u] > rooms[r].since[u] \/ page[u] = "debate"]_vars

\* Claimed by WaitingRoom: leaving the page or pressing Cancel withdraws from the
\* queue, "otherwise a user who wandered off would sit there as a phantom".
NoPhantoms ==
  \A u \in Users :
    page[u] = "away" /\ {c \in calls : c.user = u} = {} /\ losses = 0 => queue[u] = None

\* Claimed by the poll loop: it "runs until we are actually matched".
MatchesAreActual ==
  \A u \in Users :
    page[u] = "waiting" /\ Matched(u) /\ queue[u] # None => \E c \in calls : c.user = u
==============================================================================
