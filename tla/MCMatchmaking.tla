---------------------------- MODULE MCMatchmaking ----------------------------
(* Small instances of Matchmaking for TLC.                                   *)
EXTENDS MatchmakingInv, TLC

\* Identifiers are interchangeable: nothing compares two of one kind other
\* than for equality, and no CHOOSE picks among them.
Symmetry == Permutations(Users) \cup Permutations(Sessions)

\* Every user has one request in flight at a time: one tab, no retry overlaps.
OneTab == \A s, o \in Sessions :
  s # o /\ req[s] # None /\ req[o] # None => req[s].user # req[o].user

PollsAs(s, u) == Begin(s, NewRequest("poll", u, None, None))

\* No poll fails.
PollsComplete ==
  \A s \in Sessions :
    (pc[s] # "idle" /\ req[s].op = "poll" /\ pc'[s] = "idle")
      => pc[s] = "polled" \/ AnswerMatched(s)

\* The waiting room of every user polls for ever, successfully.
PollingSpec ==
  /\ Init /\ [][Next /\ PollsComplete]_vars
  /\ Fairness
  /\ \A u \in Users : SF_vars(\E s \in Sessions : PollsAs(s, u))

\* Claimed by docs/PROJECT-HANDBOOK.md, Phase 4: "Two people who pick the same
\* topic are paired into a real, persisted debate room."  Two people who wait
\* on one topic do not both go on waiting for ever.
WaitersMeet ==
  \A t, o \in Tickets :
    (t # o /\ {t, o} \subseteq Live /\ queue[t].topic = queue[o].topic)
      ~> ~({t, o} \subseteq Live)

OneTabSpec == Init /\ [][Next /\ OneTab']_vars
==============================================================================
