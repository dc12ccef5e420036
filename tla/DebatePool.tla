------------------------------ MODULE DebatePool ------------------------------
(***************************************************************************)
(* What matchmaking promises, without sessions, locks or clocks: a pool of *)
(* people waiting for a debate, and the debates made from it.  Every       *)
(* request takes effect at once.  Matchmaking implements this.             *)
(***************************************************************************)
EXTENDS Naturals, Sequences

CONSTANTS Users, Topics

VARIABLES
  pool,     \* the entries waiting: [id, user, topic]
  entered,  \* how many entries there have ever been; their ids are 1..entered
  debates   \* the debates, in the order they were opened

pvars == <<pool, entered, debates>>

Init == pool = {} /\ entered = 0 /\ debates = <<>>

\* The debates, after "u" has closed at most one of their own.
Closing(u) ==
  {debates} \cup
  {[debates EXCEPT ![d].over = TRUE] :
     d \in {d \in DOMAIN debates : u \in debates[d].people}}

\* u finds nobody: they hold one entry, a new one.  Others may expire.
Enter(u, topic) ==
  /\ \E rest \in SUBSET {e \in pool : e.user # u} :
       pool' = rest \cup {[id |-> entered + 1, user |-> u, topic |-> topic]}
  /\ entered' = entered + 1
  /\ debates' \in Closing(u)

\* u is paired with an entry of somebody else on the topic: that entry leaves
\* the pool in the very step that opens the debate.
Pair(u, topic) ==
  \E e \in pool :
    /\ e.user # u /\ e.topic = topic
    /\ pool' \in SUBSET (pool \ {e})
    /\ \E closed \in Closing(u) :
         debates' = Append(closed, [people |-> {e.user, u}, topic |-> topic,
                                    from |-> e.id, over |-> FALSE])
    /\ UNCHANGED entered

\* Entries are withdrawn, or expire.
Withdraw == pool' \in SUBSET pool /\ UNCHANGED <<entered, debates>>

End(u) == debates' \in Closing(u) /\ UNCHANGED <<pool, entered>>

Next ==
  \/ \E u \in Users, topic \in Topics : Enter(u, topic) \/ Pair(u, topic)
  \/ \E u \in Users : End(u)
  \/ Withdraw

Spec == Init /\ [][Next]_pvars
===============================================================================
