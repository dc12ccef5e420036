----------------------------- MODULE TopicsProofs -----------------------------
(* What holds of Topics for any titles, patterns and number of creators.     *)
EXTENDS Topics, FiniteSetTheorems, TLAPS

USE SameAssumption, OfferedAssumption, CreatorsAssumption, SeededAssumption, SizesAssumption

\* A draft has the number of the request that wrote it.
DraftsAreOwn == \A c \in Creators : pc[c] \notin {"new", "invalid"} => draft[c].id = c

\* Past the look, nothing that was there matches the title.
LookedFirst ==
  \A c \in Creators : pc[c] \in {"inserting", "inserted", "created"} =>
    \A o \in saw[c] : <<o.title, draft[c].title>> \notin Like

\* A topic is one of the seeded, or the draft of a request that was answered.
Origins ==
  \A t \in topics :
    \/ t.id \in {s.id : s \in Seeded}
    \/ t.id \in Creators /\ pc[t.id] = "created" /\ t = draft[t.id]

Inv == DOMAIN pc = Creators /\ DOMAIN draft = Creators /\ DOMAIN saw = Creators
         /\ DraftsAreOwn /\ LookedFirst /\ Origins

LEMMA InvInitially == Init => Inv
BY DEF Init, Inv, DraftsAreOwn, LookedFirst, Origins

\* The requests that are not past their insert, and the reader.
LEMMA NothingStored ==
  ASSUME Inv, topics' = topics, DOMAIN pc' = Creators, DOMAIN draft' = Creators,
         DOMAIN saw' = Creators, DraftsAreOwn', LookedFirst',
         \A c \in Creators : pc[c] = "created" => pc'[c] = pc[c] /\ draft'[c] = draft[c]
  PROVE  Inv'
BY DEF Inv, Origins

LEMMA InvInductive == Inv /\ [Next]_vars => Inv'
<1> SUFFICES ASSUME Inv, [Next]_vars PROVE Inv'
  OBVIOUS
<1>1. ASSUME NEW c \in Creators, NEW payload \in Offered, Begin(c, payload)
      PROVE  Inv'
  <2>1. /\ pc[c] = "new" /\ UNCHANGED <<topics, saw>>
        /\ pc' = [pc EXCEPT ![c] = IF Known(payload.category) THEN "checking" ELSE "invalid"]
        /\ draft' = [draft EXCEPT ![c] =
             [id |-> c, title |-> payload.title, category |-> payload.category, created |-> clock]]
    BY <1>1 DEF Begin, Goto
  <2> QED
    BY <2>1, NothingStored DEF Inv, DraftsAreOwn, LookedFirst
<1>2. ASSUME NEW c \in Creators, Check(c)
      PROVE  Inv'
  <2>1. /\ pc[c] = "checking" /\ UNCHANGED <<topics, draft>>
        /\ pc' = [pc EXCEPT ![c] = IF TitleExists(draft[c].title) THEN "refused" ELSE "inserting"]
        /\ saw' = [saw EXCEPT ![c] = topics]
    BY <1>2 DEF Check, Goto
  <2>2. LookedFirst'
    BY <2>1 DEF Inv, LookedFirst, TitleExists
  <2> QED
    BY <2>1, <2>2, NothingStored DEF Inv, DraftsAreOwn
<1>3. ASSUME NEW c \in Creators, Insert(c) \/ Rollback(c)
      PROVE  Inv'
  <2>1. PICK label \in {"inserted", "lost"} :
          /\ pc' = [pc EXCEPT ![c] = label] /\ UNCHANGED <<topics, draft, saw>>
          /\ pc[c] \in {"checking", "inserting", "inserted"}
          /\ label = "inserted" => pc[c] = "inserting"
    BY <1>3 DEF Insert, Rollback, Goto
  <2> QED
    BY <2>1, NothingStored DEF Inv, DraftsAreOwn, LookedFirst
<1>4. ASSUME NEW c \in Creators, Commit(c)
      PROVE  Inv'
  <2>1. /\ pc[c] = "inserted" /\ UNCHANGED <<draft, saw>>
        /\ pc' = [pc EXCEPT ![c] = "created"] /\ topics' = topics \cup {draft[c]}
    BY <1>4 DEF Commit, Goto
  <2>2. DraftsAreOwn' /\ LookedFirst'
    BY <2>1 DEF Inv, DraftsAreOwn, LookedFirst
  <2>3. Origins'
    BY <2>1 DEF Inv, DraftsAreOwn, Origins
  <2> QED
    BY <2>1, <2>2, <2>3 DEF Inv
<1>5. CASE UNCHANGED <<topics, posts>>
  BY <1>5 DEF posts, Inv, DraftsAreOwn, LookedFirst, Origins
<1> QED
  BY <1>1, <1>2, <1>3, <1>4, <1>5
     DEF Next, vars, Open, Count, Items, TurnPage, TurnBack, SetPage, Refetch, Tick

(* services/topic.py, create_topic: whatever ILIKE does with a pattern, no    *)
(* title is stored that, as one, matched a title that was there at the look:  *)
(* such pairs come only of creations that overlap.                            *)
THEOREM DuplicatesAreRaces == Spec => []OnlyRacesDuplicate
<1>1. Inv => OnlyRacesDuplicate
  <2> SUFFICES ASSUME Inv, NEW t \in topics, NEW o \in topics, <<o.title, t.title>> \in Like,
                      t.id \in Creators
               PROVE  o \notin saw[t.id]
    BY DEF OnlyRacesDuplicate
  <2>1. pc[t.id] = "created" /\ t = draft[t.id]
    BY DEF Inv, Origins
  <2> QED
    BY <2>1 DEF Inv, LookedFirst
<1> QED
  BY <1>1, InvInitially, InvInductive, PTL DEF Spec

(* The claim that MCTopicsEscape.cfg refutes, and what would make it true:    *)
(* if every title, as a pattern, matched all that are equal to it but for     *)
(* case (were it escaped, say), a later duplicate would always be refused.    *)
THEOREM EscapedTitlesAreKeptOut ==
  ASSUME Same \subseteq Like
  PROVE  Spec => []LaterDuplicatesAreRejected
<1>1. OnlyRacesDuplicate => LaterDuplicatesAreRejected
  BY DEF OnlyRacesDuplicate, LaterDuplicatesAreRejected
<1> QED
  BY <1>1, DuplicatesAreRaces, PTL

------------------------------------------------------------------------------
(* Types.                                                                    *)

\* The types of all but the numbers of topics.
Typed ==
  /\ clock \in 0..MaxClock /\ topics \subseteq Topic
  /\ \A t, o \in topics : t.id = o.id => t = o
  /\ pc \in [Creators -> {"new", "invalid", "checking", "inserting", "inserted", "created",
                          "refused", "lost"}]
  /\ \A c \in Creators : pc[c] \notin {"new", "invalid"} => draft[c] \in Topic
  /\ saw \in [Creators -> SUBSET Topic]
  /\ page \in Nat /\ phase \in {"idle", "count", "items", "shown"} /\ read \in Nat
  /\ seen \subseteq Topic /\ old \subseteq Topic

LEMMA TypedInitially == Init => Typed
BY DEF Init, Typed, Topic, Ids

LEMMA BeginTyped ==
  ASSUME Inv, Typed, NEW c \in Creators, NEW payload \in Offered, Begin(c, payload)
  PROVE  Typed'
<1> DEFINE new == [id |-> c, title |-> payload.title, category |-> payload.category,
                   created |-> clock]
<1>1. /\ pc' = [pc EXCEPT ![c] = IF payload.category \in Categories THEN "checking" ELSE "invalid"]
      /\ draft' = [draft EXCEPT ![c] = new]
      /\ UNCHANGED <<clock, topics, saw, reader>>
  BY DEF Begin, Goto, Known
<1>2. payload.category \in Categories => new \in Topic
  BY DEF Topic, Ids, Typed
<1>3. \A o \in Creators : /\ pc'[o] = IF o # c THEN pc[o]
                                      ELSE IF payload.category \in Categories THEN "checking"
                                      ELSE "invalid"
                          /\ draft'[o] = IF o = c THEN new ELSE draft[o]
  BY <1>1 DEF Inv, Typed
<1>4. \A o \in Creators : pc'[o] \notin {"new", "invalid"} => draft'[o] \in Topic
  BY <1>2, <1>3 DEF Typed
<1> QED
  BY <1>1, <1>4 DEF Typed, reader

LEMMA CommitTyped ==
  ASSUME Inv, Typed, NEW c \in Creators, Commit(c)
  PROVE  Typed'
<1>1. /\ pc[c] = "inserted" /\ pc' = [pc EXCEPT ![c] = "created"]
      /\ topics' = topics \cup {draft[c]}
      /\ UNCHANGED <<clock, draft, saw, reader>>
  BY DEF Commit, Goto
<1>2. draft[c] \in Topic /\ draft[c].id = c
  BY <1>1 DEF Typed, Inv, DraftsAreOwn
<1>3. \A t \in topics : t.id # c
  BY <1>1 DEF Inv, Origins
<1>4. \A t, o \in topics' : t.id = o.id => t = o
  BY <1>1, <1>2, <1>3 DEF Typed
<1> QED
  BY <1>1, <1>2, <1>4 DEF Typed, reader

LEMMA TypedInductive == Inv /\ Typed /\ [Next]_vars => Typed'
<1> SUFFICES ASSUME Inv, Typed, [Next]_vars PROVE Typed'
  OBVIOUS
<1>1. ASSUME NEW c \in Creators, Check(c) \/ Insert(c) \/ Rollback(c)
      PROVE  Typed'
  BY <1>1 DEF Check, Insert, Rollback, Goto, Typed, reader
<1>2. CASE Open \/ Count \/ TurnPage \/ TurnBack \/ Refetch \/ Tick \/ UNCHANGED vars
  BY <1>2 DEF Open, Count, TurnPage, TurnBack, SetPage, Refetch, Tick, vars, Typed, posts, reader
<1>3. CASE Items
  <2>1. seen' \subseteq seen \cup topics
    BY <1>3 DEF Items, FirstRows, Matching
  <2> QED
    BY <1>3, <2>1 DEF Items, Typed, posts
<1> QED
  BY <1>1, <1>2, <1>3, BeginTyped, CommitTyped DEF Next

LEMMA IdsAreFinite == IsFiniteSet(Ids) /\ Cardinality(Ids) \in Nat
<1> DEFINE ids == {t.id : t \in Seeded}
<1> DEFINE f == [t \in Seeded |-> t.id]
<1>1. f \in Surjection(Seeded, ids)
  BY DEF Surjection
<1>2. IsFiniteSet(ids)
  <2> HIDE DEF f, ids
  <2> QED
    BY <1>1, FS_Surjection
<1>3. IsFiniteSet(Ids)
  <2> HIDE DEF ids
  <2> QED
    BY <1>2, FS_Union DEF Ids, ids
<1> QED
  BY <1>3, FS_CardinalityType

\* Topics have different ids, so there are no more of them.
LEMMA TopicsAreFinite ==
  ASSUME Typed
  PROVE  /\ IsFiniteSet(topics)
         /\ IsFiniteSet(Matching) /\ Cardinality(Matching) \in 0..Cardinality(Ids)
<1> DEFINE f == [t \in topics |-> t.id]
<1>1. f \in Injection(topics, Ids)
  BY DEF Injection, IsInjective, Typed, Topic
<1>2. IsFiniteSet(topics) /\ Cardinality(topics) <= Cardinality(Ids)
  <2> HIDE DEF f
  <2> QED
    BY <1>1, IdsAreFinite, FS_Injection
<1>3. Matching \subseteq topics
  BY DEF Matching
<1>4. IsFiniteSet(Matching) /\ Cardinality(Matching) <= Cardinality(topics)
  BY <1>2, <1>3, FS_Subset
<1> QED
  BY <1>2, <1>4, IdsAreFinite, FS_CardinalityType

Counted ==
  /\ {total, counted, listed} \subseteq 0..Cardinality(Ids)
  /\ DOMAIN cached \subseteq Nat /\ \A p \in DOMAIN cached : cached[p] \in 0..Cardinality(Ids)

LEMMA CountedInductive == Typed /\ Counted /\ [Next]_vars => Counted'
<1> SUFFICES ASSUME Typed, Counted, [Next]_vars PROVE Counted'
  OBVIOUS
<1> DEFINE Numbers == 0..Cardinality(Ids)
<1>1. Cardinality(Matching) \in Numbers /\ 0 \in Numbers
  BY TopicsAreFinite, IdsAreFinite
<1> HIDE DEF Numbers
<1>2. {total, counted, listed} \subseteq Numbers /\ DOMAIN cached \subseteq Nat
      /\ \A p \in DOMAIN cached : cached[p] \in Numbers
  BY DEF Counted, Numbers
<1>3. CASE Items
  <2>1. page \in Nat
    BY DEF Typed
  <2>2. cached' = [p \in DOMAIN cached \cup {page} |-> IF p = page THEN counted ELSE cached[p]]
        /\ total' = counted /\ counted' = 0 /\ listed' = Cardinality(Matching)
    BY <1>3 DEF Items
  <2>3. DOMAIN cached' \subseteq Nat /\ \A p \in DOMAIN cached' : cached'[p] \in Numbers
    BY <1>2, <2>1, <2>2
  <2> QED
    BY <1>1, <1>2, <2>2, <2>3 DEF Counted, Numbers
<1>4. CASE cached' = cached
  <2>1. total' \in Numbers /\ counted' \in Numbers /\ listed' \in Numbers
    BY <1>1, <1>2, <1>4
       DEF Next, vars, Begin, Check, Insert, Commit, Rollback, Open, Count, Items, TurnPage,
           TurnBack, SetPage, Refetch, Tick, reader
  <2> QED
    BY <1>2, <1>4, <2>1 DEF Counted, Numbers
<1>5. cached' = cached \/ Items
  BY DEF Next, vars, Begin, Check, Insert, Commit, Rollback, Open, Count, TurnPage,
         TurnBack, SetPage, Refetch, Tick, reader
<1> QED
  BY <1>3, <1>4, <1>5

------------------------------------------------------------------------------
(* The pages.                                                                *)

\* The rows that a listing has before t.
Before(t) == {o \in Matching : Precedes(o, t)}

\* What was there when the reader began, and was not shown yet.
Unseen == {t \in old : t \in Matching} \ seen

\* What the reader has still to see is behind the pages they read, and there is
\* nothing if the last listing ended with such a page.
Reading ==
  /\ phase = "idle" => read = 0
  /\ old \subseteq topics
  /\ \A t \in Unseen : Cardinality(Before(t)) >= read * PageSize
  /\ phase = "shown" /\ read > page /\ listed <= (page + 1) * PageSize => Unseen = {}

\* A listing's first rows are all, or have a topic that is not among them behind.
LEMMA RowsComeFirst ==
  ASSUME Typed, NEW n \in Nat, NEW rows \in FirstRows(n), NEW t \in Matching
  PROVE  /\ t \notin rows => n < Cardinality(Matching) /\ Cardinality(Before(t)) >= n
         /\ t \in rows => Cardinality(Before(t)) < n
<1>1. /\ rows \subseteq Matching /\ IsFiniteSet(Matching) /\ IsFiniteSet(rows)
      /\ Cardinality(Matching) \in Nat /\ Cardinality(rows) \in Nat
  BY TopicsAreFinite, FS_Subset, FS_CardinalityType DEF FirstRows
<1>2. Cardinality(rows) = IF n < Cardinality(Matching) THEN n ELSE Cardinality(Matching)
  BY DEF FirstRows
<1>3. \A r \in rows, o \in Matching : Precedes(o, r) => o \in rows
  BY DEF FirstRows
<1>4. \A o \in Matching : o.created \in Nat /\ o.id \in Nat
  <2>1. \A o \in Topic : o.created \in 0..MaxClock /\ o.id \in Ids
    BY DEF Topic
  <2>2. Ids \subseteq Nat
    BY DEF Ids
  <2>3. Matching \subseteq Topic
    BY DEF Matching, Typed
  <2>4. 0..MaxClock \subseteq Nat
    OBVIOUS
  <2> QED
    BY <2>1, <2>2, <2>3, <2>4
<1>5. IsFiniteSet(Before(t)) /\ Cardinality(Before(t)) \in Nat
  BY <1>1, FS_Subset, FS_CardinalityType DEF Before
<1>6. ASSUME t \notin rows
      PROVE  n < Cardinality(Matching) /\ Cardinality(Before(t)) >= n
  <2>1. Cardinality(rows) # Cardinality(Matching)
    BY <1>1, <1>6, FS_Subset
  <2>2. rows \subseteq Before(t)
    <3> SUFFICES ASSUME NEW r \in rows PROVE Precedes(r, t)
      BY <1>1 DEF Before
    <3>1. r # t /\ ~Precedes(t, r)
      BY <1>3, <1>6
    <3>2. r.id # t.id
      BY <1>1, <3>1 DEF Typed, Matching
    <3> QED
      BY <1>1, <1>4, <3>1, <3>2 DEF Precedes
  <2>3. Cardinality(rows) <= Cardinality(Before(t))
    BY <1>5, <2>2, FS_Subset
  <2> QED
    BY <1>1, <1>2, <1>5, <2>1, <2>3
<1>7. ASSUME t \in rows
      PROVE  Cardinality(Before(t)) < n
  <2>1. Before(t) \subseteq rows /\ t \notin Before(t)
    BY <1>3, <1>4, <1>7 DEF Before, Precedes
  <2>2. Cardinality(Before(t)) <= Cardinality(rows) /\ Cardinality(Before(t)) # Cardinality(rows)
    BY <1>1, <1>7, <2>1, FS_Subset
  <2> QED
    BY <1>1, <1>2, <1>5, <2>2
<1> QED
  BY <1>6, <1>7

\* New topics move the others towards later pages.
LEMMA CommitReads ==
  ASSUME Inv, Typed, Typed', Reading, NEW c \in Creators, Commit(c)
  PROVE  Reading'
<1>1. topics \subseteq topics' /\ UNCHANGED <<page, phase, listed, read, seen, old>>
  BY DEF Commit, reader
<1>2. Matching \subseteq Matching' /\ Unseen' = Unseen
  BY <1>1 DEF Matching, Unseen, Reading
<1>3. ASSUME NEW t \in Unseen
      PROVE  Cardinality(Before(t))' >= read * PageSize
  <2>1. Before(t) \subseteq Before(t)'
    BY <1>2 DEF Before, Precedes
  <2>2. IsFiniteSet(Before(t)') /\ Before(t)' \subseteq Matching'
    <3>1. Matching' \subseteq Matching \cup {draft[c]}
      BY DEF Commit, Matching
    <3>2. IsFiniteSet(Matching')
      BY <3>1, TopicsAreFinite, FS_AddElement, FS_Subset
    <3> QED
      BY <3>2, FS_Subset DEF Before
  <2>3. Cardinality(Before(t)) <= Cardinality(Before(t)') /\ Cardinality(Before(t)) \in Nat
        /\ Cardinality(Before(t)') \in Nat
    BY <2>1, <2>2, FS_Subset, FS_CardinalityType
  <2>4. read * PageSize \in Nat
    BY DEF Typed
  <2> QED
    BY <1>3, <2>3, <2>4 DEF Reading
<1> QED
  BY <1>1, <1>2, <1>3 DEF Reading

LEMMA TimesMonotone ==
  ASSUME NEW a \in Nat, NEW b \in Nat, a <= b, NEW size \in Nat
  PROVE  a * size <= b * size /\ a * size \in Nat /\ b * size \in Nat
<1>1. PICK k \in Nat : b = a + k
  <2>1. b - a \in Nat /\ b = a + (b - a)
    OBVIOUS
  <2> QED
    BY <2>1
<1>2. (a + k) * size = a * size + k * size /\ a * size \in Nat /\ k * size \in Nat
  OBVIOUS
<1> QED
  BY <1>1, <1>2

\* What the page just shown left unseen is behind it, and behind what was read.
LEMMA ItemsReads ==
  ASSUME Typed, Reading, Items
  PROVE  Reading'
<1>1. /\ phase = "items" /\ phase' = "shown" /\ listed' = Cardinality(Matching)
      /\ UNCHANGED <<topics, page, old>> /\ page \in Nat /\ read \in Nat
      /\ read' = IF page = read THEN read + 1 ELSE read
  BY DEF Items, Typed
<1> DEFINE n == page * PageSize
<1>2. n \in Nat /\ (page + 1) * PageSize = n + PageSize /\ Limit(PageSize) = PageSize
      /\ n + PageSize \in Nat
  BY <1>1 DEF Limit
<1>3. PICK skipped \in FirstRows(n), rows \in FirstRows(n + PageSize) :
        seen' = seen \cup (rows \ skipped)
  BY <1>2 DEF Items
<1>4. \A t : Before(t)' = Before(t)
  BY <1>1 DEF Before, Matching, Precedes
<1>5. Cardinality(Matching) \in Nat /\ Unseen' \subseteq Unseen /\ Unseen \subseteq Matching
  BY <1>1, <1>3, TopicsAreFinite, FS_CardinalityType DEF Unseen, Matching
<1> HIDE DEF n
<1>6. ASSUME NEW t \in Unseen'
      PROVE  /\ Cardinality(Before(t)) \in Nat /\ Cardinality(Before(t)) >= read * PageSize
             /\ Cardinality(Before(t)) >= n => n + PageSize < Cardinality(Matching)
                                                /\ Cardinality(Before(t)) >= n + PageSize
  <2>1. t \in Unseen /\ t \in Matching /\ t \notin rows \ skipped
    BY <1>1, <1>3, <1>5, <1>6 DEF Unseen, Matching
  <2>2. Cardinality(Before(t)) \in Nat
    BY TopicsAreFinite, FS_Subset, FS_CardinalityType DEF Before
  <2>3. t \in skipped => Cardinality(Before(t)) < n
    BY <1>2, <1>3, <2>1, RowsComeFirst
  <2>4. t \notin rows => n + PageSize < Cardinality(Matching)
                          /\ Cardinality(Before(t)) >= n + PageSize
    BY <1>2, <1>3, <2>1, RowsComeFirst
  <2>5. Cardinality(Before(t)) >= n => t \notin skipped
    BY <1>2, <2>2, <2>3
  <2> QED
    BY <2>1, <2>2, <2>4, <2>5 DEF Reading
<1>7. read >= page => read * PageSize >= n /\ read * PageSize \in Nat
  <2>1. PageSize \in Nat
    OBVIOUS
  <2> QED
    BY <1>1, <2>1, TimesMonotone DEF n
<1>8. ASSUME NEW t \in Unseen'
      PROVE  Cardinality(Before(t)) >= read' * PageSize
  <2>1. CASE page = read
    <3>1. Cardinality(Before(t)) >= n + PageSize
      BY <1>2, <1>6, <1>7, <1>8, <2>1 DEF n
    <3> QED
      BY <1>1, <1>2, <2>1, <3>1
  <2> QED
    BY <1>1, <1>6, <1>8, <2>1
<1>9. ASSUME read' > page, NEW t \in Unseen'
      PROVE  n + PageSize < Cardinality(Matching)
  <2>1. read >= page
    BY <1>1, <1>9
  <2>2. Cardinality(Before(t)) >= read * PageSize /\ Cardinality(Before(t)) \in Nat
    BY <1>6, <1>9
  <2>3. Cardinality(Before(t)) >= n
    BY <1>2, <1>7, <2>1, <2>2
  <2> QED
    BY <1>6, <1>9, <2>3
<1>10. read' > page /\ listed' <= (page + 1) * PageSize => Unseen' = {}
  BY <1>1, <1>2, <1>5, <1>9
<1> QED
  BY <1>1, <1>4, <1>8, <1>10 DEF Reading

\* The reader turns pages.
LEMMA TurnReads ==
  ASSUME Typed, Reading, Open \/ Count \/ TurnPage \/ TurnBack \/ Refetch
  PROVE  Reading'
<1>1. /\ topics' = topics /\ seen' = seen /\ read' = read /\ phase' \in {"count", "items"}
      /\ \/ phase = "idle" /\ old' = topics
         \/ phase # "idle" /\ old' = old
  BY DEF Open, Count, TurnPage, TurnBack, SetPage, Refetch
<1>2. \A t : Before(t)' = Before(t)
  BY <1>1 DEF Before, Matching, Precedes
<1>3. \A t \in Matching : Cardinality(Before(t)) \in Nat
  BY TopicsAreFinite, FS_Subset, FS_CardinalityType DEF Before
<1>4. Unseen' \subseteq Matching
  BY <1>1 DEF Unseen, Matching
<1>5. CASE phase = "idle"
  <2>1. read' * PageSize = 0
    BY <1>1, <1>5 DEF Reading
  <2> QED
    BY <1>1, <1>2, <1>3, <1>4, <1>5, <2>1 DEF Reading
<1>6. CASE phase # "idle"
  <2>1. Unseen' = Unseen
    BY <1>1, <1>6 DEF Unseen, Matching
  <2> QED
    BY <1>1, <1>2, <1>6, <2>1 DEF Reading
<1> QED
  BY <1>5, <1>6

LEMMA ReadingInductive == Inv /\ Typed /\ Typed' /\ Reading /\ [Next]_vars => Reading'
<1> SUFFICES ASSUME Inv, Typed, Typed', Reading, [Next]_vars PROVE Reading'
  OBVIOUS
<1>1. CASE UNCHANGED <<topics, reader>>
  BY <1>1 DEF reader, Reading, Unseen, Before, Matching, Precedes
<1> QED
  BY <1>1, CommitReads, ItemsReads, TurnReads
     DEF Next, vars, Begin, Check, Insert, Rollback, Tick

LEMMA AlwaysReading == Spec => [](Typed /\ Counted /\ Reading)
<1>1. Init => Counted /\ Reading
  BY IdsAreFinite DEF Init, Counted, Reading, Unseen
<1>2. Inv /\ Typed /\ Counted /\ Reading /\ [Next]_vars => (Typed /\ Counted /\ Reading)'
  BY TypedInductive, CountedInductive, ReadingInductive
<1> QED
  BY <1>1, <1>2, TypedInitially, InvInitially, InvInductive, PTL DEF Spec

(* models/topic.py: the types of topics, requests and readers.               *)
THEOREM TypeCorrect == Spec => []TypeOK
<1>1. Typed /\ Counted => TypeOK
  BY DEF Typed, Counted, TypeOK
<1> QED
  BY <1>1, AlwaysReading, PTL

(* topic-browser.tsx, hasMore: a reader who was shown every page up to one   *)
(* with no next page, with no topic between its count and its rows, was       *)
(* shown all that was there at the start, whatever was created meanwhile and  *)
(* however they turned, before or after a page came: topics only move to      *)
(* later pages.                                                               *)
THEOREM TheLastPageIsTheEnd == Spec => []LastPageIsTheEnd
<1>1. Typed /\ Counted /\ Reading => LastPageIsTheEnd
  <2> SUFFICES ASSUME Typed, Counted, Reading, phase = "shown", ~HasMore, listed = total,
                      read > page
               PROVE  Unseen = {}
    BY DEF LastPageIsTheEnd, AllSeen, Unseen
  <2>1. total \in Nat /\ (page + 1) * PageSize \in Nat
    BY IdsAreFinite DEF Counted, Typed
  <2>2. listed <= (page + 1) * PageSize
    BY <2>1 DEF HasMore
  <2> QED
    BY <2>2 DEF Reading
<1> QED
  BY <1>1, AlwaysReading, PTL
------------------------------------------------------------------------------
(* The claim that MCTopicsRefusal.cfg refutes, and what would make it true.   *)

\* A title that was taken once stays so.
RefusedForAMatch ==
  \A c \in Creators : pc[c] = "refused" =>
    \E t \in topics : t.title \in Titles /\ <<t.title, draft[c].title>> \in Like

LEMMA RefusedInductive ==
  ASSUME Inv, Typed, RefusedForAMatch, [Next]_vars
  PROVE  RefusedForAMatch'
<1>1. topics \subseteq topics'
  BY DEF Next, vars, posts, Begin, Check, Insert, Commit, Rollback, Open, Count, Items, TurnPage,
         TurnBack, SetPage, Refetch, Tick
<1>2. ASSUME NEW c \in Creators, pc'[c] = "refused"
      PROVE  draft'[c] = draft[c] /\ (pc[c] = "refused" \/ TitleExists(draft[c].title))
  BY <1>2 DEF Next, vars, posts, Begin, Check, Insert, Commit, Rollback, Open, Count, Items,
         TurnPage, TurnBack, SetPage, Refetch, Tick, Goto, Inv
<1> QED
  BY <1>1, <1>2 DEF RefusedForAMatch, TitleExists, Typed, Topic

(* services/topic.py, title_exists: a title is refused only for an identical *)
(* one if, as a pattern, it matches no other: it is LIKE's wildcards alone   *)
(* that refuse what is new.                                                  *)
THEOREM OnlyWildcardsRefuse ==
  ASSUME Like \cap (Titles \X Titles) \subseteq Same
  PROVE  Spec => []RefusalsAreDuplicates
<1>1. Init => RefusedForAMatch
  BY DEF Init, RefusedForAMatch
<1>2. Inv /\ Typed /\ RefusedForAMatch => RefusalsAreDuplicates
  BY DEF RefusedForAMatch, RefusalsAreDuplicates, Typed, Topic
<1> QED
  BY <1>1, <1>2, RefusedInductive, InvInitially, InvInductive, TypedInitially, TypedInductive, PTL
     DEF Spec
===============================================================================
