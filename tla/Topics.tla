--------------------------------- MODULE Topics ---------------------------------
(***************************************************************************)
(* Topics: created by services/topic.py after a look for the same title,   *)
(* listed page by page, and browsed by components/topic-browser.tsx, which *)
(* asks for a page again and again while it is open.  Every statement sees *)
(* what is committed when it runs.                                         *)
(***************************************************************************)
EXTENDS Integers, FiniteSets

CONSTANTS
  Titles,
  Categories,  \* TOPIC_CATEGORIES
  Offered,     \* the payloads clients send: [title, category], known or not
  Like,        \* the pairs <<title, pattern>> that ILIKE matches: a title need not match itself
  Same,        \* the pairs that are equal but for case and padding
  Seeded,      \* the topics of seed_dev_data.py: [id, title, category]
  Creators,    \* requests that create a topic; their numbers order the ids
  Filter,      \* the category a reader browses, or None for all
  PageSize,    \* PAGE_SIZE, the limit the reader asks for
  MaxPageSize, \* MAX_PAGE_SIZE
  MaxClock,    \* a bound on the clock
  None

ASSUME SizesAssumption ==
  MaxPageSize \in Nat /\ PageSize \in 1..MaxPageSize /\ MaxClock \in Nat
ASSUME OfferedAssumption == \A payload \in Offered : payload.title \in Titles
ASSUME SameAssumption ==
  /\ Same \subseteq Titles \X Titles /\ \A t \in Titles : <<t, t>> \in Same
  /\ \A t, o \in Titles : <<t, o>> \in Same => <<o, t>> \in Same
ASSUME CreatorsAssumption == Creators \subseteq Nat /\ IsFiniteSet(Creators)
ASSUME SeededAssumption ==
  /\ IsFiniteSet(Seeded) /\ \A t, o \in Seeded : t.id = o.id => t = o
  /\ \A t \in Seeded : t.id \in Nat \ Creators /\ t.title \in Titles /\ t.category \in Categories

VARIABLES
  clock,
  topics, \* the topics table, as committed
  pc,     \* where a POST is, or how it was answered
  draft,  \* the topic it would insert
  saw,    \* history: the topics that were there when it looked for the title
  page,    \* the page the reader is on
  phase,   \* where its request is: "idle", "count", "items", or answered: "shown"
  counted, \* what the request under way counted
  total,   \* the total on the screen, which may be another page's
  cached,  \* the total of each page that the browser keeps
  listed,  \* history: how many topics matched when the items were read
  read,    \* history: how many of the first pages were shown, one after the other
  seen,    \* history: the topics the reader was shown
  old      \* history: the topics there were when the reader began

posts == <<pc, draft, saw>>
reader == <<page, phase, counted, total, cached, listed, read, seen, old>>
vars == <<clock, topics, posts, reader>>

Ids == Creators \cup {t.id : t \in Seeded}
Topic == [id : Ids, title : Titles, category : Categories, created : 0..MaxClock]

TypeOK ==
  /\ clock \in 0..MaxClock /\ topics \subseteq Topic
  /\ \A t, o \in topics : t.id = o.id => t = o
  /\ pc \in [Creators -> {"new", "invalid", "checking", "inserting", "inserted", "created",
                          "refused", "lost"}]
  /\ \A c \in Creators : pc[c] \notin {"new", "invalid"} => draft[c] \in Topic
  /\ saw \in [Creators -> SUBSET Topic]
  /\ page \in Nat /\ phase \in {"idle", "count", "items", "shown"} /\ read \in Nat
  /\ {total, counted, listed} \subseteq 0..Cardinality(Ids)
  /\ DOMAIN cached \subseteq Nat /\ \A p \in DOMAIN cached : cached[p] \in 0..Cardinality(Ids)
  /\ seen \subseteq Topic /\ old \subseteq Topic

\* The seeded topics were inserted in one transaction, at one now().
Init ==
  /\ clock = 0
  /\ topics = {[id |-> t.id, title |-> t.title, category |-> t.category, created |-> 0] :
                 t \in Seeded}
  /\ pc = [c \in Creators |-> "new"] /\ draft = [c \in Creators |-> None]
  /\ saw = [c \in Creators |-> {}]
  /\ page = 0 /\ phase = "idle" /\ counted = 0 /\ total = 0 /\ cached = [p \in {} |-> 0]
  /\ listed = 0 /\ read = 0 /\ seen = {} /\ old = {}

------------------------------------------------------------------------------
(* POST /topics.                                                             *)

Goto(c, label) == pc' = [pc EXCEPT ![c] = label]

\* Mutant: any category will do.
Known_Any(category) == TRUE

\* TopicCreate's validator.
Known(category) == category \in Categories

\* The payload is valid, and the transaction begins; created_at will be this time.
Begin(c, payload) ==
  /\ pc[c] = "new" /\ Goto(c, IF Known(payload.category) THEN "checking" ELSE "invalid")
  /\ draft' = [draft EXCEPT ![c] =
       [id |-> c, title |-> payload.title, category |-> payload.category, created |-> clock]]
  /\ UNCHANGED <<clock, topics, saw, reader>>

\* Mutant: the case has to be the same.
TitleExists_Exactly(title) == \E t \in topics : t.title = title

\* title_exists: the stored titles, against this one as a pattern, which nothing
\* escapes: _ and % stand for others, and \ for itself only when doubled.  (A
\* pattern that ends in one is an error of the statement: Rollback.)
TitleExists(title) == \E t \in topics : <<t.title, title>> \in Like

Check(c) ==
  /\ pc[c] = "checking"
  /\ Goto(c, IF TitleExists(draft[c].title) THEN "refused" ELSE "inserting")
  /\ saw' = [saw EXCEPT ![c] = topics]
  /\ UNCHANGED <<clock, topics, draft, reader>>

\* Nothing in the table keeps titles apart.
Insert(c) == pc[c] = "inserting" /\ Goto(c, "inserted") /\ UNCHANGED <<clock, topics, draft, saw, reader>>

Commit(c) ==
  /\ pc[c] = "inserted" /\ Goto(c, "created")
  /\ topics' = topics \cup {draft[c]}
  /\ UNCHANGED <<clock, draft, saw, reader>>

Rollback(c) ==
  /\ pc[c] \in {"checking", "inserting", "inserted"} /\ Goto(c, "lost")
  /\ UNCHANGED <<clock, topics, draft, saw, reader>>

------------------------------------------------------------------------------
(* GET /topics, and the reader.                                              *)

\* _base_query.
Matching == {t \in topics : Filter = None \/ t.category = Filter}

\* Mutant: topics of one transaction come in any order.
Precedes_NoTie(t, o) == t.created > o.created

\* ORDER BY created_at DESC, id DESC.
Precedes(t, o) == t.created > o.created \/ (t.created = o.created /\ t.id > o.id)

\* What the first n rows may be, of those that match.
FirstRows(n) ==
  {rows \in SUBSET Matching :
     /\ Cardinality(rows) = IF n < Cardinality(Matching) THEN n ELSE Cardinality(Matching)
     /\ \A t \in rows, o \in Matching : Precedes(o, t) => o \in rows}

\* Mutant: one row short.
Limit_Short(limit) == limit - 1

\* max(1, min(limit, MAX_PAGE_SIZE)).
Limit(limit) == IF limit < 1 THEN 1 ELSE IF limit > MaxPageSize THEN MaxPageSize ELSE limit

\* The browser asks for the page it is on.
Open ==
  /\ phase = "idle" /\ phase' = "count" /\ old' = topics
  /\ UNCHANGED <<clock, topics, posts, page, counted, total, cached, listed, read, seen>>

\* The first statement of list_topics.
Count ==
  /\ phase = "count" /\ phase' = "items"
  /\ counted' = Cardinality(Matching)
  /\ UNCHANGED <<clock, topics, posts, page, total, cached, listed, read, seen, old>>

\* The second, with offset = page * PAGE_SIZE, and the answer, which is kept.
Items ==
  /\ phase = "items" /\ phase' = "shown"
  /\ total' = counted /\ counted' = 0
  /\ cached' = [p \in DOMAIN cached \cup {page} |-> IF p = page THEN counted ELSE cached[p]]
  /\ listed' = Cardinality(Matching)
  /\ \E skipped \in FirstRows(page * PageSize),
        rows \in FirstRows(page * PageSize + Limit(PageSize)) :
       skipped \subseteq rows /\ seen' = seen \cup (rows \ skipped)
  /\ read' = IF page = read THEN read + 1 ELSE read
  /\ UNCHANGED <<clock, topics, posts, page, old>>

\* Mutant: the last row of a total is forgotten.
HasMore_Short == (page + 1) * PageSize < total - 1

HasMore == (page + 1) * PageSize < total

\* setPage: the request under way is aborted and the page is asked for.  Until it
\* comes, the screen shows what is kept of the page, or, if nothing is (or no
\* longer), the page before stays (keepPreviousData), its total with it.
SetPage(p) ==
  /\ phase # "idle" /\ phase' = "count" /\ page' = p /\ counted' = 0
  /\ total' \in {total} \cup {cached[q] : q \in DOMAIN cached \cap {p}}
  /\ UNCHANGED <<clock, topics, posts, cached, listed, read, seen, old>>

\* The reader presses Next, which waits for no page.
TurnPage == HasMore /\ SetPage(page + 1)

\* The reader presses Previous.
TurnBack == page > 0 /\ SetPage(page - 1)

\* refetchInterval, and the return to the window.
Refetch ==
  /\ phase = "shown" /\ phase' = "count"
  /\ UNCHANGED <<clock, topics, posts, page, counted, total, cached, listed, read, seen, old>>

Tick == clock < MaxClock /\ clock' = clock + 1 /\ UNCHANGED <<topics, posts, reader>>

Next ==
  \/ \E c \in Creators :
       \/ \E payload \in Offered : Begin(c, payload)
       \/ Check(c) \/ Insert(c) \/ Commit(c) \/ Rollback(c)
  \/ Open \/ Count \/ Items \/ TurnPage \/ TurnBack \/ Refetch
  \/ Tick

Spec == Init /\ [][Next]_vars

\* The last page there can ever be.
LastPage == (Cardinality(Ids) - 1) \div PageSize

\* In the end the reader lets a page come before turning.
Patience == <>[][TurnPage \/ TurnBack => phase = "shown"]_vars

\* Requests are answered, the page is refetched, and a reader who again and again
\* could go on from a page does so.
FairSpec ==
  /\ Spec /\ WF_vars(Open) /\ WF_vars(Count) /\ WF_vars(Items) /\ WF_vars(Refetch)
  /\ \A p \in 0..LastPage - 1 : SF_vars(page = p /\ TurnPage)
  /\ Patience

------------------------------------------------------------------------------
(* Properties.                                                               *)

\* The look before the insert keeps out every title that, as a pattern, matches
\* one that is stored, unless the two overlap: such a pair exists only if the
\* later was looked for before the other was there.
OnlyRacesDuplicate ==
  \A t, o \in topics : t # o /\ <<o.title, t.title>> \in Like
    => \A c \in Creators : c = t.id => o \notin saw[c]

\* Every topic there was when the reader began, and still matches.
AllSeen == {t \in old : t \in Matching} \subseteq seen

\* Paging by offset through a list that grows at its head, and, as created_at
\* is when a transaction began, in its middle: on the last page, a reader who was
\* shown every page up to it, in whatever order and with whatever turns between,
\* has seen every topic there was at the start, unless one was stored between
\* the count and the rows of that page.
LastPageIsTheEnd ==
  phase = "shown" /\ ~HasMore /\ listed = total /\ read > page => AllSeen

\* The refetches make up for that: whoever reads on, and skips no page, sees
\* everything that was there when they began.
ReadersMissNothing == phase # "idle" ~> AllSeen \/ page > read

\* The same of a reader who may have been shown only some of the pages.
LastPageShownIsTheEnd == phase = "shown" /\ ~HasMore /\ listed = total => AllSeen

\* Claimed by create_topic, of creations that do not overlap: "Duplicate titles
\* are rejected".
LaterDuplicatesAreRejected ==
  \A t, o \in topics : t # o /\ <<o.title, t.title>> \in Same
    => \A c \in Creators : c = t.id => o \notin saw[c]

\* Claimed by create_topic: "Duplicate titles are rejected".
TitlesAreUnique ==
  \A t, o \in topics : t # o => <<t.title, o.title>> \notin Same

\* Claimed by title_exists: "Whether an identically-titled topic already
\* exists, ignoring case and padding."
RefusalsAreDuplicates ==
  \A c \in Creators : pc[c] = "refused" => \E t \in topics : <<t.title, draft[c].title>> \in Same
================================================================================
