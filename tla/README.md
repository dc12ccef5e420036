# Debable in TLA+

Debable pairs two people who want to argue about a topic, puts them in a room
with video and chat, checks their claims with an AI provider, and lets them rate
each other. The backend (`src/backend/app`) is FastAPI over PostgreSQL; the
client (`src/frontend`) is a Next.js application. This directory holds a formal
model of it: modules for TLC to check on small instances and for TLAPS to prove
properties of every instance.

    tlc -workers 2 -config MCPairing.cfg MCMatchmaking      # any run below
    tlapm MatchmakingPromises.tla                           # any *Proofs module

Section 1 is the inventory, 2 the plan and how far it has come, 3 to 9 the
components one by one, 10 what is proved and what is only model-checked, and 11
what is not modelled.

## 1. Inventory

| component | state it keeps | operations | hard behaviour | correct when |
|---|---|---|---|---|
| **matchmaking** `api/v1/match.py`, `services/match.py`, `repositories/match.py`, two tables | `match_queue`, `debate_rooms` | join, poll (heartbeat), leave, end | overlapping transactions at READ COMMITTED, row locks with SKIP LOCKED, unique index, rollbacks and dead workers, staleness by clock, deadlock | a person has one place in the queue; one queue row makes one room; nobody is removed without a reason; every request is answered |
| **waiting room** `components/waiting-room.tsx`, React Query | the last answer, whether it has joined, a rejoin counter | join once, poll every 2 s, rejoin when idle, leave on unmount | answers that arrive late, retries of a join that succeeded, leaving races joining | whoever is paired reaches the room |
| **chat server** `api/v1/chat.py`, `services/chat.py`, `websocket/` | `messages`, the per-process socket registry | authenticate, register, post, broadcast, list history | sockets die between registry copy and send; two processes; the room ends between check and insert | stored before broadcast; nobody misses a message for ever |
| **chat client** `hooks/use-debate-chat.ts` | messages by id, a buffer, a "history is loaded" flag, a backoff counter | open, ready, load history, merge, retry | frames during the history fetch, answers to a fetch of an earlier connection | the transcript has no duplicate and no hole |
| **fact-check service** `services/fact_check.py` | `fact_checks` | request, list | seconds between the limit check and the insert; failure of the provider | limits hold; a failure leaves no trace; a verdict has a trusted source |
| **fact-check provider** `ai/gemini.py`, `search/`, `core/sources.py` | none | check a claim | malformed or uncited answers | only allow-listed citations survive |
| **ratings, profile** `services/rating.py` | `ratings` | rate, summarise | two submissions at once | one rating per rater and room, only after the end |
| **topics** `services/topic.py` | `topics` | create, list | two creations of one title at once | no duplicate title |
| **users** `auth/dependencies.py` | `users` | resolve (get or create) | two first requests of one person at once | one row per Clerk id |
| **token verification** `auth/clerk.py`, `auth/jwks.py` | the JWKS cache | verify, refresh | concurrent refreshes, key rotation | an unknown key is looked up, not too often |
| **database sessions** `db/session.py` | the connection pool | one session per request, rollback on error | a session held across an await; pool exhaustion | no session returns with an open transaction |
| **video** `services/video.py`, `debate-video.tsx` | none on the server | mint a token | external service | only participants of an open room get one |
| **configuration, errors, health, migrations, UI** | constant at run time | start-up, formatting, rendering | none | - |

How they interact. Every HTTP handler resolves the caller through *users*, takes a
*database session*, and works in that session's transaction; the components
share state only through the tables. Matchmaking owns `debate_rooms`; chat,
fact-checks, ratings and video read a room through `match.to_room_read` and
refuse strangers with it. A fact-check is broadcast over the chat registry. The
waiting room polls matchmaking and hands over to the debate page, which opens the
chat socket.

The hazards of this code, each with its line and the properties aimed at it, are
in `PROJECT.json` under `hazards`.

`hazards` keeps to forty. Met while modelling, and left out of it in favour of those that a
run covers: an unknown key id
makes every request refetch the key set in turn (`auth/jwks.py:97`, part of `Accounts`
all the same); a username longer than its column (`auth/clerk.py:53`); a model that answers
`source_indices` that are no list (`ai/gemini.py:177`); a page left before its join is answered, which
stays queued (`waiting-room.tsx:157`, `NoPhantoms`); polls slower than two seconds that
cancel one another (`:98`, `MCWaitingSlow.cfg`); a match behind the failure screen (`:200`, `MatchesAreShown`); a rejoin counter that is never reset (`:121`); a poll
that answers IDLE to somebody who is in a room (`services/match.py:60`, `IdleIsIdle`); an end stamped
before the pairing it ends, as `now()` is the begin of the transaction
(`repositories/match.py:163`); a message stored after the end (`services/chat.py:59`,
`NothingAddedAfterEnd`); a handshake that times out and is taken for a refusal
(`websocket/auth.py:61`, `RefusalIsFinal`); a room with more messages than the history's limit
(`repositories/message.py:60`, where a page misses the newest ones); a history that is only asked for by a ready
frame (`use-debate-chat.ts:176`, `ReadOnlyNotBlank`); a message sent on a socket that has just broken
(`:265`: lost in `Chat`, and nothing promises otherwise); a verdict stored after the end of the
debate (`services/fact_check.py:148`: no claim forbids it); a pooled connection held for as long as
the provider takes (`:155`); a video token that outlives its debate.

## 2. Plan

1. `Matchmaking` and its abstract specification `DebatePool`; the inductive
   invariant and the proofs, the refinement included. *Done.*
2. `Chat` (one room, the server's registry, a reconnecting client) and
   `FactCheck` (limits, provider call, failure), with their safety proofs. *Done.*
3. `WaitingRoom`: the polling client and the requests it makes. *Done.*
4. The small writers: `Ratings`, `Topics`, and `Accounts` (users and the key cache). Where a
   unique index stands behind the look before the insert, `WriteOnce` is what the
   table promises; `Topics` has none, and no such promise. *Done.*
5. `Evidence`: domain matching and citations, as functions; `CitedFactCheck`, `FactCheck` with
   the sources they make, and the proof of what is promised of citations. *Done.*
6. Left: `WaitingRoom` over `Matchmaking` itself rather than over requests that are
   served one by one; the pool's limit as a resource that requests of all components share.

## 3. Matchmaking

### Modules

| module | what it is |
|---|---|
| `Matchmaking` | the model, its properties and the assumptions on its constants |
| `DebatePool` | what matchmaking promises: an abstract specification with atomic requests |
| `MatchmakingInv` | the inductive invariant, named part by named part |
| `MatchmakingProofs` | the proof of the inductive invariant, and of what follows from it at once |
| `MatchmakingPromises` | what no step ever does, the refinement of `DebatePool`, deadlocks, and requests that do not overlap, proved |
| `MCMatchmaking` | symmetry and the constrained specifications the runs use |

### State

`queue` and `rooms` are the *committed* contents of `match_queue` and
`debate_rooms`, indexed by primary key in order of insertion; `issued` and `opened`
count the keys. A pooled database session `s` serves one request `req[s]` at a time
and is at statement `pc[s]`. What its open transaction has done is kept per session:
`held` (rows locked), `dead` (rows deleted), `touched` (heartbeat rows), `room`
(the room it closes), `claim` (the opponent it found), `todo` (rows the running
statement still has to visit). A commit applies these to the tables in one step
(`QueueAfter`, `RoomsAfter`); a rollback drops them. `from` of a room is history:
the queue row the room was made of.

### Actions

Each action is one statement, or one row of an UPDATE or DELETE. That is the grain
at which PostgreSQL lets transactions interleave at READ COMMITTED: a statement
takes a snapshot, then visits its rows one by one, waits for a row's lock and
re-evaluates its WHERE clause on the newest version (`Scan`, `Visit`, `DeleteRow`).

| request | code | actions, in order |
|---|---|---|
| join | `services/match.py:83-142` | `BeginJoin`, `RefuseArchived` or `FindOpenRoom`, `CloseRoom`, `SweepScan`, `SweepRow`*, then `Claim`, `UnpairScan`, `UnpairRow`*, `CommitPaired`, or `NobodyToClaim`, `DequeueScan`, `DequeueRow`*, `Enqueue` or `EnqueueConflict`, `CommitQueued` |
| poll | `:46-80` | `BeginPoll`, `AnswerMatched` or `FindNoRoom`, `TouchScan`, `TouchRow`*, `SweepScan`, `SweepRow`*, `CommitPoll`, `AnswerQueued` or `AnswerIdle` |
| leave | `:145-151` | `BeginLeave`, `DequeueScan`, `DequeueRow`*, `CommitLeave` |
| end | `:162-172` | `BeginEnd`, `AnswerEnd` or `ReadOpenRoom`, `CloseRoom`, `CommitEnd` |

`Rollback` may end a transaction after any step: a worker that dies, a client whose
request is cancelled, a lost connection. `DeadlockVictim` is the detector's
rollback. `Tick` is the database's clock; `now()` is the time the transaction began.

### Runs

| run | instance | what it shows |
|---|---|---|
| `pairing` | 3 users, 3 topics (one archived), 2 sessions, 4 tickets, 2 rooms; joins, leaves, ends | `TypeOK`, `LocksProtectWrites`, `UniqueEntry`, `OneRoomPerTicket`, `RefinesDebatePool` |
| `presence` | 2 users, 2 sessions, every request, clock 0..2 with `StaleAfter` 1 | `ClaimStaysGood`, `FairRemoval`, `RoomsOnlyEnd`, `DebatesEndForAReason` |
| `answered` | 2 users, 2 topics, 2 sessions, no clock, under fairness | `Answered`: every request ends, deadlocks included |
| `double_booked` | 4 users, 2 topics, 2 sessions, one request per user at a time | violated: `NobodyIsDoubleBooked` |

Why the bounds are enough. Two sessions make every pair of transactions overlap at
every pair of steps, and three users let two joins fight over the row of a third; more
sessions are covered by the proofs of the same invariants. A ticket bound of 4 lets a user be queued,
replaced, paired and queued again. Three rooms, in `presence`, let a user be paired while another of their joins
is on its way, and abandon that debate in a third which the unique index then refuses. The clock needs two ticks to pass
`StaleAfter = 1`. `BeginJoin` accepts a join only while a key is left for every join
in flight, so that the bound never blocks a transaction half way.

`NobodyIsDoubleBooked` is what a test of the repository says (`findings` in `PROJECT.json`
quotes it): a queued person who joins another topic while a third person claims them gets two rooms.
The run has one request per person at a time, so it does not rest on double clicks.

`DebatesEndForAReason` is about the joins that abandon a debate and then fail: an open room ends in a commit
of its own people, who ask for its end or are, by that commit, in the queue or in another room. The refinement
does not see this, as the pool may end a debate at any time.

`MCDeadlocks.cfg` checks, beside the runs, the invariant that `Answered` rests on,
`DeadlocksAreFound`, where two people may claim each other from two topics at once, and the inductive
invariant of the proofs, `Inductive`.

Three more configurations are kept beside the runs, and each finds a claim violated:

| configuration | property | the claim, and what the code does |
|---|---|---|
| `MCEndTime.cfg` | `EndTimeIsKept` | a room keeps the time it ended at (`repositories/match.py:161`); the second of two simultaneous ends overwrites the first's |
| `MCWaiters.cfg` | `WaitersMeet` | two people on one topic are paired (`docs/PROJECT-HANDBOOK.md:298`); if their first joins overlap both wait, and polling never pairs them, however long both poll without a failure |
| `MCIdle.cfg` | `IdleIsIdle` | IDLE means neither queued nor in a room (`schemas/match.py:16`); a poll that reads the rooms before a pairing commits and the queue after it says IDLE to a person who is in a room, and the next poll corrects it |

### Fairness

`FairSpec` assumes strong fairness of `Serve(s)` and weak fairness of
`DeadlockVictim(s)`. Strong, because a request that waits for a row lock is
disabled and enabled again as locks change hands; PostgreSQL grants a row lock in
the order it was asked for, and the event loop resumes every coroutine whose
answer has come. The deadlock detector runs after `deadlock_timeout` in every
waiting backend. Nothing is assumed of arrivals, the clock or `Rollback`.

### Proofs

`MatchmakingProofs` proves, for any number of users, topics, sessions, keys and
any clock, that `Inductive` is an invariant (`AlwaysInductive`), and from it
`TypeCorrect`, `LocksAlwaysProtect`, `OnePlaceInTheQueue` and `OneRoomPerWaiter`.
The assumptions used are the named ones of `Matchmaking` (bounds are naturals, `None`
is no value of any table, `Archived` is a set of topics, the pool has finitely many sessions).

The argument. `OneRoomPerTicket` is not inductive: it must exclude a second session
about to commit a room made of the same row. Two things do. Before the commit, the
claimer holds the row's lock (`LocksProtectWrites`) and nobody else can delete or
lock it, so it still belongs to the claimed user and `dequeue_many` will delete it
(`ClaimedRowGoes`). After the commit the row is gone and its key is never issued again
(`SpentRows`, `KeysIssued`). `UniqueEntry` needs to know what an uncommitted INSERT has
established: that no live row and no other pending insert has its user
(`PendingInsert`), which is what waiting on the unique index gives. Each action has its
step in the proof; the actions that end a transaction share the lemmas about
`Finish`.

`MatchmakingPromises` goes on from there. `OnlyCommitsWrite` says that the tables change in
commits only, and `OthersUnmoved` that a step of one session leaves the transactions of the
others as they are.

- `RoomsAlwaysOnlyEnd`: a commit may close the room its session holds and may add one under
  a key that no room has; both keep every other room's people, topic and end.
- `ClaimsStayGood` and `RemovalsAreFair` need one more invariant, `AllFair`: a claimed row is another
  user's, on the topic asked for and fresh (`GoodClaim`), and every row a transaction has
  deleted has a reason (`MayDelete`). Whatever these speak of is locked by the session, so
  no other session's commit can change it (`LockedRowsStay`), and the session itself refreshes rows
  only in a poll (`OnlyPollsTouch`), which claims nothing.
- `ImplementsDebatePool`: `CommitPaired` is the pool's `Pair`, `CommitQueued` its `Enter`,
  `CommitLeave` and `CommitPoll` its `Withdraw`, `CommitEnd` its `End`, and every other step, a crash or
  deadlock included, is a stutter. `Pair` needs the claimed row to be still there, on the topic, and
  deleted by this very commit (`Inductive`, `AllFair`); the closing of a debate by its own people only
  needs `AllCloseTheirOwn`, that a session closes rooms of the user it serves.
- `DebatesAlwaysEndForAReason` takes the same invariant: what a commit closes is a room of the user
  served (`EndsHaveReasons`), and the row or room it adds has a key that was free.
- `DeadlocksAreAlwaysFound`: a request waits only for requests that are being served
  (`OnlyServedAreInvolved`), and if in some set of requests each waits for another of it, whatever
  else they wait for, one of them is `Deadlocked`, which is when the detector may roll it back. The
  detector's condition speaks of a cycle through one request; that any such set has a cycle is
  `SmallestRing`: of the parts of it that are closed under waiting take a smallest, which
  exists as the pool is finite, and nobody in it can be left out of the set of those they wait for.
- `AloneNobodyIsDoubleBooked`, `AloneEndTimeIsKept` and `AloneIdleIsIdle` are about the claims that
  the configurations above find violated. Under one hypothesis, `OneAtATime` (requests do not overlap, for any number of
  users, topics and rooms, and whatever is rolled back), all three hold. So no request is wrong by itself; what breaks
  the claims is the overlap. The invariant, `AloneInv`, says that nobody who waits is in an open room and nobody is
  in two (`TablesApart`), and that what a request has read is still so when it commits (`ReadsHold`), which is
  just what READ COMMITTED does not give to requests that overlap.

Only model-checked: `Answered`. `DeadlocksAreAlwaysFound` proves of it what safety can say, that there is always a
victim; that the detector then acts, and that everybody gets a turn, is liveness and outside the prover.

### Left out

`waiting_counts` and `get_room` only read. The key-share locks that foreign keys take
on users and topics never conflict here, as nothing updates those rows. The order of
PostgreSQL's lock queue is abstracted to "some waiter gets the lock". No code path sets
a topic's status, so `Archived` is a constant. `resolve_user` is taken as returning
an existing user; its insert race is in `Accounts`. The pool's size
limit is the size of `Sessions`: a request that finds no session has not begun.

## 4. Chat

`Chat` models one debate's chat from the page's hook to the tables; `MCChat` adds
the symmetry its runs use.

### State

*Database*: `created` and `kind` number the rows of `messages` and `fact_checks` of the
room by `created_at`, `stored` are the committed ones, `ended` is `ended_at`.
*Server*: `registry[w]` is the room's set in process `w`'s `ConnectionRegistry`. A
handler is a coroutine, one per socket and one per POST of a claim: `at` is the await it is
at, `work` the entry it posts, `targets` and `failed` its broadcast's local lists.
*Wire*: `link`, `inbox` (frames to the page), `outbox` (a message to the server).
*Page*: `sock`, `status`, `shown` (the merged messages and verdicts), `loaded`
(`historyLoaded`), `buffered`. *Fetches*: a call of `loadHistory` belongs to the socket
whose ready frame began it (`fetch`, `unread`, `answer`), and outlives that socket: the
code does not cancel it.

### Actions

| who | code | actions |
|---|---|---|
| socket handler | `api/v1/chat.py:158-195`, `websocket/auth.py` | `Authenticate`, `AuthFails`, `SendReady`, `Disconnected` |
| posting | `_receive_loop`, `post_message`, `request_fact_check` | `ReceiveMessage`, `AskFactCheck`, `Insert`, `Commit`, `PostFails` |
| broadcast | `websocket/registry.py:56-76` | `StartBroadcast`, `SendTo`*, `EndBroadcast` |
| page | `hooks/use-debate-chat.ts` | `Open`, `HandleReady`, `HandleEntry`, `ReadHistory`, `MergeHistory`, `HistoryFails`, `HandleClose`, `Send`, `Reload` |
| the rest | - | `EndRoom`, `Drop` (a connection breaks), `Crash` (a process dies) |

### Runs

| run | instance | what it shows |
|---|---|---|
| `chat_page` | 1 debater with up to 2 sockets registered, 1 claim, 1 process, 2 entries; drops, crashes, failing writes and histories; under fairness | `TypeOK`, `StoredFirst`, `TranscriptComplete`, `EventuallyComplete` |
| `chat_outsider` | 1 debater, 1 outsider, 2 processes, 3 sockets; every fault | `OutsidersSeeNothing`, `NoDeadSockets` |

`TranscriptComplete` is the heart: once a connection's own history is merged, the page
shows all that is committed, except what is still being sent to it. It rests on three
decisions of the code: a socket is registered *before* it is told to be ready, frames
are buffered until the history is there, and an entry is committed before it is broadcast.

Bounds. Every failure costs a socket, so `MaxConns` bounds failures; `MayFail` allows one
only while another socket is left to open, so that the bound never leaves a page
stranded. Two sockets of one page are enough for a fetch of the first to be
answered during the second; two entries for one to be in the history and the other live,
in either order of insertion and commit. One process in the runs that promise
delivery: `registry.py:3-13` says itself that several processes do not share
broadcasts. The runs stop (`CHECK_DEADLOCK FALSE`) because entries and sockets run out.

Fairness. `Run(p)` and `Serve(h)` are weakly fair: a browser and an event loop run what is
ready, a connection that stays up delivers, and a request that does not fail is answered.
Faults, `Send`, `Reload` and `EndRoom` are not fair. `EventuallyComplete` thus says what
becomes of a page when failures have stopped.

Four configurations, beside the runs, each find a claim violated in a few steps:

| configuration | property | the claim, and what the code does |
|---|---|---|
| `MCChatHole.cfg` | `NoHole` | messages are buffered "rather than rendering a transcript with a hole in it" (`use-debate-chat.ts:153`); the answer to a history request of an *earlier* connection sets `historyLoaded`, which by then speaks for a later one, and if the later fetch fails, live messages are rendered after a hole |
| `MCChatRefusal.cfg` | `RefusalIsFinal` | a refused connection "would be refused identically" (`use-debate-chat.ts:41`); a handshake that times out, or a key server that is down, also closes with 4401 and is never retried |
| `MCChatEnd.cfg` | `NothingAddedAfterEnd` | "post_message refuses to add to" an ended room (`api/v1/chat.py:170`); the check and the insert are two statements |
| `MCChatBlank.cfg` | `ReadOnlyNotBlank` | "read-only rather than blank" (`services/chat.ts:6`); without a ready frame the history is never asked for |

### Proofs

`ChatProofs` proves, for any pages, outsiders, processes, sockets and entries, and for any
number of failures, `TypeCorrect`, `AlwaysStoredFirst`, `OutsidersNeverSee` and
`NoSocketOutlivesItsHandler`, from one inductive invariant. Its parts, and what they are
for:

- `Postings`: who broadcasts an entry has committed it. With `Sent` (what is in an inbox or a history's
  answer is stored) this gives `StoredFirst`, since entries are never removed and a page shows only
  what came by one of the two ways.
- `Admitted` and `Insiders`: the handler of an outsider's socket never gets past its authentication,
  so neither the registry nor the targets of a broadcast, a copy of the registry made earlier,
  hold such a socket. `Unsent` and `Unseen` follow.
- `Homed`: a process registers the sockets of its own handlers only; without it a handler's
  discard could not be known to be the one that is needed.
- `Opened`: nothing has happened on a socket that is not open yet.

The proof has a lemma per action or family of actions, cited by `InvInductive`. Assumed are the four
named assumptions of `Chat`.

`TranscriptsComplete` proves `TranscriptComplete` under two hypotheses that `chat_page` meets:
there is one process (`OneProcess`; with two it is false, as `registry.py` says itself), and a
history is never cut by its limit (`WholeHistories`; the limit is 500 messages in the code). Any number of pages,
sockets, claims and entries, and every fault, is allowed. `TranscriptComplete` itself is not inductive: it says
nothing of a page whose history is still being read. `Whole` adds that: while the history is being read,
a stored entry is in a table still to be read, in an answer, on the page, or on its way. Two things
keep it so:

- A new entry is on its way to everyone from its commit on, and stays on its way to a connected page until
  the page reads it (`Delivers`, one lemma per action of a handler). This needs `Registered` (a
  socket whose "ready" has been sent is in the registry that the broadcast copies), `Reached` (no
  history is asked for before that) and `Gone` (only a broken socket is discarded by somebody else's broadcast).
- What a page has it keeps: a frame that comes in after the merge is shown and not buffered
  (`Settled`), and a merge on behalf of an *earlier* socket moves the buffer to the page and does not lose it.

Three of the claims that fail are proved under what would make them true, or as far as they are. Without
failing history requests there is no hole: `HolesNeedFailures` derives `NoHole` from
`TranscriptsComplete` and `NoneFailed` (no socket in use waits on a failed history), so the late answer of
`MCChatHole.cfg` does no harm but together with a failure. Without late authentications only
outsiders are refused (`RefusalsAreFinal`). And an ended debate grows only by the entries that were being
posted when it ended, each once (`OnlyLateWords`, proved as `TheEndIsNear`): nobody begins to post any more.

`EventuallyComplete` is liveness and stays with TLC.

### Left out

Error frames and malformed input change no state; the token refresh, backoff delays, sorting
and formatting on the page are left out. `merge` by id is
the union of sets; that there are no duplicates is thus by construction. A message whose
connection breaks may be lost; the code promises nothing else.

## 5. Fact-checks

`FactCheck` models `services/fact_check.py` in front of a provider of which the
outcomes matter (`ai/gemini.py`): the search finds nothing, the model answers, or something
fails. A request is a database session that goes through `Begin`, `ReadRoom`,
`CountDay`, `CountRoom`, then `SearchFindsNothing` or `CallModel` and `ModelAnswers`, then
`Insert` (with the trust filter) and `Commit`; `Unavailable` and `Rollback` end it without a
row. The counts read the committed rows in a window that begins at the
*transaction's* start, `created_at` is the clock at the insert. `calls` and
`answered` are history variables.

`Evidence` holds the pure part: which pages of a search are evidence (`search/tavily.py`,
`search/wikipedia.py`), the citations made of the indices a model answers
(`_to_provider_result`), and the allowlist (`core/sources.py`). A host is a sequence of words and dots, so
that prefixes and suffixes of strings are those of sequences. `CitedFactCheck` puts the two together: what the
provider may answer is made by `Evidence` of any search and any numbers of the model, and what the trust filter lets through
is decided by it. Loops over lists are recursive functions, so that they can be proved about.

| run | instance | what it shows |
|---|---|---|
| `fact_checks` | 2 requests at a time, 2 rooms, every answer and failure, 4 checks, clock 0..2, an hour of 1, a day of 2, a room limit of 1 and a daily budget of 2 | `TypeOK`, `OvershootBounded`, `VerdictsAreBacked`, `FailuresLeaveNoTrace`, `CitationsCanBeChecked`, `CitationsAreTheModels` |

`OvershootBounded` says that a limit is exceeded by at most the requests in flight less one:
with two sessions, two checks in an hour of a room and three in a day. Four checks could exceed
either. `MaxChecks` is tested when a request begins, so that the bound stops none
half way; `MaxCalls` only keeps the history finite. `CitationsCanBeChecked` compares the
allowlist's string operations with what they are for, over hosts that end like trusted
ones, are below them or carry `www.`; `CitationsAreTheModels` compares the running index
loop with the results the model named, over lists with repeated and invalid indices.

Beside the runs:

| configuration | property | the claim, and what the code does |
|---|---|---|
| `MCFactQuota.cfg` | `QuotaDefended` | the daily budget protects the provider's quota (`services/fact_check.py:99`); a call that fails is not counted |
| `MCFactRate.cfg` | `RoomLimitHolds` | "Per room, per hour" (`config.py:74`); requests that overlap are not counted for each other |

The other side of the first is proved (`QuotaNearlyDefended`): where neither calls fail nor requests are rolled
back, the calls of a day exceed the budget by less than the requests in flight (`QuotaOvershootBounded`).

Left out: the wording of prompts, queries and explanations, and `list_for_room`, which only reads.

### Proofs

`FactCheckProofs` proves, for any rooms, answers, limits, windows, failures and any finite set
of at least one session, `TypeCorrect`, `AlwaysBacked`, `NoTraceOfFailures` and `AlwaysBounded`. The inductive
invariant of the first three adds that a row which is inserted and not yet
committed is backed (`RowsAreBacked`); `FailuresLeaveNoTrace` counts, so the lemmas `InFlightFinite` and
`EndShrinks` say how the set of verdicts in flight changes.

`AlwaysBounded` needs an invariant of its own, `Headroom`. A request *threatens* a window if it is past
the count and may still write into it (`Threats`). For every window, its rows and its threats together are
fewer than the limit and the sessions. The count lets a request pass only if the window back from its start
has rows below the limit; any window it could still write into begins no earlier, so it
holds no more of them, and no more than all sessions can threaten it. An insert turns a
threat into a row that is to come, in the window or out of it, a commit turns it into a row, and a
rollback drops it.

The two claims that fail are proved under what would make them true. With one session `RoomLimitHolds`
follows from `AlwaysBounded` (`NoOverlapNoOvershoot`). If the model's calls never fail and no request is rolled back (`NoCallFails`), every
call of a day is a row, a row to come, or in flight, so the quota is overshot by the overlap
only (`QuotaNearlyDefended`, with `QuotaInv`): what spends the quota unseen is the calls that fail.

`AlwaysCheckable` and `AlwaysTheModels` prove `CitationsCanBeChecked` and `CitationsAreTheModels` for any
pages, searches, answers and allowlist. The assumptions are on the allowlist's shape: a domain is not empty, a
suffix begins with a dot and goes on (`HostsAssumption`), which a host name in `core/sources.py` meets. The first
is an invariant of `FactCheck`'s insert and commit once the string tests of `is_trusted_domain`, with `www.` cut off or not, are
shown to be `LiesIn`. The second is about a loop over the list of results and one over the model's numbers. Both
are recursive functions, and what they compute is proved by induction: `SetInduction` states it
for the set of the numbers for which something holds, and is proved from the least number
outside (`WFMin`), as no prover here can use the library's induction theorems, which take a predicate. `ResultsNumbered` relates a
page's place in the shown list to `Number`, and `CitationsCiteEach` says that the second loop cites each result named
once (`CitedOnce` counts them).

## 6. Waiting room

`WaitingRoom` is the browser tab before a debate: the component, the requests it sends and the
answers on their way, in any order, with what the server does when it serves one.

The tab's state is `page` (waiting, in a debate, away), the mounted component's `join`
status, `rejoins` and `dequeue` (`shouldDequeue`), and `view` and `failed`, the cached match state and whether its
last poll failed, which outlive the component. `Failing` is the failure screen: it is shown in the place of
everything else, so that neither a match nor the buttons of `Enter` and `Cancel` are there. `calls` is the set of requests and answers under way; a request knows
the visit it was sent on. The server has `queue` and `rooms`; it serves a request at
once, except for the poll, which reads the rooms and then, in the next transaction, the queue. What
overlapping requests of one person do to each other is not asked here but in `Matchmaking`
(`double_booked`).

| who | code | actions |
|---|---|---|
| component | `waiting-room.tsx` | `Visit`, `Poll`, `Focus`, `Rejoin`, `JoinAnswered`, `PollAnswered`, `Leave`, `LeaveAnswered`, `Cancel`, `CancelAnswered`, `Enter` |
| debate page | `end_room` | `LeaveDebate` |
| network | `useMutation`'s retry | `Fail` (a lost request or answer; a join is sent again) |
| server | `services/match.py` | `ServeJoin`, `ServePoll`, `ServeLeave`, `Expire` (the sweep), `Stranger` (another person's join, leave or end) |

| run | instance | what it shows |
|---|---|---|
| `waiting_room` | 1 tab and 1 stranger, 1 visit, 3 lost requests, 1 retry, 2 rejoins, 2 rooms; under fairness | `TypeOK`, `OnePlace`, `PollIsTruth` |
| `join_retry` | 2 tabs, 1 lost answer | violated: `RoomsEndOnPurpose` |

`PollIsTruth`: a page that has no match does not go on with another state than what the
server knows, nor with the failure of a poll, whatever became of its joins. The failure of a join stays on the
screen, and in front of a match: that is the claim `MatchesAreShown` below. `PollIsTruth` rests on the poll not depending on the join, which
a comment of the code tells the story of. Three losses let the join, its retry and
a poll fail, and two rejoins let the page try again once more and then run out of attempts.
`RoomsEndOnPurpose`: the join is sent again after its answer was lost although it
is not idempotent, and then abandons the debate to which the first one has led.

Fairness. The poll timer fires (`WF` of `Poll`) and a poll that is not lost is served and
answered. Joins, clicks and losses are not fair. In the run a hidden tab may be swept
(`Faults = {"hidden"}`).

Beside the run, each finding a claim violated:

| configuration | property | the claim, and what the code does |
|---|---|---|
| `MCWaitingPhantom.cfg` | `NoPhantoms` | leaving withdraws, "otherwise a user who wandered off would sit there as a phantom" (`waiting-room.tsx`, on the unmount effect); who leaves before the join is answered is not withdrawn |
| `MCWaitingStale.cfg` | `MatchesAreActual` | the poll loop "runs until we are actually matched"; a late answer about an old room stops it |
| `MCWaitingFailed.cfg` | `MatchesAreShown` | the poll "is now the source of truth and the join is just an action that kicks it off" (`waiting-room.tsx:82`); but the failure screen (`:200`) comes before the match, so whose join was served and its answers were lost, or whose poll fails after the join had told of the match, is in a debate and reads that they could not join |
| `MCWaitingSlow.cfg` | `PollIsTruth` | with polls of over two seconds, each is cancelled by the next |

`WaitingRoomProofs` proves `OnePlace` (`AlwaysOnePlace`) for any users, topics, retries,
visits and losses. A user who is queued has no open debate, and no two are open (`Alone`); a join
closes before it opens or queues, and a pairing takes its opponent out of the queue. All other
steps end debates or empty the queue (`LessIsAlone`). `TypeCorrect` adds that debates are never forgotten
(`RoomsGrow`), so that whatever an answer, a cache or a page names still exists (`Fits`), and that only
a page that waits has a poll, and one, because asking again and leaving both cancel it.

## 7. Accounts

`Accounts` follows a request through `auth/clerk.py`, `auth/jwks.py` and `auth/dependencies.py`: the
key cache of one process, the lock around a refetch, and the row of the caller. Each
coroutine takes a step per await. `line` is the lock, held by its head; `cached` the key
set with the time of its fetch, and, as history, the time at which the issuer
served it; `answer` a document on its way. The issuer publishes and retires keys at any time.
A token is a record that says what `jwt.decode` will decide.

| code | actions |
|---|---|
| `verify`, `get_signing_key`, `_refresh` | `Arrive`, `Acquire`, `Receive`, `FetchFails` |
| `resolve_user` | `Select`, `Insert`, `Commit`, `Reread`; `DatabaseFails` |
| the rest | `Serve`, `Publish`, `Retire` (the issuer), `Restart`, `Tick` |

| run | instance | what it shows |
|---|---|---|
| `accounts` | 2 requests, 2 keys, 2 subjects of whom one has two tokens and takes the other's name, TTL 1, timeout 1, clock 0..2; every fault; under fairness | `TypeOK`, `LosersRecover`, `NewestKept`, `RetiredKeysDie`, `RotationHeals`, `RefinesWriteOnce`, `Answered` |

Two requests are what a lock and a unique index need to be contended; the proofs cover
any number. The clock passes the cache's and a fetch's
lifetimes. `Answered` assumes that the database, the event loop and httpx, which has a timeout, make every
await return (`WF` of `Step(r)`), and nothing of arrivals or faults. `MCAccountsNamesake.cfg` finds
`EverySubjectHasARow` violated: `resolve_user` creates a row "if absent", but for a subject whose
username or email another row has, every insert fails.

Three details are coarser than the code. `Timeout` is a bound assumed of the issuer and the network: the five
seconds in `jwks.py:57` are httpx's limit on each operation and not on a whole fetch. A body that is not
JSON (`jwks.py:61`) ends in a 500 where other failures are refusals, and leaves cache and lock as these do, so `FetchFails`
stands for both. A username longer than its column (`clerk.py:51`) is no IntegrityError: it ends like
`DatabaseFails`, and in the code does so each time.

`AccountsProofs` proves `LosersAlwaysRecover`, `ImplementsWriteOnce`, `RotationsHeal` and
`RetiredKeysAlwaysDie` for any requests, keys, tokens and times. The table's half of the invariant says
that an open insert clashes with no row and no other open insert (`InsertsAreFree`, which waiting
on the unique indexes gives) and that who reads again has met a row. The half about keys
relates every document, on its way or cached, to the issuer: it names no key that was retired before it was
served (`Current`), it is not older than a fetch may be, and if a token's key was published when
its request came and the document misses it, the key has been retired since (`Arriving`). For
`RetiredKeysAlwaysDie` the theorem assumes `TTL > 0`: a cache that lives for no time at all is
fetched anew for every request, and an accepted key is as old as a fetch may be.
`TheNewestIsKept` rests on the lock: exactly those who hold it or await it are in `line`, each once,
and who fetches is its head (`Locked`). So nobody else's document is on its way when one is served
or cached, and what is on its way is not older than what is cached (`Newer`).
`OnlyNamesakesAreRefused` proves `EverySubjectHasARow` where no two subjects share a name or an email: a row
says what a token of its own subject said (`RowsAreOwn`), so that who fails has met a namesake.

## 8. Ratings and the profile

`Ratings` models `services/rating.py` statement by statement: a POST is `Post`, `ReadRoom`, `Insert`,
`Commit`; the state is `AskState`, `ReadRoomOfState`, `ReadState`; a profile is `AskProfile`,
`ReadRooms`, `ReadScores`, `ReadAverage`. `Rollback` ends any of them, `End` is Matchmaking's. The
insert waits for another of its key that is not committed (`Contended`).

| run | instance | what it shows |
|---|---|---|
| `ratings` | 3 requests of any kind by 3 people about 2 debates that share a person; valid and invalid scores, a blank comment | `TypeOK`, `AnswersAreTrue`, `ProfileAddsUp`, `RefinesWriteOnce` |

Three requests let two ratings fight over a key, or two ratings and an end commit between the
statements of a profile. `RatingsProofs` proves all four for any number of everything: no other
open insert has the key of an open one, and the key is free (`InsertsAreAlone`); a rating is of an opponent, in a
debate that is over (`RatingsAreFair`); what a profile has read lies between what was received when it was asked for
and what is received now (`ProfileGrows`). As ratings are never removed and debates never
reopen, each later read has at least what the earlier ones had.

## 9. Topics

`Topics` models `create_topic` (`Begin`, `Check`, `Insert`, `Commit`, `Rollback`) and a reader of the topic
browser who refetches and turns pages (`Open`, `Count`, `Items`, `TurnPage`, `TurnBack`,
`Refetch`), over a list that is ordered by `created_at`, which is when a transaction
*began*. Titles are compared by `Same` (equal but for case and padding) and `Like` (what ILIKE
makes of the new title, as a pattern). Nothing escapes the pattern, so neither contains the other: a title with an
underscore matches others, and one with a backslash does not match itself. The table begins with what
`seed_dev_data.py` inserts.

The buttons wait for no page: `SetPage` aborts the request under way and asks for the next page, and meanwhile the
screen keeps the page before, its total included (`keepPreviousData`), or shows what the browser has
kept of the page (`cached`; whether it still has it is left open). `HasMore` is about that total, so a
reader may skip a page that never came. `read` counts the first pages that were shown, each after those before it.

| run | instance | what it shows |
|---|---|---|
| `topics` | 2 creations, 4 seeded topics, pages of 2, 4 new titles, 2 categories and an unknown one, clock 0..1; under fairness | `TypeOK`, `OnlyRacesDuplicate`, `LastPageIsTheEnd`, `ReadersMissNothing` |

Four seeded topics and two new ones make three pages, so that rows shift across both page
borders. `LastPageIsTheEnd` is about a reader who was shown all pages up to the last one,
and `ReadersMissNothing` about one who skips none; both may turn ahead of the answers on the way. `ReadersMissNothing`
assumes that requests are answered, that the page is refetched while it is open, and two things of the
person who reads: one who could again and again go on from a page does so (`SF` of `TurnPage` on
each page), or they may go back and forth between the first two for ever; and they come to wait for pages before
they turn (`Patience`), or they may abort every request for ever.

Beside the run, each finding a claim violated:

| configuration | property | the claim, and what the code does |
|---|---|---|
| `MCTopicsTitles.cfg` | `TitlesAreUnique` | "Duplicate titles are rejected" (`services/topic.py:78`); two creations that overlap store one title, and no index refuses the second |
| `MCTopicsEscape.cfg` | `LaterDuplicatesAreRejected` | the same claim, of creations that do not overlap; the title is an unescaped pattern (`repositories/topic.py:99`), and one with a backslash does not match itself |
| `MCTopicsRefusal.cfg` | `RefusalsAreDuplicates` | "identically-titled" (`repositories/topic.py:95`); a title with an underscore is refused because of another title it matches |
| `MCTopicsSkip.cfg` | `LastPageShownIsTheEnd` | no claim of the code, but what a reader would expect of the last page; two quick clicks skip the one before it |

`TopicsProofs` proves `OnlyRacesDuplicate` (`DuplicatesAreRaces`) for any titles and whatever ILIKE matches, from two
facts: whoever is past the look has seen nothing that matches its title (`LookedFirst`), and a stored topic is seeded
or the draft of a creation that is done (`Origins`). What that says of equal titles is `EscapedTitlesAreKeptOut`: if titles match
their equals, as patterns, `LaterDuplicatesAreRejected` holds. `TheLastPageIsTheEnd` rests on `Reading`: of what
there was at the start, a topic the reader has not seen has at least as many rows before it as the pages
shown one after the other hold, wherever the reader has turned since. New topics only push it further back, and the
rows of a listing are the first of the order (`RowsComeFirst`), so the next of these pages shows what it has or leaves
a page's rows more before it. The theorem
assumes that the seeded topics are finitely many and have keys of their own, as a table's rows do
(`SeededAssumption`, `CreatorsAssumption`). `ReadersMissNothing` is liveness.
`OnlyWildcardsRefuse` proves `RefusalsAreDuplicates` for titles that match nothing but themselves, as patterns:
it is LIKE's wildcards, and no order of requests, that refuse a new title.

Left out: a listing that fails, which leaves the reader where they were until it is asked for again.

## 10. What is proved, and what is only checked

| module | theorems | its runs' properties that are only model-checked |
|---|---|---|
| `MatchmakingProofs`, `MatchmakingPromises` | all safety, all action properties, the refinement | `Answered` |
| `ChatProofs` | `TypeOK`, `StoredFirst`, `OutsidersSeeNothing`, `NoDeadSockets`, `TranscriptComplete` (one process) | `EventuallyComplete` |
| `FactCheckProofs` | everything | - |
| `AccountsProofs` | all safety, all action properties, the refinement | `Answered` |
| `RatingsProofs` | everything | - |
| `TopicsProofs` | `TypeOK`, `OnlyRacesDuplicate`, `LastPageIsTheEnd` | `ReadersMissNothing` |
| `WaitingRoomProofs` | all safety | `PollIsTruth` |

Every invariant and every action property that a run checks and finds to hold is proved, and so are the refinements.
What is left to TLC is liveness under fairness, which is out of the prover's reach.

Nothing is assumed in a proof beyond the named assumptions on the constants, which TLC evaluates in the
runs, and the hypotheses that some theorems state: `TTL > 0` in `RetiredKeysAlwaysDie`, one process
and whole histories in `TranscriptsComplete`, and, where a claim that the code does not keep is proved under what would
make it true, no overlap (`OneAtATime`, one session in `NoOverlapNoOvershoot`), no failing
calls and rollbacks (`NoCallFails`), no failing history or late authentication, no namesakes, no wildcards, no backslashes. The bounds of the runs (tickets, rooms, sockets,
clock) are constants of the modules, so the proofs hold for every value of them.

## 11. Not modelled

- *Video* (`services/video.py`, `debate-video.tsx`): one read and a signed token, no state; the media
  server is external. A token may outlive its debate.
- *Configuration, errors, logging, health*: constants of a run, and formatting.
- *The database pool's limit*: every module has its own sessions; requests of different
  components do not compete for them.
- *Migrations*: run once on an idle database; their unique indexes are guards of the models. Of the
  seed script only what it inserts is there, not `clear`.
- *Rendering and forms*, the browser's search box and change of category (each starts another
  list), the waiting room's elapsed counter, the end of the query cache's lifetime, a tab that is closed
  rather than left (its requests die with it), a request that is delayed past its component's next visit but one.
- What is read and not written: `get_topic`, `get_room`, `waiting_counts`, `list_for_room`.
