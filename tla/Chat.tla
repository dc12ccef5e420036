-------------------------------- MODULE Chat --------------------------------
(***************************************************************************)
(* One debate's chat: the socket handlers of api/v1/chat.py with the       *)
(* per-process registry of websocket/registry.py, the messages and         *)
(* fact_checks tables, and the pages that run hooks/use-debate-chat.ts.    *)
(*                                                                         *)
(* An entry is a chat message or a verdict.  A handler stores an entry and *)
(* then broadcasts it to the sockets its own process has registered.  A    *)
(* page learns of entries from frames and from the history it fetches over *)
(* REST each time its socket is ready; it opens a new socket when one      *)
(* drops.  A handler is a coroutine: it takes one step per await.          *)
(***************************************************************************)
EXTENDS Naturals, Sequences, FiniteSets

CONSTANTS
  Pages,        \* pages with the debate open
  Outsiders,    \* the pages of people who are not in this debate
  Askers,       \* concurrent POST /rooms/{id}/fact-check requests
  Workers,      \* server processes
  MaxConns,     \* a bound on the sockets ever opened, hence on failures
  MaxEntries,   \* a bound on the entries ever inserted
  HistoryLimit, \* HISTORY_LIMIT
  Faults,       \* which may happen: "drop", "auth", "history", "write", "crash"
  None

ASSUME OutsidersAssumption == Outsiders \subseteq Pages
ASSUME BoundsAssumption == MaxConns \in Nat /\ MaxEntries \in Nat
ASSUME AskersAssumption == Askers \cap Nat = {}
ASSUME NoneAssumption == None \notin Workers /\ None \notin Pages /\ None \notin Nat

Conns == 1..MaxConns
Entries == 1..MaxEntries
Handlers == Conns \cup Askers
Kinds == {"message", "verdict"}
Ready == 0   \* the ready frame; the frame of an entry is the entry

VARIABLES
  ended,    \* debate_rooms.ended_at is set
  created,  \* entries inserted so far; they are numbered by created_at
  kind,     \* the table an entry is in
  stored,   \* the entries committed
  registry, \* each process's ConnectionRegistry, for this room
  host,     \* the process a handler runs in
  at,       \* where a handler is
  work,     \* the entry a handler is posting
  targets,  \* sockets its broadcast has still to send to
  failed,   \* sockets its broadcast could not send to
  conns,    \* sockets opened so far
  owner,    \* the page that opened a socket
  link,     \* the state of a socket's connection
  inbox,    \* frames on their way to the page
  outbox,   \* messages on their way to the server (at most one)
  sock,     \* the socket a page has open
  status,   \* "opening": a token, a socket or a retry timer is awaited
  shown,    \* the page's wireMessages and wireFactChecks
  loaded,   \* historyLoaded
  buffered, \* buffered and bufferedFactChecks
  fetch,    \* the loadHistory call a socket's ready frame began
  unread,   \* the tables that call has not read yet
  answer    \* what it has read

db == <<ended, created, kind, stored>>
handlers == <<at, work, targets, failed>>
wire == <<link, inbox, outbox>>
opening == <<conns, owner, host>>
page == <<sock, status, shown, loaded, buffered>>
fetches == <<fetch, unread, answer>>
vars == <<db, registry, handlers, wire, opening, page, fetches>>

TypeOK ==
  /\ ended \in BOOLEAN /\ created \in 0..MaxEntries
  /\ kind \in [Entries -> Kinds] /\ stored \subseteq 1..created
  /\ registry \in [Workers -> SUBSET Conns]
  /\ host \in [Handlers -> Workers \cup {None}]
  /\ at \in [Handlers -> {"none", "auth", "registered", "receiving", "posting", "inserted",
                          "committed", "sending", "done"}]
  /\ work \in [Handlers -> Entries \cup {None}]
  /\ targets \in [Handlers -> SUBSET Conns] /\ failed \in [Handlers -> SUBSET Conns]
  /\ conns \in 0..MaxConns /\ owner \in [Conns -> Pages \cup {None}]
  /\ link \in [Conns -> {"none", "up", "dropped", "refused"}]
  /\ inbox \in [Conns -> Seq({Ready} \cup Entries)] /\ outbox \in [Conns -> 0..1]
  /\ sock \in [Pages -> Conns \cup {None}]
  /\ status \in [Pages -> {"opening", "open", "refused"}]
  /\ shown \in [Pages -> SUBSET Entries] /\ buffered \in [Pages -> SUBSET Entries]
  /\ loaded \in [Pages -> BOOLEAN]
  /\ fetch \in [Conns -> {"none", "reading", "merged", "failed"}]
  /\ unread \in [Conns -> SUBSET Kinds] /\ answer \in [Conns -> SUBSET Entries]

Init ==
  /\ ended = FALSE /\ created = 0
  /\ kind = [e \in Entries |-> "message"] /\ stored = {}
  /\ registry = [w \in Workers |-> {}]
  /\ host = [h \in Handlers |-> None] /\ at = [h \in Handlers |-> "none"]
  /\ work = [h \in Handlers |-> None]
  /\ targets = [h \in Handlers |-> {}] /\ failed = [h \in Handlers |-> {}]
  /\ conns = 0 /\ owner = [c \in Conns |-> None]
  /\ link = [c \in Conns |-> "none"]
  /\ inbox = [c \in Conns |-> <<>>] /\ outbox = [c \in Conns |-> 0]
  /\ sock = [p \in Pages |-> None] /\ status = [p \in Pages |-> "opening"]
  /\ shown = [p \in Pages |-> {}] /\ buffered = [p \in Pages |-> {}]
  /\ loaded = [p \in Pages |-> FALSE]
  /\ fetch = [c \in Conns |-> "none"] /\ unread = [c \in Conns |-> {}]
  /\ answer = [c \in Conns |-> {}]

------------------------------------------------------------------------------
(* Bounds.                                                                   *)

\* Pages that have a socket to open.
Waiting == {p \in Pages : status[p] # "refused"
                            /\ (sock[p] = None \/ link[sock[p]] # "up")}

\* Whatever costs a page its socket happens only while there is another one to
\* open for it, so the last socket of every page stays up.
MayFail(fault) == fault \in Faults /\ conns + Cardinality(Waiting) < MaxConns

\* A message is sent, or a claim checked, while there is an entry left for it.
MayPost ==
  created + Cardinality({c \in Conns : outbox[c] = 1})
          + Cardinality({h \in Handlers : at[h] = "posting"}) < MaxEntries

------------------------------------------------------------------------------
(* The socket handler up to its receive loop.                                *)

Goto(h, label) == at' = [at EXCEPT ![h] = label]

Unregister(w, cs) == registry' = [registry EXCEPT ![w] = @ \ cs]

\* The page opens a socket and sends the auth frame; the server accepts.
Open(p) ==
  /\ status[p] = "opening" /\ sock[p] = None /\ conns < MaxConns
  /\ LET c == conns + 1 IN
     /\ conns' = c
     /\ owner' = [owner EXCEPT ![c] = p]
     /\ \E w \in Workers : host' = [host EXCEPT ![c] = w]
     /\ link' = [link EXCEPT ![c] = "up"]
     /\ sock' = [sock EXCEPT ![p] = c]
     /\ Goto(c, "auth")
  /\ status' = [status EXCEPT ![p] = "open"]
  /\ UNCHANGED <<db, registry, work, targets, failed, inbox, outbox, shown, loaded,
                 buffered, fetches>>

\* A close frame: nothing to deliver if the connection is gone already.
CloseRefused(c) ==
  link' = [link EXCEPT ![c] = IF @ = "up" THEN "refused" ELSE @]

\* Mutant: nobody is asked whether they are in the debate.
Authenticate_NoCheck(c) ==
  /\ at[c] = "auth"
  /\ Goto(c, "registered")
  /\ registry' = [registry EXCEPT ![host[c]] = @ \cup {c}]
  /\ UNCHANGED <<db, work, targets, failed, wire, opening, page, fetches>>

\* The token verifies, list_history accepts a participant, and the socket is
\* registered: nothing can tell these three awaits apart.
Authenticate(c) ==
  /\ at[c] = "auth"
  /\ IF owner[c] \in Outsiders
     THEN Goto(c, "done") /\ CloseRefused(c) /\ UNCHANGED registry
     ELSE /\ Goto(c, "registered")
          /\ registry' = [registry EXCEPT ![host[c]] = @ \cup {c}]
          /\ UNCHANGED link
  /\ UNCHANGED <<db, work, targets, failed, inbox, outbox, opening, page, fetches>>

\* No auth frame within AUTH_TIMEOUT_SECONDS, or no JWKS to verify it with:
\* both are an AuthenticationError, which closes with 4401.
AuthFails(c) ==
  /\ at[c] = "auth" /\ MayFail("auth")
  /\ Goto(c, "done") /\ CloseRefused(c)
  /\ UNCHANGED <<db, registry, work, targets, failed, inbox, outbox, opening, page, fetches>>

\* Writing to a connection that is gone may go unnoticed.
SendReady(c) ==
  /\ at[c] = "registered"
  /\ Goto(c, "receiving")
  /\ inbox' = IF link[c] = "up" THEN [inbox EXCEPT ![c] = Append(@, Ready)] ELSE inbox
  /\ UNCHANGED <<db, registry, work, targets, failed, link, outbox, opening, page, fetches>>

\* Mutant: a disconnect leaves the socket in the registry.
Disconnected_NoDiscard(c) ==
  /\ link[c] = "dropped"
  /\ at[c] \in {"auth", "registered"} \/ (at[c] = "receiving" /\ outbox[c] = 0)
  /\ Goto(c, "done")
  /\ UNCHANGED <<db, registry, work, targets, failed, wire, opening, page, fetches>>

\* WebSocketDisconnect, from the first frame on; "finally" discards the socket.
Disconnected(c) ==
  /\ link[c] = "dropped"
  /\ at[c] \in {"auth", "registered"} \/ (at[c] = "receiving" /\ outbox[c] = 0)
  /\ Goto(c, "done")
  /\ Unregister(host[c], {c})
  /\ UNCHANGED <<db, work, targets, failed, wire, opening, page, fetches>>

------------------------------------------------------------------------------
(* Posting: post_message in the receive loop, request_fact_check over REST.  *)

\* An ended room answers with an error frame, and the loop goes on.
ReceiveMessage(c) ==
  /\ at[c] = "receiving" /\ outbox[c] = 1
  /\ outbox' = [outbox EXCEPT ![c] = 0]
  /\ IF ended THEN UNCHANGED at ELSE Goto(c, "posting")
  /\ UNCHANGED <<db, registry, work, targets, failed, link, inbox, opening, page, fetches>>

\* The limits are met and the provider asked (FactCheck has that part).
AskFactCheck(a) ==
  /\ at[a] = "none" /\ ~ended /\ MayPost
  /\ Goto(a, "posting")
  /\ \E w \in Workers : host' = [host EXCEPT ![a] = w]
  /\ UNCHANGED <<db, registry, work, targets, failed, wire, conns, owner, page, fetches>>

\* Mutant: the key is read before the flush has assigned it.
Insert_OldKey(h) ==
  /\ at[h] = "posting" /\ created < MaxEntries
  /\ created' = created + 1
  /\ kind' = [kind EXCEPT ![created + 1] = IF h \in Conns THEN "message" ELSE "verdict"]
  /\ work' = [work EXCEPT ![h] = created]
  /\ Goto(h, "inserted")
  /\ UNCHANGED <<ended, stored, registry, targets, failed, wire, opening, page, fetches>>

\* The INSERT, and with it created_at (clock_timestamp()).
Insert(h) ==
  /\ at[h] = "posting" /\ created < MaxEntries
  /\ created' = created + 1
  /\ kind' = [kind EXCEPT ![created + 1] = IF h \in Conns THEN "message" ELSE "verdict"]
  /\ work' = [work EXCEPT ![h] = created + 1]
  /\ Goto(h, "inserted")
  /\ UNCHANGED <<ended, stored, registry, targets, failed, wire, opening, page, fetches>>

\* Mutant: post_message does not commit.
Commit_Forgotten(h) ==
  /\ at[h] = "inserted"
  /\ Goto(h, "committed")
  /\ UNCHANGED <<db, registry, work, targets, failed, wire, opening, page, fetches>>

Commit(h) ==
  /\ at[h] = "inserted"
  /\ stored' = stored \cup {work[h]}
  /\ Goto(h, "committed")
  /\ UNCHANGED <<ended, created, kind, registry, work, targets, failed, wire, opening,
                 page, fetches>>

\* The database fails: a rollback; a socket's handler dies with it, discarding
\* the socket, which closes with a code that is not a refusal.
PostFails(h) ==
  /\ at[h] \in {"posting", "inserted"} /\ MayFail("write")
  /\ IF h \in Conns
     THEN /\ Goto(h, "done")
          /\ Unregister(host[h], {h})
          /\ link' = [link EXCEPT ![h] = "dropped"]
     ELSE Goto(h, "none") /\ UNCHANGED <<registry, link>>
  /\ work' = [work EXCEPT ![h] = None]
  /\ UNCHANGED <<db, targets, failed, inbox, outbox, opening, page, fetches>>

\* broadcast copies the room's sockets under the lock ...
StartBroadcast(h) ==
  /\ at[h] = "committed"
  /\ targets' = [targets EXCEPT ![h] = registry[host[h]]]
  /\ Goto(h, "sending")
  /\ UNCHANGED <<db, registry, work, failed, wire, opening, page, fetches>>

\* Mutant: a send that fails ends the broadcast for everybody.
SendTo_FailsForAll(h, c) ==
  /\ at[h] = "sending" /\ c \in targets[h]
  /\ \/ /\ link[c] = "up"
        /\ targets' = [targets EXCEPT ![h] = @ \ {c}]
        /\ inbox' = [inbox EXCEPT ![c] = Append(@, work[h])]
        /\ UNCHANGED failed
     \/ /\ link[c] # "up"
        /\ targets' = [targets EXCEPT ![h] = {}]
        /\ failed' = [failed EXCEPT ![h] = {c}]
        /\ UNCHANGED inbox
  /\ UNCHANGED <<db, registry, at, work, link, outbox, opening, page, fetches>>

\* ... sends to one after the other, by then perhaps gone ...
SendTo(h, c) ==
  /\ at[h] = "sending" /\ c \in targets[h]
  /\ targets' = [targets EXCEPT ![h] = @ \ {c}]
  /\ \/ /\ link[c] = "up"
        /\ inbox' = [inbox EXCEPT ![c] = Append(@, work[h])]
        /\ UNCHANGED failed
     \/ /\ link[c] # "up"
        /\ failed' \in {failed, [failed EXCEPT ![h] = @ \cup {c}]}
        /\ UNCHANGED inbox
  /\ UNCHANGED <<db, registry, at, work, link, outbox, opening, page, fetches>>

\* ... and discards those that failed.
EndBroadcast(h) ==
  /\ at[h] = "sending" /\ targets[h] = {}
  /\ Goto(h, IF h \in Conns THEN "receiving" ELSE "none")
  /\ Unregister(host[h], failed[h])
  /\ work' = [work EXCEPT ![h] = None]
  /\ failed' = [failed EXCEPT ![h] = {}]
  /\ UNCHANGED <<db, targets, wire, opening, page, fetches>>

------------------------------------------------------------------------------
(* The page.                                                                 *)

Send(p) ==
  /\ sock[p] # None /\ MayPost
  /\ link[sock[p]] = "up" /\ outbox[sock[p]] = 0
  /\ outbox' = [outbox EXCEPT ![sock[p]] = 1]
  /\ UNCHANGED <<db, registry, handlers, link, inbox, opening, page, fetches>>

\* The next frame on the page's socket.
Frame(p, f) ==
  /\ sock[p] # None
  /\ inbox[sock[p]] # <<>> /\ Head(inbox[sock[p]]) = f
  /\ inbox' = [inbox EXCEPT ![sock[p]] = Tail(@)]

\* handleFrame, "ready": forget the buffer and load the history again.
HandleReady(p) ==
  /\ Frame(p, Ready)
  /\ loaded' = [loaded EXCEPT ![p] = FALSE]
  /\ buffered' = [buffered EXCEPT ![p] = {}]
  /\ fetch' = [fetch EXCEPT ![sock[p]] = "reading"]
  /\ unread' = [unread EXCEPT ![sock[p]] = Kinds]
  /\ UNCHANGED <<db, registry, handlers, link, outbox, opening, sock, status, shown, answer>>

\* Mutant: what comes in during the fetch is dropped.
HandleEntry_NoBuffer(p, e) ==
  /\ Frame(p, e)
  /\ shown' = IF loaded[p] THEN [shown EXCEPT ![p] = @ \cup {e}] ELSE shown
  /\ UNCHANGED <<db, registry, handlers, link, outbox, opening, sock, status, loaded,
                 buffered, fetches>>

\* handleFrame, "message" and "fact_check".
HandleEntry(p, e) ==
  /\ Frame(p, e)
  /\ IF loaded[p]
     THEN shown' = [shown EXCEPT ![p] = @ \cup {e}] /\ UNCHANGED buffered
     ELSE buffered' = [buffered EXCEPT ![p] = @ \cup {e}] /\ UNCHANGED shown
  /\ UNCHANGED <<db, registry, handlers, link, outbox, opening, sock, status, loaded, fetches>>

Of(k) == {e \in stored : kind[e] = k}

\* list_messages has a LIMIT, oldest first; fact-checks have none.
Listed(k) ==
  IF k = "verdict" THEN Of(k)
  ELSE {e \in Of(k) : Cardinality({o \in Of(k) : o <= e}) <= HistoryLimit}

\* One of loadHistory's two GETs is answered.
ReadHistory(c, k) ==
  /\ fetch[c] = "reading" /\ k \in unread[c]
  /\ unread' = [unread EXCEPT ![c] = @ \ {k}]
  /\ answer' = [answer EXCEPT ![c] = @ \cup Listed(k)]
  /\ UNCHANGED <<db, registry, handlers, wire, opening, page, fetch>>

\* Both are: merge them with what came in meanwhile.  Nothing says that c is
\* still the page's socket.
MergeHistory(c) ==
  /\ fetch[c] = "reading" /\ unread[c] = {}
  /\ LET p == owner[c] IN
     /\ shown' = [shown EXCEPT ![p] = @ \cup answer[c] \cup buffered[p]]
     /\ loaded' = [loaded EXCEPT ![p] = TRUE]
     /\ buffered' = [buffered EXCEPT ![p] = {}]
  /\ fetch' = [fetch EXCEPT ![c] = "merged"]
  /\ answer' = [answer EXCEPT ![c] = {}]
  /\ UNCHANGED <<db, registry, handlers, wire, opening, sock, status, unread>>

\* One of them is rejected: the catch leaves everything as it is.
HistoryFails(c) ==
  /\ "history" \in Faults
  /\ fetch[c] = "reading"
  /\ fetch' = [fetch EXCEPT ![c] = "failed"]
  /\ unread' = [unread EXCEPT ![c] = {}]
  /\ answer' = [answer EXCEPT ![c] = {}]
  /\ UNCHANGED <<db, registry, handlers, wire, opening, page>>

\* onclose, after the frames that came before it: retry, unless refused.
HandleClose(p) ==
  /\ sock[p] # None
  /\ link[sock[p]] # "up" /\ inbox[sock[p]] = <<>>
  /\ status' = [status EXCEPT ![p] =
                  IF link[sock[p]] = "refused" THEN "refused" ELSE "opening"]
  /\ sock' = [sock EXCEPT ![p] = None]
  /\ UNCHANGED <<db, registry, handlers, wire, opening, shown, loaded, buffered, fetches>>

\* The page is left, which cancels what it has begun, and opened again.
Reload(p) ==
  /\ MayFail("drop") /\ sock[p] # None
  /\ link' = [link EXCEPT ![sock[p]] = IF @ = "up" THEN "dropped" ELSE @]
  /\ inbox' = [inbox EXCEPT ![sock[p]] = <<>>]
  /\ sock' = [sock EXCEPT ![p] = None]
  /\ status' = [status EXCEPT ![p] = "opening"]
  /\ shown' = [shown EXCEPT ![p] = {}]
  /\ loaded' = [loaded EXCEPT ![p] = FALSE]
  /\ buffered' = [buffered EXCEPT ![p] = {}]
  /\ LET begun == {c \in Conns : owner[c] = p /\ fetch[c] = "reading"} IN
     /\ fetch' = [c \in Conns |-> IF c \in begun THEN "failed" ELSE fetch[c]]
     /\ unread' = [c \in Conns |-> IF c \in begun THEN {} ELSE unread[c]]
     /\ answer' = [c \in Conns |-> IF c \in begun THEN {} ELSE answer[c]]
  /\ UNCHANGED <<db, registry, handlers, outbox, opening>>

------------------------------------------------------------------------------
(* The rest of the world.                                                    *)

EndRoom == ~ended /\ ended' = TRUE
           /\ UNCHANGED <<created, kind, stored, registry, handlers, wire, opening,
                          page, fetches>>

\* A connection breaks: the last frames either way may be lost with it.
Drop(c) ==
  /\ link[c] = "up" /\ MayFail("drop")
  /\ link' = [link EXCEPT ![c] = "dropped"]
  /\ \E n \in 0..Len(inbox[c]) : inbox' = [inbox EXCEPT ![c] = SubSeq(@, 1, n)]
  /\ outbox' \in {outbox, [outbox EXCEPT ![c] = 0]}
  /\ UNCHANGED <<db, registry, handlers, opening, page, fetches>>

\* A process dies, with its handlers and its registry, and is started again.
Crash(w) ==
  /\ "crash" \in Faults /\ conns + Cardinality(Pages) <= MaxConns
  /\ \E h \in Handlers : host[h] = w /\ at[h] \notin {"none", "done"}
  /\ LET dying == {h \in Handlers : host[h] = w /\ at[h] # "none"} IN
     /\ at' = [h \in Handlers |->
                 IF h \in dying THEN IF h \in Conns THEN "done" ELSE "none" ELSE at[h]]
     /\ work' = [h \in Handlers |-> IF h \in dying THEN None ELSE work[h]]
     /\ targets' = [h \in Handlers |-> IF h \in dying THEN {} ELSE targets[h]]
     /\ failed' = [h \in Handlers |-> IF h \in dying THEN {} ELSE failed[h]]
     /\ link' = [c \in Conns |->
                   IF c \in dying /\ link[c] = "up" THEN "dropped" ELSE link[c]]
     /\ outbox' = [c \in Conns |-> IF c \in dying THEN 0 ELSE outbox[c]]
  /\ registry' = [registry EXCEPT ![w] = {}]
  /\ UNCHANGED <<db, inbox, opening, page, fetches>>

------------------------------------------------------------------------------

Serve(h) ==
  \/ h \in Conns /\ (Authenticate(h) \/ SendReady(h) \/ Disconnected(h) \/ ReceiveMessage(h))
  \/ Insert(h) \/ Commit(h) \/ StartBroadcast(h) \/ EndBroadcast(h)
  \/ \E c \in Conns : SendTo(h, c)

Run(p) ==
  \/ Open(p) \/ HandleReady(p) \/ HandleClose(p) \/ \E e \in Entries : HandleEntry(p, e)
  \/ \E c \in Conns :
       owner[c] = p /\ (MergeHistory(c) \/ \E k \in Kinds : ReadHistory(c, k))

Next ==
  \/ \E h \in Handlers : Serve(h) \/ PostFails(h)
  \/ \E c \in Conns : AuthFails(c) \/ HistoryFails(c) \/ Drop(c)
  \/ \E a \in Askers : AskFactCheck(a)
  \/ \E p \in Pages : Run(p) \/ Send(p) \/ Reload(p)
  \/ \E w \in Workers : Crash(w)
  \/ EndRoom

Spec == Init /\ [][Next]_vars

\* Event loops, the server's and the pages', run what is ready; a request that
\* does not fail is answered.
Fairness ==
  /\ \A h \in Handlers : WF_vars(Serve(h))
  /\ \A p \in Pages : WF_vars(Run(p))

FairSpec == Spec /\ Fairness

------------------------------------------------------------------------------
(* Properties.                                                               *)

\* What a page has been told is stored: a message is committed before anyone
\* is sent it, and a rollback or a crash takes back nothing that was shown.
StoredFirst ==
  \A p \in Pages :
    /\ shown[p] \cup buffered[p] \subseteq stored
    /\ sock[p] # None =>
         \A i \in DOMAIN inbox[sock[p]] : inbox[sock[p]][i] \in stored \cup {Ready}

\* The frames that will still reach page p, or are still to be sent to it.
Coming(p) ==
  {e \in Entries :
     \/ \E i \in DOMAIN inbox[sock[p]] : inbox[sock[p]][i] = e
     \/ \E h \in Handlers :
          work[h] = e /\ (at[h] = "committed" \/ (at[h] = "sending" /\ sock[p] \in targets[h]))}

Connected(p) == sock[p] # None /\ link[sock[p]] = "up"

\* With one process: once the history its socket asked for is merged, a page
\* shows all that is stored but what is still being sent to it, whatever
\* dropped, failed, reloaded or overlapped before.  This is what registering
\* before "ready", and buffering until the history is there, are for.
TranscriptComplete ==
  \A p \in Pages :
    Connected(p) /\ fetch[sock[p]] = "merged" => stored \subseteq shown[p] \cup Coming(p)

\* An outsider's socket is never registered, and their page learns nothing.
OutsidersSeeNothing ==
  \A p \in Outsiders :
    /\ shown[p] = {} /\ buffered[p] = {}
    /\ \A c \in Conns : owner[c] = p =>
         inbox[c] = <<>> /\ answer[c] = {} /\ \A w \in Workers : c \notin registry[w]

\* The registry keeps no socket whose handler is gone: disconnects, failed
\* sends and dying handlers all end in a discard.
NoDeadSockets ==
  \A w \in Workers : \A c \in registry[w] : at[c] \notin {"none", "auth", "done"}

\* The page's last word on its history is an error.
Blank(p) == sock[p] # None /\ fetch[sock[p]] = "failed"

\* With one process: when failures stop, every page in the debate comes to show
\* everything and keeps showing it, unless its last history was refused.
EventuallyComplete == \A p \in Pages \ Outsiders : <>[](shown[p] = stored \/ Blank(p))

\* Claimed by use-debate-chat.ts, of a failed history: messages go on being
\* buffered "rather than rendering a transcript with a hole in it".
NoHole ==
  \A p \in Pages :
    /\ Connected(p) /\ loaded[p] /\ fetch[sock[p]] # "none"
    /\ \A c \in Conns : owner[c] = p => fetch[c] # "reading"
    => \A e \in stored \ Coming(p) : e \in shown[p] \/ \A o \in shown[p] : o < e

\* Claimed by isRefusal: a refused connection "would be refused identically"
\* if it were tried again.
RefusalIsFinal == \A p \in Pages : status[p] = "refused" => p \in Outsiders

\* Claimed by chat_socket: "post_message refuses to add to" an ended room.
NothingAddedAfterEnd == [][ended => created' = created]_vars

\* Claimed by services/chat.ts: "a broken connection degrades the chat to
\* read-only rather than blank".
ReadOnlyNotBlank ==
  \A p \in Pages \ Outsiders : \A e \in Entries : e \in stored ~> e \in shown[p]
==============================================================================
