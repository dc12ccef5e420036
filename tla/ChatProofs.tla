------------------------------ MODULE ChatProofs ------------------------------
(* What holds of Chat for any number of pages, sockets, processes, entries.  *)
EXTENDS Chat, FiniteSetTheorems, TLAPS

USE OutsidersAssumption, BoundsAssumption, AskersAssumption, NoneAssumption
USE DEF Conns, Entries, Handlers, Kinds, Ready

\* Nothing has happened on the sockets that are still to be opened.
Opened ==
  \A c \in Conns : c > conns =>
    at[c] = "none" /\ inbox[c] = <<>> /\ fetch[c] = "none" /\ answer[c] = {}

\* Handlers run in a process, and it registers the sockets of its own only.
Homed ==
  /\ \A h \in Handlers : at[h] # "none" => host[h] \in Workers
  /\ \A w \in Workers : \A c \in registry[w] : host[c] = w

\* Who posts has an entry, and who broadcasts has committed it.
Postings ==
  \A h \in Handlers :
    /\ at[h] \in {"inserted", "committed", "sending"} => work[h] \in 1..created
    /\ at[h] \in {"committed", "sending"} => work[h] \in stored

OwnSockets == \A p \in Pages : sock[p] # None => sock[p] <= conns /\ owner[sock[p]] = p

\* An outsider's handler gets no further than the authentication.
Admitted ==
  \A c \in Conns : owner[c] \in Outsiders =>
    at[c] \in {"none", "auth", "done"} /\ fetch[c] # "reading"

\* The sockets that are registered, or sent to, are of people in the debate.
Insiders ==
  /\ \A w \in Workers : \A c \in registry[w] : owner[c] \notin Outsiders
  /\ \A h \in Handlers : \A c \in targets[h] : c <= conns /\ owner[c] \notin Outsiders

\* Nothing is on its way to an outsider, and nothing is there.
Unsent == \A c \in Conns : owner[c] \in Outsiders => inbox[c] = <<>> /\ answer[c] = {}
Unseen == \A p \in Outsiders : shown[p] = {} /\ buffered[p] = {}

\* What is on its way to a page, or there, is stored.
Sent == \A c \in Conns : inbox[c] \in Seq(stored \cup {Ready}) /\ answer[c] \subseteq stored
Seen == \A p \in Pages : shown[p] \cup buffered[p] \subseteq stored

Inv ==
  /\ TypeOK /\ Opened /\ Homed /\ NoDeadSockets /\ Postings /\ OwnSockets
  /\ Admitted /\ Insiders /\ Unsent /\ Unseen /\ Sent /\ Seen

USE DEF Goto, Unregister, CloseRefused, Frame, db, handlers, wire, opening, page, fetches

------------------------------------------------------------------------------

LEMMA OpenKeeps ==
  ASSUME Inv, NEW p \in Pages, Open(p)
  PROVE  Inv'
<1> USE DEF Inv
<1>1. conns + 1 \in Conns /\ conns' = conns + 1
  BY DEF Open, TypeOK
<1>2. PICK c \in Conns : c = conns + 1
  BY <1>1
<1>3. /\ at' = [at EXCEPT ![c] = "auth"] /\ owner' = [owner EXCEPT ![c] = p]
      /\ sock' = [sock EXCEPT ![p] = c] /\ \E w \in Workers : host' = [host EXCEPT ![c] = w]
      /\ link' = [link EXCEPT ![c] = "up"] /\ status' = [status EXCEPT ![p] = "open"]
      /\ UNCHANGED <<db, registry, work, targets, failed, inbox, outbox, shown, loaded, buffered,
                     fetches>>
  BY <1>2 DEF Open
<1>4. at'[c] = "auth" /\ \A h \in Handlers \ {c} : at'[h] = at[h]
  BY <1>3 DEF TypeOK
<1>5. host'[c] \in Workers /\ \A h \in Handlers \ {c} : host'[h] = host[h]
  BY <1>3 DEF TypeOK
<1>6. owner'[c] = p /\ \A d \in Conns \ {c} : owner'[d] = owner[d]
  BY <1>3 DEF TypeOK
<1>7. at[c] = "none" /\ inbox[c] = <<>> /\ fetch[c] = "none" /\ answer[c] = {}
  BY <1>2 DEF TypeOK, Opened
<1>8. \A w \in Workers : c \notin registry[w]
  BY <1>7 DEF NoDeadSockets
<1>9. TypeOK'
  BY <1>1, <1>3 DEF TypeOK
<1>10. Unseen' /\ Sent' /\ Seen'
  BY <1>3 DEF Unseen, Sent, Seen
<1>11. Opened'
  <2>1. ASSUME NEW d \in Conns, d > conns'
        PROVE  d > conns /\ d # c
    BY <1>1, <1>2, <2>1 DEF TypeOK
  <2>2. UNCHANGED <<inbox, fetches>>
    BY <1>3
  <2> QED
    BY <1>4, <2>1, <2>2 DEF Opened
<1>12. Homed'
  <2>1. ASSUME NEW h \in Handlers, at'[h] # "none"
        PROVE  host'[h] \in Workers
    BY <1>4, <1>5, <2>1 DEF Homed
  <2>2. ASSUME NEW w \in Workers, NEW d \in registry[w]
        PROVE  host'[d] = w
    <3>1. d \in Conns /\ d # c /\ host[d] = w
      BY <1>8, <2>2 DEF TypeOK, Homed
    <3> QED
      BY <1>5, <3>1
  <2>3. registry' = registry
    BY <1>3
  <2> QED
    BY <2>1, <2>2, <2>3 DEF Homed
<1>13. NoDeadSockets'
  BY <1>3, <1>4, <1>8 DEF TypeOK, NoDeadSockets
<1>14. Postings'
  BY <1>3, <1>4 DEF TypeOK, Postings
<1>15. OwnSockets'
  BY <1>1, <1>2, <1>3, <1>6 DEF TypeOK, OwnSockets
<1>16. Admitted'
  BY <1>3, <1>4, <1>6, <1>7 DEF TypeOK, Admitted
<1>17. Insiders'
  BY <1>1, <1>2, <1>3, <1>6, <1>8 DEF TypeOK, Insiders
<1>18. Unsent'
  BY <1>3, <1>6, <1>7 DEF TypeOK, Unsent
<1> QED
  BY <1>9, <1>10, <1>11, <1>12, <1>13, <1>14, <1>15, <1>16, <1>17, <1>18

LEMMA AuthenticateKeeps ==
  ASSUME Inv, NEW c \in Conns, Authenticate(c)
  PROVE  Inv'
<1> USE DEF Inv
<1>1. at[c] = "auth" /\ host[c] \in Workers
  BY DEF Authenticate, Homed
<1>2. UNCHANGED <<db, work, targets, failed, inbox, outbox, opening, page, fetches>>
  BY DEF Authenticate
<1>3. CASE owner[c] \in Outsiders
  <2>1. at' = [at EXCEPT ![c] = "done"] /\ registry' = registry
        /\ link' = [link EXCEPT ![c] = IF @ = "up" THEN "refused" ELSE @]
    BY <1>3 DEF Authenticate, Goto, CloseRefused
  <2>2. at'[c] = "done" /\ \A h \in Handlers \ {c} : at'[h] = at[h]
    BY <2>1 DEF TypeOK
  <2>3. TypeOK'
    BY <1>2, <2>1 DEF TypeOK
  <2>4. OwnSockets' /\ Insiders' /\ Unsent' /\ Unseen' /\ Sent' /\ Seen'
    BY <1>2, <2>1 DEF OwnSockets, Insiders, Unsent, Unseen, Sent, Seen
  <2>5. Opened' /\ Homed' /\ Postings' /\ Admitted'
    BY <1>1, <1>2, <2>1, <2>2 DEF TypeOK, Opened, Homed, Postings, Admitted
  <2>6. NoDeadSockets'
    <3>1. \A w \in Workers : c \notin registry[w]
      BY <1>1 DEF NoDeadSockets
    <3> QED
      BY <2>1, <2>2, <3>1 DEF TypeOK, NoDeadSockets
  <2> QED
    BY <2>3, <2>4, <2>5, <2>6
<1>4. CASE owner[c] \notin Outsiders
  <2>1. at' = [at EXCEPT ![c] = "registered"] /\ link' = link
        /\ registry' = [registry EXCEPT ![host[c]] = @ \cup {c}]
    BY <1>4 DEF Authenticate, Goto
  <2>2. at'[c] = "registered" /\ \A h \in Handlers \ {c} : at'[h] = at[h]
    BY <2>1 DEF TypeOK
  <2>3. \A w \in Workers : \A d \in registry'[w] : d \in registry[w] \/ (d = c /\ w = host[c])
    BY <1>1, <2>1 DEF TypeOK
  <2>4. TypeOK'
    BY <1>1, <1>2, <2>1 DEF TypeOK
  <2>5. OwnSockets' /\ Unsent' /\ Unseen' /\ Sent' /\ Seen'
    BY <1>2 DEF OwnSockets, Unsent, Unseen, Sent, Seen
  <2>6. Opened' /\ Postings' /\ Admitted'
    BY <1>1, <1>2, <1>4, <2>2 DEF TypeOK, Opened, Postings, Admitted
  <2>7. Homed'
    BY <1>1, <1>2, <2>2, <2>3 DEF Homed
  <2>8. NoDeadSockets'
    <3>1. ASSUME NEW w \in Workers, NEW d \in registry'[w]
          PROVE  at'[d] \notin {"none", "auth", "done"}
      <4>1. CASE d = c
        BY <4>1, <2>2
      <4>2. CASE d # c
        <5>1. d \in registry[w] /\ d \in Conns
          BY <2>3, <4>2 DEF TypeOK
        <5> QED
          BY <5>1, <4>2, <2>2 DEF NoDeadSockets
      <4> QED
        BY <4>1, <4>2
    <3> QED
      BY <3>1 DEF NoDeadSockets
  <2>9. Insiders'
    BY <1>2, <1>4, <2>3 DEF Insiders
  <2> QED
    BY <2>4, <2>5, <2>6, <2>7, <2>8, <2>9
<1> QED
  BY <1>3, <1>4

LEMMA AuthFailsKeeps ==
  ASSUME Inv, NEW c \in Conns, AuthFails(c)
  PROVE  Inv'
<1> USE DEF Inv, AuthFails
<1>1. TypeOK'
  BY DEF TypeOK
<1>2. OwnSockets' /\ Insiders' /\ Unsent' /\ Unseen' /\ Sent' /\ Seen'
  BY DEF OwnSockets, Insiders, Unsent, Unseen, Sent, Seen
<1>3. Opened'
  BY DEF TypeOK, Opened, NoDeadSockets, OwnSockets, Insiders
<1>4. Homed'
  BY DEF TypeOK, Homed, NoDeadSockets, Opened
<1>5. NoDeadSockets'
  BY DEF TypeOK, NoDeadSockets, Homed, Opened
<1>6. Postings'
  BY DEF TypeOK, Postings
<1>7. Admitted'
  BY DEF TypeOK, Admitted, OwnSockets, Opened, Unsent
<1> QED
  BY <1>1, <1>2, <1>3, <1>4, <1>5, <1>6, <1>7

LEMMA SendReadyKeeps ==
  ASSUME Inv, NEW c \in Conns, SendReady(c)
  PROVE  Inv'
<1> USE DEF Inv, SendReady
<1>1. owner[c] \notin Outsiders
  BY DEF Admitted
<1>2. \A d \in Conns \ {c} : inbox'[d] = inbox[d]
  BY DEF TypeOK
<1>3. TypeOK'
  <2>1. inbox' \in [Conns -> Seq({Ready} \cup Entries)]
    BY DEF TypeOK
  <2>2. at' \in [Handlers -> {"none", "auth", "registered", "receiving", "posting", "inserted",
                              "committed", "sending", "done"}]
    BY DEF TypeOK
  <2> QED
    BY <2>1, <2>2 DEF TypeOK
<1>4. OwnSockets' /\ Insiders' /\ Unseen' /\ Seen'
  BY DEF OwnSockets, Insiders, Unseen, Seen
<1>5. Opened'
  BY <1>1, <1>2 DEF TypeOK, Opened, NoDeadSockets, OwnSockets, Insiders
<1>6. Homed'
  BY <1>1, <1>2 DEF TypeOK, Homed, NoDeadSockets, Opened
<1>7. NoDeadSockets'
  BY <1>1, <1>2 DEF TypeOK, NoDeadSockets, Homed, Opened
<1>8. Postings'
  BY <1>1, <1>2 DEF TypeOK, Postings
<1>9. Admitted'
  BY <1>1, <1>2 DEF TypeOK, Admitted, OwnSockets, Opened, Unsent
<1>10. Unsent'
  BY <1>1, <1>2 DEF Unsent
<1>11. Sent'
  BY <1>1, <1>2 DEF TypeOK, Sent, Postings, Of, Listed
<1> QED
  BY <1>3, <1>4, <1>5, <1>6, <1>7, <1>8, <1>9, <1>10, <1>11

LEMMA DisconnectedKeeps ==
  ASSUME Inv, NEW c \in Conns, Disconnected(c)
  PROVE  Inv'
<1> USE DEF Inv, Disconnected
<1>1. TypeOK'
  BY DEF TypeOK
<1>2. OwnSockets' /\ Unsent' /\ Unseen' /\ Sent' /\ Seen'
  BY DEF OwnSockets, Unsent, Unseen, Sent, Seen
<1>3. Opened'
  BY DEF TypeOK, Opened, NoDeadSockets, OwnSockets, Insiders
<1>4. Homed'
  BY DEF TypeOK, Homed, NoDeadSockets, Opened
<1>5. NoDeadSockets'
  BY DEF TypeOK, NoDeadSockets, Homed, Opened
<1>6. Postings'
  BY DEF TypeOK, Postings
<1>7. Admitted'
  BY DEF TypeOK, Admitted, OwnSockets, Opened, Unsent
<1>8. Insiders'
  BY DEF TypeOK, Insiders, Opened, NoDeadSockets, Admitted
<1> QED
  BY <1>1, <1>2, <1>3, <1>4, <1>5, <1>6, <1>7, <1>8

LEMMA ReceiveMessageKeeps ==
  ASSUME Inv, NEW c \in Conns, ReceiveMessage(c)
  PROVE  Inv'
<1> USE DEF Inv, ReceiveMessage
<1>1. at[c] = "receiving"
  OBVIOUS
<1>2. at' = [at EXCEPT ![c] = IF ended THEN "receiving" ELSE "posting"]
  BY DEF Goto, TypeOK
<1>3. outbox' = [outbox EXCEPT ![c] = 0]
  OBVIOUS
<1>4. TypeOK'
  BY <1>2, <1>3 DEF TypeOK
<1>5. OwnSockets' /\ Insiders' /\ Unsent' /\ Unseen' /\ Sent' /\ Seen'
  BY DEF OwnSockets, Insiders, Unsent, Unseen, Sent, Seen
<1>6. Opened'
  BY <1>1, <1>2, <1>3 DEF TypeOK, Opened, NoDeadSockets, OwnSockets, Insiders
<1>7. Homed'
  BY <1>1, <1>2, <1>3 DEF TypeOK, Homed, NoDeadSockets, Opened
<1>8. NoDeadSockets'
  BY <1>1, <1>2, <1>3 DEF TypeOK, NoDeadSockets, Homed, Opened
<1>9. Postings'
  BY <1>1, <1>2, <1>3 DEF TypeOK, Postings
<1>10. Admitted'
  BY <1>1, <1>2, <1>3 DEF TypeOK, Admitted, OwnSockets, Opened, Unsent
<1> QED
  BY <1>4, <1>5, <1>6, <1>7, <1>8, <1>9, <1>10

LEMMA AskFactCheckKeeps ==
  ASSUME Inv, NEW a \in Askers, AskFactCheck(a)
  PROVE  Inv'
<1> USE DEF Inv, AskFactCheck
<1>1. a \in Handlers /\ a \notin Conns
  OBVIOUS
<1>2. at[a] = "none" /\ at'[a] = "posting" /\ \A h \in Handlers \ {a} : at'[h] = at[h]
  BY <1>1 DEF Goto, TypeOK
<1>3. host'[a] \in Workers /\ \A h \in Handlers \ {a} : host'[h] = host[h]
  BY <1>1 DEF TypeOK
<1>4. TypeOK'
  BY DEF TypeOK, Goto
<1>5. OwnSockets' /\ Insiders' /\ Unsent' /\ Unseen' /\ Sent' /\ Seen'
  BY DEF OwnSockets, Insiders, Unsent, Unseen, Sent, Seen
<1>6. Opened'
  BY <1>1, <1>2, <1>3 DEF TypeOK, Opened, NoDeadSockets, OwnSockets, Insiders
<1>7. Homed'
  BY <1>1, <1>2, <1>3 DEF TypeOK, Homed, NoDeadSockets, Opened
<1>8. NoDeadSockets'
  BY <1>1, <1>2, <1>3 DEF TypeOK, NoDeadSockets, Homed, Opened
<1>9. Postings'
  BY <1>1, <1>2, <1>3 DEF TypeOK, Postings
<1>10. Admitted'
  BY <1>1, <1>2, <1>3 DEF TypeOK, Admitted, OwnSockets, Opened, Unsent
<1> QED
  BY <1>4, <1>5, <1>6, <1>7, <1>8, <1>9, <1>10

LEMMA InsertKeeps ==
  ASSUME Inv, NEW h \in Handlers, Insert(h)
  PROVE  Inv'
<1> USE DEF Inv, Insert
<1>1. TypeOK'
  BY DEF TypeOK
<1>2. OwnSockets' /\ Insiders' /\ Unsent' /\ Unseen' /\ Sent' /\ Seen'
  BY DEF OwnSockets, Insiders, Unsent, Unseen, Sent, Seen
<1>3. Opened'
  BY DEF TypeOK, Opened, NoDeadSockets, OwnSockets, Insiders
<1>4. Homed'
  BY DEF TypeOK, Homed, NoDeadSockets, Opened
<1>5. NoDeadSockets'
  BY DEF TypeOK, NoDeadSockets, Homed, Opened
<1>6. Postings'
  BY DEF TypeOK, Postings
<1>7. Admitted'
  BY DEF TypeOK, Admitted, OwnSockets, Opened, Unsent
<1> QED
  BY <1>1, <1>2, <1>3, <1>4, <1>5, <1>6, <1>7

LEMMA CommitKeeps ==
  ASSUME Inv, NEW h \in Handlers, Commit(h)
  PROVE  Inv'
<1> USE DEF Inv, Commit
<1>1. work[h] \in 1..created
  BY DEF Postings
<1>2. \A c \in Conns : inbox[c] \in Seq(stored' \cup {Ready})
  BY DEF Sent
<1>3. TypeOK'
  BY <1>1 DEF TypeOK, Goto
<1>4. OwnSockets' /\ Insiders' /\ Unsent' /\ Unseen'
  BY DEF OwnSockets, Insiders, Unsent, Unseen
<1>5. Opened'
  BY <1>1, <1>2 DEF TypeOK, Opened, NoDeadSockets, OwnSockets, Insiders
<1>6. Homed'
  BY <1>1, <1>2 DEF TypeOK, Homed, NoDeadSockets, Opened
<1>7. NoDeadSockets'
  BY <1>1, <1>2 DEF TypeOK, NoDeadSockets, Homed, Opened
<1>8. Postings'
  BY <1>1, <1>2 DEF TypeOK, Postings
<1>9. Admitted'
  BY <1>1, <1>2 DEF TypeOK, Admitted, OwnSockets, Opened, Unsent
<1>10. Sent'
  BY <1>1, <1>2 DEF TypeOK, Sent, Postings, Of, Listed
<1>11. Seen'
  BY <1>1, <1>2 DEF TypeOK, Seen, Sent
<1> QED
  BY <1>3, <1>4, <1>5, <1>6, <1>7, <1>8, <1>9, <1>10, <1>11

LEMMA PostFailsKeeps ==
  ASSUME Inv, NEW h \in Handlers, PostFails(h)
  PROVE  Inv'
<1> USE DEF Inv
<1>1. /\ work' = [work EXCEPT ![h] = None] /\ at[h] \in {"posting", "inserted"}
      /\ UNCHANGED <<db, targets, failed, inbox, outbox, opening, page, fetches>>
  BY DEF PostFails
<1>2. /\ at' = [at EXCEPT ![h] = IF h \in Conns THEN "done" ELSE "none"]
      /\ h \in Conns => /\ registry' = [registry EXCEPT ![host[h]] = @ \ {h}]
                        /\ link' = [link EXCEPT ![h] = "dropped"]
      /\ h \notin Conns => UNCHANGED <<registry, link>>
  BY DEF PostFails, Goto, Unregister
<1>3. \A o \in Handlers \ {h} : at'[o] = at[o] /\ work'[o] = work[o]
  BY <1>1, <1>2 DEF TypeOK
<1>4. at'[h] = IF h \in Conns THEN "done" ELSE "none"
  BY <1>2 DEF TypeOK
<1>5. host[h] \in Workers
  BY <1>1 DEF Homed
<1>6. /\ registry' \in [Workers -> SUBSET Conns]
      /\ link' \in [Conns -> {"none", "up", "dropped", "refused"}]
      /\ \A w \in Workers : registry'[w] \subseteq registry[w] /\ h \notin registry'[w]
  <2>1. CASE h \in Conns
    <3>1. /\ registry' = [registry EXCEPT ![host[h]] = @ \ {h}]
          /\ link' = [link EXCEPT ![h] = "dropped"]
      BY <1>2, <2>1
    <3>2. /\ registry' \in [Workers -> SUBSET Conns]
          /\ link' \in [Conns -> {"none", "up", "dropped", "refused"}]
      BY <3>1, <1>5, <2>1 DEF TypeOK
    <3>3. \A w \in Workers :
            registry'[w] = IF w = host[h] THEN registry[w] \ {h} ELSE registry[w]
      BY <3>1 DEF TypeOK
    <3> QED
      BY <3>2, <3>3, <2>1 DEF Homed
  <2>2. CASE h \notin Conns
    BY <1>2, <2>2 DEF TypeOK
  <2> QED
    BY <2>1, <2>2
<1>7. TypeOK'
  BY <1>1, <1>2, <1>6 DEF TypeOK
<1>8. OwnSockets' /\ Unsent' /\ Unseen' /\ Sent' /\ Seen'
  BY <1>1 DEF OwnSockets, Unsent, Unseen, Sent, Seen
<1>9. Opened'
  BY <1>1, <1>3, <1>4 DEF TypeOK, Opened
<1>10. Homed'
  BY <1>1, <1>3, <1>4, <1>6 DEF TypeOK, Homed
<1>11. NoDeadSockets'
  BY <1>3, <1>6 DEF TypeOK, NoDeadSockets
<1>12. Postings'
  BY <1>1, <1>3, <1>4 DEF Postings
<1>13. Admitted'
  BY <1>1, <1>3, <1>4 DEF Admitted
<1>14. Insiders'
  BY <1>1, <1>6 DEF Insiders
<1> QED
  BY <1>7, <1>8, <1>9, <1>10, <1>11, <1>12, <1>13, <1>14

LEMMA StartBroadcastKeeps ==
  ASSUME Inv, NEW h \in Handlers, StartBroadcast(h)
  PROVE  Inv'
<1> USE DEF Inv, StartBroadcast
<1>1. host[h] \in Workers
  BY DEF Homed
<1>2. targets' = [targets EXCEPT ![h] = registry[host[h]]] /\ at' = [at EXCEPT ![h] = "sending"]
  BY DEF Goto
<1>3. \A c \in registry[host[h]] : c <= conns /\ owner[c] \notin Outsiders
  BY <1>1 DEF TypeOK, Insiders, NoDeadSockets, Opened
<1>4. TypeOK'
  BY <1>1, <1>2 DEF TypeOK
<1>5. OwnSockets' /\ Unsent' /\ Unseen' /\ Sent' /\ Seen'
  BY DEF OwnSockets, Unsent, Unseen, Sent, Seen
<1>6. Opened'
  BY <1>1, <1>2, <1>3 DEF TypeOK, Opened, NoDeadSockets, OwnSockets, Insiders
<1>7. Homed'
  BY <1>1, <1>2, <1>3 DEF TypeOK, Homed, NoDeadSockets, Opened
<1>8. NoDeadSockets'
  BY <1>1, <1>2, <1>3 DEF TypeOK, NoDeadSockets, Homed, Opened
<1>9. Postings'
  BY <1>1, <1>2, <1>3 DEF TypeOK, Postings
<1>10. Admitted'
  BY <1>1, <1>2, <1>3 DEF TypeOK, Admitted, OwnSockets, Opened, Unsent
<1>11. Insiders'
  BY <1>1, <1>2, <1>3 DEF TypeOK, Insiders, Opened, NoDeadSockets, Admitted
<1> QED
  BY <1>4, <1>5, <1>6, <1>7, <1>8, <1>9, <1>10, <1>11

LEMMA SendToKeeps ==
  ASSUME Inv, NEW h \in Handlers, NEW c \in Conns, SendTo(h, c)
  PROVE  Inv'
<1> USE DEF Inv
<1>1. work[h] \in stored /\ work[h] \in Entries /\ c <= conns /\ owner[c] \notin Outsiders
  BY DEF SendTo, Postings, Insiders, TypeOK
<1>2. /\ targets' = [targets EXCEPT ![h] = @ \ {c}]
      /\ inbox' = inbox \/ inbox' = [inbox EXCEPT ![c] = Append(@, work[h])]
      /\ failed' = failed \/ failed' = [failed EXCEPT ![h] = @ \cup {c}]
      /\ UNCHANGED <<db, registry, at, work, link, outbox, opening, page, fetches>>
  BY DEF SendTo
<1>3. \A d \in Conns \ {c} : inbox'[d] = inbox[d]
  BY <1>2 DEF TypeOK
<1>4. inbox'[c] = inbox[c] \/ inbox'[c] = Append(inbox[c], work[h])
  BY <1>2 DEF TypeOK
<1>5. inbox' \in [Conns -> Seq({Ready} \cup Entries)]
  <2>1. CASE inbox' = inbox
    BY <2>1 DEF TypeOK
  <2>2. CASE inbox' = [inbox EXCEPT ![c] = Append(@, work[h])]
    <3>1. Append(inbox[c], work[h]) \in Seq({Ready} \cup Entries)
      BY <1>1 DEF TypeOK
    <3> QED
      BY <2>2, <3>1 DEF TypeOK
  <2> QED
    BY <1>2, <2>1, <2>2
<1>6. failed' \in [Handlers -> SUBSET Conns] /\ targets' \in [Handlers -> SUBSET Conns]
  <2>1. CASE failed' = failed
    BY <1>2, <2>1 DEF TypeOK
  <2>2. CASE failed' = [failed EXCEPT ![h] = @ \cup {c}]
    BY <1>2, <2>2 DEF TypeOK
  <2> QED
    BY <1>2, <2>1, <2>2
<1>7. TypeOK'
  BY <1>2, <1>5, <1>6 DEF TypeOK
<1>8. /\ Homed' /\ NoDeadSockets' /\ Postings' /\ OwnSockets'
      /\ Admitted' /\ Unseen' /\ Seen'
  BY <1>2 DEF Homed, NoDeadSockets, Postings, OwnSockets, Admitted, Unseen, Seen
<1>9. Opened'
  BY <1>1, <1>2, <1>3 DEF TypeOK, Opened
<1>10. Insiders'
  BY <1>2 DEF TypeOK, Insiders
<1>11. Unsent'
  BY <1>1, <1>2, <1>3 DEF Unsent
<1>12. Sent'
  <2>1. ASSUME NEW d \in Conns
        PROVE  inbox'[d] \in Seq(stored \cup {Ready})
    <3>1. inbox[d] \in Seq(stored \cup {Ready})
      BY DEF Sent
    <3>2. CASE inbox'[d] = inbox[d]
      BY <3>1, <3>2
    <3>3. CASE d = c /\ inbox'[c] = Append(inbox[c], work[h])
      BY <1>1, <3>1, <3>3
    <3> QED
      BY <1>3, <1>4, <3>2, <3>3
  <2> QED
    BY <1>2, <2>1 DEF Sent
<1> QED
  BY <1>7, <1>8, <1>9, <1>10, <1>11, <1>12

LEMMA EndBroadcastKeeps ==
  ASSUME Inv, NEW h \in Handlers, EndBroadcast(h)
  PROVE  Inv'
<1> USE DEF Inv, EndBroadcast
<1>1. TypeOK'
  BY DEF TypeOK
<1>2. OwnSockets' /\ Unsent' /\ Unseen' /\ Sent' /\ Seen'
  BY DEF OwnSockets, Unsent, Unseen, Sent, Seen
<1>3. Opened'
  BY DEF TypeOK, Opened, NoDeadSockets, OwnSockets, Insiders
<1>4. Homed'
  BY DEF TypeOK, Homed, NoDeadSockets, Opened
<1>5. NoDeadSockets'
  BY DEF TypeOK, NoDeadSockets, Homed, Opened
<1>6. Postings'
  BY DEF TypeOK, Postings
<1>7. Admitted'
  BY DEF TypeOK, Admitted, OwnSockets, Opened, Unsent
<1>8. Insiders'
  BY DEF TypeOK, Insiders, Opened, NoDeadSockets, Admitted
<1> QED
  BY <1>1, <1>2, <1>3, <1>4, <1>5, <1>6, <1>7, <1>8

LEMMA SendKeeps ==
  ASSUME Inv, NEW p \in Pages, Send(p)
  PROVE  Inv'
<1> USE DEF Inv, Send
<1>1. TypeOK'
  BY DEF TypeOK
<1>2. /\ Opened' /\ Homed' /\ NoDeadSockets' /\ Postings' /\ OwnSockets' /\ Admitted'
      /\ Insiders' /\ Unsent' /\ Unseen' /\ Sent' /\ Seen'
  BY DEF Opened, Homed, NoDeadSockets, Postings, OwnSockets, Admitted,
     Insiders, Unsent, Unseen, Sent, Seen
<1> QED
  BY <1>1, <1>2

LEMMA HandleReadyKeeps ==
  ASSUME Inv, NEW p \in Pages, HandleReady(p)
  PROVE  Inv'
<1> USE DEF Inv, HandleReady
<1>1. PICK c \in Conns : /\ c = sock[p] /\ c <= conns /\ owner[c] = p /\ inbox[c] # <<>>
                     /\ inbox' = [inbox EXCEPT ![c] = Tail(@)]
                     /\ fetch' = [fetch EXCEPT ![c] = "reading"]
  BY DEF TypeOK, OwnSockets, Frame
<1>2. p \notin Outsiders
  BY <1>1 DEF Unsent
<1>3. \A d \in Conns \ {c} : inbox'[d] = inbox[d] /\ fetch'[d] = fetch[d]
  BY <1>1 DEF TypeOK
<1>4. inbox'[c] = Tail(inbox[c])
  BY <1>1 DEF TypeOK
<1>5. TypeOK'
  <2>1. inbox' \in [Conns -> Seq({Ready} \cup Entries)]
    BY <1>1 DEF TypeOK
  <2>2. /\ fetch' \in [Conns -> {"none", "reading", "merged", "failed"}]
        /\ loaded' \in [Pages -> BOOLEAN] /\ buffered' \in [Pages -> SUBSET Entries]
        /\ unread' \in [Conns -> SUBSET Kinds]
    BY <1>1 DEF TypeOK
  <2> QED
    BY <2>1, <2>2 DEF TypeOK
<1>6. Homed' /\ NoDeadSockets' /\ Postings' /\ OwnSockets' /\ Insiders'
  BY DEF Homed, NoDeadSockets, Postings, OwnSockets, Insiders
<1>7. Opened'
  BY <1>1, <1>2, <1>3, <1>4 DEF TypeOK, Opened, NoDeadSockets, OwnSockets, Insiders
<1>8. Admitted'
  BY <1>1, <1>2, <1>3, <1>4 DEF TypeOK, Admitted, OwnSockets, Opened, Unsent
<1>9. Unsent'
  BY <1>1, <1>2, <1>3 DEF Unsent
<1>10. Unseen'
  BY <1>1, <1>2, <1>3, <1>4 DEF TypeOK, Unseen, Admitted, Unsent, OwnSockets
<1>11. Sent'
  BY <1>1, <1>2, <1>3, <1>4 DEF TypeOK, Sent, Postings, Of, Listed
<1>12. Seen'
  BY <1>1, <1>2, <1>3, <1>4 DEF TypeOK, Seen, Sent
<1> QED
  BY <1>5, <1>6, <1>7, <1>8, <1>9, <1>10, <1>11, <1>12

LEMMA HandleEntryKeeps ==
  ASSUME Inv, NEW p \in Pages, NEW e \in Entries, HandleEntry(p, e)
  PROVE  Inv'
<1> USE DEF Inv
<1>1. PICK c \in Conns : /\ c = sock[p] /\ c <= conns /\ owner[c] = p /\ inbox[c] # <<>>
                     /\ inbox' = [inbox EXCEPT ![c] = Tail(@)] /\ e = Head(inbox[c])
  <2>1. Frame(p, e)
    BY DEF HandleEntry
  <2>2. sock[p] \in Conns /\ sock[p] <= conns /\ owner[sock[p]] = p
    BY <2>1 DEF TypeOK, OwnSockets
  <2> QED
    BY <2>1, <2>2
<1>2. UNCHANGED <<db, registry, handlers, link, outbox, opening, sock, status, loaded, fetches>>
  BY DEF HandleEntry
<1>3. p \notin Outsiders
  BY <1>1 DEF Unsent
<1>4. e \in stored
  BY <1>1 DEF Sent
<1>5. /\ shown' = shown \/ shown' = [shown EXCEPT ![p] = @ \cup {e}]
      /\ buffered' = buffered \/ buffered' = [buffered EXCEPT ![p] = @ \cup {e}]
  BY DEF HandleEntry
<1>6. /\ shown' \in [Pages -> SUBSET Entries]
      /\ \A q \in Pages : shown'[q] = shown[q] \/ (q = p /\ shown'[q] = shown[q] \cup {e})
  <2>1. CASE shown' = shown
    BY <2>1 DEF TypeOK
  <2>2. CASE shown' = [shown EXCEPT ![p] = @ \cup {e}]
    BY <2>2 DEF TypeOK
  <2> QED
    BY <1>5, <2>1, <2>2
<1>7. /\ buffered' \in [Pages -> SUBSET Entries]
      /\ \A q \in Pages :
           buffered'[q] = buffered[q] \/ (q = p /\ buffered'[q] = buffered[q] \cup {e})
  <2>1. CASE buffered' = buffered
    BY <2>1 DEF TypeOK
  <2>2. CASE buffered' = [buffered EXCEPT ![p] = @ \cup {e}]
    BY <2>2 DEF TypeOK
  <2> QED
    BY <1>5, <2>1, <2>2
<1>8. inbox'[c] = Tail(inbox[c]) /\ \A d \in Conns \ {c} : inbox'[d] = inbox[d]
  BY <1>1 DEF TypeOK
<1>9. TypeOK'
  <2>1. inbox' \in [Conns -> Seq({Ready} \cup Entries)]
    BY <1>1 DEF TypeOK
  <2> QED
    BY <1>2, <1>6, <1>7, <2>1 DEF TypeOK
<1>10. Homed' /\ NoDeadSockets' /\ Postings' /\ OwnSockets' /\ Admitted' /\ Insiders'
  BY <1>2 DEF Homed, NoDeadSockets, Postings, OwnSockets, Admitted, Insiders
<1>11. Opened'
  BY <1>1, <1>2, <1>8 DEF TypeOK, Opened
<1>12. Unsent'
  BY <1>1, <1>2, <1>3, <1>8 DEF Unsent
<1>13. Unseen'
  BY <1>3, <1>6, <1>7 DEF Unseen
<1>14. Sent'
  BY <1>1, <1>2, <1>8 DEF Sent
<1>15. Seen'
  BY <1>2, <1>4, <1>6, <1>7 DEF Seen
<1> QED
  BY <1>9, <1>10, <1>11, <1>12, <1>13, <1>14, <1>15

LEMMA ReadHistoryKeeps ==
  ASSUME Inv, NEW c \in Conns, NEW k \in Kinds, ReadHistory(c, k)
  PROVE  Inv'
<1> USE DEF Inv
<1>1. Listed(k) \subseteq stored /\ stored \subseteq Entries
  BY DEF Listed, Of, TypeOK
<1>2. /\ answer' = [answer EXCEPT ![c] = @ \cup Listed(k)] /\ unread' = [unread EXCEPT ![c] = @ \ {k}]
      /\ UNCHANGED <<db, registry, handlers, wire, opening, page, fetch>> /\ fetch[c] = "reading"
  BY DEF ReadHistory
<1>3. answer'[c] = answer[c] \cup Listed(k) /\ \A d \in Conns \ {c} : answer'[d] = answer[d]
  BY <1>2 DEF TypeOK
<1>4. answer' \in [Conns -> SUBSET Entries] /\ unread' \in [Conns -> SUBSET Kinds]
  BY <1>1, <1>2, <1>3 DEF TypeOK
<1>5. TypeOK'
  BY <1>2, <1>4 DEF TypeOK
<1>6. /\ Homed' /\ NoDeadSockets' /\ Postings' /\ OwnSockets'
      /\ Admitted' /\ Insiders' /\ Unseen' /\ Seen'
  BY <1>2 DEF Homed, NoDeadSockets, Postings, OwnSockets, Admitted, Insiders, Unseen, Seen
<1>7. Opened'
  BY <1>2, <1>3 DEF TypeOK, Opened
<1>8. Unsent'
  BY <1>2, <1>3 DEF Unsent, Admitted
<1>9. Sent'
  BY <1>1, <1>2, <1>3 DEF Sent
<1> QED
  BY <1>5, <1>6, <1>7, <1>8, <1>9

LEMMA MergeHistoryKeeps ==
  ASSUME Inv, NEW c \in Conns, MergeHistory(c)
  PROVE  Inv'
<1> USE DEF Inv, MergeHistory
<1>1. TypeOK'
  BY DEF TypeOK
<1>2. Homed' /\ NoDeadSockets' /\ Postings' /\ OwnSockets' /\ Insiders'
  BY DEF Homed, NoDeadSockets, Postings, OwnSockets, Insiders
<1>3. Opened'
  BY DEF TypeOK, Opened, NoDeadSockets, OwnSockets, Insiders
<1>4. Admitted'
  BY DEF TypeOK, Admitted, OwnSockets, Opened, Unsent
<1>5. Unsent'
  BY DEF TypeOK, Unsent, Insiders, Admitted, Opened, OwnSockets
<1>6. Unseen'
  BY DEF TypeOK, Unseen, Admitted, Unsent, OwnSockets
<1>7. Sent'
  BY DEF TypeOK, Sent, Postings, Of, Listed
<1>8. Seen'
  BY DEF TypeOK, Seen, Sent
<1> QED
  BY <1>1, <1>2, <1>3, <1>4, <1>5, <1>6, <1>7, <1>8

LEMMA HistoryFailsKeeps ==
  ASSUME Inv, NEW c \in Conns, HistoryFails(c)
  PROVE  Inv'
<1> USE DEF Inv, HistoryFails
<1>1. TypeOK'
  BY DEF TypeOK
<1>2. /\ Homed' /\ NoDeadSockets' /\ Postings' /\ OwnSockets'
      /\ Insiders' /\ Unseen' /\ Seen'
  BY DEF Homed, NoDeadSockets, Postings, OwnSockets, Insiders, Unseen, Seen
<1>3. Opened'
  BY DEF TypeOK, Opened, NoDeadSockets, OwnSockets, Insiders
<1>4. Admitted'
  BY DEF TypeOK, Admitted, OwnSockets, Opened, Unsent
<1>5. Unsent'
  BY DEF TypeOK, Unsent, Insiders, Admitted, Opened, OwnSockets
<1>6. Sent'
  BY DEF TypeOK, Sent, Postings, Of, Listed
<1> QED
  BY <1>1, <1>2, <1>3, <1>4, <1>5, <1>6

LEMMA HandleCloseKeeps ==
  ASSUME Inv, NEW p \in Pages, HandleClose(p)
  PROVE  Inv'
<1> USE DEF Inv, HandleClose
<1>1. TypeOK'
  BY DEF TypeOK
<1>2. /\ Opened' /\ Homed' /\ NoDeadSockets' /\ Postings' /\ Admitted'
      /\ Insiders' /\ Unsent' /\ Unseen' /\ Sent' /\ Seen'
  BY DEF Opened, Homed, NoDeadSockets, Postings, Admitted,
     Insiders, Unsent, Unseen, Sent, Seen
<1>3. OwnSockets'
  BY DEF TypeOK, OwnSockets
<1> QED
  BY <1>1, <1>2, <1>3

LEMMA ReloadKeeps ==
  ASSUME Inv, NEW p \in Pages, Reload(p)
  PROVE  Inv'
<1> USE DEF Inv, Reload
<1>1. TypeOK'
  BY DEF TypeOK
<1>2. Homed' /\ NoDeadSockets' /\ Postings' /\ Insiders'
  BY DEF Homed, NoDeadSockets, Postings, Insiders
<1>3. Opened'
  BY DEF TypeOK, Opened, NoDeadSockets, OwnSockets, Insiders
<1>4. OwnSockets'
  BY DEF TypeOK, OwnSockets
<1>5. Admitted'
  BY DEF TypeOK, Admitted, OwnSockets, Opened, Unsent
<1>6. Unsent'
  BY DEF TypeOK, Unsent, Insiders, Admitted, Opened, OwnSockets
<1>7. Unseen'
  BY DEF TypeOK, Unseen, Admitted, Unsent, OwnSockets
<1>8. Sent'
  BY DEF TypeOK, Sent, Postings, Of, Listed
<1>9. Seen'
  BY DEF TypeOK, Seen, Sent
<1> QED
  BY <1>1, <1>2, <1>3, <1>4, <1>5, <1>6, <1>7, <1>8, <1>9

LEMMA EndRoomKeeps ==
  ASSUME Inv, EndRoom
  PROVE  Inv'
<1> USE DEF Inv, EndRoom
<1>1. TypeOK'
  BY DEF TypeOK
<1>2. /\ Opened' /\ Homed' /\ NoDeadSockets' /\ Postings' /\ OwnSockets' /\ Admitted'
      /\ Insiders' /\ Unsent' /\ Unseen' /\ Sent' /\ Seen'
  BY DEF Opened, Homed, NoDeadSockets, Postings, OwnSockets, Admitted,
     Insiders, Unsent, Unseen, Sent, Seen
<1> QED
  BY <1>1, <1>2

LEMMA DropKeeps ==
  ASSUME Inv, NEW c \in Conns, Drop(c)
  PROVE  Inv'
<1> USE DEF Inv
<1>1. PICK n \in 0..Len(inbox[c]) : inbox' = [inbox EXCEPT ![c] = SubSeq(@, 1, n)]
  BY DEF Drop
<1>2. /\ link' = [link EXCEPT ![c] = "dropped"] /\ outbox' \in {outbox, [outbox EXCEPT ![c] = 0]}
      /\ UNCHANGED <<db, registry, handlers, opening, page, fetches>>
  BY DEF Drop
<1>3. ASSUME NEW S, inbox[c] \in Seq(S)
      PROVE  SubSeq(inbox[c], 1, n) \in Seq(S)
  BY <1>3
<1>4. inbox'[c] = SubSeq(inbox[c], 1, n) /\ \A d \in Conns \ {c} : inbox'[d] = inbox[d]
  BY <1>1 DEF TypeOK
<1>5. outbox' \in [Conns -> 0..1] /\ link' \in [Conns -> {"none", "up", "dropped", "refused"}]
  <2>1. CASE outbox' = outbox
    BY <1>2, <2>1 DEF TypeOK
  <2>2. CASE outbox' = [outbox EXCEPT ![c] = 0]
    BY <1>2, <2>2 DEF TypeOK
  <2> QED
    BY <1>2, <2>1, <2>2
<1>6. inbox' \in [Conns -> Seq({Ready} \cup Entries)]
  BY <1>1, <1>3 DEF TypeOK
<1>7. inbox[c] = <<>> => inbox'[c] = <<>>
  BY <1>4
<1>8. TypeOK'
  BY <1>2, <1>5, <1>6 DEF TypeOK
<1>9. /\ Homed' /\ NoDeadSockets' /\ Postings' /\ OwnSockets'
      /\ Admitted' /\ Insiders' /\ Unseen' /\ Seen'
  BY <1>2 DEF Homed, NoDeadSockets, Postings, OwnSockets, Admitted, Insiders, Unseen, Seen
<1>10. Opened'
  BY <1>2, <1>4, <1>7 DEF TypeOK, Opened
<1>11. Unsent'
  BY <1>2, <1>4, <1>7 DEF Unsent
<1>12. Sent'
  BY <1>2, <1>3, <1>4 DEF Sent
<1> QED
  BY <1>8, <1>9, <1>10, <1>11, <1>12

LEMMA CrashKeeps ==
  ASSUME Inv, NEW w \in Workers, Crash(w)
  PROVE  Inv'
<1> USE DEF Inv, Crash
<1>1. TypeOK'
  BY DEF TypeOK
<1>2. OwnSockets' /\ Unsent' /\ Unseen' /\ Sent' /\ Seen'
  BY DEF OwnSockets, Unsent, Unseen, Sent, Seen
<1>3. Opened'
  BY DEF TypeOK, Opened, NoDeadSockets, OwnSockets, Insiders
<1>4. Homed'
  BY DEF TypeOK, Homed, NoDeadSockets, Opened
<1>5. NoDeadSockets'
  BY DEF TypeOK, NoDeadSockets, Homed, Opened
<1>6. Postings'
  BY DEF TypeOK, Postings
<1>7. Admitted'
  BY DEF TypeOK, Admitted, OwnSockets, Opened, Unsent
<1>8. Insiders'
  BY DEF TypeOK, Insiders, Opened, NoDeadSockets, Admitted
<1> QED
  BY <1>1, <1>2, <1>3, <1>4, <1>5, <1>6, <1>7, <1>8

------------------------------------------------------------------------------

LEMMA InvInitially == Init => Inv
<1> SUFFICES ASSUME Init PROVE Inv
  OBVIOUS
<1> USE DEF Init
<1>1. TypeOK
  <2>1. inbox \in [Conns -> Seq({Ready} \cup Entries)] /\ outbox \in [Conns -> 0..1]
    OBVIOUS
  <2>2. conns \in 0..MaxConns /\ created \in 0..MaxEntries /\ stored \subseteq 1..created
    OBVIOUS
  <2>3. /\ kind \in [Entries -> Kinds] /\ registry \in [Workers -> SUBSET Conns]
        /\ targets \in [Handlers -> SUBSET Conns] /\ failed \in [Handlers -> SUBSET Conns]
    OBVIOUS
  <2>4. /\ shown \in [Pages -> SUBSET Entries] /\ buffered \in [Pages -> SUBSET Entries]
        /\ unread \in [Conns -> SUBSET Kinds] /\ answer \in [Conns -> SUBSET Entries]
    OBVIOUS
  <2> QED
    BY <2>1, <2>2, <2>3, <2>4 DEF TypeOK
<1>2. Opened /\ Homed /\ NoDeadSockets /\ Postings /\ OwnSockets /\ Admitted
  BY DEF Opened, Homed, NoDeadSockets, Postings, OwnSockets, Admitted
<1>3. Insiders /\ Unsent /\ Unseen /\ Sent /\ Seen
  BY DEF Insiders, Unsent, Unseen, Sent, Seen
<1> QED
  BY <1>1, <1>2, <1>3 DEF Inv

LEMMA InvInductive == Inv /\ [Next]_vars => Inv'
<1> SUFFICES ASSUME Inv, [Next]_vars PROVE Inv'
  OBVIOUS
<1>1. ASSUME NEW h \in Handlers, Serve(h)
      PROVE  Inv'
  BY <1>1, AuthenticateKeeps, SendReadyKeeps, DisconnectedKeeps, ReceiveMessageKeeps,
     InsertKeeps, CommitKeeps, StartBroadcastKeeps, EndBroadcastKeeps, SendToKeeps DEF Serve
<1>2. ASSUME NEW p \in Pages, Run(p)
      PROVE  Inv'
  BY <1>2, OpenKeeps, HandleReadyKeeps, HandleCloseKeeps, HandleEntryKeeps, MergeHistoryKeeps,
     ReadHistoryKeeps DEF Run
<1>3. CASE UNCHANGED vars
  <2> USE <1>3 DEF vars, db, handlers, wire, opening, page, fetches, Inv
  <2>1. TypeOK'
    BY DEF TypeOK
  <2>2. Opened' /\ Homed' /\ NoDeadSockets' /\ Postings' /\ OwnSockets' /\ Admitted'
    BY DEF Opened, Homed, NoDeadSockets, Postings, OwnSockets, Admitted
  <2>3. Insiders' /\ Unsent' /\ Unseen' /\ Sent' /\ Seen'
    BY DEF Insiders, Unsent, Unseen, Sent, Seen
  <2> QED
    BY <2>1, <2>2, <2>3
<1> QED
  BY <1>1, <1>2, <1>3, PostFailsKeeps, AuthFailsKeeps, HistoryFailsKeeps, DropKeeps,
     AskFactCheckKeeps, SendKeeps, ReloadKeeps, CrashKeeps, EndRoomKeeps DEF Next

LEMMA AlwaysInv == Spec => []Inv
BY InvInitially, InvInductive, PTL DEF Spec

(* Sockets, handlers, pages and their fetches have their types, whatever     *)
(* drops, crashes and overlaps.                                              *)
THEOREM TypeCorrect == Spec => []TypeOK
<1>1. Inv => TypeOK
  BY DEF Inv
<1> QED
  BY AlwaysInv, <1>1, PTL

(* services/chat.py and fact_check.py commit before they broadcast: what a   *)
(* page is sent, or shows, is stored.                                        *)
THEOREM AlwaysStoredFirst == Spec => []StoredFirst
<1>1. Inv => StoredFirst
  <2> SUFFICES ASSUME Inv PROVE StoredFirst
    OBVIOUS
  <2>1. \A p \in Pages : shown[p] \cup buffered[p] \subseteq stored
    BY DEF Inv, Seen
  <2>2. ASSUME NEW p \in Pages, sock[p] # None, NEW i \in DOMAIN inbox[sock[p]]
        PROVE  inbox[sock[p]][i] \in stored \cup {Ready}
    <3>1. sock[p] \in Conns
      BY <2>2 DEF Inv, TypeOK
    <3>2. inbox[sock[p]] \in Seq(stored \cup {Ready})
      BY <3>1 DEF Inv, Sent
    <3> QED
      BY <3>2, <2>2
  <2> QED
    BY <2>1, <2>2 DEF StoredFirst
<1> QED
  BY AlwaysInv, <1>1, PTL

(* api/v1/chat.py, chat_socket: a socket is registered only for a            *)
(* participant, so no frame and no history reaches anybody else.             *)
THEOREM OutsidersNeverSee == Spec => []OutsidersSeeNothing
<1>1. Inv => OutsidersSeeNothing
  BY DEF Inv, OutsidersSeeNothing, Unseen, Unsent, Insiders
<1> QED
  BY AlwaysInv, <1>1, PTL

(* websocket/registry.py: every way out of a handler discards its socket.    *)
THEOREM NoSocketOutlivesItsHandler == Spec => []NoDeadSockets
<1>1. Inv => NoDeadSockets
  BY DEF Inv
<1> QED
  BY AlwaysInv, <1>1, PTL

------------------------------------------------------------------------------
(* What a page shows, with one process and histories that return everything. *)
OneProcess == \A v, w \in Workers : v = w
WholeHistories == HistoryLimit \in Nat /\ MaxEntries <= HistoryLimit

\* Nothing is sent to a socket, or asked for because of it, before its handler
\* has registered it.
Reached ==
  \A c \in Conns : at[c] \in {"none", "auth"} =>
    inbox[c] = <<>> /\ fetch[c] = "none" /\ \A h \in Handlers : c \notin targets[h]

\* A socket that is up has a handler, and is registered once that got so far.
Registered ==
  \A c \in Conns : link[c] = "up" =>
    at[c] \notin {"none", "done"} /\ (at[c] # "auth" => c \in registry[host[c]])

\* Who could not be sent to is gone for good.
Gone == \A h \in Handlers : \A c \in failed[h] : c <= conns /\ link[c] # "up"

\* The history of its own socket is the page's last word.
Settled == \A p \in Pages : sock[p] # None /\ fetch[sock[p]] = "merged" => loaded[p]

\* An entry that will still be sent on c, or received.
OnItsWay(c, e) ==
  \/ \E i \in DOMAIN inbox[c] : inbox[c][i] = e
  \/ \E h \in Handlers :
       work[h] = e /\ (at[h] = "committed" \/ (at[h] = "sending" /\ c \in targets[h]))

\* A stored entry that a page is still to read, has there, or is to be sent.
Reading(p) ==
  fetch[sock[p]] = "reading" =>
    \A e \in stored :
      \/ kind[e] \in unread[sock[p]] \/ e \in answer[sock[p]]
      \/ e \in shown[p] \cup buffered[p]
      \/ OnItsWay(sock[p], e)

Merged(p) ==
  fetch[sock[p]] = "merged" => \A e \in stored : e \in shown[p] \/ OnItsWay(sock[p], e)

\* No entry falls between the history and the frames of a page's own socket.
Whole == \A p \in Pages : Connected(p) => Reading(p) /\ Merged(p)

\* What every socket and its page keep to; the part of Whole that is not about entries.
Lines == Reached /\ Registered /\ Gone /\ Settled

------------------------------------------------------------------------------

LEMMA LinesInitially == Init => Lines
BY DEF Init, Lines, Reached, Registered, Gone, Settled

LEMMA SendLines ==
  ASSUME Inv, Lines, NEW p \in Pages, Send(p)
  PROVE  Lines'
BY DEF Send, Lines, Reached, Registered, Gone, Settled, Inv, TypeOK

LEMMA HandleCloseLines ==
  ASSUME Inv, Lines, NEW p \in Pages, HandleClose(p)
  PROVE  Lines'
BY DEF HandleClose, Lines, Reached, Registered, Gone, Settled, Inv, TypeOK

LEMMA ReloadLines ==
  ASSUME Inv, Lines, NEW p \in Pages, Reload(p)
  PROVE  Lines'
BY DEF Reload, Lines, Reached, Registered, Gone, Settled, Inv, TypeOK

LEMMA ReadHistoryLines ==
  ASSUME Inv, Lines, NEW c \in Conns, NEW k \in Kinds, ReadHistory(c, k)
  PROVE  Lines'
BY DEF ReadHistory, Lines, Reached, Registered, Gone, Settled, Inv, TypeOK

LEMMA HistoryFailsLines ==
  ASSUME Inv, Lines, NEW c \in Conns, HistoryFails(c)
  PROVE  Lines'
<1> USE DEF HistoryFails, Lines, Inv, TypeOK
<1>1. Reached'
  BY DEF Reached
<1>2. Settled'
  BY DEF Settled
<1>3. Registered'
  BY DEF Registered
<1>4. Gone'
  BY DEF Gone
<1> QED
  BY <1>1, <1>2, <1>3, <1>4

LEMMA HandleReadyLines ==
  ASSUME Inv, Lines, NEW p \in Pages, HandleReady(p)
  PROVE  Lines'
BY DEF HandleReady, Lines, Reached, Registered, Gone, Settled, Inv, TypeOK

LEMMA HandleEntryLines ==
  ASSUME Inv, Lines, NEW p \in Pages, NEW e \in Entries, HandleEntry(p, e)
  PROVE  Lines'
BY DEF HandleEntry, Lines, Reached, Registered, Gone, Settled, Inv, TypeOK

LEMMA AuthFailsLines ==
  ASSUME Inv, Lines, NEW c \in Conns, AuthFails(c)
  PROVE  Lines'
<1> USE DEF AuthFails, Lines, Inv, TypeOK
<1>1. Reached' /\ Settled'
  BY DEF Reached, Settled
<1>2. Registered'
  BY DEF Registered
<1>3. Gone'
  BY DEF Gone
<1> QED
  BY <1>1, <1>2, <1>3

LEMMA SendReadyLines ==
  ASSUME Inv, Lines, NEW c \in Conns, SendReady(c)
  PROVE  Lines'
BY DEF SendReady, Lines, Reached, Registered, Gone, Settled, Inv, TypeOK

LEMMA DisconnectedLines ==
  ASSUME Inv, Lines, NEW c \in Conns, Disconnected(c)
  PROVE  Lines'
BY DEF Disconnected, Lines, Reached, Registered, Gone, Settled, Inv, TypeOK

LEMMA ReceiveMessageLines ==
  ASSUME Inv, Lines, NEW c \in Conns, ReceiveMessage(c)
  PROVE  Lines'
<1> USE DEF Lines, Inv
<1>1. /\ at[c] = "receiving" /\ (at' = at \/ at' = [at EXCEPT ![c] = "posting"])
      /\ UNCHANGED <<registry, targets, failed, link, inbox, opening, page, fetches>>
  BY DEF ReceiveMessage
<1>2. \A d \in Conns : at'[d] = at[d] \/ (d = c /\ at'[d] = "posting")
  BY <1>1 DEF TypeOK
<1>3. Reached' /\ Registered' /\ Gone' /\ Settled'
  BY <1>1, <1>2 DEF Reached, Registered, Gone, Settled
<1> QED
  BY <1>3

LEMMA AskFactCheckLines ==
  ASSUME Inv, Lines, NEW a \in Askers, AskFactCheck(a)
  PROVE  Lines'
BY DEF AskFactCheck, Lines, Reached, Registered, Gone, Settled, Inv, TypeOK

LEMMA InsertLines ==
  ASSUME Inv, Lines, NEW h \in Handlers, Insert(h)
  PROVE  Lines'
BY DEF Insert, Lines, Reached, Registered, Gone, Settled, Inv, TypeOK

LEMMA CommitLines ==
  ASSUME Inv, Lines, NEW h \in Handlers, Commit(h)
  PROVE  Lines'
BY DEF Commit, Lines, Reached, Registered, Gone, Settled, Inv, TypeOK

LEMMA AuthenticateLines ==
  ASSUME Inv, Lines, NEW c \in Conns, Authenticate(c)
  PROVE  Lines'
<1> USE DEF Lines, Inv
<1>1. \A d \in Conns : at'[d] = IF d # c THEN at[d]
                                ELSE IF owner[c] \in Outsiders THEN "done" ELSE "registered"
  BY DEF Authenticate, TypeOK
<1>2. \A d \in Conns : link'[d] = "up" => link[d] = "up" /\ (d = c => owner[c] \notin Outsiders)
  BY DEF Authenticate, TypeOK
<1>3. \A d \in Conns : at[d] # "none" => registry[host[d]] \subseteq registry'[host[d]]
  <2>1. registry' = registry \/ registry' = [registry EXCEPT ![host[c]] = @ \cup {c}]
    BY DEF Authenticate
  <2>2. registry \in [Workers -> SUBSET Conns] /\ \A d \in Conns : at[d] # "none" => host[d] \in Workers
    BY DEF TypeOK, Homed
  <2> HIDE DEF Inv
  <2> QED
    BY <2>1, <2>2
<1>4. at[c] = "auth" /\ (owner[c] \notin Outsiders => c \in registry'[host[c]])
  BY DEF Authenticate, TypeOK, Homed
<1>5. UNCHANGED <<targets, failed, inbox, opening, page, fetches>>
  BY DEF Authenticate
<1>6. Reached'
  BY <1>1, <1>4, <1>5 DEF Reached
<1>7. Registered'
  BY <1>1, <1>2, <1>3, <1>4, <1>5 DEF Registered
<1>8. Gone' /\ Settled'
  BY <1>2, <1>5 DEF Gone, Settled, TypeOK
<1> QED
  BY <1>6, <1>7, <1>8

LEMMA PostFailsLines ==
  ASSUME Inv, Lines, NEW h \in Handlers, PostFails(h)
  PROVE  Lines'
<1> USE DEF Lines, Inv
<1>1. \A c \in Conns : at'[c] = IF c = h THEN "done" ELSE at[c]
  BY DEF PostFails, TypeOK
<1>2. \A c \in Conns : link'[c] = "up" => c # h /\ link[c] = "up"
  BY DEF PostFails, TypeOK
<1>3. \A w \in Workers, c \in Conns \ {h} : c \in registry[w] => c \in registry'[w]
  <2>1. registry' = registry \/ registry' = [registry EXCEPT ![host[h]] = @ \ {h}]
    BY DEF PostFails
  <2>2. registry \in [Workers -> SUBSET Conns]
    BY DEF TypeOK
  <2> HIDE DEF Inv
  <2> QED
    BY <2>1, <2>2
<1>4. UNCHANGED <<targets, failed, inbox, opening, page, fetches>>
  BY DEF PostFails
<1>5. Reached'
  BY <1>1, <1>4 DEF Reached
<1>6. Registered'
  BY <1>1, <1>2, <1>3, <1>4 DEF Registered, Homed
<1>7. Gone' /\ Settled'
  BY <1>2, <1>4 DEF Gone, Settled, TypeOK
<1> QED
  BY <1>5, <1>6, <1>7

LEMMA StartBroadcastLines ==
  ASSUME Inv, Lines, NEW h \in Handlers, StartBroadcast(h)
  PROVE  Lines'
<1> USE DEF Lines, Inv
<1>1. /\ at[h] = "committed" /\ at' = [at EXCEPT ![h] = "sending"]
      /\ targets' = [targets EXCEPT ![h] = registry[host[h]]]
      /\ UNCHANGED <<registry, failed, wire, opening, page, fetches>>
  BY DEF StartBroadcast
<1>2. \A c \in registry[host[h]] : at[c] \notin {"none", "auth"}
  BY <1>1 DEF Homed, NoDeadSockets
<1>3. Reached'
  BY <1>1, <1>2 DEF Reached, TypeOK
<1>4. Registered' /\ Gone' /\ Settled'
  BY <1>1 DEF Registered, Gone, Settled, TypeOK
<1> QED
  BY <1>3, <1>4

LEMMA SendToLines ==
  ASSUME Inv, Lines, NEW h \in Handlers, NEW c \in Conns, SendTo(h, c)
  PROVE  Lines'
<1> USE DEF Lines, Inv
<1>1. c <= conns /\ c \in targets[h]
  BY DEF SendTo, Insiders
<1>2. /\ \A o \in Handlers : targets'[o] \subseteq targets[o]
      /\ \A d \in Conns \ {c} : inbox'[d] = inbox[d]
      /\ UNCHANGED <<registry, at, link, opening, page, fetches>>
  BY DEF SendTo, TypeOK
<1>3. \A o \in Handlers : \A d \in failed'[o] : d \in failed[o] \/ (d = c /\ link[c] # "up")
  <2>1. \/ failed' = failed
        \/ failed' = [failed EXCEPT ![h] = @ \cup {c}] /\ link[c] # "up"
    BY DEF SendTo
  <2>2. failed \in [Handlers -> SUBSET Conns]
    BY DEF TypeOK
  <2> QED
    BY <2>1, <2>2
<1>4. Reached'
  BY <1>1, <1>2 DEF Reached
<1>5. Registered' /\ Gone' /\ Settled'
  BY <1>1, <1>2, <1>3 DEF Registered, Gone, Settled
<1> QED
  BY <1>4, <1>5

LEMMA EndBroadcastLines ==
  ASSUME Inv, Lines, NEW h \in Handlers, EndBroadcast(h)
  PROVE  Lines'
<1> USE DEF Lines, Inv
<1>1. /\ at[h] = "sending" /\ at' = [at EXCEPT ![h] = IF h \in Conns THEN "receiving" ELSE "none"]
      /\ registry' = [registry EXCEPT ![host[h]] = @ \ failed[h]]
      /\ failed' = [failed EXCEPT ![h] = {}]
      /\ UNCHANGED <<targets, wire, opening, page, fetches>>
  BY DEF EndBroadcast
<1>2. \A c \in Conns : at'[c] = IF c = h THEN "receiving" ELSE at[c]
  BY <1>1 DEF TypeOK
<1>3. \A c \in Conns, w \in Workers :
        link[c] = "up" /\ c \in registry[w] => c \in registry'[w]
  BY <1>1 DEF TypeOK, Gone
<1>4. \A c \in Conns : at[c] # "none" => host[c] \in Workers
  BY DEF Homed
<1>5. Registered'
  BY <1>1, <1>2, <1>3, <1>4 DEF Registered
<1>6. Reached' /\ Gone' /\ Settled'
  BY <1>1, <1>2 DEF Reached, Gone, Settled, TypeOK
<1> QED
  BY <1>5, <1>6

LEMMA OpenLines ==
  ASSUME Inv, Lines, NEW p \in Pages, Open(p)
  PROVE  Lines'
<1> USE DEF Lines, Inv
<1>1. conns + 1 \in Conns /\ conns' = conns + 1
  BY DEF Open, TypeOK
<1>2. PICK c \in Conns : c = conns + 1
  BY <1>1
<1>3. /\ at' = [at EXCEPT ![c] = "auth"] /\ link' = [link EXCEPT ![c] = "up"]
      /\ sock' = [sock EXCEPT ![p] = c] /\ \E w \in Workers : host' = [host EXCEPT ![c] = w]
      /\ UNCHANGED <<registry, targets, failed, inbox, shown, loaded, fetches>>
  BY <1>2 DEF Open
<1>4. c > conns /\ inbox[c] = <<>> /\ fetch[c] = "none"
  BY <1>2 DEF Opened, TypeOK
<1>5. \A h \in Handlers : c \notin targets[h] /\ c \notin failed[h]
  <2>1. conns \in Nat /\ ~(c <= conns)
    BY <1>2, <1>4 DEF TypeOK
  <2> QED
    BY <2>1 DEF Insiders, Gone
<1>6. \A d \in Conns \ {c} : at'[d] = at[d] /\ link'[d] = link[d] /\ host'[d] = host[d]
  BY <1>3 DEF TypeOK
<1>7. at'[c] = "auth"
  BY <1>3 DEF TypeOK
<1>8. Reached'
  BY <1>3, <1>4, <1>5, <1>6 DEF Reached
<1>9. Registered'
  BY <1>3, <1>6, <1>7 DEF Registered
<1>10. Gone'
  BY <1>1, <1>3, <1>5, <1>6 DEF Gone, TypeOK
<1>11. Settled'
  <2>1. \A q \in Pages : sock'[q] = IF q = p THEN c ELSE sock[q]
    BY <1>3 DEF TypeOK
  <2> QED
    BY <1>3, <1>4, <2>1 DEF Settled
<1> QED
  BY <1>8, <1>9, <1>10, <1>11

LEMMA MergeHistoryLines ==
  ASSUME Inv, Lines, NEW c \in Conns, MergeHistory(c)
  PROVE  Lines'
<1> USE DEF Lines, Inv
<1>1. /\ loaded' = [loaded EXCEPT ![owner[c]] = TRUE] /\ fetch' = [fetch EXCEPT ![c] = "merged"]
      /\ fetch[c] = "reading" /\ UNCHANGED <<registry, handlers, wire, opening, sock>>
  BY DEF MergeHistory
<1>2. Reached' /\ Registered' /\ Gone'
  BY <1>1 DEF Reached, Registered, Gone, TypeOK
<1>3. \A p \in Pages : loaded[p] => loaded'[p]
  BY <1>1 DEF TypeOK
<1>4. \A p \in Pages : sock[p] = c => loaded'[p]
  <2>1. \A p \in Pages : sock[p] = c => owner[c] = p
    BY DEF OwnSockets
  <2> QED
    BY <1>1, <2>1 DEF TypeOK
<1>5. \A d \in Conns : fetch'[d] = "merged" => fetch[d] = "merged" \/ d = c
  BY <1>1 DEF TypeOK
<1>6. Settled'
  BY <1>1, <1>3, <1>4, <1>5 DEF Settled, TypeOK
<1> QED
  BY <1>2, <1>6

LEMMA DropLines ==
  ASSUME Inv, Lines, NEW c \in Conns, Drop(c)
  PROVE  Lines'
<1> USE DEF Lines, Inv
<1>1. /\ link[c] = "up" /\ link' = [link EXCEPT ![c] = "dropped"]
      /\ \E n \in 0..Len(inbox[c]) : inbox' = [inbox EXCEPT ![c] = SubSeq(@, 1, n)]
      /\ UNCHANGED <<registry, handlers, opening, page, fetches>>
  BY DEF Drop
<1>2. at[c] \notin {"none", "auth"} \/ inbox[c] = <<>>
  BY DEF Reached
<1>3. \A d \in Conns : inbox[d] = <<>> => inbox'[d] = <<>>
  <2>1. PICK n \in 0..Len(inbox[c]) : inbox' = [inbox EXCEPT ![c] = SubSeq(inbox[c], 1, n)]
    BY <1>1
  <2>2. inbox[c] = <<>> => SubSeq(inbox[c], 1, n) = <<>>
    BY <2>1
  <2> QED
    BY <2>1, <2>2 DEF TypeOK
<1>4. Reached'
  <2>1. UNCHANGED <<at, targets, fetch>>
    BY <1>1
  <2> QED
    BY <1>3, <2>1 DEF Reached
<1>5. Registered' /\ Gone' /\ Settled'
  BY <1>1 DEF Registered, Gone, Settled, TypeOK
<1> QED
  BY <1>4, <1>5

LEMMA CrashLines ==
  ASSUME Inv, Lines, NEW w \in Workers, Crash(w)
  PROVE  Lines'
<1> USE DEF Crash, Lines, Inv, TypeOK
<1>1. Reached'
  BY DEF Reached
<1>2. Registered'
  BY DEF Registered
<1>3. Gone'
  BY DEF Gone
<1>4. Settled'
  BY DEF Settled
<1> QED
  BY <1>1, <1>2, <1>3, <1>4

LEMMA LinesInductive == Inv /\ Lines /\ [Next]_vars => Lines'
<1> SUFFICES ASSUME Inv, Lines, [Next]_vars PROVE Lines'
  OBVIOUS
<1>1. ASSUME NEW h \in Handlers, Serve(h)
      PROVE  Lines'
  BY <1>1, AuthenticateLines, SendReadyLines, DisconnectedLines, ReceiveMessageLines, InsertLines,
     CommitLines, StartBroadcastLines, EndBroadcastLines, SendToLines DEF Serve
<1>2. ASSUME NEW p \in Pages, Run(p)
      PROVE  Lines'
  BY <1>2, OpenLines, HandleReadyLines, HandleCloseLines, HandleEntryLines, MergeHistoryLines,
     ReadHistoryLines DEF Run
<1>3. CASE EndRoom \/ UNCHANGED vars
  BY <1>3 DEF EndRoom, vars, Lines, Reached, Registered, Gone, Settled
<1> QED
  BY <1>1, <1>2, <1>3, PostFailsLines, AuthFailsLines, HistoryFailsLines, DropLines,
     AskFactCheckLines, SendLines, ReloadLines, CrashLines DEF Next

(* What is on its way to a page that stays connected stays so until it is read. *)

\* The handlers that are to send e on c go on, and its inbox loses no e.
LEMMA StaysOnItsWay ==
  ASSUME NEW c \in Conns, NEW e \in Entries, OnItsWay(c, e),
         \A i \in DOMAIN inbox[c] : inbox[c][i] = e => \E j \in DOMAIN inbox'[c] : inbox'[c][j] = e,
         \A h \in Handlers :
           work[h] = e /\ (at[h] = "committed" \/ (at[h] = "sending" /\ c \in targets[h])) =>
             \/ work'[h] = e /\ (at'[h] = "committed" \/ (at'[h] = "sending" /\ c \in targets'[h]))
             \/ \E j \in DOMAIN inbox'[c] : inbox'[c][j] = e
  PROVE  OnItsWay(c, e)'
BY DEF OnItsWay

\* A socket with a history, or with one on its way.
Listening(c) == link[c] = "up" /\ fetch[c] \in {"reading", "merged"}

\* A step that leaves every page alone, and takes no entry off its way.
Delivers ==
  /\ UNCHANGED <<page, fetches>>
  /\ \A c \in Conns : link'[c] = "up" => link[c] = "up"
  /\ \A e \in stored' : \/ e \in stored /\ kind'[e] = kind[e]
                        \/ \A c \in Conns : OnItsWay(c, e)'
  /\ \A c \in Conns, e \in stored :
       Listening(c) /\ link'[c] = "up" /\ OnItsWay(c, e) => OnItsWay(c, e)'

LEMMA DeliveryKeepsWhole ==
  ASSUME Inv, Whole, Delivers
  PROVE  Whole'
<1> SUFFICES ASSUME NEW p \in Pages, Connected(p)'
             PROVE  (Reading(p) /\ Merged(p))'
  BY DEF Whole
<1>1. UNCHANGED <<sock, shown, loaded, buffered, fetch, unread, answer>>
  BY DEF Delivers
<1>2. PICK c \in Conns : c = sock[p]
  BY <1>1 DEF Connected, Inv, TypeOK
<1>3. link'[c] = "up" /\ link[c] = "up" /\ Connected(p)
  BY <1>1, <1>2 DEF Connected, Delivers
<1>4. Reading(p) /\ Merged(p)
  BY <1>3 DEF Whole
<1>5. \A e \in stored' : \/ e \in stored /\ kind'[e] = kind[e]
                         \/ OnItsWay(c, e)'
  BY DEF Delivers
<1>6. ASSUME fetch[c] \in {"reading", "merged"}, NEW e \in stored, OnItsWay(c, e)
      PROVE  OnItsWay(c, e)'
  BY <1>3, <1>6 DEF Delivers, Listening
<1>7. \A e : OnItsWay(c, e)' => OnItsWay(sock[p], e)'
  BY <1>1, <1>2 DEF OnItsWay
<1>8. Reading(p)'
  <2> SUFFICES ASSUME fetch[c] = "reading", NEW e \in stored',
                      ~ OnItsWay(c, e)'
               PROVE  kind'[e] \in unread[c] \/ e \in answer[c] \/ e \in shown[p] \cup buffered[p]
    BY <1>1, <1>2, <1>7 DEF Reading
  <2>1. e \in stored /\ kind'[e] = kind[e]
    BY <1>5
  <2>2. ~ OnItsWay(c, e)
    BY <1>6, <2>1
  <2> QED
    BY <1>2, <1>4, <2>1, <2>2 DEF Reading
<1>9. Merged(p)'
  <2> SUFFICES ASSUME fetch[c] = "merged", NEW e \in stored', ~ OnItsWay(c, e)'
               PROVE  e \in shown[p]
    BY <1>1, <1>2, <1>7 DEF Merged
  <2>1. e \in stored
    BY <1>5
  <2>2. ~ OnItsWay(c, e)
    BY <1>6, <2>1
  <2> QED
    BY <1>2, <1>4, <2>1, <2>2 DEF Merged
<1> QED
  BY <1>8, <1>9

\* A step of a handler that is not broadcasting delivers if it only adds to inboxes.
LEMMA OthersDeliver ==
  ASSUME Inv, NEW h \in Handlers, at[h] \notin {"committed", "sending"},
         UNCHANGED <<stored, kind, targets, page, fetches>>,
         \A o \in Handlers \ {h} : at'[o] = at[o] /\ work'[o] = work[o],
         \A c \in Conns : link'[c] = "up" => link[c] = "up",
         \A c \in Conns : inbox'[c] = inbox[c] \/ inbox'[c] = Append(inbox[c], Ready)
  PROVE  Delivers
<1>1. ASSUME NEW c \in Conns, NEW e \in stored, OnItsWay(c, e)
      PROVE  OnItsWay(c, e)'
  <2>1. e \in Entries /\ inbox[c] \in Seq({Ready} \cup Entries)
    BY DEF Inv, TypeOK
  <2>2. \A i \in DOMAIN inbox[c] : i \in DOMAIN inbox'[c] /\ inbox'[c][i] = inbox[c][i]
    <3>1. CASE inbox'[c] = inbox[c]
      BY <3>1
    <3>2. CASE inbox'[c] = Append(inbox[c], Ready)
      BY <2>1, <3>2
    <3> QED
      BY <3>1, <3>2
  <2>3. \A o \in Handlers :
          work[o] = e /\ (at[o] = "committed" \/ (at[o] = "sending" /\ c \in targets[o])) =>
            work'[o] = e /\ (at'[o] = "committed" \/ (at'[o] = "sending" /\ c \in targets'[o]))
    OBVIOUS
  <2> QED
    BY <1>1, <2>1, <2>2, <2>3, StaysOnItsWay
<1> QED
  BY <1>1 DEF Delivers

LEMMA AuthenticateDelivers ==
  ASSUME Inv, NEW c \in Conns, Authenticate(c)
  PROVE  Delivers
<1>1. \A o \in Handlers \ {c} : at'[o] = at[o] /\ work'[o] = work[o]
  BY DEF Authenticate, Inv, TypeOK
<1>2. \A d \in Conns : link'[d] = "up" => link[d] = "up"
  BY DEF Authenticate, Inv, TypeOK
<1> QED
  BY <1>1, <1>2, OthersDeliver DEF Authenticate

LEMMA AuthFailsDelivers ==
  ASSUME Inv, NEW c \in Conns, AuthFails(c)
  PROVE  Delivers
<1>1. \A o \in Handlers \ {c} : at'[o] = at[o] /\ work'[o] = work[o]
  BY DEF AuthFails, Inv, TypeOK
<1>2. \A d \in Conns : link'[d] = "up" => link[d] = "up"
  BY DEF AuthFails, Inv, TypeOK
<1> QED
  BY <1>1, <1>2, OthersDeliver DEF AuthFails

LEMMA SendReadyDelivers ==
  ASSUME Inv, NEW c \in Conns, SendReady(c)
  PROVE  Delivers
<1>1. \A o \in Handlers \ {c} : at'[o] = at[o] /\ work'[o] = work[o]
  BY DEF SendReady, Inv, TypeOK
<1>2. \A d \in Conns : inbox'[d] = inbox[d] \/ inbox'[d] = Append(inbox[d], Ready)
  BY DEF SendReady, Inv, TypeOK
<1> QED
  BY <1>1, <1>2, OthersDeliver DEF SendReady

LEMMA DisconnectedDelivers ==
  ASSUME Inv, NEW c \in Conns, Disconnected(c)
  PROVE  Delivers
<1>1. \A o \in Handlers \ {c} : at'[o] = at[o] /\ work'[o] = work[o]
  BY DEF Disconnected, Inv, TypeOK
<1> QED
  BY <1>1, OthersDeliver DEF Disconnected

LEMMA ReceiveMessageDelivers ==
  ASSUME Inv, NEW c \in Conns, ReceiveMessage(c)
  PROVE  Delivers
<1>1. \A o \in Handlers \ {c} : at'[o] = at[o] /\ work'[o] = work[o]
  BY DEF ReceiveMessage, Inv, TypeOK
<1> QED
  BY <1>1, OthersDeliver DEF ReceiveMessage

LEMMA AskFactCheckDelivers ==
  ASSUME Inv, NEW a \in Askers, AskFactCheck(a)
  PROVE  Delivers
<1>1. \A o \in Handlers \ {a} : at'[o] = at[o] /\ work'[o] = work[o]
  BY DEF AskFactCheck, Inv, TypeOK
<1> QED
  BY <1>1, OthersDeliver DEF AskFactCheck

LEMMA PostFailsDelivers ==
  ASSUME Inv, NEW h \in Handlers, PostFails(h)
  PROVE  Delivers
<1>1. \A o \in Handlers \ {h} : at'[o] = at[o] /\ work'[o] = work[o]
  BY DEF PostFails, Inv, TypeOK
<1>2. \A c \in Conns : link'[c] = "up" => link[c] = "up"
  BY DEF PostFails, Inv, TypeOK
<1> QED
  BY <1>1, <1>2, OthersDeliver DEF PostFails

LEMMA SendDelivers ==
  ASSUME Inv, NEW p \in Pages, Send(p)
  PROVE  Delivers
BY DEF Send, Delivers, OnItsWay

LEMMA EndRoomDelivers == ASSUME EndRoom PROVE Delivers
BY DEF EndRoom, Delivers, OnItsWay

\* The new entry gets a number that no stored one has.
LEMMA InsertDelivers ==
  ASSUME Inv, NEW h \in Handlers, Insert(h)
  PROVE  Delivers
<1>1. /\ at[h] = "posting" /\ at' = [at EXCEPT ![h] = "inserted"]
      /\ work' = [work EXCEPT ![h] = created + 1]
      /\ UNCHANGED <<stored, targets, wire, page, fetches>>
  BY DEF Insert
<1>2. \A e \in stored : kind'[e] = kind[e]
  BY DEF Insert, Inv, TypeOK
<1>3. \A o \in Handlers \ {h} : at'[o] = at[o] /\ work'[o] = work[o]
  BY <1>1 DEF Inv, TypeOK
<1>4. \A c, e : OnItsWay(c, e) => OnItsWay(c, e)'
  BY <1>1, <1>3 DEF OnItsWay
<1> QED
  BY <1>1, <1>2, <1>4 DEF Delivers

\* What is committed is on its way to everyone.
LEMMA CommitDelivers ==
  ASSUME Inv, NEW h \in Handlers, Commit(h)
  PROVE  Delivers
<1>1. /\ at[h] = "inserted" /\ at' = [at EXCEPT ![h] = "committed"]
      /\ stored' = stored \cup {work[h]}
      /\ UNCHANGED <<kind, work, targets, wire, page, fetches>>
  BY DEF Commit
<1>2. \A o \in Handlers : at'[o] = IF o = h THEN "committed" ELSE at[o]
  BY <1>1 DEF Inv, TypeOK
<1>3. \A c, e : OnItsWay(c, e) => OnItsWay(c, e)'
  BY <1>1, <1>2 DEF OnItsWay
<1>4. \A c : OnItsWay(c, work[h])'
  BY <1>1, <1>2 DEF OnItsWay
<1> QED
  BY <1>1, <1>3, <1>4 DEF Delivers

\* All sockets are registered in the one process.
LEMMA StartBroadcastDelivers ==
  ASSUME OneProcess, Inv, Lines, NEW h \in Handlers, StartBroadcast(h)
  PROVE  Delivers
<1>1. /\ at[h] = "committed" /\ at' = [at EXCEPT ![h] = "sending"]
      /\ targets' = [targets EXCEPT ![h] = registry[host[h]]]
      /\ UNCHANGED <<stored, kind, work, wire, page, fetches>>
  BY DEF StartBroadcast
<1>2. ASSUME NEW c \in Conns, NEW e \in stored, Listening(c), OnItsWay(c, e)
      PROVE  OnItsWay(c, e)'
  <2>1. e \in Entries
    BY DEF Inv, TypeOK
  <2>2. at[c] \notin {"none", "auth"}
    BY <1>2 DEF Listening, Lines, Reached
  <2>3. c \in registry[host[c]] /\ host[c] \in Workers
    BY <1>2, <2>2 DEF Listening, Lines, Registered, Inv, Homed
  <2>4. host[h] = host[c]
    BY <1>1, <2>3 DEF OneProcess, Inv, Homed
  <2>5. \A o \in Handlers : /\ at'[o] = IF o = h THEN "sending" ELSE at[o]
                            /\ targets'[o] = IF o = h THEN registry[host[h]] ELSE targets[o]
    BY <1>1 DEF Inv, TypeOK
  <2> QED
    BY <1>1, <1>2, <2>3, <2>4, <2>5 DEF OnItsWay
<1> QED
  BY <1>1, <1>2 DEF Delivers

\* A socket that is up is sent what its turn brings.
LEMMA SendToDelivers ==
  ASSUME Inv, NEW h \in Handlers, NEW d \in Conns, SendTo(h, d)
  PROVE  Delivers
<1>1. /\ at[h] = "sending" /\ d \in targets[h]
      /\ targets' = [targets EXCEPT ![h] = @ \ {d}]
      /\ UNCHANGED <<stored, kind, at, work, link, page, fetches>>
  BY DEF SendTo
<1>2. \/ link[d] = "up" /\ inbox' = [inbox EXCEPT ![d] = Append(@, work[h])]
      \/ link[d] # "up" /\ inbox' = inbox
  BY DEF SendTo
<1>3. ASSUME NEW c \in Conns, NEW e \in stored, Listening(c), OnItsWay(c, e)
      PROVE  OnItsWay(c, e)'
  <2>1. e \in Entries /\ inbox[c] \in Seq({Ready} \cup Entries) /\ work[h] \in Entries
    BY <1>1 DEF Inv, TypeOK, Postings
  <2>2. inbox'[c] = IF c = d THEN Append(inbox[c], work[h]) ELSE inbox[c]
    <3>1. inbox \in [Conns -> Seq({Ready} \cup Entries)] /\ link[c] = "up"
      BY <1>3 DEF Listening, Inv, TypeOK
    <3> QED
      BY <1>2, <3>1
  <2>3. \A i \in DOMAIN inbox[c] : i \in DOMAIN inbox'[c] /\ inbox'[c][i] = inbox[c][i]
    BY <2>1, <2>2
  <2>4. c = d => \E j \in DOMAIN inbox'[c] : inbox'[c][j] = work[h]
    <3> SUFFICES ASSUME c = d PROVE \E j \in DOMAIN inbox'[c] : inbox'[c][j] = work[h]
      OBVIOUS
    <3>1. Len(inbox[c]) + 1 \in DOMAIN inbox'[c] /\ inbox'[c][Len(inbox[c]) + 1] = work[h]
      BY <2>1, <2>2
    <3> QED
      BY <3>1
  <2>5. \A o \in Handlers : targets'[o] = IF o = h THEN targets[o] \ {d} ELSE targets[o]
    BY <1>1 DEF Inv, TypeOK
  <2> QED
    BY <1>1, <1>3, <2>1, <2>3, <2>4, <2>5, StaysOnItsWay
<1> QED
  BY <1>1, <1>3 DEF Delivers

LEMMA EndBroadcastDelivers ==
  ASSUME Inv, NEW h \in Handlers, EndBroadcast(h)
  PROVE  Delivers
<1>1. /\ at[h] = "sending" /\ targets[h] = {}
      /\ UNCHANGED <<stored, kind, targets, wire, page, fetches>>
  BY DEF EndBroadcast
<1>2. \A o \in Handlers \ {h} : at'[o] = at[o] /\ work'[o] = work[o]
  BY DEF EndBroadcast, Inv, TypeOK
<1>3. \A c, e : OnItsWay(c, e) => OnItsWay(c, e)'
  BY <1>1, <1>2 DEF OnItsWay
<1> QED
  BY <1>1, <1>3 DEF Delivers

LEMMA DropDelivers ==
  ASSUME Inv, NEW d \in Conns, Drop(d)
  PROVE  Delivers
<1>1. /\ link[d] = "up" /\ link' = [link EXCEPT ![d] = "dropped"]
      /\ \E n \in 0..Len(inbox[d]) : inbox' = [inbox EXCEPT ![d] = SubSeq(@, 1, n)]
      /\ UNCHANGED <<db, handlers, page, fetches>>
  BY DEF Drop
<1>2. \A c \in Conns : link'[c] = "up" => c # d /\ link[c] = "up"
  BY <1>1 DEF Inv, TypeOK
<1>3. \A c \in Conns \ {d} : inbox'[c] = inbox[c]
  BY <1>1 DEF Inv, TypeOK
<1>4. \A c \in Conns \ {d} : \A e : OnItsWay(c, e) => OnItsWay(c, e)'
  BY <1>1, <1>3 DEF OnItsWay
<1> QED
  BY <1>1, <1>2, <1>4 DEF Delivers

\* No socket survives its process, and there is but one.
LEMMA CrashDelivers ==
  ASSUME OneProcess, Inv, Lines, NEW w \in Workers, Crash(w)
  PROVE  Delivers
<1>1. UNCHANGED <<stored, kind, page, fetches>>
  BY DEF Crash
<1>2. ASSUME NEW c \in Conns, link'[c] = "up"
      PROVE  link[c] = "up" /\ (host[c] # w \/ at[c] = "none")
  BY <1>2 DEF Crash, Inv, TypeOK
<1>3. \A c \in Conns : link[c] = "up" => host[c] = w /\ at[c] # "none"
  BY DEF Lines, Registered, Inv, Homed, OneProcess
<1> QED
  BY <1>1, <1>2, <1>3 DEF Delivers

LEMMA ServeDelivers ==
  ASSUME OneProcess, Inv, Lines, NEW h \in Handlers, Serve(h)
  PROVE  Delivers
BY AuthenticateDelivers, SendReadyDelivers, DisconnectedDelivers, ReceiveMessageDelivers,
   InsertDelivers, CommitDelivers, StartBroadcastDelivers, EndBroadcastDelivers, SendToDelivers
   DEF Serve

\* A history that has room for every entry lists them all.
LEMMA ListedIsAll ==
  ASSUME WholeHistories, Inv, NEW k \in Kinds
  PROVE  Of(k) \subseteq Listed(k)
<1> SUFFICES ASSUME NEW e \in Of(k), k # "verdict"
             PROVE  Cardinality({o \in Of(k) : o <= e}) <= HistoryLimit
  BY DEF Listed
<1> DEFINE before == {o \in Of(k) : o <= e}
<1>1. before \subseteq 1..MaxEntries
  <2>1. stored \subseteq 1..MaxEntries
    BY DEF Inv, TypeOK
  <2> QED
    BY <2>1 DEF Of
<1>2. IsFiniteSet(1..MaxEntries) /\ Cardinality(1..MaxEntries) = MaxEntries
  BY FS_Interval
<1>3. Cardinality(before) <= MaxEntries /\ Cardinality(before) \in Nat
  BY <1>1, <1>2, FS_Subset, FS_CardinalityType
<1> QED
  BY <1>3 DEF WholeHistories

\* Page p is left alone, and so is what is on its way to it.
Alone(p) ==
  /\ sock'[p] = sock[p] /\ shown'[p] = shown[p] /\ buffered'[p] = buffered[p]
  /\ UNCHANGED <<stored, kind, work, targets>>
  /\ \A h \in Handlers : at[h] \in {"committed", "sending"} => at'[h] = at[h]
  /\ sock[p] # None =>
       /\ link'[sock[p]] = "up" => link[sock[p]] = "up"
       /\ inbox'[sock[p]] = inbox[sock[p]] /\ fetch'[sock[p]] = fetch[sock[p]]
       /\ unread'[sock[p]] = unread[sock[p]] /\ answer'[sock[p]] = answer[sock[p]]

LEMMA AloneKeepsWhole ==
  ASSUME Whole, NEW p \in Pages, Alone(p), Connected(p)'
  PROVE  (Reading(p) /\ Merged(p))'
<1>1. Connected(p)
  BY DEF Alone, Connected
<1>2. Reading(p) /\ Merged(p)
  BY <1>1 DEF Whole
<1>3. \A e : OnItsWay(sock[p], e) => OnItsWay(sock[p], e)'
  BY <1>1 DEF Alone, OnItsWay, Connected
<1> QED
  BY <1>1, <1>2, <1>3 DEF Alone, Connected, Reading, Merged

LEMMA OpenWhole ==
  ASSUME Inv, Lines, Whole, NEW q \in Pages, Open(q)
  PROVE  Whole'
<1> SUFFICES ASSUME NEW p \in Pages, Connected(p)'
             PROVE  (Reading(p) /\ Merged(p))'
  BY DEF Whole
<1>1. conns + 1 \in Conns
  BY DEF Open, Inv, TypeOK
<1>2. PICK c \in Conns : c = conns + 1
  BY <1>1
<1>3. at[c] = "none" /\ fetch[c] = "none"
  BY <1>2 DEF Inv, Opened, TypeOK
<1>4. /\ at' = [at EXCEPT ![c] = "auth"] /\ link' = [link EXCEPT ![c] = "up"]
      /\ sock' = [sock EXCEPT ![q] = c]
      /\ UNCHANGED <<db, work, targets, inbox, shown, buffered, fetches>>
  BY <1>2 DEF Open
<1>5. CASE p = q
  BY <1>3, <1>4, <1>5 DEF Reading, Merged, Inv, TypeOK
<1>6. CASE p # q
  <2>1. sock[p] # c
    <3>1. sock[p] # None => sock[p] <= conns
      BY DEF Inv, OwnSockets
    <3>2. conns \in Nat /\ c # None
      BY DEF Inv, TypeOK
    <3> QED
      BY <1>2, <3>1, <3>2
  <2>2. Alone(p)
    BY <1>3, <1>4, <1>6, <2>1 DEF Alone, Inv, TypeOK
  <2> QED
    BY <2>2, AloneKeepsWhole
<1> QED
  BY <1>5, <1>6

LEMMA HandleReadyWhole ==
  ASSUME Inv, Lines, Whole, NEW q \in Pages, HandleReady(q)
  PROVE  Whole'
<1> SUFFICES ASSUME NEW p \in Pages, Connected(p)'
             PROVE  (Reading(p) /\ Merged(p))'
  BY DEF Whole
<1>1. /\ inbox' = [inbox EXCEPT ![sock[q]] = Tail(@)]
      /\ buffered' = [buffered EXCEPT ![q] = {}]
      /\ fetch' = [fetch EXCEPT ![sock[q]] = "reading"]
      /\ unread' = [unread EXCEPT ![sock[q]] = Kinds]
      /\ sock[q] \in Conns
      /\ UNCHANGED <<db, handlers, link, sock, shown, answer>>
  BY DEF HandleReady, Inv, TypeOK
<1>2. CASE p = q
  BY <1>1, <1>2 DEF Reading, Merged, Inv, TypeOK
<1>3. CASE p # q
  <2>1. sock[p] # sock[q]
    BY <1>1, <1>3 DEF Inv, OwnSockets
  <2>2. Alone(p)
    BY <1>1, <1>3, <2>1 DEF Alone, Inv, TypeOK
  <2> QED
    BY <2>2, AloneKeepsWhole
<1> QED
  BY <1>2, <1>3

LEMMA HandleEntryWhole ==
  ASSUME Inv, Lines, Whole, NEW q \in Pages, NEW f \in Entries, HandleEntry(q, f)
  PROVE  Whole'
<1> SUFFICES ASSUME NEW p \in Pages, Connected(p)'
             PROVE  (Reading(p) /\ Merged(p))'
  BY DEF Whole
<1>1. /\ inbox' = [inbox EXCEPT ![sock[q]] = Tail(@)]
      /\ inbox[sock[q]] # <<>> /\ Head(inbox[sock[q]]) = f
      /\ UNCHANGED <<db, handlers, link, sock, loaded, fetches>>
  BY DEF HandleEntry
<1>2. PICK c \in Conns : c = sock[q]
  BY DEF HandleEntry, Inv, TypeOK
<1>3. IF loaded[q] THEN shown' = [shown EXCEPT ![q] = @ \cup {f}] /\ UNCHANGED buffered
                   ELSE buffered' = [buffered EXCEPT ![q] = @ \cup {f}] /\ UNCHANGED shown
  BY DEF HandleEntry
<1>4. CASE p = q
  <2>1. Connected(p) /\ Reading(p) /\ Merged(p)
    BY <1>1 DEF Connected, Whole
  <2>2. ASSUME NEW e, OnItsWay(c, e), e # f
        PROVE  OnItsWay(c, e)'
    <3>1. CASE \E i \in DOMAIN inbox[c] : inbox[c][i] = e
      <4>1. inbox[c] \in Seq({Ready} \cup Entries) /\ inbox'[c] = Tail(inbox[c])
        BY <1>1, <1>2 DEF Inv, TypeOK
      <4>2. PICK i \in 1..Len(inbox[c]) : inbox[c][i] = e
        BY <3>1, <4>1
      <4>3. i # 1
        BY <1>1, <1>2, <2>2, <4>1, <4>2
      <4>4. i - 1 \in DOMAIN inbox'[c] /\ inbox'[c][i - 1] = e
        BY <4>1, <4>2, <4>3
      <4> QED
        BY <4>4 DEF OnItsWay
    <3>2. CASE ~ \E i \in DOMAIN inbox[c] : inbox[c][i] = e
      BY <1>1, <2>2, <3>2 DEF OnItsWay
    <3> QED
      BY <3>1, <3>2
  <2>3. /\ shown[p] \subseteq shown'[p] /\ buffered[p] \subseteq buffered'[p]
        /\ f \in shown'[p] \cup buffered'[p] /\ (loaded[p] => f \in shown'[p])
    BY <1>3, <1>4 DEF Inv, TypeOK
  <2>4. fetch[c] = "merged" => loaded[p]
    BY <1>2, <1>4 DEF Lines, Settled
  <2>5. \A e : OnItsWay(c, e)' => OnItsWay(sock[p], e)'
    BY <1>1, <1>2, <1>4 DEF OnItsWay
  <2> QED
    BY <1>1, <1>2, <1>4, <2>1, <2>2, <2>3, <2>4, <2>5 DEF Reading, Merged
<1>5. CASE p # q
  <2>1. sock'[p] # None => sock[p] # c
    BY <1>1, <1>2, <1>5 DEF Inv, OwnSockets
  <2>2. Alone(p)
    BY <1>1, <1>2, <1>3, <1>5, <2>1 DEF Alone, Inv, TypeOK
  <2> QED
    BY <2>2, AloneKeepsWhole
<1> QED
  BY <1>4, <1>5

LEMMA HandleCloseWhole ==
  ASSUME Inv, Lines, Whole, NEW q \in Pages, HandleClose(q)
  PROVE  Whole'
<1> SUFFICES ASSUME NEW p \in Pages, Connected(p)'
             PROVE  (Reading(p) /\ Merged(p))'
  BY DEF Whole
<1>1. p # q
  BY DEF HandleClose, Connected, Inv, TypeOK
<1>2. Alone(p)
  BY <1>1 DEF HandleClose, Alone, Inv, TypeOK
<1> QED
  BY <1>2, AloneKeepsWhole

LEMMA ReloadWhole ==
  ASSUME Inv, Lines, Whole, NEW q \in Pages, Reload(q)
  PROVE  Whole'
<1> SUFFICES ASSUME NEW p \in Pages, Connected(p)'
             PROVE  (Reading(p) /\ Merged(p))'
  BY DEF Whole
<1>1. p # q /\ sock'[p] = sock[p] /\ sock[p] \in Conns
  BY DEF Reload, Connected, Inv, TypeOK
<1>2. owner[sock[p]] = p /\ sock[p] # sock[q]
  BY <1>1 DEF Inv, OwnSockets, Reload
<1>3. Alone(p)
  BY <1>1, <1>2 DEF Reload, Alone, Inv, TypeOK
<1> QED
  BY <1>3, AloneKeepsWhole

LEMMA ReadHistoryWhole ==
  ASSUME WholeHistories, Inv, Lines, Whole, NEW c \in Conns, NEW k \in Kinds, ReadHistory(c, k)
  PROVE  Whole'
<1> SUFFICES ASSUME NEW p \in Pages, Connected(p)'
             PROVE  (Reading(p) /\ Merged(p))'
  BY DEF Whole
<1>1. /\ unread' = [unread EXCEPT ![c] = @ \ {k}]
      /\ answer' = [answer EXCEPT ![c] = @ \cup Listed(k)]
      /\ fetch[c] = "reading"
      /\ UNCHANGED <<db, handlers, wire, page, fetch>>
  BY DEF ReadHistory
<1>2. CASE sock[p] = c
  <2>1. Connected(p) /\ Reading(p)
    BY <1>1 DEF Connected, Whole
  <2>2. unread'[c] = unread[c] \ {k} /\ answer'[c] = answer[c] \cup Listed(k)
    BY <1>1 DEF Inv, TypeOK
  <2>3. \A e \in stored : kind[e] = k => e \in answer'[c]
    BY <2>2, ListedIsAll DEF Of
  <2>4. \A e : OnItsWay(c, e) => OnItsWay(sock[p], e)'
    BY <1>1, <1>2 DEF OnItsWay
  <2> QED
    BY <1>1, <1>2, <2>1, <2>2, <2>3, <2>4 DEF Reading, Merged
<1>3. CASE sock[p] # c
  <2>1. Alone(p)
    BY <1>1, <1>3 DEF Alone, Inv, TypeOK
  <2> QED
    BY <2>1, AloneKeepsWhole
<1> QED
  BY <1>2, <1>3

\* Merging loses nothing of what was buffered, whichever socket asked.
LEMMA MergeHistoryWhole ==
  ASSUME Inv, Lines, Whole, NEW c \in Conns, MergeHistory(c)
  PROVE  Whole'
<1> SUFFICES ASSUME NEW p \in Pages, Connected(p)'
             PROVE  (Reading(p) /\ Merged(p))'
  BY DEF Whole
<1>1. /\ shown' = [shown EXCEPT ![owner[c]] = @ \cup answer[c] \cup buffered[owner[c]]]
      /\ buffered' = [buffered EXCEPT ![owner[c]] = {}]
      /\ fetch' = [fetch EXCEPT ![c] = "merged"]
      /\ answer' = [answer EXCEPT ![c] = {}]
      /\ fetch[c] = "reading" /\ unread[c] = {}
      /\ UNCHANGED <<db, handlers, wire, sock, unread>>
  BY DEF MergeHistory
<1>2. Connected(p) /\ Reading(p) /\ Merged(p) /\ sock[p] \in Conns
  BY <1>1 DEF Connected, Whole, Inv, TypeOK
<1>3. \A e : OnItsWay(sock[p], e) => OnItsWay(sock[p], e)'
  BY <1>1 DEF OnItsWay
<1>4. CASE sock[p] = c
  <2>1. owner[c] = p
    BY <1>2, <1>4 DEF Inv, OwnSockets, Connected
  <2>2. shown'[p] = shown[p] \cup answer[c] \cup buffered[p] /\ fetch'[c] = "merged"
    BY <1>1, <2>1 DEF Inv, TypeOK
  <2>3. \A e \in stored : e \in answer[c] \cup shown[p] \cup buffered[p] \/ OnItsWay(c, e)
    BY <1>1, <1>2, <1>4 DEF Reading
  <2> QED
    BY <1>1, <1>3, <1>4, <2>2, <2>3 DEF Reading, Merged
<1>5. CASE sock[p] # c
  <2>1. /\ shown[p] \subseteq shown'[p]
        /\ shown[p] \cup buffered[p] \subseteq shown'[p] \cup buffered'[p]
    BY <1>1 DEF Inv, TypeOK
  <2>2. fetch'[sock[p]] = fetch[sock[p]] /\ answer'[sock[p]] = answer[sock[p]]
    BY <1>1, <1>2, <1>5 DEF Inv, TypeOK
  <2> QED
    BY <1>1, <1>2, <1>3, <2>1, <2>2 DEF Reading, Merged
<1> QED
  BY <1>4, <1>5

LEMMA HistoryFailsWhole ==
  ASSUME Inv, Lines, Whole, NEW c \in Conns, HistoryFails(c)
  PROVE  Whole'
<1> SUFFICES ASSUME NEW p \in Pages, Connected(p)'
             PROVE  (Reading(p) /\ Merged(p))'
  BY DEF Whole
<1>1. CASE sock[p] = c
  BY <1>1 DEF HistoryFails, Reading, Merged, Inv, TypeOK
<1>2. CASE sock[p] # c
  <2>1. Alone(p)
    BY <1>2 DEF HistoryFails, Alone, Inv, TypeOK
  <2> QED
    BY <2>1, AloneKeepsWhole
<1> QED
  BY <1>1, <1>2

LEMMA WholeInductive ==
  ASSUME OneProcess, WholeHistories, Inv, Lines, Whole, [Next]_vars
  PROVE  Whole'
<1>1. ASSUME NEW h \in Handlers, Serve(h)
      PROVE  Whole'
  BY <1>1, ServeDelivers, DeliveryKeepsWhole
<1>2. ASSUME NEW p \in Pages, Run(p)
      PROVE  Whole'
  BY <1>2, OpenWhole, HandleReadyWhole, HandleCloseWhole, HandleEntryWhole, MergeHistoryWhole,
     ReadHistoryWhole DEF Run
<1>3. CASE UNCHANGED vars
  BY <1>3 DEF vars, Whole, Reading, Merged, OnItsWay, Connected
<1>4. CASE \/ \E h \in Handlers : PostFails(h)
           \/ \E c \in Conns : AuthFails(c) \/ Drop(c)
           \/ \E a \in Askers : AskFactCheck(a)
           \/ \E p \in Pages : Send(p)
           \/ \E w \in Workers : Crash(w)
           \/ EndRoom
  BY <1>4, PostFailsDelivers, AuthFailsDelivers, DropDelivers, AskFactCheckDelivers,
     SendDelivers, CrashDelivers, EndRoomDelivers, DeliveryKeepsWhole
<1>5. CASE \/ \E c \in Conns : HistoryFails(c)
           \/ \E p \in Pages : Reload(p)
  BY <1>5, HistoryFailsWhole, ReloadWhole
<1> QED
  BY <1>1, <1>2, <1>3, <1>4, <1>5 DEF Next

\* With one process, and histories that return every message, a page that has
\* merged its socket's history shows all that is stored but what is on its way:
\* registering before "ready" and buffering until the history is there
\* (chat_socket, use-debate-chat.ts) leave no gap, whatever dropped or failed.
THEOREM TranscriptsComplete ==
  ASSUME OneProcess, WholeHistories
  PROVE  Spec => []TranscriptComplete
<1>1. Init => Lines /\ Whole
  BY LinesInitially DEF Init, Whole, Connected
<1>2. Inv /\ Lines /\ Whole /\ [Next]_vars => (Lines /\ Whole)'
  BY LinesInductive, WholeInductive
<1>3. Inv /\ Whole => TranscriptComplete
  <2>1. TypeOK => stored \subseteq Entries
    BY DEF TypeOK
  <2> QED
    BY <2>1 DEF Whole, Merged, OnItsWay, TranscriptComplete, Coming, Inv
<1> QED
  BY <1>1, <1>2, <1>3, AlwaysInv, PTL DEF Spec
------------------------------------------------------------------------------
(* The claims that runs refute, and what would make them true.               *)

\* No socket of a page's waits on a history that failed.
NoneFailed == \A p \in Pages : sock[p] # None => fetch[sock[p]] # "failed"

LEMMA NoneFailedInductive ==
  ASSUME "history" \notin Faults, Inv, NoneFailed, [Next]_vars
  PROVE  NoneFailed'
<1>1. ASSUME NEW p \in Pages, Open(p)
      PROVE  NoneFailed'
  <2>1. /\ conns + 1 \in Conns /\ fetch' = fetch /\ fetch[conns + 1] = "none"
        /\ sock' = [sock EXCEPT ![p] = conns + 1]
    BY <1>1 DEF Open, Inv, Opened, TypeOK
  <2> QED
    BY <2>1 DEF NoneFailed, Inv, TypeOK
<1>2. ASSUME NEW p \in Pages, Reload(p)
      PROVE  NoneFailed'
  <2>1. ASSUME NEW q \in Pages, sock'[q] # None
        PROVE  fetch'[sock'[q]] # "failed"
    <3>1. q # p /\ sock'[q] = sock[q]
      BY <1>2, <2>1 DEF Reload, Inv, TypeOK
    <3>2. sock[q] \in Conns /\ owner[sock[q]] # p
      BY <2>1, <3>1 DEF Inv, TypeOK, OwnSockets
    <3>3. fetch'[sock[q]] = fetch[sock[q]]
      BY <1>2, <3>2 DEF Reload
    <3> QED
      BY <2>1, <3>1, <3>3 DEF NoneFailed
  <2> QED
    BY <2>1 DEF NoneFailed
<1>3. ASSUME NEW p \in Pages, HandleReady(p) \/ HandleClose(p)
      PROVE  NoneFailed'
  <2>1. CASE HandleClose(p)
    BY <2>1 DEF HandleClose, NoneFailed, Inv, TypeOK
  <2>2. CASE HandleReady(p)
    <3>1. sock[p] \in Conns /\ sock' = sock /\ fetch' = [fetch EXCEPT ![sock[p]] = "reading"]
      BY <2>2 DEF HandleReady, Inv, TypeOK
    <3> QED
      BY <3>1 DEF NoneFailed, Inv, TypeOK
  <2> QED
    BY <1>3, <2>1, <2>2
<1>4. ASSUME NEW c \in Conns, MergeHistory(c)
      PROVE  NoneFailed'
  BY <1>4 DEF MergeHistory, NoneFailed, Inv, TypeOK
<1>5. CASE UNCHANGED <<sock, fetch>>
  BY <1>5 DEF NoneFailed
<1>6. \/ UNCHANGED <<sock, fetch>>
      \/ \E p \in Pages : Open(p) \/ Reload(p) \/ HandleReady(p) \/ HandleClose(p)
      \/ \E c \in Conns : MergeHistory(c)
  BY DEF Next, vars, Serve, Run, Authenticate, SendReady, Disconnected, ReceiveMessage, Insert,
         Commit, StartBroadcast, EndBroadcast, SendTo, PostFails, AuthFails, HistoryFails, Drop,
         AskFactCheck, HandleEntry, ReadHistory, Send, Crash, EndRoom
<1> QED
  BY <1>1, <1>2, <1>3, <1>4, <1>5, <1>6

\* use-debate-chat.ts promises no transcript with a hole in it.  Late answers
\* and reconnections leave none by themselves: where there is one, which
\* MCChatHole.cfg finds, a history request has failed.
THEOREM HolesNeedFailures ==
  ASSUME OneProcess, WholeHistories, "history" \notin Faults
  PROVE  Spec => []NoHole
<1>1. Init => NoneFailed
  BY DEF Init, NoneFailed
<1>2. Inv /\ NoneFailed /\ TranscriptComplete => NoHole
  <2> SUFFICES ASSUME Inv, NoneFailed, TranscriptComplete,
                      NEW p \in Pages, Connected(p), fetch[sock[p]] # "none",
                      \A c \in Conns : owner[c] = p => fetch[c] # "reading",
                      NEW e \in stored \ Coming(p)
               PROVE  e \in shown[p]
    BY DEF NoHole
  <2>1. sock[p] \in Conns /\ owner[sock[p]] = p /\ fetch[sock[p]] # "failed"
    BY DEF Connected, Inv, TypeOK, OwnSockets, NoneFailed
  <2>2. fetch[sock[p]] = "merged"
    BY <2>1 DEF Inv, TypeOK
  <2> QED
    BY <2>2 DEF TranscriptComplete
<1> QED
  BY <1>1, <1>2, NoneFailedInductive, AlwaysInv, TranscriptsComplete, PTL DEF Spec

\* Nobody but outsiders is refused.
OutsidersRefused ==
  /\ \A c \in Conns : link[c] = "refused" => owner[c] \in Outsiders
  /\ RefusalIsFinal

LEMMA OutsidersRefusedInductive ==
  ASSUME "auth" \notin Faults, Inv, OutsidersRefused, [Next]_vars
  PROVE  OutsidersRefused'
<1> USE DEF OutsidersRefused, RefusalIsFinal
<1>1. ASSUME NEW p \in Pages, Open(p)
      PROVE  OutsidersRefused'
  <2>1. /\ conns + 1 \in Conns /\ link' = [link EXCEPT ![conns + 1] = "up"]
        /\ owner' = [owner EXCEPT ![conns + 1] = p]
        /\ status' = [status EXCEPT ![p] = "open"]
    BY <1>1 DEF Open, Inv, TypeOK
  <2> QED
    BY <2>1 DEF Inv, TypeOK
<1>2. ASSUME NEW c \in Conns, Authenticate(c)
      PROVE  OutsidersRefused'
  BY <1>2 DEF Authenticate, Inv, TypeOK
<1>3. ASSUME NEW h \in Handlers, PostFails(h)
      PROVE  OutsidersRefused'
  BY <1>3 DEF PostFails, Inv, TypeOK
<1>4. ASSUME NEW p \in Pages, Reload(p)
      PROVE  OutsidersRefused'
  BY <1>4 DEF Reload, Inv, TypeOK
<1>5. ASSUME NEW p \in Pages, HandleClose(p)
      PROVE  OutsidersRefused'
  <2>1. sock[p] \in Conns /\ owner[sock[p]] = p
    BY <1>5 DEF HandleClose, Inv, TypeOK, OwnSockets
  <2> QED
    BY <1>5, <2>1 DEF HandleClose, Inv, TypeOK
<1>6. ASSUME NEW c \in Conns, Drop(c)
      PROVE  OutsidersRefused'
  BY <1>6 DEF Drop, Inv, TypeOK
<1>7. ASSUME NEW w \in Workers, Crash(w)
      PROVE  OutsidersRefused'
  <2>1. UNCHANGED <<owner, status>> /\ \A c \in Conns : link'[c] \in {link[c], "dropped"}
    BY <1>7 DEF Crash
  <2> QED
    BY <2>1
<1>8. CASE UNCHANGED <<link, owner, status>>
  BY <1>8
<1>9. \/ UNCHANGED <<link, owner, status>>
      \/ \E p \in Pages : Open(p) \/ Reload(p) \/ HandleClose(p)
      \/ \E c \in Conns : Authenticate(c) \/ Drop(c)
      \/ \E h \in Handlers : PostFails(h)
      \/ \E w \in Workers : Crash(w)
  BY DEF Next, vars, Serve, Run, SendReady, Disconnected, ReceiveMessage, Insert, Commit,
         StartBroadcast, EndBroadcast, SendTo, AuthFails, MayFail, HistoryFails, AskFactCheck,
         HandleReady, HandleEntry, ReadHistory, MergeHistory, Send, EndRoom
<1> QED
  BY <1>1, <1>2, <1>3, <1>4, <1>5, <1>6, <1>7, <1>8, <1>9

\* isRefusal calls a refusal final.  It is, for everybody it should be, but
\* for auth frames and key sets that come too late (MCChatRefusal.cfg).
THEOREM RefusalsAreFinal ==
  ASSUME "auth" \notin Faults
  PROVE  Spec => []RefusalIsFinal
<1>1. Init => OutsidersRefused
  BY DEF Init, OutsidersRefused, RefusalIsFinal
<1>2. OutsidersRefused => RefusalIsFinal
  BY DEF OutsidersRefused
<1> QED
  BY <1>1, <1>2, OutsidersRefusedInductive, AlwaysInv, PTL DEF Spec
\* Those who were told that the debate is open, and have not stored their entry.
Posting == {h \in Handlers : at[h] = "posting"}

\* Once the debate has ended nobody begins to post, and every entry that is
\* stored still is one that was on its way: as many as there were, at most.
OnlyLateWords ==
  [][ended => /\ Posting' \subseteq Posting
              /\ created' # created => created' = created + 1 /\ Posting' # Posting]_vars

\* post_message and request_fact_check look at ended_at before they insert, and
\* the end can come between (MCChatEnd.cfg); the debate grows by no more than that.
THEOREM TheEndIsNear == Spec => OnlyLateWords
<1>1. Inv /\ [Next]_vars =>
        (ended => /\ Posting' \subseteq Posting
                  /\ created' # created => created' = created + 1 /\ Posting' # Posting)
  <2> SUFFICES ASSUME Inv, [Next]_vars, ended
               PROVE  /\ Posting' \subseteq Posting
                      /\ created' # created => created' = created + 1 /\ Posting' # Posting
    OBVIOUS
  <2>1. ASSUME NEW h \in Handlers, at'[h] = "posting"
        PROVE  at[h] = "posting"
    <3>1. CASE \E o \in Handlers : Serve(o) \/ PostFails(o)
      <4>1. PICK o \in Handlers : Serve(o) \/ PostFails(o)
        BY <3>1
      <4>2. CASE at' = at
        BY <2>1, <4>2
      <4>3. CASE at' # at
        <5>1. PICK label \in {"done", "registered", "receiving", "none", "inserted", "committed",
                              "sending"} : at' = [at EXCEPT ![o] = label]
          <6>1. CASE Serve(o)
            BY <4>3, <6>1 DEF Serve, Authenticate, SendReady, Disconnected, ReceiveMessage, Insert,
               Commit, StartBroadcast, SendTo, EndBroadcast
          <6>2. CASE PostFails(o)
            BY <6>2 DEF PostFails
          <6> QED
            BY <4>1, <6>1, <6>2
        <5> QED
          BY <2>1, <5>1 DEF Inv, TypeOK
      <4> QED
        BY <4>2, <4>3
    <3>2. CASE \E p \in Pages : Open(p)
      <4>1. PICK p \in Pages : Open(p)
        BY <3>2
      <4> QED
        BY <2>1, <4>1 DEF Open, Inv, TypeOK
    <3>3. CASE \E c \in Conns : AuthFails(c)
      BY <2>1, <3>3 DEF AuthFails, Inv, TypeOK
    <3>4. CASE \E w \in Workers : Crash(w)
      BY <2>1, <3>4 DEF Crash
    <3>5. CASE UNCHANGED at
      BY <2>1, <3>5
    <3>6. \/ \E o \in Handlers : Serve(o) \/ PostFails(o)
          \/ \E p \in Pages : Open(p)
          \/ \E c \in Conns : AuthFails(c)
          \/ \E w \in Workers : Crash(w)
          \/ UNCHANGED at
      BY DEF Next, vars, Run, AskFactCheck, Send, HandleReady, HandleEntry, ReadHistory,
         MergeHistory, HistoryFails, HandleClose, Reload, EndRoom, Drop
    <3> QED
      BY <3>1, <3>2, <3>3, <3>4, <3>5, <3>6
  <2>2. \/ created' = created
        \/ \E h \in Handlers : Insert(h)
    BY DEF Next, vars, Serve, Run, Open, Authenticate, AuthFails, SendReady, Disconnected,
       ReceiveMessage, AskFactCheck, Commit, PostFails, StartBroadcast, SendTo,
       EndBroadcast, Send, HandleReady, HandleEntry, ReadHistory, MergeHistory, HistoryFails,
       HandleClose, Reload, EndRoom, Drop, Crash
  <2>3. ASSUME NEW h \in Handlers, Insert(h)
        PROVE  created' = created + 1 /\ h \in Posting /\ h \notin Posting'
    BY <2>3 DEF Insert, Posting, Inv, TypeOK
  <2> QED
    BY <2>1, <2>2, <2>3 DEF Posting
<1> QED
  BY <1>1, AlwaysInv, PTL DEF Spec, OnlyLateWords
===============================================================================
