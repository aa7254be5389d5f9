----------------------------- MODULE Messaging -----------------------------
(***************************************************************************)
(* Chat messages: MessagesService.sendMessage, the badge counter it keeps  *)
(* for the other user, and the two queries ConservationController runs     *)
(* when a conversation appears and disappears.                             *)
(*                                                                         *)
(* Nothing here is one transaction.  A message is stored once for each     *)
(* user; each user's msg-list row for the conversation is written only     *)
(* when the server has acknowledged the matching copy; the badge counter   *)
(* is the size of a query that was answered some time before it is         *)
(* written, while the reader deletes the documents it counts.              *)
(*                                                                         *)
(* Each user's writes go through a WriteQueue of Firestore: persistent,    *)
(* applied and answered in order.  When the connection breaks the answers  *)
(* on their way are lost and the writes are sent again, completions        *)
(* waiting; after a restart they are sent again without completions.       *)
(***************************************************************************)
EXTENDS Naturals, Sequences, FiniteSets

CONSTANTS User,
          Stamp,        \* the millisecond clock readings used as message ids
          NoMsg,        \* the last message of a row nobody has written
          MaxSent,      \* bound: messages
          MaxTurns,     \* bound: conversations appearing or disappearing
          MaxUnderWay,  \* bound: answers of the server on their way to a user
          MaxRestarts,  \* bound: app restarts, of all users
          MaxBreaks,    \* bound: broken connections, of all users
          MaxRefusals   \* bound: writes the server refuses

Message == {m \in [from : User, to : User, id : Stamp] : m.from # m.to}

ASSUME MessagingAssumption ==
  /\ Stamp \subseteq Nat
  /\ NoMsg \notin Message
  /\ MaxSent \in Nat /\ MaxTurns \in Nat /\ MaxUnderWay \in Nat
  /\ MaxRestarts \in Nat /\ MaxBreaks \in Nat /\ MaxRefusals \in Nat

VARIABLES
  screen,     \* screen[u][p]: u's conversation with p is "new", "open" or "left"
  sent,       \* messages handed to sendMessage
  queue,      \* each user's writes that are not acknowledged yet
  answers,    \* the server's answers to a prefix of that queue, on their way back
  counting,   \* messages whose getBadgeCount query is unanswered
  clearing,   \* clearing[u][p]: unanswered badge queries of u's conversation with p
  mail,       \* mail[u][p]: the documents under messages/u/p
  rows,       \* rows[u][p]: the document user/u/msg-list/p
  badges,     \* badges[u][p]: the documents under user/u/msg-list/p/badgeCount
  cleared,    \* history: badge documents some badge query has shown to u
  refused,    \* history: writes the server refused
  turns,      \* how often a conversation appeared or disappeared, for the bound
  restarts,   \* how often an app was restarted, for the bound
  breaks      \* how often a connection broke, for the bound

client  == <<screen, sent, counting, clearing>>
server  == <<mail, rows, badges>>
history == <<cleared, refused, turns, restarts, breaks>>
vars    == <<client, queue, answers, server, history>>

Kind == {"message", "row", "badge", "count", "unbadge"}
Write == [kind : Kind, owner : User, peer : User, msg : Message \cup {NoMsg},
          count : Nat, heard : BOOLEAN]

(* The user at the other end of m, seen from o. *)
Other(m, o) == IF o = m.from THEN m.to ELSE m.from

About(kind, m, o) == [kind |-> kind, owner |-> o, peer |-> Other(m, o), msg |-> m,
                      count |-> 0, heard |-> kind = "message"]
CountWrite(o, p, n) == [kind |-> "count", owner |-> o, peer |-> p, msg |-> NoMsg,
                        count |-> n, heard |-> FALSE]

Init ==
  /\ screen = [u \in User |-> [p \in User |-> "new"]]
  /\ sent = {}
  /\ queue = [u \in User |-> <<>>]
  /\ answers = [u \in User |-> <<>>]
  /\ counting = [u \in User |-> {}]
  /\ clearing = [u \in User |-> [p \in User |-> 0]]
  /\ mail = [u \in User |-> [p \in User |-> {}]]
  /\ rows = [u \in User |-> [p \in User |-> [last |-> NoMsg, badge |-> 0]]]
  /\ badges = [u \in User |-> [p \in User |-> {}]]
  /\ cleared = [u \in User |-> [p \in User |-> {}]]
  /\ refused = {}
  /\ turns = 0
  /\ restarts = 0
  /\ breaks = 0

(* u's app hands the writes of s to Firestore. *)
Enqueue(u, s) == queue' = [queue EXCEPT ![u] = @ \o s]

QueuedDocs(u, kind, o, p) ==
  {queue[u][i].msg : i \in {j \in DOMAIN queue[u] :
     queue[u][j].kind = kind /\ queue[u][j].owner = o /\ queue[u][j].peer = p}}

-----------------------------------------------------------------------------
(* The conversation screen *)

(* viewWillAppear looks for the badge documents of this conversation. *)
OpenChat(u, p) ==
  /\ \A q \in User : screen[u][q] # "open"
  /\ turns < MaxTurns
  /\ screen' = [screen EXCEPT ![u][p] = "open"]
  /\ clearing' = [clearing EXCEPT ![u][p] = @ + 1]
  /\ turns' = turns + 1
  /\ UNCHANGED <<sent, counting, queue, answers, server, cleared, refused, restarts, breaks>>

(* viewDidDisappear looks for them again, and writes a zero at once. *)
CloseChat(u, p) ==
  /\ screen[u][p] = "open"
  /\ turns < MaxTurns
  /\ turns' = turns + 1
  /\ screen' = [screen EXCEPT ![u][p] = "left"]
  /\ clearing' = [clearing EXCEPT ![u][p] = @ + 1]
  /\ Enqueue(u, <<CountWrite(u, p, 0)>>)
  /\ UNCHANGED <<sent, counting, answers, server, cleared, refused, restarts, breaks>>

(* The orders in which the documents of S can be listed. *)
Listings(S) ==
  {f \in [1..Cardinality(S) -> S] : \A i, j \in DOMAIN f : f[i] = f[j] => i = j}

(* Slip: a listener instead of one query, answered again and again. *)
ClearAnsweredAgain(u, p) ==
  /\ screen[u][p] # "new"
  /\ clearing' = [clearing EXCEPT ![u][p] = @ - 1]
  /\ UNCHANGED <<screen, sent, counting, queue, answers, server, history>>

(* Slip: marks are deleted by message, whatever the query found. *)
ClearAnsweredBlind(u, p) ==
  /\ clearing[u][p] > 0
  /\ clearing' = [clearing EXCEPT ![u][p] = @ - 1]
  /\ \E f \in Listings({m \in sent : m.from = p /\ m.to = u}) :
       Enqueue(u, [i \in DOMAIN f |-> About("unbadge", f[i], u)])
  /\ cleared' = [cleared EXCEPT ![u][p] = @ \cup badges[u][p]]
  /\ UNCHANGED <<screen, sent, counting, answers, server, refused, turns, restarts, breaks>>

(* The query is answered, on screen or not: every document it found is      *)
(* deleted by its own write.  An own pending deletion hides a document.     *)
ClearAnswered(u, p) ==
  /\ clearing[u][p] > 0
  /\ clearing' = [clearing EXCEPT ![u][p] = @ - 1]
  /\ LET found == badges[u][p] \ QueuedDocs(u, "unbadge", u, p) IN
       \/ \E f \in Listings(found) :
            /\ Enqueue(u, [i \in DOMAIN f |-> About("unbadge", f[i], u)])
            /\ cleared' = [cleared EXCEPT ![u][p] = @ \cup found]
       \/ UNCHANGED <<queue, cleared>>            \* an error, or a cold cache
  /\ UNCHANGED <<screen, sent, counting, answers, server, refused, turns, restarts, breaks>>

-----------------------------------------------------------------------------
(* MessagesService *)

(* Slip: both copies go to the sender's mailbox. *)
SendMessageToSelf(u, p, t) ==
  LET m == [from |-> u, to |-> p, id |-> t] IN
  /\ screen[u][p] # "new"
  /\ Cardinality(sent) < MaxSent
  /\ \A x \in sent : x.from = u => x.id < t
  /\ sent' = sent \cup {m}
  /\ counting' = [counting EXCEPT ![u] = @ \cup {m}]
  /\ Enqueue(u, <<About("message", m, u), About("message", m, u), About("badge", m, p)>>)
  /\ UNCHANGED <<screen, clearing, answers, server, history>>

(* The id is the sender's clock.  A picture is sent when its upload is      *)
(* done, possibly after its conversation has left the screen.               *)
SendMessage(u, p, t) ==
  LET m == [from |-> u, to |-> p, id |-> t] IN
  /\ screen[u][p] # "new"
  /\ Cardinality(sent) < MaxSent
  /\ \A x \in sent : x.from = u => x.id < t
  /\ sent' = sent \cup {m}
  /\ counting' = [counting EXCEPT ![u] = @ \cup {m}]
  /\ Enqueue(u, <<About("message", m, u), About("message", m, p), About("badge", m, p)>>)
  /\ UNCHANGED <<screen, clearing, answers, server, history>>

(* Slip: the new mark is added to a count that has it already. *)
CountAnsweredPlusOne(u, m) ==
  /\ m \in counting[u]
  /\ counting' = [counting EXCEPT ![u] = @ \ {m}]
  /\ LET n == Cardinality(badges[m.to][u] \cup QueuedDocs(u, "badge", m.to, u)) IN
       Enqueue(u, <<CountWrite(m.to, u, n + 1)>>)
  /\ UNCHANGED <<screen, sent, clearing, answers, server, history>>

(* The answer of getBadgeCount: what the server, or a cold cache, has of    *)
(* the other user's badge documents, and the own ones still in the queue.   *)
CountAnswered(u, m) ==
  /\ m \in counting[u]
  /\ counting' = [counting EXCEPT ![u] = @ \ {m}]
  /\ \/ \E known \in {badges[m.to][u], {}} :
          LET n == Cardinality(known \cup QueuedDocs(u, "badge", m.to, u)) IN
          IF n > 0 THEN Enqueue(u, <<CountWrite(m.to, u, n)>>) ELSE UNCHANGED queue
     \/ UNCHANGED queue                           \* an error
  /\ UNCHANGED <<screen, sent, clearing, answers, server, history>>

(* Slip: the completion does not look at the error. *)
CallbackUnchecked(w, ok) ==
  IF w.kind = "message" /\ w.heard
    THEN <<About("row", w.msg, w.owner)>> ELSE <<>>

(* Slip: only the sender's own list is updated. *)
CallbackOwnList(w, ok) ==
  IF w.kind = "message" /\ w.heard /\ ok /\ w.owner = w.msg.from
    THEN <<About("row", w.msg, w.owner)>> ELSE <<>>

(* What the completion of setData does: list the message it has stored. *)
Callback(w, ok) ==
  IF w.kind = "message" /\ w.heard /\ ok
    THEN <<About("row", w.msg, w.owner)>> ELSE <<>>

-----------------------------------------------------------------------------
(* Firestore *)

Store(w) ==
  LET o == w.owner  p == w.peer IN
  \/ /\ w.kind = "message"
     /\ mail' = [mail EXCEPT ![o][p] = {x \in @ : x.id # w.msg.id} \cup {w.msg}]
     /\ UNCHANGED <<rows, badges>>
  \/ /\ w.kind = "row"
     /\ rows' = [rows EXCEPT ![o][p].last = w.msg]
     /\ UNCHANGED <<mail, badges>>
  \/ /\ w.kind = "count"
     /\ rows' = [rows EXCEPT ![o][p].badge = w.count]
     /\ UNCHANGED <<mail, badges>>
  \/ /\ w.kind = "badge"
     /\ badges' = [badges EXCEPT ![o][p] = @ \cup {w.msg}]
     /\ UNCHANGED <<mail, rows>>
  \/ /\ w.kind = "unbadge"
     /\ badges' = [badges EXCEPT ![o][p] = @ \ {w.msg}]
     /\ UNCHANGED <<mail, rows>>

(* A refusal ends the connection: nothing after it is answered. *)
Refusing(u) == \E i \in DOMAIN answers[u] : ~answers[u][i]

CanAnswer(u) == ~Refusing(u) /\ Len(answers[u]) < Len(queue[u]) /\ Len(answers[u]) < MaxUnderWay
NextWrite(u) == queue[u][Len(answers[u]) + 1]

Commit(u) ==
  /\ CanAnswer(u)
  /\ Store(NextWrite(u))
  /\ answers' = [answers EXCEPT ![u] = Append(@, TRUE)]
  /\ UNCHANGED <<client, queue, history>>

Refuse(u) ==
  /\ CanAnswer(u)
  /\ Cardinality(refused) < MaxRefusals
  /\ refused' = refused \cup {[NextWrite(u) EXCEPT !.heard = FALSE]}
  /\ answers' = [answers EXCEPT ![u] = Append(@, FALSE)]
  /\ UNCHANGED <<client, queue, server, cleared, turns, restarts, breaks>>

(* Slip: what a completion writes overtakes the writes that wait. *)
AcknowledgeFirst(u) ==
  /\ answers[u] # <<>> /\ Head(answers[u])
  /\ queue' = [queue EXCEPT ![u] = Callback(Head(@), TRUE) \o Tail(@)]
  /\ answers' = [answers EXCEPT ![u] = Tail(@)]
  /\ UNCHANGED <<client, server, history>>

(* A result arrives; what the completion writes goes to the end. *)
Acknowledge(u) ==
  /\ answers[u] # <<>> /\ Head(answers[u])
  /\ queue' = [queue EXCEPT ![u] = Tail(@) \o Callback(Head(@), TRUE)]
  /\ answers' = [answers EXCEPT ![u] = Tail(@)]
  /\ UNCHANGED <<client, server, history>>

(* The refusal arrives, perhaps before results that are then lost: it is    *)
(* charged to the first write, and the others are sent again.               *)
Reject(u) ==
  /\ Refusing(u)
  /\ queue' = [queue EXCEPT ![u] = Tail(@) \o Callback(Head(@), FALSE)]
  /\ answers' = [answers EXCEPT ![u] = <<>>]
  /\ UNCHANGED <<client, server, history>>

(* The connection breaks and is made again. *)
Break(u) ==
  /\ breaks < MaxBreaks
  /\ breaks' = breaks + 1
  /\ answers' = [answers EXCEPT ![u] = <<>>]
  /\ UNCHANGED <<client, queue, server, cleared, refused, turns, restarts>>

(* The app is killed and started again: the queue survives, every closure   *)
(* and every answer on its way is lost.                                     *)
Restart(u) ==
  /\ restarts < MaxRestarts
  /\ restarts' = restarts + 1
  /\ queue' = [queue EXCEPT ![u] = [i \in DOMAIN @ |-> [@[i] EXCEPT !.heard = FALSE]]]
  /\ answers' = [answers EXCEPT ![u] = <<>>]
  /\ counting' = [counting EXCEPT ![u] = {}]
  /\ clearing' = [clearing EXCEPT ![u] = [p \in User |-> 0]]
  /\ screen' = [screen EXCEPT ![u] = [p \in User |-> "new"]]
  /\ UNCHANGED <<sent, server, cleared, refused, turns, breaks>>

-----------------------------------------------------------------------------

Next ==
  \E u \in User :
    \/ \E p \in User \ {u} : \/ OpenChat(u, p)
                             \/ CloseChat(u, p)
                             \/ ClearAnswered(u, p)
                             \/ \E t \in Stamp : SendMessage(u, p, t)
    \/ \E m \in counting[u] : CountAnswered(u, m)
    \/ Commit(u)
    \/ Refuse(u)
    \/ Acknowledge(u)
    \/ Reject(u)
    \/ Break(u)
    \/ Restart(u)

Spec == Init /\ [][Next]_vars

(* The server is reached and answers in the end; nothing else must happen. *)
Fairness ==
  \A u \in User : WF_vars(Commit(u)) /\ WF_vars(Acknowledge(u)) /\ WF_vars(Reject(u))

FairSpec == Spec /\ Fairness

-----------------------------------------------------------------------------
(* Properties *)

PerPair(S) == [User -> [User -> S]]

(* Type correctness: the answers on their way are those of a prefix of the  *)
(* queue, and the documents of a conversation belong to that conversation.  *)
TypeOK ==
  /\ screen \in PerPair({"new", "open", "left"})
  /\ sent \subseteq Message
  /\ queue \in [User -> Seq(Write)]
  /\ answers \in [User -> Seq(BOOLEAN)]
  /\ \A u \in User : Len(answers[u]) <= Len(queue[u])
  /\ counting \in [User -> SUBSET sent]
  /\ clearing \in PerPair(Nat)
  /\ mail \in PerPair(SUBSET sent)
  /\ rows \in PerPair([last : sent \cup {NoMsg}, badge : Nat])
  /\ badges \in PerPair(SUBSET sent)
  /\ cleared \in PerPair(SUBSET sent)
  /\ refused \subseteq Write
  /\ turns \in Nat
  /\ restarts \in Nat
  /\ breaks \in Nat

HasId(S, m) == \E x \in S : x.id = m.id

(* A row of the chat list never announces a message its own conversation    *)
(* does not hold: sendMessage writes the row in the completion of the       *)
(* message, and only when there was no error.                               *)
PreviewHasMessage ==
  \A o, p \in User :
    rows[o][p].last # NoMsg => HasId(mail[o][p], rows[o][p].last)

(* w is still to be applied by the server. *)
Pending(u, kind, m, o) ==
  \E i \in DOMAIN queue[u] : /\ i > Len(answers[u])
                             /\ queue[u][i].kind = kind
                             /\ queue[u][i].msg = m
                             /\ queue[u][i].owner = o

Refused(kind, m, o) ==
  \E w \in refused : w.kind = kind /\ w.msg = m /\ w.owner = o

(* Neither copy of a message is ever lost: whatever stops between the two   *)
(* writes of sendMessage, each copy is still to be written, was refused, or *)
(* is stored.  The other user's message with the same clock reading may     *)
(* have taken its place.                                                    *)
NoMessageLost ==
  \A m \in sent : \A o \in {m.from, m.to} :
    \/ Pending(m.from, "message", m, o)
    \/ Refused("message", m, o)
    \/ HasId(mail[o][Other(m, o)], m)

(* The reader's deletions never take an unread mark its query has not       *)
(* shown: a message's badge document is still to be written, was refused,   *)
(* is there, or was among the answers to the badge queries of the           *)
(* conversation screen.                                                     *)
BadgesWaitForReader ==
  \A m \in sent :
    \/ Pending(m.from, "badge", m, m.to)
    \/ Refused("badge", m, m.to)
    \/ m \in badges[m.to][m.from] \cup cleared[m.to][m.from]

(* What p has sent to o. *)
From(p, o) == {m \in sent : m.from = p /\ m.to = o}

(* The counter of a row never claims more unread messages than the other    *)
(* user has sent, however stale the count that sendMessage writes.          *)
BadgeNeverOvercounts ==
  \A o, p \in User :
    rows[o][p].badge <= Cardinality(From(p, o))

Quiet == \A u \in User : queue[u] = <<>>

Newest(m) == \A x \in sent : x.from = m.from /\ x.to = m.to => x.id <= m.id

(* Once every write is acknowledged, and if no completion was lost and      *)
(* nothing refused, both users' rows show the newest message of one of the  *)
(* two: the four writes of a message, two of them queued by completions,    *)
(* keep the order of sending.                                               *)
PreviewIsNewest ==
  Quiet /\ restarts = 0 /\ refused = {} =>
    \A m \in sent : \A o \in {m.from, m.to} :
      LET last == rows[o][Other(m, o)].last IN last # NoMsg /\ Newest(last)

(* The users' writes, seen as a WriteQueue. *)
Silent(w) == [w EXCEPT !.heard = FALSE]

WQ ==
  INSTANCE WriteQueue WITH
    queue    <- [u \in User |-> [i \in DOMAIN queue[u] |-> Silent(queue[u][i])]],
    heard    <- [u \in User |-> [i \in DOMAIN queue[u] |-> queue[u][i].heard]],
    verdicts <- answers

(* The service asks no more of Firestore than what WritePipeline is shown   *)
(* to give: every step is one of a WriteQueue, with completions that issue  *)
(* further writes, broken connections and restarts.                         *)
UsesWriteQueue == WQ!Spec

(* A message gets its conversation listed for both users in the end, unless *)
(* the app stops or the server refuses one of the writes.                   *)
BothListed ==
  \A m \in Message :
    m \in sent ~> \/ restarts > 0 \/ refused # {}
                  \/ \A o \in {m.from, m.to} : rows[o][Other(m, o)].last # NoMsg

-----------------------------------------------------------------------------
(* The inductive invariant of the proofs *)

(* Every queued write is about a conversation of its message, and counts    *)
(* what has been sent.                                                      *)
Fits(w) ==
  /\ w.kind = "count" => w.count <= Cardinality(From(w.peer, w.owner))
  /\ w.kind # "count" => w.msg \in sent
  /\ w.kind \in {"message", "row"} =>
       w.owner \in {w.msg.from, w.msg.to} /\ w.peer = Other(w.msg, w.owner)
  /\ w.kind = "badge" => w.owner = w.msg.to /\ w.peer = w.msg.from

QueueFits == \A u \in User : \A i \in DOMAIN queue[u] : Fits(queue[u][i])

BadgesFit == \A o, p \in User : badges[o][p] \subseteq From(p, o)

(* What a completion may rely on: a write answered without error is stored, *)
(* and a row is queued only for a stored message.                           *)
Announced(u, i) ==
  \/ queue[u][i].kind = "row"
  \/ queue[u][i].kind = "message" /\ i <= Len(answers[u]) /\ answers[u][i]

AnsweredStored ==
  \A u \in User : \A i \in DOMAIN queue[u] :
    Announced(u, i) => HasId(mail[queue[u][i].owner][queue[u][i].peer], queue[u][i].msg)

IInv ==
  /\ TypeOK
  /\ IsFiniteSet(sent)
  /\ QueueFits
  /\ BadgesFit
  /\ AnsweredStored
  /\ PreviewHasMessage
  /\ NoMessageLost
  /\ BadgeNeverOvercounts

(* The reader's apps delete only what a badge query has shown. *)
DeletionsAreShown ==
  \A u \in User : \A i \in DOMAIN queue[u] :
    LET w == queue[u][i] IN w.kind = "unbadge" => w.msg \in cleared[w.owner][w.peer]

UnreadInv == BadgesWaitForReader /\ DeletionsAreShown

Newer(x, m) == x.from = m.from /\ x.to = m.to /\ x.id > m.id

(* The row of m for o is still to be written: it waits behind place n of    *)
(* the sender's queue q, or the completion of the message will queue it.    *)
RowComes(q, m, o, n) ==
  \E i \in DOMAIN q :
    q[i].msg = m /\ q[i].owner = o /\ (q[i].kind = "message" \/ (q[i].kind = "row" /\ i > n))

MessageComes(q, m, o, n) ==
  \E i \in DOMAIN q : i > n /\ q[i].kind = "message" /\ q[i].msg = m /\ q[i].owner = o

(* Writes of u's messages are in u's queue, with their completions, and in  *)
(* the order of sending: the later message of S behind the earlier, and its *)
(* row behind the earlier row.                                              *)
InOrder(q, u, S) ==
  \A i \in DOMAIN q :
    /\ q[i].kind \in {"message", "row"} => q[i].msg.from = u
    /\ q[i].kind = "message" =>
         q[i].heard /\ \A x \in S : Newer(x, q[i].msg) => MessageComes(q, x, q[i].owner, i)
    /\ q[i].kind = "row" =>
         \A x \in S : Newer(x, q[i].msg) => RowComes(q, x, q[i].owner, i)

(* A row that is missing, or older than what its sender has sent since, is  *)
(* still to be written.                                                     *)
Comes(m, o) == RowComes(queue[m.from], m, o, Len(answers[m.from]))

RowsCatchUp ==
  /\ \A m \in sent : \A o \in {m.from, m.to} :
       rows[o][Other(m, o)].last # NoMsg \/ Comes(m, o)
  /\ \A o, p \in User : LET last == rows[o][p].last IN
       last # NoMsg => /\ o \in {last.from, last.to} /\ p = Other(last, o)
                       /\ \A x \in sent : Newer(x, last) => Comes(x, o)

Ordered ==
  /\ \A u \in User : ~Refusing(u)
  /\ \A u \in User : InOrder(queue[u], u, sent)
  /\ RowsCatchUp

OrderInv == restarts = 0 /\ refused = {} => Ordered
=============================================================================
