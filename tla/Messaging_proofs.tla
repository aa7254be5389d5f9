-------------------------- MODULE Messaging_proofs --------------------------
(***************************************************************************)
(* The safety of Messaging for any number of users, messages, faults and   *)
(* writes under way.                                                       *)
(***************************************************************************)
EXTENDS Messaging, FiniteSetTheorems, SequenceTheorems, TLAPS

-----------------------------------------------------------------------------
(* The operators of the model *)

(* A write about a message is a write. *)
LEMMA AboutType ==
  ASSUME NEW kind \in Kind, NEW m \in Message, NEW o \in {m.from, m.to}
  PROVE  /\ About(kind, m, o) \in Write
         /\ About(kind, m, o).kind = kind
         /\ About(kind, m, o).msg = m
         /\ About(kind, m, o).owner = o
         /\ About(kind, m, o).peer = Other(m, o)
BY DEF About, Write, Message, Other

LEMMA CountWriteType ==
  ASSUME NEW o \in User, NEW p \in User, NEW n \in Nat
  PROVE  /\ CountWrite(o, p, n) \in Write
         /\ CountWrite(o, p, n).kind = "count"
         /\ CountWrite(o, p, n).owner = o
         /\ CountWrite(o, p, n).peer = p
         /\ CountWrite(o, p, n).count = n
BY DEF CountWrite, Write, Kind

(* Storing a message keeps every id the mailbox has. *)
LEMMA StoringKeepsIds ==
  ASSUME NEW S, NEW k, NEW m, HasId(S, m)
  PROVE  HasId({x \in S : x.id # k.id} \cup {k}, m)
BY DEF HasId

(* There are finitely many messages of a pair, and more can only be sent. *)
LEMMA FromGrows ==
  ASSUME IsFiniteSet(sent'), sent \subseteq sent', NEW p, NEW o
  PROVE  /\ IsFiniteSet(From(p, o)) /\ IsFiniteSet(From(p, o)')
         /\ From(p, o) \subseteq From(p, o)'
         /\ Cardinality(From(p, o)) \in Nat
         /\ Cardinality(From(p, o)') \in Nat
         /\ Cardinality(From(p, o)) <= Cardinality(From(p, o)')
<1>1. From(p, o)' \subseteq sent' /\ From(p, o) \subseteq From(p, o)'
  BY DEF From
<1>2. IsFiniteSet(From(p, o)') /\ Cardinality(From(p, o)') \in Nat
  BY <1>1, FS_Subset, FS_CardinalityType
<1>3. QED
  BY <1>1, <1>2, FS_Subset, FS_CardinalityType

(* What extending one queue does to all of them. *)
LEMMA QueueGrows ==
  ASSUME queue \in [User -> Seq(Write)], NEW u \in User, NEW s \in Seq(Write),
         Enqueue(u, s)
  PROVE  /\ queue' \in [User -> Seq(Write)]
         /\ \A v \in User : Len(queue[v]) <= Len(queue'[v])
         /\ \A v \in User : \A i \in DOMAIN queue[v] :
              i \in DOMAIN queue'[v] /\ queue'[v][i] = queue[v][i]
         /\ \A v \in User : \A i \in DOMAIN queue'[v] :
              i \notin DOMAIN queue[v] =>
                i > Len(queue[v]) /\ \E k \in DOMAIN s : queue'[v][i] = s[k]
         /\ \A k \in DOMAIN s : /\ Len(queue[u]) + k \in DOMAIN queue'[u]
                                /\ queue'[u][Len(queue[u]) + k] = s[k]
<1> DEFINE q == queue[u]
<1>1. q \in Seq(Write) /\ queue' = [queue EXCEPT ![u] = q \o s]
  BY DEF Enqueue
<1>2. queue'[u] = q \o s /\ \A v \in User \ {u} : queue'[v] = queue[v]
  BY <1>1
<1>3. /\ q \o s \in Seq(Write)
      /\ Len(q \o s) = Len(q) + Len(s)
      /\ \A i \in 1..(Len(q) + Len(s)) :
           (q \o s)[i] = IF i <= Len(q) THEN q[i] ELSE s[i - Len(q)]
  BY <1>1, ConcatProperties
<1>4. /\ DOMAIN q = 1..Len(q) /\ DOMAIN s = 1..Len(s)
      /\ DOMAIN (q \o s) = 1..(Len(q) + Len(s))
      /\ Len(q) \in Nat /\ Len(s) \in Nat
  BY <1>1, <1>3
<1> HIDE DEF q
<1>5. \A i \in DOMAIN q : i \in DOMAIN (q \o s) /\ (q \o s)[i] = q[i]
  BY <1>3, <1>4
<1>6. \A i \in DOMAIN (q \o s) :
        i \notin DOMAIN q => i > Len(q) /\ \E k \in DOMAIN s : (q \o s)[i] = s[k]
  <2> SUFFICES ASSUME NEW i \in DOMAIN (q \o s), i \notin DOMAIN q
               PROVE  i > Len(q) /\ \E k \in DOMAIN s : (q \o s)[i] = s[k]
    OBVIOUS
  <2>1. i > Len(q) /\ i - Len(q) \in DOMAIN s /\ (q \o s)[i] = s[i - Len(q)]
    BY <1>3, <1>4
  <2>2. QED
    BY <2>1
<1>7. \A k \in DOMAIN s : Len(q) + k \in DOMAIN (q \o s) /\ (q \o s)[Len(q) + k] = s[k]
  BY <1>3, <1>4
<1>8. q = queue[u]
  BY DEF q
<1>9. queue' \in [User -> Seq(Write)]
  BY <1>1, <1>3
<1>10. \A v \in User : v = u \/ queue'[v] = queue[v]
  BY <1>2
<1>11. \A v \in User : Len(queue[v]) <= Len(queue'[v])
  <2>1. \A v \in User : Len(queue[v]) \in Nat
    OBVIOUS
  <2>2. QED
    BY <1>2, <1>3, <1>4, <1>8, <1>10, <2>1
<1>12. \A v \in User : \A i \in DOMAIN queue[v] :
         i \in DOMAIN queue'[v] /\ queue'[v][i] = queue[v][i]
  BY <1>2, <1>5, <1>8, <1>10
<1>13. \A v \in User : \A i \in DOMAIN queue'[v] :
         i \notin DOMAIN queue[v] =>
           i > Len(queue[v]) /\ \E k \in DOMAIN s : queue'[v][i] = s[k]
  <2> SUFFICES ASSUME NEW v \in User, NEW i \in DOMAIN queue'[v], i \notin DOMAIN queue[v]
               PROVE  i > Len(queue[v]) /\ \E k \in DOMAIN s : queue'[v][i] = s[k]
    OBVIOUS
  <2>1. v = u
    BY <1>10
  <2>2. QED
    BY <1>2, <1>6, <1>8, <2>1
<1>14. \A k \in DOMAIN s : /\ Len(queue[u]) + k \in DOMAIN queue'[u]
                             /\ queue'[u][Len(queue[u]) + k] = s[k]
  BY <1>2, <1>7, <1>8
<1>15. QED
  BY <1>9, <1>11, <1>12, <1>13, <1>14

-----------------------------------------------------------------------------
(* The inductive invariant *)

LEMMA InitIInv == Init => IInv
<1> SUFFICES ASSUME Init PROVE IInv
  OBVIOUS
<1> USE MessagingAssumption DEF Init
<1>1. TypeOK
  BY DEF TypeOK, PerPair
<1>2. IsFiniteSet(sent)
  BY FS_EmptySet
<1>3. QueueFits /\ BadgesFit /\ AnsweredStored
  BY DEF QueueFits, BadgesFit, AnsweredStored
<1>4. PreviewHasMessage /\ NoMessageLost
  BY DEF PreviewHasMessage, NoMessageLost
<1>5. BadgeNeverOvercounts
  <2> SUFFICES ASSUME NEW o \in User, NEW p \in User
               PROVE  rows[o][p].badge <= Cardinality(From(p, o))
    BY DEF BadgeNeverOvercounts
  <2>1. From(p, o) = {}
    BY DEF From
  <2>2. QED
    BY <2>1, FS_EmptySet
<1>6. QED
  BY <1>1, <1>2, <1>3, <1>4, <1>5 DEF IInv

(* The invariant without its types. *)
Core == QueueFits /\ BadgesFit /\ AnsweredStored /\ PreviewHasMessage
          /\ NoMessageLost /\ BadgeNeverOvercounts

(* More messages leave what fits fitting. *)
LEMMA FitsGrows ==
  ASSUME IsFiniteSet(sent'), sent \subseteq sent', NEW w \in Write, Fits(w)
  PROVE  Fits(w)'
<1>1. Cardinality(From(w.peer, w.owner)) <= Cardinality(From(w.peer, w.owner)')
      /\ Cardinality(From(w.peer, w.owner)) \in Nat
      /\ Cardinality(From(w.peer, w.owner)') \in Nat
  BY FromGrows
<1>2. w.count \in Nat
  BY DEF Write
<1>3. QED
  BY <1>1, <1>2 DEF Fits

(* A step of an app extends its own queue with writes that fit, and sends   *)
(* at most messages whose two copies are among them.                        *)
LEMMA EnqueueCore ==
  ASSUME IInv, NEW u \in User, NEW s \in Seq(Write), Enqueue(u, s),
         UNCHANGED <<answers, server, refused>>,
         IsFiniteSet(sent'), sent \subseteq sent',
         \A k \in DOMAIN s : Fits(s[k])' /\ s[k].kind # "row",
         \A m \in sent' \ sent : m.from = u /\ \A o \in {m.from, m.to} :
           \E k \in DOMAIN s : s[k].kind = "message" /\ s[k].msg = m /\ s[k].owner = o
  PROVE  Core'
<1>0. /\ queue \in [User -> Seq(Write)] /\ answers \in [User -> Seq(BOOLEAN)]
      /\ \A v \in User : Len(answers[v]) <= Len(queue[v])
      /\ sent \subseteq Message
      /\ rows \in PerPair([last : sent \cup {NoMsg}, badge : Nat])
      /\ QueueFits /\ BadgesFit /\ AnsweredStored
      /\ PreviewHasMessage /\ NoMessageLost /\ BadgeNeverOvercounts
  BY DEF IInv, TypeOK
<1>1. answers' = answers /\ mail' = mail /\ rows' = rows /\ badges' = badges /\ refused' = refused
  BY DEF server
<1>2. /\ queue' \in [User -> Seq(Write)]
      /\ \A v \in User : \A i \in DOMAIN queue[v] :
           i \in DOMAIN queue'[v] /\ queue'[v][i] = queue[v][i]
      /\ \A v \in User : \A i \in DOMAIN queue'[v] :
           i \notin DOMAIN queue[v] =>
             i > Len(queue[v]) /\ \E k \in DOMAIN s : queue'[v][i] = s[k]
      /\ \A k \in DOMAIN s : /\ Len(queue[u]) + k \in DOMAIN queue'[u]
                             /\ queue'[u][Len(queue[u]) + k] = s[k]
  BY <1>0, QueueGrows
<1>3. QueueFits'
  <2> SUFFICES ASSUME NEW v \in User, NEW i \in DOMAIN queue'[v]
               PROVE  Fits(queue[v][i])'
    BY DEF QueueFits
  <2>1. CASE i \in DOMAIN queue[v]
    <3>1. PICK w \in Write : w = queue[v][i]
      BY <1>0, <2>1
    <3>2. Fits(w)
      BY <1>0, <2>1, <3>1 DEF QueueFits
    <3>3. Fits(w)'
      BY <3>2, FitsGrows
    <3>4. queue'[v][i] = w
      BY <1>2, <2>1, <3>1
    <3>5. QED
      BY <3>3, <3>4 DEF Fits, From
  <2>2. CASE i \notin DOMAIN queue[v]
    <3>1. PICK k \in DOMAIN s : queue'[v][i] = s[k]
      BY <1>2, <2>2
    <3>2. Fits(s[k])'
      OBVIOUS
    <3>3. QED
      BY <3>1, <3>2 DEF Fits
  <2>3. QED
    BY <2>1, <2>2
<1>4. BadgesFit'
  <2> SUFFICES ASSUME NEW o \in User, NEW p \in User PROVE badges'[o][p] \subseteq From(p, o)'
    BY DEF BadgesFit
  <2>1. badges[o][p] \subseteq From(p, o)
    BY <1>0 DEF BadgesFit
  <2>2. QED
    BY <1>1, <2>1, FromGrows
<1>5. AnsweredStored'
  <2> SUFFICES ASSUME NEW v \in User, NEW i \in DOMAIN queue'[v], Announced(v, i)'
               PROVE  HasId(mail[queue'[v][i].owner][queue'[v][i].peer], queue'[v][i].msg)
    BY <1>1 DEF AnsweredStored, HasId
  <2>1. i \in DOMAIN queue[v]
    <3> SUFFICES ASSUME i \notin DOMAIN queue[v] PROVE FALSE
      OBVIOUS
    <3>1. queue'[v][i].kind # "row" /\ i > Len(queue[v])
      BY <1>2
    <3>2. i <= Len(answers[v]) /\ Len(answers[v]) <= Len(queue[v]) /\ i \in Nat
          /\ Len(answers[v]) \in Nat /\ Len(queue[v]) \in Nat
      BY <1>0, <1>1, <1>2, <3>1 DEF Announced
    <3>3. QED
      BY <3>1, <3>2
  <2>2. queue'[v][i] = queue[v][i] /\ Announced(v, i)
    BY <1>1, <1>2, <2>1 DEF Announced
  <2>3. QED
    BY <1>0, <2>1, <2>2 DEF AnsweredStored
<1>6. PreviewHasMessage'
  BY <1>0, <1>1 DEF PreviewHasMessage, HasId
<1>7. NoMessageLost'
  <2> SUFFICES ASSUME NEW m \in sent', NEW o \in {m.from, m.to}
               PROVE  \/ Pending(m.from, "message", m, o)'
                      \/ Refused("message", m, o)
                      \/ HasId(mail[o][Other(m, o)], m)
    BY <1>1 DEF NoMessageLost, Refused, HasId
  <2>1. CASE m \in sent
    <3>1. CASE Pending(m.from, "message", m, o)
      <4>1. m.from \in User
        BY <1>0, <2>1 DEF Message
      <4>2. QED
        BY <1>1, <1>2, <3>1, <4>1 DEF Pending
    <3>2. QED
      BY <1>0, <2>1, <3>1 DEF NoMessageLost
  <2>2. CASE m \notin sent
    <3>1. PICK k \in DOMAIN s : s[k].kind = "message" /\ s[k].msg = m /\ s[k].owner = o
      BY <2>2
    <3>2. k \in Nat \ {0} /\ Len(queue[u]) \in Nat /\ Len(answers[u]) \in Nat
          /\ Len(answers[u]) <= Len(queue[u])
      BY <1>0
    <3>3. Len(queue[u]) + k > Len(answers[u])
      BY <3>2
    <3>4. m.from = u
      BY <2>2
    <3>5. QED
      BY <1>1, <1>2, <3>1, <3>3, <3>4 DEF Pending
  <2>3. QED
    BY <2>1, <2>2
<1>8. BadgeNeverOvercounts'
  <2> SUFFICES ASSUME NEW o \in User, NEW p \in User
               PROVE  rows'[o][p].badge <= Cardinality(From(p, o)')
    BY DEF BadgeNeverOvercounts
  <2>1. rows[o][p].badge <= Cardinality(From(p, o)) /\ rows[o][p].badge \in Nat
    BY <1>0 DEF BadgeNeverOvercounts, PerPair
  <2>2. QED
    BY <1>1, <2>1, FromGrows
<1>9. QED
  BY <1>3, <1>4, <1>5, <1>6, <1>7, <1>8 DEF Core

(* The types, once the step's own part is known. *)
LEMMA EnqueueTypes ==
  ASSUME IInv, NEW u \in User, NEW s \in Seq(Write), Enqueue(u, s),
         UNCHANGED <<answers, server, refused>>,
         sent \subseteq sent', sent' \subseteq Message,
         screen' \in PerPair({"new", "open", "left"}),
         counting' \in [User -> SUBSET sent'],
         clearing' \in PerPair(Nat),
         cleared' \in PerPair(SUBSET sent'),
         turns' \in Nat, restarts' \in Nat, breaks' \in Nat
  PROVE  TypeOK'
<1>1. /\ queue \in [User -> Seq(Write)] /\ answers \in [User -> Seq(BOOLEAN)]
      /\ \A v \in User : Len(answers[v]) <= Len(queue[v])
  BY DEF IInv, TypeOK
<1>2. /\ queue' \in [User -> Seq(Write)]
      /\ \A v \in User : Len(queue[v]) <= Len(queue'[v])
  BY <1>1, QueueGrows
<1>3. \A v \in User : Len(answers'[v]) <= Len(queue'[v])
  <2>1. \A v \in User : /\ Len(answers[v]) \in Nat /\ Len(queue[v]) \in Nat
                        /\ Len(queue'[v]) \in Nat
    BY <1>1, <1>2
  <2>2. QED
    BY <1>1, <1>2, <2>1
<1>4. /\ mail \in [User -> [User -> SUBSET sent]]
      /\ rows \in [User -> [User -> [last : sent \cup {NoMsg}, badge : Nat]]]
      /\ badges \in [User -> [User -> SUBSET sent]]
      /\ refused \subseteq Write
  BY DEF IInv, TypeOK, PerPair
<1>5. /\ mail' = mail /\ rows' = rows /\ badges' = badges
      /\ refused' = refused /\ answers' = answers
  BY DEF server
<1>6. SUBSET sent \subseteq SUBSET sent'
      /\ [last : sent \cup {NoMsg}, badge : Nat] \subseteq [last : sent' \cup {NoMsg}, badge : Nat]
  OBVIOUS
<1>7. mail' \in [User -> [User -> SUBSET sent']] /\ badges' \in [User -> [User -> SUBSET sent']]
  BY <1>4, <1>5, <1>6
<1>8. rows' \in [User -> [User -> [last : sent' \cup {NoMsg}, badge : Nat]]]
  BY <1>4, <1>5, <1>6
<1>9. QED
  BY <1>1, <1>2, <1>3, <1>4, <1>5, <1>7, <1>8 DEF TypeOK, PerPair

(* Nothing but a message's own step sends it. *)
LEMMA EnqueueIInv ==
  ASSUME IInv, NEW u \in User, NEW s \in Seq(Write), Enqueue(u, s),
         UNCHANGED <<sent, answers, server, refused, restarts, breaks>>,
         \A k \in DOMAIN s : Fits(s[k]) /\ s[k].kind # "row",
         screen' \in PerPair({"new", "open", "left"}),
         counting' \in [User -> SUBSET sent],
         clearing' \in PerPair(Nat),
         cleared' \in PerPair(SUBSET sent),
         turns' \in Nat
  PROVE  IInv'
<1>1. IsFiniteSet(sent') /\ sent \subseteq sent' /\ sent' \subseteq Message /\ sent' = sent
  BY DEF IInv, TypeOK
<1>2. \A k \in DOMAIN s : Fits(s[k])' /\ s[k].kind # "row"
  BY <1>1 DEF Fits, From
<1>3. Core'
  BY <1>1, <1>2, EnqueueCore
<1>4. TypeOK'
  <2>1. restarts' \in Nat /\ breaks' \in Nat
    BY DEF IInv, TypeOK
  <2>2. QED
    BY <1>1, <2>1, EnqueueTypes
<1>5. QED
  BY <1>1, <1>3, <1>4 DEF IInv, Core

(* A step that queues nothing. *)
LEMMA NoWriteIInv ==
  ASSUME IInv, NEW u \in User,
         UNCHANGED <<queue, sent, answers, server, refused, restarts, breaks>>,
         screen' \in PerPair({"new", "open", "left"}),
         counting' \in [User -> SUBSET sent],
         clearing' \in PerPair(Nat),
         cleared' \in PerPair(SUBSET sent),
         turns' \in Nat
  PROVE  IInv'
<1>1. queue \in [User -> Seq(Write)] /\ queue' = queue
  BY DEF IInv, TypeOK
<1>2. queue[u] \o <<>> = queue[u]
  BY <1>1, ConcatEmptySeq
<1>3. PICK s : s = <<>>
  OBVIOUS
<1>4. Enqueue(u, s) /\ s \in Seq(Write) /\ DOMAIN s = {}
  BY <1>1, <1>2, <1>3 DEF Enqueue
<1>5. \A k \in DOMAIN s : Fits(s[k]) /\ s[k].kind # "row"
  BY <1>4
<1>6. QED
  BY <1>4, <1>5, EnqueueIInv

-----------------------------------------------------------------------------
(* The steps of an app *)

LEMMA OneWrite ==
  ASSUME NEW w \in Write
  PROVE  <<w>> \in Seq(Write) /\ DOMAIN <<w>> = {1} /\ <<w>>[1] = w
OBVIOUS

LEMMA OpenChatIInv == ASSUME IInv, NEW u \in User, NEW p \in User, OpenChat(u, p) PROVE IInv'
<1>1. /\ screen \in PerPair({"new", "open", "left"}) /\ clearing \in PerPair(Nat)
      /\ counting \in [User -> SUBSET sent] /\ cleared \in PerPair(SUBSET sent)
      /\ turns \in Nat
  BY DEF IInv, TypeOK
<1>2. screen' \in PerPair({"new", "open", "left"}) /\ clearing' \in PerPair(Nat) /\ turns' \in Nat
  BY <1>1 DEF OpenChat, PerPair
<1>3. UNCHANGED <<queue, sent, counting, answers, server, cleared, refused, restarts, breaks>>
  BY DEF OpenChat
<1>4. QED
  BY <1>1, <1>2, <1>3, NoWriteIInv

LEMMA CloseChatIInv == ASSUME IInv, NEW u \in User, NEW p \in User, CloseChat(u, p) PROVE IInv'
<1> DEFINE w == CountWrite(u, p, 0)
<1>1. /\ screen \in PerPair({"new", "open", "left"}) /\ clearing \in PerPair(Nat)
      /\ counting \in [User -> SUBSET sent] /\ cleared \in PerPair(SUBSET sent)
      /\ turns \in Nat
  BY DEF IInv, TypeOK
<1>2. screen' \in PerPair({"new", "open", "left"}) /\ clearing' \in PerPair(Nat) /\ turns' \in Nat
  BY <1>1 DEF CloseChat, PerPair
<1>3. UNCHANGED <<sent, counting, answers, server, cleared, refused, restarts, breaks>> /\ Enqueue(u, <<w>>)
  BY DEF CloseChat
<1>4. /\ w \in Write /\ w.kind = "count" /\ w.owner = u /\ w.peer = p /\ w.count = 0
  BY CountWriteType
<1> HIDE DEF w
<1>5. Fits(w)
  <2>1. Cardinality(From(p, u)) \in Nat
    BY FS_Subset, FS_CardinalityType DEF IInv, From
  <2>2. QED
    BY <1>4, <2>1 DEF Fits
<1>6. <<w>> \in Seq(Write) /\ \A k \in DOMAIN <<w>> : Fits(<<w>>[k]) /\ <<w>>[k].kind # "row"
  BY <1>4, <1>5, OneWrite
<1>7. QED
  BY <1>1, <1>2, <1>3, <1>6, EnqueueIInv

LEMMA ClearAnsweredIInv ==
  ASSUME IInv, NEW u \in User, NEW p \in User, ClearAnswered(u, p) PROVE IInv'
<1> DEFINE found == badges[u][p] \ QueuedDocs(u, "unbadge", u, p)
<1>1. /\ screen \in PerPair({"new", "open", "left"}) /\ clearing \in PerPair(Nat)
      /\ counting \in [User -> SUBSET sent] /\ cleared \in PerPair(SUBSET sent)
      /\ turns \in Nat
  BY DEF IInv, TypeOK
<1>2. UNCHANGED <<screen, sent, counting, answers, server, refused, turns, restarts, breaks>>
  BY DEF ClearAnswered
<1>3. clearing' \in PerPair(Nat)
  BY <1>1 DEF ClearAnswered, PerPair
<1>4. CASE UNCHANGED <<queue, cleared>>
  BY <1>1, <1>2, <1>3, <1>4, NoWriteIInv
<1>5. ASSUME NEW f \in Listings(found),
             Enqueue(u, [i \in DOMAIN f |-> About("unbadge", f[i], u)]),
             cleared' = [cleared EXCEPT ![u][p] = @ \cup found]
      PROVE  IInv'
  <2> DEFINE s == [i \in DOMAIN f |-> About("unbadge", f[i], u)]
  <2>1. found \subseteq From(p, u) /\ IsFiniteSet(found) /\ found \subseteq sent
        /\ Cardinality(found) \in Nat
    BY FS_Subset, FS_CardinalityType DEF IInv, BadgesFit, From
  <2>2. DOMAIN f = 1..Cardinality(found) /\ \A i \in DOMAIN f : f[i] \in found
    BY DEF Listings
  <2> HIDE DEF found
  <2>3. \A i \in DOMAIN f : f[i] \in Message /\ f[i].to = u /\ f[i] \in sent
    BY <2>1, <2>2 DEF From, IInv, TypeOK
  <2>4. \A i \in DOMAIN f : /\ About("unbadge", f[i], u) \in Write
                            /\ About("unbadge", f[i], u).kind = "unbadge"
                            /\ About("unbadge", f[i], u).msg = f[i]
    <3>1. "unbadge" \in Kind
      BY DEF Kind
    <3>2. QED
      BY <2>3, <3>1, AboutType
  <2>5. s \in Seq(Write) /\ DOMAIN s = DOMAIN f
    BY <2>1, <2>2, <2>4
  <2>6. \A k \in DOMAIN s : Fits(s[k]) /\ s[k].kind # "row"
    BY <2>3, <2>4, <2>5 DEF Fits
  <2>7. cleared' \in PerPair(SUBSET sent)
    BY <1>1, <1>5, <2>1 DEF PerPair
  <2> HIDE DEF s
  <2>8. Enqueue(u, s)
    BY <1>5 DEF s
  <2>9. QED
    BY <1>1, <1>2, <1>3, <2>5, <2>6, <2>7, <2>8, EnqueueIInv
<1>6. QED
  BY <1>4, <1>5 DEF ClearAnswered

LEMMA SendMessageIInv ==
  ASSUME IInv, NEW u \in User, NEW p \in User, NEW t \in Stamp, SendMessage(u, p, t), u # p
  PROVE  IInv'
<1> DEFINE m == [from |-> u, to |-> p, id |-> t]
           w1 == About("message", m, u)
           w2 == About("message", m, p)
           w3 == About("badge", m, p)
<1>1. m \in Message /\ m.from = u /\ m.to = p
  BY DEF Message
<1>2. /\ sent' = sent \cup {m}
      /\ counting' = [counting EXCEPT ![u] = @ \cup {m}]
      /\ Enqueue(u, <<w1, w2, w3>>)
      /\ UNCHANGED <<screen, clearing, answers, server, history>>
  BY DEF SendMessage
<1> HIDE DEF m
<1>3. /\ w1 \in Write /\ w1.kind = "message" /\ w1.msg = m /\ w1.owner = u /\ w1.peer = Other(m, u)
      /\ w2 \in Write /\ w2.kind = "message" /\ w2.msg = m /\ w2.owner = p /\ w2.peer = Other(m, p)
      /\ w3 \in Write /\ w3.kind = "badge" /\ w3.msg = m /\ w3.owner = p /\ w3.peer = Other(m, p)
  <2>1. "message" \in Kind /\ "badge" \in Kind
    BY DEF Kind
  <2>2. QED
    BY <1>1, <2>1, AboutType
<1> HIDE DEF w1, w2, w3
<1>4. PICK s : s = <<w1, w2, w3>>
  OBVIOUS
<1>5. /\ s \in Seq(Write) /\ DOMAIN s = {1, 2, 3}
      /\ s[1] = w1 /\ s[2] = w2 /\ s[3] = w3
  BY <1>3, <1>4
<1>6. /\ IsFiniteSet(sent') /\ sent \subseteq sent' /\ sent' \subseteq Message /\ m \in sent'
      /\ sent' \ sent \subseteq {m}
  BY <1>1, <1>2, FS_AddElement DEF IInv, TypeOK
<1>7. Fits(w1)' /\ Fits(w2)' /\ Fits(w3)'
  BY <1>1, <1>3, <1>6 DEF Fits, Other
<1>8. \A k \in DOMAIN s : Fits(s[k])' /\ s[k].kind # "row"
  BY <1>3, <1>5, <1>7 DEF Fits
<1>9. \A x \in sent' \ sent : x.from = u /\ \A o \in {x.from, x.to} :
        \E k \in DOMAIN s : s[k].kind = "message" /\ s[k].msg = x /\ s[k].owner = o
  BY <1>1, <1>3, <1>5, <1>6
<1>10. Enqueue(u, s) /\ UNCHANGED <<answers, server, refused>>
  BY <1>2, <1>4 DEF history
<1>11. Core'
  BY <1>5, <1>6, <1>8, <1>9, <1>10, EnqueueCore
<1>12. TypeOK'
  <2>1. /\ screen \in PerPair({"new", "open", "left"}) /\ clearing \in PerPair(Nat)
        /\ counting \in [User -> SUBSET sent] /\ cleared \in [User -> [User -> SUBSET sent]]
        /\ turns \in Nat /\ restarts \in Nat /\ breaks \in Nat
    BY DEF IInv, TypeOK, PerPair
  <2>2. SUBSET sent \subseteq SUBSET sent'
    BY <1>6
  <2>3. counting' \in [User -> SUBSET sent']
    BY <1>2, <1>6, <2>1, <2>2
  <2>4. cleared' \in PerPair(SUBSET sent')
    BY <1>2, <2>1, <2>2 DEF history, PerPair
  <2>5. /\ screen' \in PerPair({"new", "open", "left"}) /\ clearing' \in PerPair(Nat)
        /\ turns' \in Nat /\ restarts' \in Nat /\ breaks' \in Nat
    BY <1>2, <2>1 DEF history
  <2>6. QED
    BY <1>5, <1>6, <1>10, <2>3, <2>4, <2>5, EnqueueTypes
<1>13. QED
  BY <1>6, <1>11, <1>12 DEF IInv, Core

(* What the sender can see of the marks was sent by it. *)
LEMMA CountIsSent ==
  ASSUME IInv, NEW u \in User, NEW o \in User, NEW known, known \in {badges[o][u], {}}
  PROVE  /\ Cardinality(known \cup QueuedDocs(u, "badge", o, u)) \in Nat
         /\ Cardinality(known \cup QueuedDocs(u, "badge", o, u)) <= Cardinality(From(u, o))
<1> DEFINE docs == known \cup QueuedDocs(u, "badge", o, u)
<1>1. QueuedDocs(u, "badge", o, u) \subseteq From(u, o)
  <2> SUFFICES ASSUME NEW i \in DOMAIN queue[u], queue[u][i].kind = "badge",
                      queue[u][i].owner = o, queue[u][i].peer = u
               PROVE  queue[u][i].msg \in From(u, o)
    BY DEF QueuedDocs
  <2>1. Fits(queue[u][i])
    BY DEF IInv, QueueFits
  <2>2. QED
    BY <2>1 DEF Fits, From
<1>2. docs \subseteq From(u, o) /\ From(u, o) \subseteq sent /\ IsFiniteSet(sent)
  BY <1>1 DEF IInv, BadgesFit, From
<1>3. QED
  BY <1>2, FS_Subset, FS_CardinalityType

LEMMA CountAnsweredIInv ==
  ASSUME IInv, NEW u \in User, NEW m \in counting[u], CountAnswered(u, m)
  PROVE  IInv'
<1>1. /\ screen \in PerPair({"new", "open", "left"}) /\ clearing \in PerPair(Nat)
      /\ counting \in [User -> SUBSET sent] /\ cleared \in PerPair(SUBSET sent)
      /\ turns \in Nat
  BY DEF IInv, TypeOK
<1>2. UNCHANGED <<screen, sent, clearing, answers, server, history>>
      /\ counting' \in [User -> SUBSET sent]
  BY <1>1 DEF CountAnswered
<1>3. UNCHANGED <<cleared, refused, turns, restarts, breaks>>
  BY <1>2 DEF history
<1>4. m \in Message /\ m.to \in User
  BY <1>1 DEF IInv, TypeOK, Message
<1>5. CASE UNCHANGED queue
  BY <1>1, <1>2, <1>3, <1>5, NoWriteIInv
<1>6. ASSUME NEW known \in {badges[m.to][u], {}},
             Enqueue(u, <<CountWrite(m.to, u,
                            Cardinality(known \cup QueuedDocs(u, "badge", m.to, u)))>>)
      PROVE  IInv'
  <2>1. PICK n : n = Cardinality(known \cup QueuedDocs(u, "badge", m.to, u))
    OBVIOUS
  <2>2. n \in Nat /\ n <= Cardinality(From(u, m.to))
    BY <1>4, <2>1, CountIsSent
  <2>3. PICK w : w = CountWrite(m.to, u, n)
    OBVIOUS
  <2>4. /\ w \in Write /\ w.kind = "count" /\ w.owner = m.to /\ w.peer = u /\ w.count = n
    BY <1>4, <2>2, <2>3, CountWriteType
  <2>5. Fits(w)
    BY <2>2, <2>4 DEF Fits
  <2>6. <<w>> \in Seq(Write) /\ \A k \in DOMAIN <<w>> : Fits(<<w>>[k]) /\ <<w>>[k].kind # "row"
    BY <2>4, <2>5, OneWrite
  <2>7. Enqueue(u, <<w>>)
    BY <1>6, <2>1, <2>3
  <2>8. QED
    BY <1>1, <1>2, <1>3, <2>6, <2>7, EnqueueIInv
<1>7. QED
  BY <1>5, <1>6 DEF CountAnswered

-----------------------------------------------------------------------------
(* The steps of Firestore *)

(* Where the next write is. *)
LEMMA NextWriteIsThere ==
  ASSUME IInv, NEW u \in User, CanAnswer(u)
  PROVE  /\ Len(answers[u]) + 1 \in DOMAIN queue[u]
         /\ NextWrite(u) \in Write
         /\ NextWrite(u) = queue[u][Len(answers[u]) + 1]
         /\ Fits(NextWrite(u))
<1>1. queue[u] \in Seq(Write) /\ answers[u] \in Seq(BOOLEAN)
  BY DEF IInv, TypeOK
<1>2. Len(answers[u]) + 1 \in DOMAIN queue[u]
  BY <1>1 DEF CanAnswer
<1>3. QED
  BY <1>1, <1>2 DEF NextWrite, IInv, QueueFits

(* What an answer adds to the answers on their way. *)
LEMMA AnswerGrows ==
  ASSUME IInv, NEW u \in User, CanAnswer(u), NEW ok \in BOOLEAN,
         answers' = [answers EXCEPT ![u] = Append(@, ok)], UNCHANGED queue
  PROVE  /\ answers' \in [User -> Seq(BOOLEAN)]
         /\ \A v \in User : v = u \/ answers'[v] = answers[v]
         /\ Len(answers'[u]) = Len(answers[u]) + 1
         /\ answers'[u][Len(answers[u]) + 1] = ok
         /\ \A i \in 1..Len(answers[u]) : answers'[u][i] = answers[u][i]
         /\ \A v \in User : Len(answers'[v]) <= Len(queue'[v])
<1> DEFINE a == answers[u]
           b == Append(a, ok)
<1>1. /\ answers \in [User -> Seq(BOOLEAN)] /\ queue \in [User -> Seq(Write)]
      /\ \A v \in User : Len(answers[v]) <= Len(queue[v])
  BY DEF IInv, TypeOK
<1>2. /\ b \in Seq(BOOLEAN) /\ Len(b) = Len(a) + 1 /\ b[Len(a) + 1] = ok
      /\ \A i \in 1..Len(a) : b[i] = a[i]
  BY <1>1, AppendProperties
<1>3. answers'[u] = b /\ \A v \in User : v = u \/ answers'[v] = answers[v]
  BY <1>1
<1>4. \A v \in User : Len(answers[v]) \in Nat /\ Len(queue[v]) \in Nat
  BY <1>1
<1>5. answers' \in [User -> Seq(BOOLEAN)]
  BY <1>1, <1>2
<1>6. Len(b) <= Len(queue[u])
  BY <1>2, <1>4 DEF CanAnswer
<1> HIDE DEF b
<1>7. \A v \in User : Len(answers'[v]) <= Len(queue'[v])
  BY <1>1, <1>3, <1>6
<1>8. QED
  BY <1>2, <1>3, <1>5, <1>7

(* Replacing one document of one pair. *)
LEMMA PutDocument ==
  ASSUME NEW S, NEW f \in [User -> [User -> S]], NEW o \in User, NEW p \in User, NEW e \in S,
         NEW g, g = [f EXCEPT ![o][p] = e]
  PROVE  /\ g \in [User -> [User -> S]]
         /\ g[o][p] = e
         /\ \A v, q \in User : (v = o /\ q = p) \/ g[v][q] = f[v][q]
OBVIOUS

(* What storing a write does to the server. *)
LEMMA StoreServer ==
  ASSUME IInv, NEW w \in Write, Fits(w), Store(w), UNCHANGED sent,
         w.kind = "row" => HasId(mail[w.owner][w.peer], w.msg)
  PROVE  /\ mail' \in PerPair(SUBSET sent)
         /\ rows' \in PerPair([last : sent \cup {NoMsg}, badge : Nat])
         /\ badges' \in PerPair(SUBSET sent)
         /\ \A o, p \in User : \A m : HasId(mail[o][p], m) => HasId(mail'[o][p], m)
         /\ w.kind = "message" => HasId(mail'[w.owner][w.peer], w.msg)
         /\ BadgesFit' /\ PreviewHasMessage' /\ BadgeNeverOvercounts'
<1> DEFINE o == w.owner
           p == w.peer
<1>1. /\ mail \in [User -> [User -> SUBSET sent]]
      /\ rows \in [User -> [User -> [last : sent \cup {NoMsg}, badge : Nat]]]
      /\ badges \in [User -> [User -> SUBSET sent]]
      /\ BadgesFit /\ PreviewHasMessage /\ BadgeNeverOvercounts /\ sent' = sent
  BY DEF IInv, TypeOK, PerPair
<1>2. o \in User /\ p \in User /\ w.count \in Nat
      /\ (w.kind # "count" => w.msg \in sent)
  BY DEF Write, Fits
<1>3. CASE /\ w.kind = "message"
           /\ mail' = [mail EXCEPT ![o][p] = {x \in @ : x.id # w.msg.id} \cup {w.msg}]
           /\ UNCHANGED <<rows, badges>>
  <2> DEFINE box == {x \in mail[o][p] : x.id # w.msg.id} \cup {w.msg}
  <2>1. mail'[o][p] = box /\ \A v, q \in User : (v = o /\ q = p) \/ mail'[v][q] = mail[v][q]
    BY <1>1, <1>2, <1>3
  <2>2. \A m : HasId(mail[o][p], m) => HasId(box, m)
    BY StoringKeepsIds
  <2>3. HasId(box, w.msg)
    BY DEF HasId
  <2>4. mail' \in [User -> [User -> SUBSET sent]]
    BY <1>1, <1>2, <1>3
  <2> HIDE DEF box
  <2>5. \A v, q \in User : \A m : HasId(mail[v][q], m) => HasId(mail'[v][q], m)
    BY <2>1, <2>2
  <2>6. PreviewHasMessage'
    BY <1>1, <1>3, <2>5 DEF PreviewHasMessage
  <2>7. BadgesFit' /\ BadgeNeverOvercounts'
    BY <1>1, <1>3 DEF BadgesFit, BadgeNeverOvercounts, From
  <2>8. HasId(mail'[w.owner][w.peer], w.msg)
    BY <2>1, <2>3 DEF HasId
  <2>9. QED
    BY <1>1, <1>3, <2>4, <2>5, <2>6, <2>7, <2>8 DEF PerPair
<1>4. CASE /\ w.kind = "row"
           /\ rows' = [rows EXCEPT ![o][p].last = w.msg]
           /\ UNCHANGED <<mail, badges>>
  <2> DEFINE row == [rows[o][p] EXCEPT !.last = w.msg]
             Row == [last : sent \cup {NoMsg}, badge : Nat]
  <2>1. rows[o][p] \in Row
    BY <1>1, <1>2
  <2>2. row \in Row /\ row.last = w.msg /\ row.badge = rows[o][p].badge
    BY <1>2, <1>4, <2>1
  <2>3. rows' = [rows EXCEPT ![o][p] = row]
    BY <1>4
  <2>4. /\ rows' \in [User -> [User -> Row]]
        /\ rows'[o][p] = row
        /\ \A v, q \in User : (v = o /\ q = p) \/ rows'[v][q] = rows[v][q]
    BY <1>1, <1>2, <2>2, <2>3, PutDocument
  <2>5. HasId(mail[o][p], w.msg)
    BY <1>4
  <2> HIDE DEF row
  <2>6. PreviewHasMessage'
    <3> SUFFICES ASSUME NEW v \in User, NEW q \in User, rows'[v][q].last # NoMsg
                 PROVE  HasId(mail'[v][q], rows'[v][q].last)
      BY DEF PreviewHasMessage
    <3>1. CASE v = o /\ q = p
      BY <1>4, <2>2, <2>4, <2>5, <3>1
    <3>2. CASE rows'[v][q] = rows[v][q]
      BY <1>1, <1>4, <3>2 DEF PreviewHasMessage
    <3>3. QED
      BY <2>4, <3>1, <3>2
  <2>7. BadgesFit' /\ BadgeNeverOvercounts'
    BY <1>1, <1>4, <2>2, <2>4 DEF BadgesFit, BadgeNeverOvercounts, From
  <2>8. QED
    BY <1>1, <1>4, <2>4, <2>6, <2>7 DEF PerPair
<1>5. CASE /\ w.kind = "count"
           /\ rows' = [rows EXCEPT ![o][p].badge = w.count]
           /\ UNCHANGED <<mail, badges>>
  <2> DEFINE row == [rows[o][p] EXCEPT !.badge = w.count]
             Row == [last : sent \cup {NoMsg}, badge : Nat]
  <2>1. rows[o][p] \in Row
    BY <1>1, <1>2
  <2>2. row \in Row /\ row.badge = w.count /\ row.last = rows[o][p].last
    BY <1>2, <2>1
  <2>3. rows' = [rows EXCEPT ![o][p] = row]
    BY <1>5
  <2>4. /\ rows' \in [User -> [User -> Row]]
        /\ rows'[o][p] = row
        /\ \A v, q \in User : (v = o /\ q = p) \/ rows'[v][q] = rows[v][q]
    BY <1>1, <1>2, <2>2, <2>3, PutDocument
  <2> HIDE DEF row
  <2>5. \A v, q \in User : rows'[v][q].last = rows[v][q].last
    BY <2>2, <2>4
  <2>6. PreviewHasMessage'
    BY <1>1, <1>5, <2>5 DEF PreviewHasMessage
  <2>7. w.count <= Cardinality(From(p, o))
    BY <1>5 DEF Fits
  <2>8. \A v, q \in User : rows'[v][q].badge <= Cardinality(From(q, v))
    BY <1>1, <2>2, <2>4, <2>7 DEF BadgeNeverOvercounts
  <2>9. BadgesFit' /\ BadgeNeverOvercounts'
    BY <1>1, <1>5, <2>8 DEF BadgesFit, BadgeNeverOvercounts, From
  <2>10. QED
    BY <1>1, <1>5, <2>4, <2>6, <2>9 DEF PerPair
<1>6. CASE /\ w.kind \in {"badge", "unbadge"}
           /\ \/ badges' = [badges EXCEPT ![o][p] = @ \cup {w.msg}] /\ w.kind = "badge"
              \/ badges' = [badges EXCEPT ![o][p] = @ \ {w.msg}]
           /\ UNCHANGED <<mail, rows>>
  <2>1. PICK docs : /\ badges' = [badges EXCEPT ![o][p] = docs]
                    /\ \/ docs = badges[o][p] \cup {w.msg} /\ w.kind = "badge"
                       \/ docs = badges[o][p] \ {w.msg}
    BY <1>6
  <2>2. badges[o][p] \subseteq From(p, o) /\ From(p, o) \subseteq sent
    BY <1>1, <1>2 DEF BadgesFit, From
  <2>3. w.kind = "badge" => w.msg \in From(p, o)
    BY <1>2 DEF Fits, From
  <2>4. docs \subseteq From(p, o) /\ docs \in SUBSET sent
    BY <2>1, <2>2, <2>3
  <2>5. /\ badges' \in [User -> [User -> SUBSET sent]]
        /\ badges'[o][p] = docs
        /\ \A v, q \in User : (v = o /\ q = p) \/ badges'[v][q] = badges[v][q]
    BY <1>1, <1>2, <2>1, <2>4, PutDocument
  <2>6. \A v, q \in User : badges'[v][q] \subseteq From(q, v)
    BY <1>1, <2>4, <2>5 DEF BadgesFit
  <2>7. BadgesFit'
    BY <1>1, <2>6 DEF BadgesFit, From
  <2>8. PreviewHasMessage' /\ BadgeNeverOvercounts'
    BY <1>1, <1>6 DEF PreviewHasMessage, HasId, BadgeNeverOvercounts, From
  <2>9. QED
    BY <1>1, <1>6, <2>5, <2>7, <2>8 DEF PerPair
<1>7. QED
  BY <1>3, <1>4, <1>5, <1>6 DEF Store

LEMMA CommitIInv == ASSUME IInv, NEW u \in User, Commit(u) PROVE IInv'
<1> DEFINE n == Len(answers[u]) + 1
<1>1. /\ CanAnswer(u) /\ Store(NextWrite(u))
      /\ answers' = [answers EXCEPT ![u] = Append(@, TRUE)]
      /\ UNCHANGED <<queue, screen, sent, counting, clearing, cleared, refused, turns, restarts, breaks>>
  BY DEF Commit, client, history
<1>2. PICK w : w = NextWrite(u)
  OBVIOUS
<1>3. w \in Write /\ Fits(w) /\ w = queue[u][n] /\ n \in DOMAIN queue[u]
  BY <1>1, <1>2, NextWriteIsThere
<1>4. w.kind = "row" => HasId(mail[w.owner][w.peer], w.msg)
  BY <1>3 DEF IInv, AnsweredStored, Announced
<1>5. /\ mail' \in PerPair(SUBSET sent)
      /\ rows' \in PerPair([last : sent \cup {NoMsg}, badge : Nat])
      /\ badges' \in PerPair(SUBSET sent)
      /\ \A o, p \in User : \A m : HasId(mail[o][p], m) => HasId(mail'[o][p], m)
      /\ w.kind = "message" => HasId(mail'[w.owner][w.peer], w.msg)
      /\ BadgesFit' /\ PreviewHasMessage' /\ BadgeNeverOvercounts'
  <2>1. Store(w) /\ UNCHANGED sent
    BY <1>1, <1>2
  <2>2. QED
    BY <1>3, <1>4, <2>1, StoreServer
<1>6. /\ answers' \in [User -> Seq(BOOLEAN)]
      /\ \A v \in User : v = u \/ answers'[v] = answers[v]
      /\ Len(answers'[u]) = n
      /\ \A i \in 1..Len(answers[u]) : answers'[u][i] = answers[u][i]
      /\ \A v \in User : Len(answers'[v]) <= Len(queue'[v])
  BY <1>1, AnswerGrows
<1>7. /\ queue \in [User -> Seq(Write)] /\ answers \in [User -> Seq(BOOLEAN)]
      /\ sent \subseteq Message
      /\ \A v \in User : DOMAIN queue[v] = 1..Len(queue[v]) /\ Len(queue[v]) \in Nat
                         /\ Len(answers[v]) \in Nat
  BY DEF IInv, TypeOK
<1>8. TypeOK' /\ IsFiniteSet(sent')
  BY <1>1, <1>5, <1>6 DEF IInv, TypeOK, PerPair
<1>9. QueueFits'
  BY <1>1 DEF IInv, QueueFits, Fits, From
<1>10. AnsweredStored'
  <2> SUFFICES ASSUME NEW v \in User, NEW i \in DOMAIN queue[v], Announced(v, i)'
               PROVE  HasId(mail'[queue[v][i].owner][queue[v][i].peer], queue[v][i].msg)
    BY <1>1 DEF AnsweredStored
  <2>1. queue[v][i].owner \in User /\ queue[v][i].peer \in User
    <3>1. queue[v] \in Seq(Write) /\ i \in 1..Len(queue[v])
      BY <1>7
    <3>2. queue[v][i] \in Write
      BY <3>1
    <3>3. QED
      BY <3>2 DEF Write
  <2>2. CASE Announced(v, i)
    <3>1. HasId(mail[queue[v][i].owner][queue[v][i].peer], queue[v][i].msg)
      BY <2>2 DEF IInv, AnsweredStored
    <3>2. PICK o, p, m : /\ o = queue[v][i].owner /\ p = queue[v][i].peer
                         /\ m = queue[v][i].msg
      OBVIOUS
    <3>3. HasId(mail'[o][p], m)
      BY <1>5, <2>1, <3>1, <3>2
    <3>4. QED
      BY <3>2, <3>3
  <2>3. CASE v = u /\ i = n /\ queue[v][i].kind = "message"
    BY <1>3, <1>5, <2>3
  <2>4. QED
    <3>1. CASE queue[v][i].kind = "row"
      BY <2>2, <3>1 DEF Announced
    <3>2. CASE queue[v][i].kind # "row"
      <4>1. queue[v][i].kind = "message" /\ i <= Len(answers'[v]) /\ answers'[v][i]
        BY <1>1, <3>2 DEF Announced
      <4>2. CASE v # u
        BY <1>6, <2>2, <4>1, <4>2 DEF Announced
      <4>3. CASE v = u /\ i <= Len(answers[u])
        <5>1. i \in 1..Len(answers[u])
          BY <1>7, <4>3
        <5>2. answers[u][i]
          BY <1>6, <4>1, <4>3, <5>1
        <5>3. QED
          BY <2>2, <4>1, <4>3, <5>2 DEF Announced
      <4>4. CASE v = u /\ ~ (i <= Len(answers[u]))
        BY <1>6, <1>7, <2>3, <4>1, <4>4
      <4>5. QED
        BY <4>2, <4>3, <4>4
    <3>3. QED
      BY <3>1, <3>2
<1>11. NoMessageLost'
  <2> SUFFICES ASSUME NEW m \in sent, NEW o \in {m.from, m.to}
               PROVE  \/ Pending(m.from, "message", m, o)'
                      \/ Refused("message", m, o)'
                      \/ HasId(mail'[o][Other(m, o)], m)
    BY <1>1 DEF NoMessageLost
  <2>1. m.from \in User /\ m.to \in User /\ o \in User /\ Other(m, o) \in User
    BY <1>7 DEF Message, Other
  <2>2. CASE Refused("message", m, o)
    BY <1>1, <2>2 DEF Refused
  <2>3. CASE HasId(mail[o][Other(m, o)], m)
    BY <1>5, <2>1, <2>3
  <2>4. CASE Pending(m.from, "message", m, o)
    <3>1. PICK i \in DOMAIN queue[m.from] : /\ i > Len(answers[m.from])
                                           /\ queue[m.from][i].kind = "message"
                                           /\ queue[m.from][i].msg = m
                                           /\ queue[m.from][i].owner = o
      BY <2>4 DEF Pending
    <3>2. CASE m.from = u /\ i = n
      <4>1. w.kind = "message" /\ w.msg = m /\ w.owner = o
        BY <1>3, <3>1, <3>2
      <4>2. w.peer = Other(m, o)
        BY <1>3, <4>1 DEF Fits
      <4>3. QED
        BY <1>5, <4>1, <4>2
    <3>3. CASE ~ (m.from = u /\ i = n)
      <4>1. i > Len(answers'[m.from])
        <5>1. CASE m.from = u
          BY <1>6, <1>7, <3>1, <3>3, <5>1
        <5>2. CASE m.from # u
          BY <1>6, <2>1, <3>1, <5>2
        <5>3. QED
          BY <5>1, <5>2
      <4>2. QED
        BY <1>1, <3>1, <4>1 DEF Pending
    <3>4. QED
      BY <3>2, <3>3
  <2>5. QED
    BY <2>2, <2>3, <2>4 DEF IInv, NoMessageLost
<1>12. QED
  BY <1>5, <1>8, <1>9, <1>10, <1>11 DEF IInv

LEMMA RefuseIInv == ASSUME IInv, NEW u \in User, Refuse(u) PROVE IInv'
<1> DEFINE n == Len(answers[u]) + 1
<1>1. /\ CanAnswer(u)
      /\ refused' = refused \cup {[NextWrite(u) EXCEPT !.heard = FALSE]}
      /\ answers' = [answers EXCEPT ![u] = Append(@, FALSE)]
      /\ UNCHANGED <<queue, screen, sent, counting, clearing, mail, rows, badges,
                     cleared, turns, restarts, breaks>>
  BY DEF Refuse, client, server
<1>2. PICK w : w = NextWrite(u)
  OBVIOUS
<1>3. w \in Write /\ Fits(w) /\ w = queue[u][n] /\ n \in DOMAIN queue[u]
  BY <1>1, <1>2, NextWriteIsThere
<1>4. PICK r : r = [w EXCEPT !.heard = FALSE]
  OBVIOUS
<1>5. r \in Write /\ r.kind = w.kind /\ r.msg = w.msg /\ r.owner = w.owner
  BY <1>3, <1>4 DEF Write
<1>6. refused' = refused \cup {r}
  BY <1>1, <1>2, <1>4
<1>7. /\ answers' \in [User -> Seq(BOOLEAN)]
      /\ \A v \in User : v = u \/ answers'[v] = answers[v]
      /\ Len(answers'[u]) = n
      /\ answers'[u][n] = FALSE
      /\ \A i \in 1..Len(answers[u]) : answers'[u][i] = answers[u][i]
      /\ \A v \in User : Len(answers'[v]) <= Len(queue'[v])
  BY <1>1, AnswerGrows
<1>8. /\ queue \in [User -> Seq(Write)] /\ answers \in [User -> Seq(BOOLEAN)]
      /\ sent \subseteq Message
      /\ \A v \in User : DOMAIN queue[v] = 1..Len(queue[v]) /\ Len(queue[v]) \in Nat
                         /\ Len(answers[v]) \in Nat
  BY DEF IInv, TypeOK
<1>9. TypeOK' /\ IsFiniteSet(sent')
  BY <1>1, <1>5, <1>6, <1>7 DEF IInv, TypeOK, PerPair
<1>10. QueueFits' /\ BadgesFit' /\ PreviewHasMessage' /\ BadgeNeverOvercounts'
  <2>1. QueueFits'
    BY <1>1 DEF IInv, QueueFits, Fits, From
  <2>2. BadgesFit' /\ BadgeNeverOvercounts'
    BY <1>1 DEF IInv, BadgesFit, BadgeNeverOvercounts, From
  <2>3. PreviewHasMessage'
    BY <1>1 DEF IInv, PreviewHasMessage, HasId
  <2>4. QED
    BY <2>1, <2>2, <2>3
<1>11. AnsweredStored'
  <2> SUFFICES ASSUME NEW v \in User, NEW i \in DOMAIN queue[v], Announced(v, i)'
               PROVE  Announced(v, i)
    BY <1>1 DEF AnsweredStored, IInv, HasId
  <2>1. CASE queue[v][i].kind = "row"
    BY <2>1 DEF Announced
  <2>2. CASE queue[v][i].kind # "row"
    <3>1. queue[v][i].kind = "message" /\ i <= Len(answers'[v]) /\ answers'[v][i]
      BY <1>1, <2>2 DEF Announced
    <3>2. CASE v # u
      BY <1>7, <3>1, <3>2 DEF Announced
    <3>3. CASE v = u
      <4>1. i # n
        BY <1>7, <3>1, <3>3
      <4>2. i \in 1..Len(answers[u])
        BY <1>7, <1>8, <3>1, <3>3, <4>1
      <4>3. answers[u][i]
        BY <1>7, <3>1, <3>3, <4>2
      <4>4. QED
        BY <1>8, <3>1, <3>3, <4>2, <4>3 DEF Announced
    <3>4. QED
      BY <3>2, <3>3
  <2>3. QED
    BY <2>1, <2>2
<1>12. NoMessageLost'
  <2> SUFFICES ASSUME NEW m \in sent, NEW o \in {m.from, m.to}
               PROVE  \/ Pending(m.from, "message", m, o)'
                      \/ Refused("message", m, o)'
                      \/ HasId(mail[o][Other(m, o)], m)
    BY <1>1 DEF NoMessageLost
  <2>1. m.from \in User
    BY <1>8 DEF Message
  <2>2. CASE Refused("message", m, o)
    BY <1>6, <2>2 DEF Refused
  <2>3. CASE Pending(m.from, "message", m, o)
    <3>1. PICK i \in DOMAIN queue[m.from] : /\ i > Len(answers[m.from])
                                           /\ queue[m.from][i].kind = "message"
                                           /\ queue[m.from][i].msg = m
                                           /\ queue[m.from][i].owner = o
      BY <2>3 DEF Pending
    <3>2. CASE m.from = u /\ i = n
      BY <1>3, <1>5, <1>6, <3>1, <3>2 DEF Refused
    <3>3. CASE ~ (m.from = u /\ i = n)
      <4>1. i > Len(answers'[m.from])
        <5>1. CASE m.from = u
          BY <1>7, <1>8, <3>1, <3>3, <5>1
        <5>2. CASE m.from # u
          BY <1>7, <2>1, <3>1, <5>2
        <5>3. QED
          BY <5>1, <5>2
      <4>2. QED
        BY <1>1, <3>1, <4>1 DEF Pending
    <3>4. QED
      BY <3>2, <3>3
  <2>4. QED
    BY <2>2, <2>3 DEF IInv, NoMessageLost
<1>13. QED
  BY <1>9, <1>10, <1>11, <1>12 DEF IInv

(* A completion queues nothing, or the row of a message that is stored. *)
LEMMA CallbackQueues ==
  ASSUME IInv, NEW u \in User, answers[u] # <<>>, answers[u][1] = TRUE
  PROVE  LET h  == queue[u][1]
             cb == Callback(h, TRUE)
         IN \/ cb = <<>>
            \/ \E r \in Write : /\ cb = <<r>> /\ r.kind = "row" /\ Fits(r)
                               /\ HasId(mail[r.owner][r.peer], r.msg)
<1> DEFINE h  == queue[u][1]
           cb == Callback(h, TRUE)
           r  == About("row", h.msg, h.owner)
<1>1. queue[u] \in Seq(Write) /\ answers[u] \in Seq(BOOLEAN) /\ Len(answers[u]) <= Len(queue[u])
      /\ sent \subseteq Message
  BY DEF IInv, TypeOK
<1>2. 1 \in DOMAIN queue[u] /\ 1 <= Len(answers[u]) /\ answers[u][1]
  BY <1>1
<1>3. CASE ~ (h.kind = "message" /\ h.heard)
  BY <1>3 DEF Callback
<1>4. CASE h.kind = "message" /\ h.heard
  <2>1. cb = <<r>>
    BY <1>4 DEF Callback
  <2>2. Fits(h)
    BY <1>2 DEF IInv, QueueFits
  <2>3. h.msg \in Message /\ h.msg \in sent /\ h.owner \in {h.msg.from, h.msg.to}
        /\ h.peer = Other(h.msg, h.owner)
    BY <1>1, <1>4, <2>2 DEF Fits
  <2>4. Announced(u, 1)
    BY <1>2, <1>4 DEF Announced
  <2>5. HasId(mail[h.owner][h.peer], h.msg)
    BY <1>2, <2>4 DEF IInv, AnsweredStored
  <2> HIDE DEF h
  <2>6. r \in Write /\ r.kind = "row" /\ r.msg = h.msg /\ r.owner = h.owner /\ r.peer = h.peer
    <3>1. "row" \in Kind
      BY DEF Kind
    <3>2. QED
      BY <2>3, <3>1, AboutType
  <2> HIDE DEF r
  <2>7. Fits(r)
    BY <2>3, <2>6 DEF Fits
  <2>8. HasId(mail[r.owner][r.peer], r.msg)
    BY <2>5, <2>6
  <2>9. QED
    BY <2>1, <2>6, <2>7, <2>8 DEF h
<1>5. QED
  BY <1>3, <1>4

(* What an acknowledgement does to the queue and to the answers. *)
LEMMA AcknowledgeShifts ==
  ASSUME IInv, NEW u \in User, Acknowledge(u)
  PROVE  /\ queue' \in [User -> Seq(Write)] /\ answers' \in [User -> Seq(BOOLEAN)]
         /\ \A v \in User : v = u \/ queue'[v] = queue[v]
         /\ \A v \in User : v = u \/ answers'[v] = answers[v]
         /\ Len(answers'[u]) = Len(answers[u]) - 1 /\ Len(answers'[u]) <= Len(queue'[u])
         /\ Len(answers[u]) >= 1
         /\ \A i \in 1..Len(answers'[u]) : answers'[u][i] = answers[u][i + 1]
         /\ \A i \in 1..(Len(queue[u]) - 1) :
              i \in DOMAIN queue'[u] /\ queue'[u][i] = queue[u][i + 1]
         /\ \A i \in DOMAIN queue'[u] :
              \/ i \in 1..(Len(queue[u]) - 1)
              \/ /\ queue'[u][i].kind = "row" /\ Fits(queue'[u][i])
                 /\ HasId(mail[queue'[u][i].owner][queue'[u][i].peer], queue'[u][i].msg)
<1> DEFINE q == queue[u]
           a == answers[u]
           cb == Callback(Head(q), TRUE)
<1>1. /\ queue \in [User -> Seq(Write)] /\ answers \in [User -> Seq(BOOLEAN)]
      /\ Len(a) <= Len(q)
  BY DEF IInv, TypeOK
<1>2. /\ a # <<>> /\ Head(a) /\ queue' = [queue EXCEPT ![u] = Tail(q) \o cb]
      /\ answers' = [answers EXCEPT ![u] = Tail(a)]
  BY DEF Acknowledge
<1>3. q # <<>> /\ Len(a) >= 1 /\ q \in Seq(Write) /\ a \in Seq(BOOLEAN) /\ Len(a) \in Nat /\ Len(q) \in Nat
  <2>1. a # <<>>
    BY <1>2
  <2>2. q \in Seq(Write) /\ a \in Seq(BOOLEAN) /\ Len(a) \in Nat /\ Len(q) \in Nat
    BY <1>1
  <2>3. Len(a) >= 1
    BY <2>1, <2>2
  <2>4. QED
    BY <1>1, <2>2, <2>3
<1>4. /\ Tail(q) \in Seq(Write) /\ Len(Tail(q)) = Len(q) - 1
      /\ \A i \in 1..Len(Tail(q)) : Tail(q)[i] = q[i + 1]
      /\ Tail(a) \in Seq(BOOLEAN) /\ Len(Tail(a)) = Len(a) - 1
      /\ \A i \in 1..Len(Tail(a)) : Tail(a)[i] = a[i + 1]
  BY <1>2, <1>3, HeadTailProperties
<1>5. \/ cb = <<>>
      \/ \E r \in Write : /\ cb = <<r>> /\ r.kind = "row" /\ Fits(r)
                         /\ HasId(mail[r.owner][r.peer], r.msg)
  <2>1. Head(q) = q[1] /\ Head(a) = a[1] /\ a[1] \in BOOLEAN
    BY <1>3
  <2>2. a[1] = TRUE
    BY <1>2, <2>1
  <2>3. QED
    BY <1>2, <2>1, <2>2, CallbackQueues
<1> HIDE DEF cb
<1>6. /\ queue'[u] = Tail(q) \o cb /\ answers'[u] = Tail(a)
      /\ \A v \in User : v = u \/ queue'[v] = queue[v]
      /\ \A v \in User : v = u \/ answers'[v] = answers[v]
  <2>1. queue'[u] = Tail(q) \o cb
    BY <1>1, <1>2
  <2>2. answers'[u] = Tail(a)
    BY <1>1, <1>2
  <2>3. \A v \in User : v = u \/ queue'[v] = queue[v]
    BY <1>1, <1>2
  <2>4. \A v \in User : v = u \/ answers'[v] = answers[v]
    BY <1>1, <1>2
  <2>5. QED
    BY <2>1, <2>2, <2>3, <2>4
<1> HIDE DEF q, a
<1>7. CASE cb = <<>>
  <2>1. Tail(q) \o cb = Tail(q)
    BY <1>4, <1>7, ConcatEmptySeq
  <2>2. queue'[u] = Tail(q) /\ queue' \in [User -> Seq(Write)] /\ answers' \in [User -> Seq(BOOLEAN)]
    BY <1>1, <1>2, <1>4, <1>6, <2>1
  <2>3. Len(answers'[u]) <= Len(queue'[u])
    BY <1>1, <1>3, <1>4, <1>6, <2>2
  <2>4. DOMAIN queue'[u] = 1..(Len(q) - 1)
    BY <1>4, <2>2
  <2>5. QED
    BY <1>3, <1>4, <1>6, <2>2, <2>3, <2>4 DEF q, a
<1>8. ASSUME NEW r \in Write, cb = <<r>>, r.kind = "row", Fits(r),
             HasId(mail[r.owner][r.peer], r.msg)
      PROVE  /\ queue' \in [User -> Seq(Write)] /\ answers' \in [User -> Seq(BOOLEAN)]
             /\ Len(answers'[u]) <= Len(queue'[u])
             /\ \A i \in 1..(Len(q) - 1) :
                  i \in DOMAIN queue'[u] /\ queue'[u][i] = q[i + 1]
             /\ \A i \in DOMAIN queue'[u] : i \in 1..(Len(q) - 1) \/ queue'[u][i] = r
  <2>1. cb \in Seq(Write) /\ Len(cb) = 1 /\ cb[1] = r
    BY <1>8
  <2>2. /\ Tail(q) \o cb \in Seq(Write) /\ Len(Tail(q) \o cb) = Len(q)
        /\ \A i \in 1..Len(q) : (Tail(q) \o cb)[i] = IF i <= Len(q) - 1 THEN q[i + 1] ELSE r
    <3>1. /\ Tail(q) \o cb \in Seq(Write) /\ Len(Tail(q) \o cb) = Len(Tail(q)) + Len(cb)
          /\ \A i \in 1..(Len(Tail(q)) + Len(cb)) :
               (Tail(q) \o cb)[i] = IF i <= Len(Tail(q)) THEN Tail(q)[i] ELSE cb[i - Len(Tail(q))]
      BY <1>4, <2>1, ConcatProperties
    <3>2. QED
      BY <1>3, <1>4, <2>1, <3>1
  <2>3. queue' \in [User -> Seq(Write)] /\ answers' \in [User -> Seq(BOOLEAN)]
    BY <1>1, <1>2, <1>4, <2>2
  <2>4. DOMAIN queue'[u] = 1..Len(q)
    BY <1>6, <2>2
  <2>5. Len(answers'[u]) <= Len(queue'[u])
    <3>1. Len(answers'[u]) = Len(a) - 1 /\ Len(queue'[u]) = Len(q) /\ Len(a) <= Len(q)
      BY <1>1, <1>4, <1>6, <2>2 DEF q, a
    <3>2. QED
      BY <1>3, <3>1
  <2>6. queue'[u] = Tail(q) \o cb
    BY <1>6
  <2>7. \A i \in 1..(Len(q) - 1) : i \in DOMAIN queue'[u] /\ queue'[u][i] = q[i + 1]
    BY <1>3, <2>2, <2>4, <2>6
  <2>8. \A i \in DOMAIN queue'[u] : i \in 1..(Len(q) - 1) \/ queue'[u][i] = r
    BY <1>3, <2>2, <2>4, <2>6
  <2>9. QED
    BY <2>3, <2>5, <2>7, <2>8
<1>9. QED
  <2>1. CASE \E r \in Write : /\ cb = <<r>> /\ r.kind = "row" /\ Fits(r)
                             /\ HasId(mail[r.owner][r.peer], r.msg)
    <3>1. PICK r \in Write : /\ cb = <<r>> /\ r.kind = "row" /\ Fits(r)
                            /\ HasId(mail[r.owner][r.peer], r.msg)
      BY <2>1
    <3>2. /\ queue' \in [User -> Seq(Write)] /\ answers' \in [User -> Seq(BOOLEAN)]
          /\ Len(answers'[u]) <= Len(queue'[u])
          /\ \A i \in 1..(Len(q) - 1) :
               i \in DOMAIN queue'[u] /\ queue'[u][i] = q[i + 1]
          /\ \A i \in DOMAIN queue'[u] : i \in 1..(Len(q) - 1) \/ queue'[u][i] = r
      BY <1>8, <3>1
    <3>3. \A i \in DOMAIN queue'[u] :
            \/ i \in 1..(Len(q) - 1)
            \/ /\ queue'[u][i].kind = "row" /\ Fits(queue'[u][i])
               /\ HasId(mail[queue'[u][i].owner][queue'[u][i].peer], queue'[u][i].msg)
      BY <3>1, <3>2
    <3>4. QED
      BY <1>3, <1>4, <1>6, <3>2, <3>3 DEF q, a
  <2>2. QED
    BY <1>5, <1>7, <2>1

LEMMA AcknowledgeIInv == ASSUME IInv, NEW u \in User, Acknowledge(u) PROVE IInv'
<1>1. /\ queue' \in [User -> Seq(Write)] /\ answers' \in [User -> Seq(BOOLEAN)]
      /\ \A v \in User : v = u \/ queue'[v] = queue[v]
      /\ \A v \in User : v = u \/ answers'[v] = answers[v]
      /\ Len(answers'[u]) = Len(answers[u]) - 1 /\ Len(answers'[u]) <= Len(queue'[u])
      /\ Len(answers[u]) >= 1
      /\ \A i \in 1..Len(answers'[u]) : answers'[u][i] = answers[u][i + 1]
      /\ \A i \in 1..(Len(queue[u]) - 1) :
           i \in DOMAIN queue'[u] /\ queue'[u][i] = queue[u][i + 1]
      /\ \A i \in DOMAIN queue'[u] :
           \/ i \in 1..(Len(queue[u]) - 1)
           \/ /\ queue'[u][i].kind = "row" /\ Fits(queue'[u][i])
              /\ HasId(mail[queue'[u][i].owner][queue'[u][i].peer], queue'[u][i].msg)
  BY AcknowledgeShifts
<1>2. UNCHANGED <<screen, sent, counting, clearing, mail, rows, badges,
                  cleared, refused, turns, restarts, breaks>>
  BY DEF Acknowledge, client, server, history
<1>3. /\ \A v \in User : /\ DOMAIN queue[v] = 1..Len(queue[v]) /\ Len(queue[v]) \in Nat
                        /\ Len(answers[v]) \in Nat /\ Len(answers[v]) <= Len(queue[v])
                        /\ DOMAIN queue'[v] = 1..Len(queue'[v]) /\ Len(queue'[v]) \in Nat
                        /\ Len(answers'[v]) \in Nat
      /\ sent \subseteq Message
  BY <1>1 DEF IInv, TypeOK
<1>4. TypeOK' /\ IsFiniteSet(sent')
  <2>1. \A v \in User : Len(answers'[v]) <= Len(queue'[v])
    BY <1>1, <1>3
  <2>2. QED
    BY <1>1, <1>2, <2>1 DEF IInv, TypeOK, PerPair
<1>5. QueueFits'
  <2>1. \A v \in User : \A i \in DOMAIN queue'[v] : Fits(queue'[v][i])
    <3> SUFFICES ASSUME NEW v \in User, NEW i \in DOMAIN queue'[v] PROVE Fits(queue'[v][i])
      OBVIOUS
    <3>1. CASE v # u
      BY <1>1, <3>1 DEF IInv, QueueFits
    <3>2. CASE v = u /\ i \in 1..(Len(queue[u]) - 1)
      <4>1. i + 1 \in DOMAIN queue[u] /\ queue'[v][i] = queue[u][i + 1]
        BY <1>1, <1>3, <3>2
      <4>2. Fits(queue[u][i + 1])
        BY <4>1 DEF IInv, QueueFits
      <4>3. QED
        BY <4>1, <4>2
    <3>3. QED
      BY <1>1, <3>1, <3>2
  <2>2. QED
    BY <1>2, <2>1 DEF QueueFits, Fits, From
<1>6. BadgesFit' /\ BadgeNeverOvercounts'
  BY <1>2 DEF IInv, BadgesFit, BadgeNeverOvercounts, From
<1>7. PreviewHasMessage'
  BY <1>2 DEF IInv, PreviewHasMessage, HasId
<1>8. AnsweredStored'
  <2> SUFFICES ASSUME NEW v \in User, NEW i \in DOMAIN queue'[v], Announced(v, i)'
               PROVE  HasId(mail[queue'[v][i].owner][queue'[v][i].peer], queue'[v][i].msg)
    BY <1>2 DEF AnsweredStored
  <2>1. CASE v # u
    <3>1. queue'[v] = queue[v] /\ answers'[v] = answers[v]
      BY <1>1, <2>1
    <3>2. Announced(v, i)
      BY <3>1 DEF Announced
    <3>3. QED
      BY <3>1, <3>2 DEF IInv, AnsweredStored
  <2>2. CASE v = u /\ i \in 1..(Len(queue[u]) - 1)
    <3>1. i + 1 \in DOMAIN queue[u] /\ queue'[v][i] = queue[u][i + 1]
      BY <1>1, <1>3, <2>2
    <3>2. Announced(u, i + 1)
      <4>1. CASE queue'[v][i].kind = "row"
        BY <3>1, <4>1 DEF Announced
      <4>2. CASE queue'[v][i].kind # "row"
        <5>1. queue'[v][i].kind = "message" /\ i <= Len(answers'[v]) /\ answers'[v][i]
          BY <4>2 DEF Announced
        <5>2. i \in 1..Len(answers'[u]) /\ i + 1 <= Len(answers[u])
          BY <1>1, <1>3, <2>2, <5>1
        <5>3. answers[u][i + 1]
          BY <1>1, <2>2, <5>1, <5>2
        <5>4. QED
          BY <3>1, <5>1, <5>2, <5>3 DEF Announced
      <4>3. QED
        BY <4>1, <4>2
    <3>3. HasId(mail[queue[u][i + 1].owner][queue[u][i + 1].peer], queue[u][i + 1].msg)
      BY <3>1, <3>2 DEF IInv, AnsweredStored
    <3>4. QED
      BY <3>1, <3>3
  <2>3. QED
    BY <1>1, <2>1, <2>2
<1>9. NoMessageLost'
  <2> SUFFICES ASSUME NEW m \in sent, NEW o \in {m.from, m.to},
                      Pending(m.from, "message", m, o)
               PROVE  Pending(m.from, "message", m, o)'
    BY <1>2 DEF IInv, NoMessageLost, Refused, HasId
  <2>1. m.from \in User
    BY <1>3 DEF Message
  <2>2. PICK i \in DOMAIN queue[m.from] : /\ i > Len(answers[m.from])
                                         /\ queue[m.from][i].kind = "message"
                                         /\ queue[m.from][i].msg = m
                                         /\ queue[m.from][i].owner = o
    BY DEF Pending
  <2>3. CASE m.from # u
    <3>1. queue'[m.from] = queue[m.from]
      BY <1>1, <2>1, <2>3
    <3>2. answers'[m.from] = answers[m.from]
      BY <1>1, <2>1, <2>3
    <3>3. QED
      BY <2>2, <3>1, <3>2 DEF Pending
  <2>4. CASE m.from = u
    <3>1. i - 1 \in 1..(Len(queue[u]) - 1) /\ i - 1 > Len(answers'[u]) /\ (i - 1) + 1 = i
      <4>1. i \in 1..Len(queue[u]) /\ i > Len(answers[u])
        BY <1>3, <2>2, <2>4
      <4>2. /\ Len(answers'[u]) = Len(answers[u]) - 1 /\ Len(answers[u]) >= 1
            /\ Len(answers[u]) \in Nat /\ Len(queue[u]) \in Nat
        BY <1>1, <1>3
      <4>3. QED
        BY <4>1, <4>2
    <3>2. i - 1 \in DOMAIN queue'[u] /\ queue'[u][i - 1] = queue[u][i]
      BY <1>1, <3>1
    <3>3. QED
      BY <2>2, <2>4, <3>1, <3>2 DEF Pending
  <2>5. QED
    BY <2>3, <2>4
<1>10. QED
  BY <1>4, <1>5, <1>6, <1>7, <1>8, <1>9 DEF IInv

(* What a refusal does to the queue and to the answers. *)
LEMMA RejectShifts ==
  ASSUME IInv, NEW u \in User, Reject(u)
  PROVE  /\ queue' \in [User -> Seq(Write)] /\ answers' \in [User -> Seq(BOOLEAN)]
         /\ \A v \in User : v = u \/ (queue'[v] = queue[v] /\ answers'[v] = answers[v])
         /\ answers'[u] = <<>> /\ Len(answers[u]) >= 1
         /\ Len(queue'[u]) = Len(queue[u]) - 1
         /\ \A i \in 1..(Len(queue[u]) - 1) : queue'[u][i] = queue[u][i + 1]
<1> DEFINE q == queue[u]
           a == answers[u]
<1>1. /\ queue \in [User -> Seq(Write)] /\ answers \in [User -> Seq(BOOLEAN)]
      /\ Len(a) <= Len(q)
  BY DEF IInv, TypeOK
<1>2. /\ queue' = [queue EXCEPT ![u] = Tail(q) \o Callback(Head(q), FALSE)]
      /\ answers' = [answers EXCEPT ![u] = <<>>]
      /\ \E i \in DOMAIN a : ~a[i]
  BY DEF Reject, Refusing
<1>3. /\ q \in Seq(Write) /\ a \in Seq(BOOLEAN) /\ Len(a) \in Nat /\ Len(q) \in Nat
      /\ Len(a) >= 1 /\ q # <<>>
  BY <1>1, <1>2
<1>4. /\ Tail(q) \in Seq(Write) /\ Len(Tail(q)) = Len(q) - 1
      /\ \A i \in 1..Len(Tail(q)) : Tail(q)[i] = q[i + 1]
  BY <1>3, HeadTailProperties
<1>5. Callback(Head(q), FALSE) = <<>>
  BY DEF Callback
<1>6. Tail(q) \o Callback(Head(q), FALSE) = Tail(q)
  BY <1>4, <1>5, ConcatEmptySeq
<1>7. queue' = [queue EXCEPT ![u] = Tail(q)]
  BY <1>2, <1>6
<1> HIDE DEF q, a
<1>8. queue' \in [User -> Seq(Write)] /\ queue'[u] = Tail(q)
  BY <1>1, <1>4, <1>7
<1>9. answers' \in [User -> Seq(BOOLEAN)] /\ answers'[u] = <<>>
  BY <1>1, <1>2
<1>10. \A v \in User : v = u \/ (queue'[v] = queue[v] /\ answers'[v] = answers[v])
  BY <1>1, <1>2, <1>7
<1>11. QED
  BY <1>3, <1>4, <1>8, <1>9, <1>10 DEF q, a

LEMMA RejectIInv == ASSUME IInv, NEW u \in User, Reject(u) PROVE IInv'
<1>1. /\ queue' \in [User -> Seq(Write)] /\ answers' \in [User -> Seq(BOOLEAN)]
      /\ \A v \in User : v = u \/ (queue'[v] = queue[v] /\ answers'[v] = answers[v])
      /\ answers'[u] = <<>> /\ Len(answers[u]) >= 1
      /\ Len(queue'[u]) = Len(queue[u]) - 1
      /\ \A i \in 1..(Len(queue[u]) - 1) : queue'[u][i] = queue[u][i + 1]
  BY RejectShifts
<1>2. UNCHANGED <<screen, sent, counting, clearing, mail, rows, badges,
                  cleared, refused, turns, restarts, breaks>>
  BY DEF Reject, client, server, history
<1>3. /\ \A v \in User : /\ DOMAIN queue[v] = 1..Len(queue[v]) /\ Len(queue[v]) \in Nat
                        /\ Len(answers[v]) \in Nat /\ Len(answers[v]) <= Len(queue[v])
                        /\ DOMAIN queue'[v] = 1..Len(queue'[v]) /\ Len(queue'[v]) \in Nat
      /\ sent \subseteq Message
      /\ Len(answers'[u]) = 0
  BY <1>1 DEF IInv, TypeOK
<1>4. TypeOK' /\ IsFiniteSet(sent')
  <2>1. \A v \in User : Len(answers'[v]) <= Len(queue'[v])
    <3> TAKE v \in User
    <3>1. CASE v = u
      <4>1. Len(answers'[u]) = 0 /\ Len(queue'[u]) \in Nat
        BY <1>3
      <4>2. QED
        BY <3>1, <4>1
    <3>2. CASE v # u
      <4>1. queue'[v] = queue[v] /\ answers'[v] = answers[v]
        BY <1>1, <3>2
      <4>2. Len(answers[v]) <= Len(queue[v])
        BY <1>3
      <4>3. QED
        BY <4>1, <4>2
    <3>3. QED
      BY <3>1, <3>2
  <2>2. QED
    BY <1>1, <1>2, <2>1 DEF IInv, TypeOK, PerPair
<1>5. \A i \in DOMAIN queue'[u] : i + 1 \in DOMAIN queue[u] /\ queue'[u][i] = queue[u][i + 1]
  <2>1. /\ DOMAIN queue'[u] = 1..(Len(queue[u]) - 1) /\ DOMAIN queue[u] = 1..Len(queue[u])
        /\ Len(queue[u]) \in Nat
    BY <1>1, <1>3
  <2>2. \A i \in 1..(Len(queue[u]) - 1) : i + 1 \in 1..Len(queue[u])
    BY <2>1
  <2>3. QED
    BY <1>1, <2>1, <2>2
<1>6. QueueFits'
  <2>1. \A v \in User : \A i \in DOMAIN queue'[v] : Fits(queue'[v][i])
    BY <1>1, <1>5 DEF IInv, QueueFits
  <2>2. QED
    BY <1>2, <2>1 DEF QueueFits, Fits, From
<1>7. BadgesFit' /\ BadgeNeverOvercounts'
  BY <1>2 DEF IInv, BadgesFit, BadgeNeverOvercounts, From
<1>8. PreviewHasMessage'
  BY <1>2 DEF IInv, PreviewHasMessage, HasId
<1>9. AnsweredStored'
  <2> SUFFICES ASSUME NEW v \in User, NEW i \in DOMAIN queue'[v], Announced(v, i)'
               PROVE  HasId(mail[queue'[v][i].owner][queue'[v][i].peer], queue'[v][i].msg)
    BY <1>2 DEF AnsweredStored
  <2>1. CASE v # u
    <3>1. queue'[v] = queue[v] /\ answers'[v] = answers[v]
      BY <1>1, <2>1
    <3>2. Announced(v, i)
      BY <3>1 DEF Announced
    <3>3. QED
      BY <3>1, <3>2 DEF IInv, AnsweredStored
  <2>2. CASE v = u
    <3>1. i + 1 \in DOMAIN queue[u] /\ queue'[v][i] = queue[u][i + 1]
      BY <1>5, <2>2
    <3>2. i \in 1..Len(queue'[u])
      BY <1>3, <2>2
    <3>3. queue'[v][i].kind = "row"
      BY <1>3, <2>2, <3>2 DEF Announced
    <3>4. Announced(u, i + 1)
      BY <3>1, <3>3 DEF Announced
    <3>5. HasId(mail[queue[u][i + 1].owner][queue[u][i + 1].peer], queue[u][i + 1].msg)
      BY <3>1, <3>4 DEF IInv, AnsweredStored
    <3>6. QED
      BY <3>1, <3>5
  <2>3. QED
    BY <2>1, <2>2
<1>10. NoMessageLost'
  <2> SUFFICES ASSUME NEW m \in sent, NEW o \in {m.from, m.to},
                      Pending(m.from, "message", m, o)
               PROVE  Pending(m.from, "message", m, o)'
    BY <1>2 DEF IInv, NoMessageLost, Refused, HasId
  <2>1. m.from \in User
    BY <1>3 DEF Message
  <2>2. PICK i \in DOMAIN queue[m.from] : /\ i > Len(answers[m.from])
                                         /\ queue[m.from][i].kind = "message"
                                         /\ queue[m.from][i].msg = m
                                         /\ queue[m.from][i].owner = o
    BY DEF Pending
  <2>3. CASE m.from # u
    <3>1. queue'[m.from] = queue[m.from] /\ answers'[m.from] = answers[m.from]
      BY <1>1, <2>1, <2>3
    <3>2. QED
      BY <2>2, <3>1 DEF Pending
  <2>4. CASE m.from = u
    <3>1. i \in 1..Len(queue[u]) /\ i > 1 /\ Len(queue[u]) \in Nat
      BY <1>1, <1>3, <2>2, <2>4
    <3>2. /\ i - 1 \in 1..(Len(queue[u]) - 1) /\ i - 1 > Len(answers'[u]) /\ (i - 1) + 1 = i
      BY <1>3, <3>1
    <3>3. i - 1 \in DOMAIN queue'[u] /\ queue'[u][i - 1] = queue[u][i]
      BY <1>1, <1>3, <3>2
    <3>4. QED
      BY <2>2, <2>4, <3>2, <3>3 DEF Pending
  <2>5. QED
    BY <2>3, <2>4
<1>11. QED
  BY <1>4, <1>6, <1>7, <1>8, <1>9, <1>10 DEF IInv

LEMMA BreakIInv == ASSUME IInv, NEW u \in User, Break(u) PROVE IInv'
<1>1. /\ answers' = [answers EXCEPT ![u] = <<>>] /\ breaks' = breaks + 1
      /\ UNCHANGED <<screen, sent, counting, clearing, queue, mail, rows, badges,
                     cleared, refused, turns, restarts>>
  BY DEF Break, client, server
<1>2. /\ queue \in [User -> Seq(Write)] /\ answers \in [User -> Seq(BOOLEAN)]
      /\ breaks \in Nat /\ sent \subseteq Message
      /\ \A v \in User : Len(answers[v]) <= Len(queue[v])
  BY DEF IInv, TypeOK
<1>3. /\ answers' \in [User -> Seq(BOOLEAN)] /\ Len(answers'[u]) = 0
      /\ \A v \in User : v = u \/ answers'[v] = answers[v]
  BY <1>1, <1>2
<1>4. \A v \in User : /\ DOMAIN queue[v] = 1..Len(queue[v]) /\ Len(queue[v]) \in Nat
                      /\ Len(answers'[v]) \in Nat /\ Len(answers[v]) \in Nat
                      /\ Len(answers'[v]) <= Len(answers[v])
  <2> SUFFICES ASSUME NEW v \in User
               PROVE  /\ DOMAIN queue[v] = 1..Len(queue[v]) /\ Len(queue[v]) \in Nat
                      /\ Len(answers'[v]) \in Nat /\ Len(answers[v]) \in Nat
                      /\ Len(answers'[v]) <= Len(answers[v])
    OBVIOUS
  <2>1. /\ DOMAIN queue[v] = 1..Len(queue[v]) /\ Len(queue[v]) \in Nat
        /\ Len(answers'[v]) \in Nat /\ Len(answers[v]) \in Nat
    BY <1>2, <1>3
  <2>2. CASE v = u
    BY <1>3, <2>1, <2>2
  <2>3. CASE v # u
    BY <1>3, <2>1, <2>3
  <2>4. QED
    BY <2>1, <2>2, <2>3
<1>5. TypeOK' /\ IsFiniteSet(sent')
  <2>1. \A v \in User : Len(answers'[v]) <= Len(queue'[v])
    BY <1>1, <1>2, <1>4
  <2>2. QED
    BY <1>1, <1>2, <1>3, <2>1 DEF IInv, TypeOK, PerPair
<1>6. QueueFits' /\ BadgesFit' /\ BadgeNeverOvercounts'
  <2>1. QueueFits'
    BY <1>1 DEF IInv, QueueFits, Fits, From
  <2>2. BadgesFit'
    BY <1>1 DEF IInv, BadgesFit, From
  <2>3. BadgeNeverOvercounts'
    BY <1>1 DEF IInv, BadgeNeverOvercounts, From
  <2>4. QED
    BY <2>1, <2>2, <2>3
<1>7. PreviewHasMessage'
  BY <1>1 DEF IInv, PreviewHasMessage, HasId
<1>8. AnsweredStored'
  <2> SUFFICES ASSUME NEW v \in User, NEW i \in DOMAIN queue[v], Announced(v, i)'
               PROVE  HasId(mail[queue[v][i].owner][queue[v][i].peer], queue[v][i].msg)
    BY <1>1 DEF AnsweredStored
  <2>1. Announced(v, i)
    <3>1. CASE queue[v][i].kind = "row"
      BY <3>1 DEF Announced
    <3>2. CASE queue[v][i].kind # "row"
      <4>1. queue[v][i].kind = "message" /\ i <= Len(answers'[v]) /\ answers'[v][i]
        BY <1>1, <3>2 DEF Announced
      <4>2. v # u
        BY <1>3, <1>4, <4>1
      <4>3. QED
        BY <1>3, <4>1, <4>2 DEF Announced
    <3>3. QED
      BY <3>1, <3>2
  <2>2. QED
    BY <2>1 DEF IInv, AnsweredStored
<1>9. NoMessageLost'
  <2> SUFFICES ASSUME NEW m \in sent, NEW o \in {m.from, m.to},
                      Pending(m.from, "message", m, o)
               PROVE  Pending(m.from, "message", m, o)'
    BY <1>1 DEF IInv, NoMessageLost, Refused, HasId
  <2>1. m.from \in User
    BY <1>2 DEF Message
  <2>2. PICK i \in DOMAIN queue[m.from] : /\ i > Len(answers[m.from])
                                         /\ queue[m.from][i].kind = "message"
                                         /\ queue[m.from][i].msg = m
                                         /\ queue[m.from][i].owner = o
    BY DEF Pending
  <2>3. i > Len(answers'[m.from])
    BY <1>4, <2>1, <2>2
  <2>4. QED
    BY <1>1, <2>2, <2>3 DEF Pending
<1>10. QED
  BY <1>5, <1>6, <1>7, <1>8, <1>9 DEF IInv

LEMMA RestartIInv == ASSUME IInv, NEW u \in User, Restart(u) PROVE IInv'
<1> DEFINE q == queue[u]
           r == [i \in DOMAIN q |-> [q[i] EXCEPT !.heard = FALSE]]
<1>1. /\ queue \in [User -> Seq(Write)] /\ answers \in [User -> Seq(BOOLEAN)]
      /\ screen \in PerPair({"new", "open", "left"}) /\ clearing \in PerPair(Nat)
      /\ counting \in [User -> SUBSET sent] /\ restarts \in Nat /\ sent \subseteq Message
      /\ \A v \in User : Len(answers[v]) <= Len(queue[v])
  BY DEF IInv, TypeOK
<1>2. /\ queue' = [queue EXCEPT ![u] = r]
      /\ answers' = [answers EXCEPT ![u] = <<>>]
      /\ UNCHANGED <<sent, mail, rows, badges, cleared, refused, turns, breaks>>
  BY DEF Restart, server
<1>3. /\ screen' \in PerPair({"new", "open", "left"}) /\ clearing' \in PerPair(Nat)
      /\ counting' \in [User -> SUBSET sent'] /\ restarts' \in Nat
  BY <1>1 DEF Restart, PerPair
<1>4. q \in Seq(Write) /\ DOMAIN q = 1..Len(q) /\ Len(q) \in Nat
  BY <1>1
<1>5. \A i \in DOMAIN q : /\ q[i] \in Write /\ r[i] \in Write
                          /\ r[i].kind = q[i].kind /\ r[i].owner = q[i].owner
                          /\ r[i].peer = q[i].peer /\ r[i].msg = q[i].msg
                          /\ r[i].count = q[i].count
  <2> SUFFICES ASSUME NEW i \in DOMAIN q
               PROVE  /\ q[i] \in Write /\ r[i] \in Write
                      /\ r[i].kind = q[i].kind /\ r[i].owner = q[i].owner
                      /\ r[i].peer = q[i].peer /\ r[i].msg = q[i].msg
                      /\ r[i].count = q[i].count
    OBVIOUS
  <2>1. q[i] \in Write /\ r[i] = [q[i] EXCEPT !.heard = FALSE]
    BY <1>4
  <2>2. PICK w \in Write : w = q[i]
    BY <2>1
  <2>3. LET x == [w EXCEPT !.heard = FALSE] IN
          /\ x \in Write /\ x.kind = w.kind /\ x.owner = w.owner
          /\ x.peer = w.peer /\ x.msg = w.msg /\ x.count = w.count
    BY DEF Write
  <2>4. r[i] = [w EXCEPT !.heard = FALSE]
    BY <2>1, <2>2
  <2> HIDE DEF r
  <2>5. QED
    BY <2>2, <2>3, <2>4
<1>6. r \in Seq(Write) /\ Len(r) = Len(q) /\ DOMAIN r = DOMAIN q
  <2>1. DOMAIN r = 1..Len(q) /\ r = [i \in 1..Len(q) |-> r[i]]
    BY <1>4
  <2> HIDE DEF r
  <2>2. \A i \in 1..Len(q) : r[i] \in Write
    BY <1>4, <1>5
  <2>3. r \in [1..Len(q) -> Write]
    BY <2>1, <2>2
  <2>4. QED
    BY <1>4, <2>1, <2>3
<1> HIDE DEF q, r
<1>7. /\ queue' \in [User -> Seq(Write)] /\ queue'[u] = r
      /\ \A v \in User : v = u \/ queue'[v] = queue[v]
  BY <1>1, <1>2, <1>6
<1>8. answers' \in [User -> Seq(BOOLEAN)] /\ answers'[u] = <<>> /\ Len(answers'[u]) = 0
  BY <1>1, <1>2
<1>9. \A v \in User : v = u \/ answers'[v] = answers[v]
  BY <1>1, <1>2
<1>10. \A v \in User : \A i \in DOMAIN queue'[v] :
         /\ i \in DOMAIN queue[v]
         /\ queue'[v][i].kind = queue[v][i].kind /\ queue'[v][i].owner = queue[v][i].owner
         /\ queue'[v][i].peer = queue[v][i].peer /\ queue'[v][i].msg = queue[v][i].msg
         /\ queue'[v][i].count = queue[v][i].count
  <2>1. q = queue[u]
    BY DEF q
  <2>2. QED
    BY <1>5, <1>6, <1>7, <2>1
<1>11. \A v \in User : DOMAIN queue'[v] = DOMAIN queue[v]
  <2>1. q = queue[u]
    BY DEF q
  <2>2. QED
    BY <1>6, <1>7, <2>1
<1>12. TypeOK' /\ IsFiniteSet(sent')
  <2>1. \A v \in User : Len(answers'[v]) <= Len(queue'[v])
    <3>1. \A v \in User : Len(queue'[v]) \in Nat
      BY <1>7
    <3>2. QED
      BY <1>1, <1>7, <1>8, <1>9, <3>1
  <2>2. QED
    BY <1>2, <1>3, <1>7, <1>8, <2>1 DEF IInv, TypeOK, PerPair
<1>13. QueueFits'
  <2>1. \A v \in User : \A i \in DOMAIN queue'[v] : Fits(queue'[v][i])
    BY <1>10 DEF IInv, QueueFits, Fits
  <2>2. ASSUME NEW w, Fits(w) PROVE Fits(w)'
    BY <1>2, <2>2 DEF Fits, From
  <2> SUFFICES ASSUME NEW v \in User, NEW i \in DOMAIN queue'[v] PROVE Fits(queue[v][i])'
    BY DEF QueueFits
  <2>3. PICK w : w = queue'[v][i]
    OBVIOUS
  <2>4. Fits(w)'
    BY <2>1, <2>2, <2>3
  <2>5. QED
    BY <2>3, <2>4 DEF Fits
<1>14. BadgesFit' /\ BadgeNeverOvercounts'
  BY <1>2 DEF IInv, BadgesFit, BadgeNeverOvercounts, From
<1>15. PreviewHasMessage'
  BY <1>2 DEF IInv, PreviewHasMessage, HasId
<1>16. AnsweredStored'
  <2> SUFFICES ASSUME NEW v \in User, NEW i \in DOMAIN queue'[v], Announced(v, i)'
               PROVE  HasId(mail[queue'[v][i].owner][queue'[v][i].peer], queue'[v][i].msg)
    BY <1>2 DEF AnsweredStored
  <2>1. Announced(v, i)
    <3>1. CASE queue'[v][i].kind = "row"
      BY <1>10, <3>1 DEF Announced
    <3>2. CASE queue'[v][i].kind # "row"
      <4>1. queue'[v][i].kind = "message" /\ i <= Len(answers'[v]) /\ answers'[v][i]
        BY <3>2 DEF Announced
      <4>2. v # u
        <5>1. i \in 1..Len(queue'[v])
          BY <1>7
        <5>2. QED
          BY <1>8, <4>1, <5>1
      <4>3. QED
        BY <1>9, <1>10, <4>1, <4>2 DEF Announced
    <3>3. QED
      BY <3>1, <3>2
  <2>2. QED
    BY <1>10, <2>1 DEF IInv, AnsweredStored
<1>17. NoMessageLost'
  <2> SUFFICES ASSUME NEW m \in sent, NEW o \in {m.from, m.to},
                      Pending(m.from, "message", m, o)
               PROVE  Pending(m.from, "message", m, o)'
    BY <1>2 DEF IInv, NoMessageLost, Refused, HasId
  <2>1. m.from \in User
    BY <1>1 DEF Message
  <2>2. PICK i \in DOMAIN queue[m.from] : /\ i > Len(answers[m.from])
                                         /\ queue[m.from][i].kind = "message"
                                         /\ queue[m.from][i].msg = m
                                         /\ queue[m.from][i].owner = o
    BY DEF Pending
  <2>3. i \in DOMAIN queue'[m.from] /\ i > Len(answers'[m.from])
    <3>1. i \in 1..Len(queue[m.from])
      BY <1>1, <2>1
    <3>2. QED
      BY <1>8, <1>9, <1>11, <2>1, <2>2, <3>1
  <2>4. QED
    BY <1>10, <2>1, <2>2, <2>3 DEF Pending
<1>18. QED
  BY <1>12, <1>13, <1>14, <1>15, <1>16, <1>17 DEF IInv

-----------------------------------------------------------------------------
(* The theorems *)

LEMMA NextIInv == IInv /\ [Next]_vars => IInv'
<1> SUFFICES ASSUME IInv, [Next]_vars PROVE IInv'
  OBVIOUS
<1>1. CASE UNCHANGED vars
  <2>1. UNCHANGED <<screen, sent, counting, clearing, queue, answers, mail, rows, badges,
                    cleared, refused, turns, restarts, breaks>>
    BY <1>1 DEF vars, client, server, history
  <2>2. TypeOK' /\ IsFiniteSet(sent')
    BY <2>1 DEF IInv, TypeOK, PerPair
  <2>3. QueueFits'
    BY <2>1 DEF IInv, QueueFits, Fits, From
  <2>4. BadgesFit' /\ BadgeNeverOvercounts'
    BY <2>1 DEF IInv, BadgesFit, BadgeNeverOvercounts, From
  <2>5. AnsweredStored'
    BY <2>1 DEF IInv, AnsweredStored, Announced, HasId
  <2>6. PreviewHasMessage'
    BY <2>1 DEF IInv, PreviewHasMessage, HasId
  <2>7. NoMessageLost'
    BY <2>1 DEF IInv, NoMessageLost, Pending, Refused, HasId
  <2>8. QED
    BY <2>2, <2>3, <2>4, <2>5, <2>6, <2>7 DEF IInv
<1>2. CASE Next
  <2>1. PICK u \in User :
          \/ \E p \in User \ {u} : \/ OpenChat(u, p) \/ CloseChat(u, p) \/ ClearAnswered(u, p)
                                   \/ \E t \in Stamp : SendMessage(u, p, t)
          \/ \E m \in counting[u] : CountAnswered(u, m)
          \/ Commit(u) \/ Refuse(u) \/ Acknowledge(u) \/ Reject(u) \/ Break(u) \/ Restart(u)
    BY <1>2 DEF Next
  <2>2. ASSUME NEW p \in User \ {u},
               OpenChat(u, p) \/ CloseChat(u, p) \/ ClearAnswered(u, p)
        PROVE  IInv'
    BY <2>2, OpenChatIInv, CloseChatIInv, ClearAnsweredIInv
  <2>3. ASSUME NEW p \in User \ {u}, NEW t \in Stamp, SendMessage(u, p, t) PROVE IInv'
    BY <2>3, SendMessageIInv
  <2>4. ASSUME NEW m \in counting[u], CountAnswered(u, m) PROVE IInv'
    BY <2>4, CountAnsweredIInv
  <2>5. CASE Commit(u) \/ Refuse(u) \/ Acknowledge(u) \/ Reject(u) \/ Break(u) \/ Restart(u)
    BY <2>5, CommitIInv, RefuseIInv, AcknowledgeIInv, RejectIInv, BreakIInv, RestartIInv
  <2>6. QED
    BY <2>1, <2>2, <2>3, <2>4, <2>5
<1>3. QED
  BY <1>1, <1>2

(* Every reachable state satisfies the inductive invariant. *)
THEOREM Invariance == Spec => []IInv
<1>1. Init => IInv
  BY InitIInv
<1>2. IInv /\ [Next]_vars => IInv'
  BY NextIInv
<1>3. QED
  BY <1>1, <1>2, PTL DEF Spec

(* sendMessage, its completions and the badge queries keep the documents of *)
(* every conversation within that conversation.                             *)
THEOREM TypeCorrect == Spec => []TypeOK
<1>1. IInv => TypeOK
  BY DEF IInv
<1>2. QED
  BY <1>1, Invariance, PTL

(* No chat list row announces a message its mailbox does not hold, whatever *)
(* the server refuses and whenever an app stops.                            *)
THEOREM TruthfulPreviews == Spec => []PreviewHasMessage
<1>1. IInv => PreviewHasMessage
  BY DEF IInv
<1>2. QED
  BY <1>1, Invariance, PTL

(* Both copies of every message are queued, refused or stored: the two      *)
(* writes of sendMessage may be separated by anything but not lost.         *)
THEOREM NothingLost == Spec => []NoMessageLost
<1>1. IInv => NoMessageLost
  BY DEF IInv
<1>2. QED
  BY <1>1, Invariance, PTL

(* The count that getBadgeCount writes is late, but never too high for what *)
(* has been sent by then.                                                   *)
THEOREM BadgeBound == Spec => []BadgeNeverOvercounts
<1>1. IInv => BadgeNeverOvercounts
  BY DEF IInv
<1>2. QED
  BY <1>1, Invariance, PTL

-----------------------------------------------------------------------------
(* Unread marks *)

(* What keeps the marks: nothing is deleted that was not shown, and what    *)
(* was to be written still is.                                              *)
LEMMA UnreadCarries ==
  ASSUME IInv, UnreadInv, badges' = badges, refused \subseteq refused',
         \A o, p \in User : cleared[o][p] \subseteq cleared'[o][p],
         \A m \in sent :
           Pending(m.from, "badge", m, m.to) => Pending(m.from, "badge", m, m.to)',
         \A m \in sent' \ sent : Pending(m.from, "badge", m, m.to)',
         \A v \in User : \A i \in DOMAIN queue'[v] :
           queue'[v][i].kind = "unbadge" =>
             \/ queue'[v][i].msg \in cleared'[queue'[v][i].owner][queue'[v][i].peer]
             \/ \E j \in DOMAIN queue[v] :
                  /\ queue[v][j].kind = "unbadge" /\ queue[v][j].msg = queue'[v][i].msg
                  /\ queue[v][j].owner = queue'[v][i].owner
                  /\ queue[v][j].peer = queue'[v][i].peer
  PROVE  UnreadInv'
<1>1. sent \subseteq Message /\ queue \in [User -> Seq(Write)]
  BY DEF IInv, TypeOK
<1>2. BadgesWaitForReader'
  <2> SUFFICES ASSUME NEW m \in sent'
               PROVE  \/ Pending(m.from, "badge", m, m.to)'
                      \/ Refused("badge", m, m.to)'
                      \/ m \in badges'[m.to][m.from] \cup cleared'[m.to][m.from]
    BY DEF BadgesWaitForReader
  <2>1. CASE m \in sent
    <3>1. m.from \in User /\ m.to \in User
      BY <1>1, <2>1 DEF Message
    <3>2. \/ Pending(m.from, "badge", m, m.to)
          \/ Refused("badge", m, m.to)
          \/ m \in badges[m.to][m.from] \cup cleared[m.to][m.from]
      BY <2>1 DEF UnreadInv, BadgesWaitForReader
    <3>3. QED
      BY <2>1, <3>1, <3>2 DEF Refused
  <2>2. QED
    BY <2>1
<1>3. DeletionsAreShown'
  <2> SUFFICES ASSUME NEW v \in User, NEW i \in DOMAIN queue'[v],
                      queue'[v][i].kind = "unbadge"
               PROVE  queue'[v][i].msg \in cleared'[queue'[v][i].owner][queue'[v][i].peer]
    BY DEF DeletionsAreShown
  <2>1. ASSUME NEW j \in DOMAIN queue[v],
               queue[v][j].kind = "unbadge", queue[v][j].msg = queue'[v][i].msg,
               queue[v][j].owner = queue'[v][i].owner, queue[v][j].peer = queue'[v][i].peer
        PROVE  queue'[v][i].msg \in cleared'[queue'[v][i].owner][queue'[v][i].peer]
    <3>1. queue[v][j].msg \in cleared[queue[v][j].owner][queue[v][j].peer]
      BY <2>1 DEF UnreadInv, DeletionsAreShown
    <3>2. queue[v][j] \in Write
      BY <1>1, ElementOfSeq
    <3>3. queue[v][j].owner \in User /\ queue[v][j].peer \in User
      BY <3>2 DEF Write
    <3>4. QED
      BY <2>1, <3>1, <3>3
  <2>2. QED
    BY <2>1
<1>4. QED
  BY <1>2, <1>3 DEF UnreadInv

(* A step of an app queues deletions of marks that were shown, and a mark   *)
(* for every message it sends.                                              *)
LEMMA UnreadEnqueue ==
  ASSUME IInv, UnreadInv, NEW u \in User, NEW s \in Seq(Write), Enqueue(u, s),
         UNCHANGED <<answers, server, refused>>,
         \A o, p \in User : cleared[o][p] \subseteq cleared'[o][p],
         \A k \in DOMAIN s : s[k].kind = "unbadge" =>
           s[k].msg \in cleared'[s[k].owner][s[k].peer],
         \A m \in sent' \ sent : m.from = u /\ \E k \in DOMAIN s :
           s[k].kind = "badge" /\ s[k].msg = m /\ s[k].owner = m.to
  PROVE  UnreadInv'
<1>1. /\ queue \in [User -> Seq(Write)] /\ answers \in [User -> Seq(BOOLEAN)]
      /\ \A v \in User : Len(answers[v]) <= Len(queue[v])
      /\ sent \subseteq Message
  BY DEF IInv, TypeOK
<1>2. answers' = answers /\ badges' = badges /\ refused' = refused
  BY DEF server
<1>3. /\ \A v \in User : \A i \in DOMAIN queue[v] :
           i \in DOMAIN queue'[v] /\ queue'[v][i] = queue[v][i]
      /\ \A v \in User : \A i \in DOMAIN queue'[v] :
           i \notin DOMAIN queue[v] =>
             i > Len(queue[v]) /\ \E k \in DOMAIN s : queue'[v][i] = s[k]
      /\ \A k \in DOMAIN s : /\ Len(queue[u]) + k \in DOMAIN queue'[u]
                             /\ queue'[u][Len(queue[u]) + k] = s[k]
  BY <1>1, QueueGrows
<1>4. ASSUME NEW m \in sent, Pending(m.from, "badge", m, m.to)
      PROVE  Pending(m.from, "badge", m, m.to)'
  <2>1. m.from \in User
    BY <1>1 DEF Message
  <2>2. QED
    BY <1>2, <1>3, <1>4, <2>1 DEF Pending
<1>5. ASSUME NEW m \in sent' \ sent
      PROVE  Pending(m.from, "badge", m, m.to)'
  <2>1. PICK k \in DOMAIN s : s[k].kind = "badge" /\ s[k].msg = m /\ s[k].owner = m.to
    BY <1>5
  <2>2. k \in Nat \ {0} /\ Len(queue[u]) \in Nat /\ Len(answers[u]) \in Nat
        /\ Len(answers[u]) <= Len(queue[u])
    BY <1>1
  <2>3. Len(queue[u]) + k > Len(answers[u])
    BY <2>2
  <2>4. m.from = u
    BY <1>5
  <2>5. QED
    BY <1>2, <1>3, <2>1, <2>3, <2>4 DEF Pending
<1>6. ASSUME NEW v \in User, NEW i \in DOMAIN queue'[v], queue'[v][i].kind = "unbadge"
      PROVE  \/ queue'[v][i].msg \in cleared'[queue'[v][i].owner][queue'[v][i].peer]
             \/ \E j \in DOMAIN queue[v] :
                  /\ queue[v][j].kind = "unbadge" /\ queue[v][j].msg = queue'[v][i].msg
                  /\ queue[v][j].owner = queue'[v][i].owner
                  /\ queue[v][j].peer = queue'[v][i].peer
  <2>1. CASE i \in DOMAIN queue[v]
    BY <1>3, <1>6, <2>1
  <2>2. CASE i \notin DOMAIN queue[v]
    BY <1>3, <1>6, <2>2
  <2>3. QED
    BY <2>1, <2>2
<1>7. QED
  BY <1>2, <1>4, <1>5, <1>6, UnreadCarries

(* A step that queues nothing. *)
LEMMA UnreadNoWrite ==
  ASSUME IInv, UnreadInv, UNCHANGED <<queue, sent, answers, server, cleared, refused>>
  PROVE  UnreadInv'
<1>1. badges' = badges
  BY DEF server
<1>2. QED
  BY <1>1 DEF UnreadInv, BadgesWaitForReader, DeletionsAreShown, Pending, Refused

LEMMA ClearAnsweredUnread ==
  ASSUME IInv, UnreadInv, NEW u \in User, NEW p \in User, ClearAnswered(u, p)
  PROVE  UnreadInv'
<1> DEFINE found == badges[u][p] \ QueuedDocs(u, "unbadge", u, p)
<1>1. UNCHANGED <<screen, sent, counting, answers, server, refused, turns, restarts, breaks>>
  BY DEF ClearAnswered
<1>2. CASE UNCHANGED <<queue, cleared>>
  BY <1>1, <1>2, UnreadNoWrite
<1>3. ASSUME NEW f \in Listings(found),
             Enqueue(u, [i \in DOMAIN f |-> About("unbadge", f[i], u)]),
             cleared' = [cleared EXCEPT ![u][p] = @ \cup found]
      PROVE  UnreadInv'
  <2> DEFINE s == [i \in DOMAIN f |-> About("unbadge", f[i], u)]
  <2>1. found \subseteq From(p, u) /\ IsFiniteSet(found) /\ found \subseteq sent
        /\ Cardinality(found) \in Nat
    BY FS_Subset, FS_CardinalityType DEF IInv, BadgesFit, From
  <2>2. DOMAIN f = 1..Cardinality(found) /\ \A i \in DOMAIN f : f[i] \in found
    BY DEF Listings
  <2>3. cleared \in [User -> [User -> SUBSET sent]]
    BY DEF IInv, TypeOK, PerPair
  <2> HIDE DEF found
  <2>4. \A i \in DOMAIN f : f[i] \in Message /\ f[i].to = u /\ f[i].from = p
    BY <2>1, <2>2 DEF From, IInv, TypeOK
  <2>5. \A i \in DOMAIN f : /\ About("unbadge", f[i], u) \in Write
                            /\ About("unbadge", f[i], u).msg = f[i]
                            /\ About("unbadge", f[i], u).owner = u
                            /\ About("unbadge", f[i], u).peer = p
    <3>1. "unbadge" \in Kind
      BY DEF Kind
    <3>2. \A i \in DOMAIN f : Other(f[i], u) = p
      BY <2>4 DEF Other, Message
    <3>3. QED
      BY <2>4, <3>1, <3>2, AboutType
  <2>6. s \in Seq(Write) /\ DOMAIN s = DOMAIN f
    BY <2>1, <2>2, <2>5
  <2>7. /\ cleared'[u][p] = cleared[u][p] \cup found
        /\ \A o, q \in User : cleared[o][q] \subseteq cleared'[o][q]
    BY <1>3, <2>3
  <2>8. \A k \in DOMAIN s : s[k].msg \in cleared'[s[k].owner][s[k].peer]
    BY <2>2, <2>5, <2>6, <2>7
  <2> HIDE DEF s
  <2>9. Enqueue(u, s)
    BY <1>3 DEF s
  <2>10. sent' \ sent = {}
    BY <1>1
  <2>11. QED
    BY <1>1, <2>6, <2>7, <2>8, <2>9, <2>10, UnreadEnqueue
<1>4. QED
  BY <1>2, <1>3 DEF ClearAnswered

LEMMA SendMessageUnread ==
  ASSUME IInv, UnreadInv, NEW u \in User, NEW p \in User, NEW t \in Stamp,
         SendMessage(u, p, t), u # p
  PROVE  UnreadInv'
<1> DEFINE m == [from |-> u, to |-> p, id |-> t]
           w1 == About("message", m, u)
           w2 == About("message", m, p)
           w3 == About("badge", m, p)
<1>1. m \in Message /\ m.from = u /\ m.to = p
  BY DEF Message
<1>2. /\ sent' = sent \cup {m}
      /\ Enqueue(u, <<w1, w2, w3>>)
      /\ UNCHANGED <<answers, server, refused, cleared>>
  BY DEF SendMessage, history
<1> HIDE DEF m
<1>3. /\ w1 \in Write /\ w1.kind = "message" /\ w2 \in Write /\ w2.kind = "message"
      /\ w3 \in Write /\ w3.kind = "badge" /\ w3.msg = m /\ w3.owner = p
  <2>1. "message" \in Kind /\ "badge" \in Kind
    BY DEF Kind
  <2>2. QED
    BY <1>1, <2>1, AboutType
<1> HIDE DEF w1, w2, w3
<1>4. PICK s : s = <<w1, w2, w3>>
  OBVIOUS
<1>5. /\ s \in Seq(Write) /\ DOMAIN s = {1, 2, 3}
      /\ s[1] = w1 /\ s[2] = w2 /\ s[3] = w3
  BY <1>3, <1>4
<1>6. \A k \in DOMAIN s : s[k].kind # "unbadge"
  BY <1>3, <1>5
<1>7. \A x \in sent' \ sent : x.from = u /\ \E k \in DOMAIN s :
        s[k].kind = "badge" /\ s[k].msg = x /\ s[k].owner = x.to
  BY <1>1, <1>2, <1>3, <1>5
<1>8. Enqueue(u, s)
  BY <1>2, <1>4
<1>9. QED
  BY <1>2, <1>5, <1>6, <1>7, <1>8, UnreadEnqueue

(* A step of an app that queues at most a count. *)
LEMMA CountUnread ==
  ASSUME IInv, UnreadInv, NEW u \in User, NEW w \in Write, w.kind = "count",
         Enqueue(u, <<w>>), UNCHANGED <<sent, answers, server, cleared, refused>>
  PROVE  UnreadInv'
<1>1. PICK s : s = <<w>>
  OBVIOUS
<1>2. s \in Seq(Write) /\ Enqueue(u, s) /\ \A k \in DOMAIN s : s[k].kind # "unbadge"
  BY <1>1, OneWrite
<1>3. sent' \ sent = {}
  OBVIOUS
<1>4. QED
  BY <1>2, <1>3, UnreadEnqueue

LEMMA AppUnread ==
  ASSUME IInv, UnreadInv, NEW u \in User,
         \/ \E p \in User : OpenChat(u, p) \/ CloseChat(u, p)
         \/ \E m \in counting[u] : CountAnswered(u, m)
  PROVE  UnreadInv'
<1>1. ASSUME NEW p \in User, OpenChat(u, p)
      PROVE  UnreadInv'
  BY <1>1, UnreadNoWrite DEF OpenChat
<1>2. ASSUME NEW p \in User, CloseChat(u, p)
      PROVE  UnreadInv'
  <2>1. PICK w : w = CountWrite(u, p, 0)
    OBVIOUS
  <2>2. w \in Write /\ w.kind = "count"
    BY <2>1, CountWriteType
  <2>3. Enqueue(u, <<w>>) /\ UNCHANGED <<sent, answers, server, cleared, refused>>
    BY <1>2, <2>1 DEF CloseChat
  <2>4. QED
    BY <2>2, <2>3, CountUnread
<1>3. ASSUME NEW m \in counting[u], CountAnswered(u, m)
      PROVE  UnreadInv'
  <2>1. UNCHANGED <<sent, answers, server, cleared, refused>>
    BY <1>3 DEF CountAnswered, history
  <2>2. m \in Message /\ m.to \in User
    BY DEF IInv, TypeOK, Message
  <2>3. CASE UNCHANGED queue
    BY <2>1, <2>3, UnreadNoWrite
  <2>4. ASSUME NEW known \in {badges[m.to][u], {}},
               Enqueue(u, <<CountWrite(m.to, u,
                              Cardinality(known \cup QueuedDocs(u, "badge", m.to, u)))>>)
        PROVE  UnreadInv'
    <3>1. PICK n : n = Cardinality(known \cup QueuedDocs(u, "badge", m.to, u))
      OBVIOUS
    <3>2. n \in Nat
      BY <2>2, <3>1, CountIsSent
    <3>3. PICK w : w = CountWrite(m.to, u, n)
      OBVIOUS
    <3>4. w \in Write /\ w.kind = "count"
      BY <2>2, <3>2, <3>3, CountWriteType
    <3>5. Enqueue(u, <<w>>)
      BY <2>4, <3>1, <3>3
    <3>6. QED
      BY <2>1, <3>4, <3>5, CountUnread
  <2>5. QED
    BY <1>3, <2>3, <2>4 DEF CountAnswered
<1>4. QED
  BY <1>1, <1>2, <1>3

(* A verdict moves the mark into the documents, or is a refusal. *)
LEMMA PendingStays ==
  ASSUME IInv, NEW u \in User, CanAnswer(u), NEW ok \in BOOLEAN,
         answers' = [answers EXCEPT ![u] = Append(@, ok)], UNCHANGED queue,
         NEW kind, NEW m \in sent, NEW o, Pending(m.from, kind, m, o)
  PROVE  \/ Pending(m.from, kind, m, o)'
         \/ NextWrite(u).kind = kind /\ NextWrite(u).msg = m /\ NextWrite(u).owner = o
<1>1. PICK i \in DOMAIN queue[m.from] : /\ i > Len(answers[m.from])
                                       /\ queue[m.from][i].kind = kind
                                       /\ queue[m.from][i].msg = m
                                       /\ queue[m.from][i].owner = o
  BY DEF Pending
<1>2. /\ m.from \in User /\ i \in Nat /\ Len(answers[m.from]) \in Nat /\ Len(answers[u]) \in Nat
  <2>1. /\ queue \in [User -> Seq(Write)] /\ answers \in [User -> Seq(BOOLEAN)]
        /\ sent \subseteq Message
    BY DEF IInv, TypeOK
  <2>2. m.from \in User
    BY <2>1 DEF Message
  <2>3. QED
    BY <2>1, <2>2
<1>3. /\ \A v \in User : v = u \/ answers'[v] = answers[v]
      /\ Len(answers'[u]) = Len(answers[u]) + 1
  BY AnswerGrows
<1>4. CASE m.from = u /\ i = Len(answers[u]) + 1
  BY <1>1, <1>4 DEF NextWrite
<1>5. CASE ~(m.from = u /\ i = Len(answers[u]) + 1)
  <2>1. i > Len(answers'[m.from])
    BY <1>1, <1>2, <1>3, <1>5
  <2>2. QED
    BY <1>1, <2>1 DEF Pending
<1>6. QED
  BY <1>4, <1>5

LEMMA CommitUnread ==
  ASSUME IInv, UnreadInv, NEW u \in User, Commit(u)
  PROVE  UnreadInv'
<1>1. /\ CanAnswer(u) /\ Store(NextWrite(u))
      /\ answers' = [answers EXCEPT ![u] = Append(@, TRUE)]
      /\ UNCHANGED <<queue, sent, cleared, refused>>
  BY DEF Commit, client, history
<1>2. PICK w : w = NextWrite(u)
  OBVIOUS
<1>3. /\ w \in Write /\ Fits(w) /\ w = queue[u][Len(answers[u]) + 1]
      /\ Len(answers[u]) + 1 \in DOMAIN queue[u]
  BY <1>1, <1>2, NextWriteIsThere
<1>4. /\ badges \in [User -> [User -> SUBSET sent]] /\ sent \subseteq Message
      /\ w.owner \in User /\ w.peer \in User
  BY <1>3 DEF IInv, TypeOK, PerPair, Write
<1>5. \A o, p \in User : \A m \in badges[o][p] :
        m \in badges'[o][p] \/ (w.kind = "unbadge" /\ w.owner = o /\ w.peer = p /\ w.msg = m)
  BY <1>1, <1>2, <1>4 DEF Store
<1>6. w.kind = "badge" => w.msg \in badges'[w.owner][w.peer]
  BY <1>1, <1>2, <1>4 DEF Store
<1>7. w.kind = "unbadge" => w.msg \in cleared[w.owner][w.peer]
  BY <1>3 DEF UnreadInv, DeletionsAreShown
<1>8. BadgesWaitForReader'
  <2> SUFFICES ASSUME NEW m \in sent
               PROVE  \/ Pending(m.from, "badge", m, m.to)'
                      \/ Refused("badge", m, m.to)'
                      \/ m \in badges'[m.to][m.from] \cup cleared'[m.to][m.from]
    BY <1>1 DEF BadgesWaitForReader
  <2>1. m.from \in User /\ m.to \in User
    BY <1>4 DEF Message
  <2>2. CASE Pending(m.from, "badge", m, m.to)
    <3>1. \/ Pending(m.from, "badge", m, m.to)'
          \/ w.kind = "badge" /\ w.msg = m /\ w.owner = m.to
      BY <1>1, <1>2, <2>2, PendingStays
    <3>2. w.kind = "badge" => w.peer = w.msg.from
      BY <1>3 DEF Fits
    <3>3. QED
      BY <1>6, <3>1, <3>2
  <2>3. CASE Refused("badge", m, m.to)
    BY <1>1, <2>3 DEF Refused
  <2>4. CASE m \in badges[m.to][m.from] \cup cleared[m.to][m.from]
    BY <1>1, <1>5, <1>7, <2>1, <2>4
  <2>5. QED
    BY <2>2, <2>3, <2>4 DEF UnreadInv, BadgesWaitForReader
<1>9. DeletionsAreShown'
  BY <1>1 DEF UnreadInv, DeletionsAreShown
<1>10. QED
  BY <1>8, <1>9 DEF UnreadInv

LEMMA RefuseUnread ==
  ASSUME IInv, UnreadInv, NEW u \in User, Refuse(u)
  PROVE  UnreadInv'
<1>1. /\ CanAnswer(u)
      /\ refused' = refused \cup {[NextWrite(u) EXCEPT !.heard = FALSE]}
      /\ answers' = [answers EXCEPT ![u] = Append(@, FALSE)]
      /\ UNCHANGED <<queue, sent, badges, cleared>>
  BY DEF Refuse, client, server
<1>2. PICK w \in Write : w = NextWrite(u)
  BY <1>1, NextWriteIsThere
<1>3. PICK r : r = [w EXCEPT !.heard = FALSE]
  OBVIOUS
<1>4. r.kind = w.kind /\ r.msg = w.msg /\ r.owner = w.owner /\ r \in refused'
  BY <1>1, <1>2, <1>3 DEF Write
<1>5. BadgesWaitForReader'
  <2> SUFFICES ASSUME NEW m \in sent
               PROVE  \/ Pending(m.from, "badge", m, m.to)'
                      \/ Refused("badge", m, m.to)'
                      \/ m \in badges[m.to][m.from] \cup cleared[m.to][m.from]
    BY <1>1 DEF BadgesWaitForReader
  <2>1. CASE Pending(m.from, "badge", m, m.to)
    <3>1. \/ Pending(m.from, "badge", m, m.to)'
          \/ w.kind = "badge" /\ w.msg = m /\ w.owner = m.to
      BY <1>1, <1>2, <2>1, PendingStays
    <3>2. QED
      BY <1>4, <3>1 DEF Refused
  <2>2. CASE Refused("badge", m, m.to)
    BY <1>1, <2>2 DEF Refused
  <2>3. QED
    BY <2>1, <2>2 DEF UnreadInv, BadgesWaitForReader
<1>6. DeletionsAreShown'
  BY <1>1 DEF UnreadInv, DeletionsAreShown
<1>7. QED
  BY <1>5, <1>6 DEF UnreadInv

(* The queue of u loses its head, and its answers at most move along. *)
LEMMA ShiftUnread ==
  ASSUME IInv, UnreadInv, NEW u \in User, queue' \in [User -> Seq(Write)],
         answers' \in [User -> Seq(BOOLEAN)],
         \A v \in User : v = u \/ (queue'[v] = queue[v] /\ answers'[v] = answers[v]),
         Len(answers[u]) >= 1, Len(answers'[u]) <= Len(answers[u]) - 1,
         \A i \in 1..(Len(queue[u]) - 1) : i \in DOMAIN queue'[u] /\ queue'[u][i] = queue[u][i + 1],
         \A i \in DOMAIN queue'[u] :
           i \in 1..(Len(queue[u]) - 1) \/ queue'[u][i].kind # "unbadge",
         UNCHANGED <<sent, server, cleared, refused>>
  PROVE  UnreadInv'
<1>1. /\ queue \in [User -> Seq(Write)] /\ answers \in [User -> Seq(BOOLEAN)]
      /\ sent \subseteq Message /\ badges' = badges
  BY DEF IInv, TypeOK, server
<1>2. ASSUME NEW m \in sent, Pending(m.from, "badge", m, m.to)
      PROVE  Pending(m.from, "badge", m, m.to)'
  <2>1. PICK i \in DOMAIN queue[m.from] : /\ i > Len(answers[m.from])
                                         /\ queue[m.from][i].kind = "badge"
                                         /\ queue[m.from][i].msg = m
                                         /\ queue[m.from][i].owner = m.to
    BY <1>2 DEF Pending
  <2>2. CASE m.from # u
    <3>1. m.from \in User
      BY <1>1 DEF Message
    <3>2. queue'[m.from] = queue[m.from] /\ answers'[m.from] = answers[m.from]
      BY <2>2, <3>1
    <3>3. QED
      BY <2>1, <3>2 DEF Pending
  <2>3. CASE m.from = u
    <3>1. /\ i \in 1..Len(queue[u]) /\ Len(queue[u]) \in Nat /\ Len(answers[u]) \in Nat
          /\ Len(answers'[u]) \in Nat
      BY <1>1, <2>1, <2>3
    <3>2. i - 1 \in 1..(Len(queue[u]) - 1) /\ i - 1 > Len(answers'[u]) /\ (i - 1) + 1 = i
      BY <2>1, <2>3, <3>1
    <3>3. i - 1 \in DOMAIN queue'[u] /\ queue'[u][i - 1] = queue[u][i]
      BY <3>2
    <3>4. QED
      BY <2>1, <2>3, <3>2, <3>3 DEF Pending
  <2>4. QED
    BY <2>2, <2>3
<1>3. ASSUME NEW v \in User, NEW i \in DOMAIN queue'[v], queue'[v][i].kind = "unbadge"
      PROVE  \E j \in DOMAIN queue[v] : queue[v][j] = queue'[v][i]
  <2>1. CASE v # u
    BY <2>1
  <2>2. CASE v = u
    <3>1. i \in 1..(Len(queue[u]) - 1)
      BY <1>3, <2>2
    <3>2. DOMAIN queue[u] = 1..Len(queue[u]) /\ Len(queue[u]) \in Nat
      BY <1>1
    <3>3. i + 1 \in DOMAIN queue[u]
      BY <3>1, <3>2
    <3>4. queue'[u][i] = queue[u][i + 1]
      BY <3>1
    <3>5. QED
      BY <2>2, <3>3, <3>4
  <2>3. QED
    BY <2>1, <2>2
<1>4. badges' = badges /\ refused \subseteq refused' /\ sent' \ sent = {}
  BY <1>1
<1>5. \A v \in User : \A i \in DOMAIN queue'[v] : queue'[v][i].kind = "unbadge" =>
        \/ queue'[v][i].msg \in cleared'[queue'[v][i].owner][queue'[v][i].peer]
        \/ \E j \in DOMAIN queue[v] :
             /\ queue[v][j].kind = "unbadge" /\ queue[v][j].msg = queue'[v][i].msg
             /\ queue[v][j].owner = queue'[v][i].owner
             /\ queue[v][j].peer = queue'[v][i].peer
  <2> SUFFICES ASSUME NEW v \in User, NEW i \in DOMAIN queue'[v], queue'[v][i].kind = "unbadge"
               PROVE  \E j \in DOMAIN queue[v] :
                        /\ queue[v][j].kind = "unbadge" /\ queue[v][j].msg = queue'[v][i].msg
                        /\ queue[v][j].owner = queue'[v][i].owner
                        /\ queue[v][j].peer = queue'[v][i].peer
    OBVIOUS
  <2>1. PICK j \in DOMAIN queue[v] : queue[v][j] = queue'[v][i]
    BY <1>3
  <2>2. QED
    BY <2>1
<1>6. \A o, p \in User : cleared[o][p] \subseteq cleared'[o][p]
  OBVIOUS
<1>7. \A m \in sent' \ sent : Pending(m.from, "badge", m, m.to)'
  BY <1>4
<1>8. QED
  BY <1>2, <1>4, <1>5, <1>6, <1>7, UnreadCarries

(* The answers of u are lost. *)
LEMMA AnswersLostUnread ==
  ASSUME IInv, UnreadInv, NEW u \in User, answers' = [answers EXCEPT ![u] = <<>>],
         \A v \in User : DOMAIN queue'[v] = DOMAIN queue[v],
         \A v \in User : \A i \in DOMAIN queue'[v] :
           /\ queue'[v][i].kind = queue[v][i].kind /\ queue'[v][i].owner = queue[v][i].owner
           /\ queue'[v][i].peer = queue[v][i].peer /\ queue'[v][i].msg = queue[v][i].msg,
         UNCHANGED <<sent, server, cleared, refused>>
  PROVE  UnreadInv'
<1>1. /\ queue \in [User -> Seq(Write)] /\ answers \in [User -> Seq(BOOLEAN)]
      /\ sent \subseteq Message /\ badges' = badges
  BY DEF IInv, TypeOK, server
<1>2. ASSUME NEW m \in sent, Pending(m.from, "badge", m, m.to)
      PROVE  Pending(m.from, "badge", m, m.to)'
  <2>1. PICK i \in DOMAIN queue[m.from] : /\ i > Len(answers[m.from])
                                         /\ queue[m.from][i].kind = "badge"
                                         /\ queue[m.from][i].msg = m
                                         /\ queue[m.from][i].owner = m.to
    BY <1>2 DEF Pending
  <2>2. m.from \in User
    BY <1>1 DEF Message
  <2>3. i > Len(answers'[m.from])
    <3>1. i \in 1..Len(queue[m.from])
      BY <1>1, <2>2
    <3>2. answers'[m.from] = <<>> \/ answers'[m.from] = answers[m.from]
      BY <1>1, <2>2
    <3>3. QED
      BY <2>1, <3>1, <3>2
  <2>4. QED
    BY <2>1, <2>2, <2>3 DEF Pending
<1>3. sent' \ sent = {} /\ cleared' = cleared /\ refused' = refused
  OBVIOUS
<1>4. QED
  BY <1>1, <1>2, <1>3, UnreadCarries

LEMMA UnreadStep ==
  ASSUME IInv, UnreadInv, [Next]_vars
  PROVE  UnreadInv'
<1>1. ASSUME NEW u \in User, Acknowledge(u)
      PROVE  UnreadInv'
  <2>1. UNCHANGED <<sent, server, cleared, refused>>
    BY <1>1 DEF Acknowledge, client, history
  <2>2. /\ queue' \in [User -> Seq(Write)] /\ answers' \in [User -> Seq(BOOLEAN)]
        /\ \A v \in User : v = u \/ (queue'[v] = queue[v] /\ answers'[v] = answers[v])
        /\ Len(answers[u]) >= 1 /\ Len(answers'[u]) <= Len(answers[u]) - 1
        /\ \A i \in 1..(Len(queue[u]) - 1) :
             i \in DOMAIN queue'[u] /\ queue'[u][i] = queue[u][i + 1]
        /\ \A i \in DOMAIN queue'[u] :
             i \in 1..(Len(queue[u]) - 1) \/ queue'[u][i].kind # "unbadge"
    <3>1. Len(answers[u]) \in Nat
      BY DEF IInv, TypeOK
    <3>2. QED
      BY <1>1, <3>1, AcknowledgeShifts
  <2>3. QED
    BY <2>1, <2>2, ShiftUnread
<1>2. ASSUME NEW u \in User, Reject(u)
      PROVE  UnreadInv'
  <2>1. UNCHANGED <<sent, server, cleared, refused>>
    BY <1>2 DEF Reject, client, history
  <2>2. /\ queue' \in [User -> Seq(Write)] /\ answers' \in [User -> Seq(BOOLEAN)]
        /\ \A v \in User : v = u \/ (queue'[v] = queue[v] /\ answers'[v] = answers[v])
        /\ answers'[u] = <<>> /\ Len(answers[u]) >= 1
        /\ Len(queue'[u]) = Len(queue[u]) - 1
        /\ \A i \in 1..(Len(queue[u]) - 1) : queue'[u][i] = queue[u][i + 1]
    BY <1>2, RejectShifts
  <2>3. DOMAIN queue'[u] = 1..(Len(queue[u]) - 1)
    BY <2>2
  <2>4. Len(answers'[u]) <= Len(answers[u]) - 1
    <3>1. Len(answers[u]) \in Nat /\ Len(answers'[u]) = 0
      BY <2>2 DEF IInv, TypeOK
    <3>2. QED
      BY <2>2, <3>1
  <2>5. QED
    BY <2>1, <2>2, <2>3, <2>4, ShiftUnread
<1>3. ASSUME NEW u \in User, Break(u)
      PROVE  UnreadInv'
  <2>1. answers' = [answers EXCEPT ![u] = <<>>]
        /\ UNCHANGED <<queue, sent, server, cleared, refused>>
    BY <1>3 DEF Break, client
  <2>2. QED
    BY <2>1, AnswersLostUnread
<1>4. ASSUME NEW u \in User, Restart(u)
      PROVE  UnreadInv'
  <2>1. /\ answers' = [answers EXCEPT ![u] = <<>>]
        /\ UNCHANGED <<sent, server, cleared, refused>>
        /\ queue' = [queue EXCEPT ![u] = [i \in DOMAIN @ |-> [@[i] EXCEPT !.heard = FALSE]]]
    BY <1>4 DEF Restart
  <2>2. queue \in [User -> Seq(Write)]
    BY DEF IInv, TypeOK
  <2>3. \A v \in User : DOMAIN queue'[v] = DOMAIN queue[v]
    BY <2>1, <2>2
  <2>4. ASSUME NEW v \in User, NEW i \in DOMAIN queue[v]
        PROVE  /\ queue'[v][i].kind = queue[v][i].kind /\ queue'[v][i].owner = queue[v][i].owner
               /\ queue'[v][i].peer = queue[v][i].peer /\ queue'[v][i].msg = queue[v][i].msg
    <3>1. queue'[v][i] = queue[v][i] \/ queue'[v][i] = [queue[v][i] EXCEPT !.heard = FALSE]
      BY <2>1, <2>2
    <3>2. queue[v][i] \in Write
      BY <2>2, ElementOfSeq
    <3>3. QED
      BY <3>1, <3>2 DEF Write
  <2>5. QED
    BY <2>1, <2>3, <2>4, AnswersLostUnread
<1>5. CASE UNCHANGED vars
  BY <1>5, UnreadNoWrite DEF vars, client, server, history
<1>6. QED
  <2>1. CASE Next
    <3>1. PICK u \in User :
            \/ \E p \in User \ {u} : \/ OpenChat(u, p) \/ CloseChat(u, p) \/ ClearAnswered(u, p)
                                     \/ \E t \in Stamp : SendMessage(u, p, t)
            \/ \E m \in counting[u] : CountAnswered(u, m)
            \/ Commit(u) \/ Refuse(u) \/ Acknowledge(u) \/ Reject(u) \/ Break(u) \/ Restart(u)
      BY <2>1 DEF Next
    <3>2. CASE \E p \in User \ {u} : \E t \in Stamp : SendMessage(u, p, t)
      BY <3>2, SendMessageUnread
    <3>3. CASE \E p \in User \ {u} : ClearAnswered(u, p)
      BY <3>3, ClearAnsweredUnread
    <3>4. CASE \/ \E p \in User \ {u} : OpenChat(u, p) \/ CloseChat(u, p)
               \/ \E m \in counting[u] : CountAnswered(u, m)
      BY <3>4, AppUnread
    <3>5. CASE Commit(u) \/ Refuse(u)
      BY <3>5, CommitUnread, RefuseUnread
    <3>6. CASE Acknowledge(u) \/ Reject(u) \/ Break(u) \/ Restart(u)
      BY <1>1, <1>2, <1>3, <1>4, <3>6
    <3>7. QED
      BY <3>1, <3>2, <3>3, <3>4, <3>5, <3>6
  <2>2. QED
    BY <1>5, <2>1

(* BadgesWaitForReader: the reader's deletions never take an unread mark    *)
(* that no badge query has shown, whatever is lost, refused or sent again.  *)
THEOREM MarksAreKept == Spec => []BadgesWaitForReader
<1>1. Init => UnreadInv
  BY DEF Init, UnreadInv, BadgesWaitForReader, DeletionsAreShown
<1>2. IInv /\ UnreadInv /\ [Next]_vars => UnreadInv'
  BY UnreadStep
<1>3. UnreadInv => BadgesWaitForReader
  BY DEF UnreadInv
<1>4. QED
  BY <1>1, <1>2, <1>3, Invariance, PTL DEF Spec

-----------------------------------------------------------------------------
(* The order of a queue *)

(* What is in two queues that are put together. *)
LEMMA ConcatParts ==
  ASSUME NEW q \in Seq(Write), NEW s \in Seq(Write)
  PROVE  /\ q \o s \in Seq(Write) /\ Len(q) \in Nat /\ DOMAIN q = 1..Len(q)
         /\ \A i \in DOMAIN q : i \in DOMAIN (q \o s) /\ (q \o s)[i] = q[i]
         /\ \A i \in DOMAIN (q \o s) :
              \/ i \in DOMAIN q
              \/ i \in Nat /\ i > Len(q) /\ \E k \in DOMAIN s : i = Len(q) + k /\ (q \o s)[i] = s[k]
         /\ \A k \in DOMAIN s : /\ Len(q) + k \in DOMAIN (q \o s) /\ Len(q) + k > Len(q)
                                /\ (q \o s)[Len(q) + k] = s[k]
<1>1. /\ q \o s \in Seq(Write)
      /\ Len(q \o s) = Len(q) + Len(s)
      /\ \A i \in 1..(Len(q) + Len(s)) :
           (q \o s)[i] = IF i <= Len(q) THEN q[i] ELSE s[i - Len(q)]
  BY ConcatProperties
<1>2. /\ DOMAIN q = 1..Len(q) /\ DOMAIN s = 1..Len(s)
      /\ DOMAIN (q \o s) = 1..(Len(q) + Len(s))
      /\ Len(q) \in Nat /\ Len(s) \in Nat
  BY <1>1
<1>3. \A i \in DOMAIN q : i \in DOMAIN (q \o s) /\ (q \o s)[i] = q[i]
  BY <1>1, <1>2
<1>4. ASSUME NEW i \in DOMAIN (q \o s), i \notin DOMAIN q
      PROVE  i \in Nat /\ i > Len(q) /\ \E k \in DOMAIN s : i = Len(q) + k /\ (q \o s)[i] = s[k]
  <2>1. /\ i \in Nat /\ i > Len(q) /\ i - Len(q) \in DOMAIN s /\ (q \o s)[i] = s[i - Len(q)]
        /\ i = Len(q) + (i - Len(q))
    BY <1>1, <1>2, <1>4
  <2>2. QED
    BY <2>1
<1>5. \A k \in DOMAIN s : /\ Len(q) + k \in DOMAIN (q \o s) /\ Len(q) + k > Len(q)
                          /\ (q \o s)[Len(q) + k] = s[k]
  BY <1>1, <1>2
<1>6. QED
  BY <1>1, <1>2, <1>3, <1>4, <1>5

(* What is in a queue without its head, and with s behind it. *)
LEMMA ShiftParts ==
  ASSUME NEW q \in Seq(Write), q # <<>>, NEW s \in Seq(Write), NEW r, r = Tail(q) \o s
  PROVE  /\ r \in Seq(Write) /\ Len(q) \in Nat /\ Len(q) >= 1 /\ DOMAIN q = 1..Len(q)
         /\ \A i \in DOMAIN q : i = 1 \/ (i - 1 \in DOMAIN r /\ r[i - 1] = q[i])
         /\ \A i \in DOMAIN r :
              \/ i + 1 \in DOMAIN q /\ r[i] = q[i + 1]
              \/ \E k \in DOMAIN s : r[i] = s[k]
         /\ \A k \in DOMAIN s : (Len(q) - 1) + k \in DOMAIN r /\ r[(Len(q) - 1) + k] = s[k]
         /\ DOMAIN r \subseteq Nat \ {0}
<1>1. /\ Tail(q) \in Seq(Write) /\ Len(Tail(q)) = Len(q) - 1
      /\ \A i \in 1..Len(Tail(q)) : Tail(q)[i] = q[i + 1]
  BY HeadTailProperties
<1>2. PICK t \in Seq(Write) : t = Tail(q)
  BY <1>1
<1>3. /\ Len(q) \in Nat /\ Len(q) >= 1 /\ DOMAIN q = 1..Len(q)
      /\ DOMAIN t = 1..(Len(q) - 1) /\ Len(t) = Len(q) - 1
      /\ \A i \in 1..(Len(q) - 1) : t[i] = q[i + 1]
  <2>1. Len(q) \in Nat /\ Len(q) >= 1 /\ DOMAIN q = 1..Len(q)
    OBVIOUS
  <2>2. QED
    BY <1>1, <1>2, <2>1
<1>4. /\ r \in Seq(Write)
      /\ \A i \in DOMAIN t : i \in DOMAIN r /\ r[i] = t[i]
      /\ \A i \in DOMAIN r : i \in DOMAIN t \/ \E k \in DOMAIN s : r[i] = s[k]
      /\ \A k \in DOMAIN s : Len(t) + k \in DOMAIN r /\ r[Len(t) + k] = s[k]
  <2>1. r = t \o s
    BY <1>2
  <2>2. /\ t \o s \in Seq(Write)
        /\ \A i \in DOMAIN t : i \in DOMAIN (t \o s) /\ (t \o s)[i] = t[i]
        /\ \A i \in DOMAIN (t \o s) : i \in DOMAIN t \/ \E k \in DOMAIN s : (t \o s)[i] = s[k]
        /\ \A k \in DOMAIN s : Len(t) + k \in DOMAIN (t \o s) /\ (t \o s)[Len(t) + k] = s[k]
    BY ConcatParts
  <2>3. QED
    BY <2>1, <2>2
<1>5. \A i \in DOMAIN q : i = 1 \/ (i - 1 \in DOMAIN r /\ r[i - 1] = q[i])
  <2> SUFFICES ASSUME NEW i \in DOMAIN q, i # 1
               PROVE  i - 1 \in DOMAIN r /\ r[i - 1] = q[i]
    OBVIOUS
  <2>1. i - 1 \in 1..(Len(q) - 1) /\ (i - 1) + 1 = i
    BY <1>3
  <2>2. t[i - 1] = q[i] /\ i - 1 \in DOMAIN t
    BY <1>3, <2>1
  <2>3. QED
    BY <1>4, <2>2
<1>6. \A i \in DOMAIN r : (i + 1 \in DOMAIN q /\ r[i] = q[i + 1]) \/ \E k \in DOMAIN s : r[i] = s[k]
  <2> SUFFICES ASSUME NEW i \in DOMAIN t
               PROVE  i + 1 \in DOMAIN q /\ r[i] = q[i + 1]
    BY <1>4
  <2>1. i + 1 \in DOMAIN q /\ t[i] = q[i + 1]
    BY <1>3
  <2>2. QED
    BY <1>4, <2>1
<1>7. DOMAIN r \subseteq Nat \ {0}
  BY <1>4
<1>8. QED
  BY <1>3, <1>4, <1>5, <1>6, <1>7

LEMMA RowComesBehind ==
  ASSUME NEW q \in Seq(Write), NEW s \in Seq(Write), NEW m, NEW o, NEW n, RowComes(q, m, o, n)
  PROVE  RowComes(q \o s, m, o, n)
BY ConcatParts DEF RowComes

LEMMA MessageComesBehind ==
  ASSUME NEW q \in Seq(Write), NEW s \in Seq(Write), NEW m, NEW o, NEW n, MessageComes(q, m, o, n)
  PROVE  MessageComes(q \o s, m, o, n)
BY ConcatParts DEF MessageComes

(* Writes about no message change nothing. *)
LEMMA OrderBehind ==
  ASSUME NEW q \in Seq(Write), NEW s \in Seq(Write), NEW u, NEW S, InOrder(q, u, S),
         \A k \in DOMAIN s : s[k].kind \notin {"message", "row"}
  PROVE  InOrder(q \o s, u, S)
<1> DEFINE r == q \o s
<1>1. /\ \A i \in DOMAIN q : i \in DOMAIN r /\ r[i] = q[i]
      /\ \A i \in DOMAIN r : i \in DOMAIN q \/ \E k \in DOMAIN s : r[i] = s[k]
  BY ConcatParts
<1>2. /\ \A m, o, n : RowComes(q, m, o, n) => RowComes(r, m, o, n)
      /\ \A m, o, n : MessageComes(q, m, o, n) => MessageComes(r, m, o, n)
  BY RowComesBehind, MessageComesBehind
<1> HIDE DEF r
<1>3. ASSUME NEW i \in DOMAIN r
      PROVE  /\ r[i].kind \in {"message", "row"} => r[i].msg.from = u
             /\ r[i].kind = "message" =>
                  r[i].heard /\ \A x \in S : Newer(x, r[i].msg) => MessageComes(r, x, r[i].owner, i)
             /\ r[i].kind = "row" =>
                  \A x \in S : Newer(x, r[i].msg) => RowComes(r, x, r[i].owner, i)
  <2>1. CASE i \in DOMAIN q
    <3>1. r[i] = q[i]
      BY <1>1, <2>1
    <3>2. QED
      BY <1>2, <2>1, <3>1 DEF InOrder
  <2>2. CASE i \notin DOMAIN q
    BY <1>1, <2>2
  <2>3. QED
    BY <2>1, <2>2
<1>4. InOrder(r, u, S)
  BY <1>3 DEF InOrder
<1>5. QED
  BY <1>4 DEF r

(* The writes of a message m that is newer than all of u's. *)
LEMMA OrderSend ==
  ASSUME NEW q \in Seq(Write), NEW s \in Seq(Write), NEW u, NEW S \in SUBSET Message,
         InOrder(q, u, S), NEW m \in Message, m.from = u,
         \A x \in S : x.from = u => x.id < m.id,
         \A i \in DOMAIN q : q[i].kind \in {"message", "row"} => q[i].owner \in {q[i].msg.from, q[i].msg.to},
         \A k \in DOMAIN s : s[k].kind # "row",
         \A k \in DOMAIN s : s[k].kind = "message" => s[k].msg = m /\ s[k].heard,
         \A o \in {m.from, m.to} : \E k \in DOMAIN s :
           s[k].kind = "message" /\ s[k].msg = m /\ s[k].owner = o
  PROVE  InOrder(q \o s, u, S \cup {m})
<1> DEFINE r == q \o s
<1>1. /\ \A i \in DOMAIN q : i \in DOMAIN r /\ r[i] = q[i] /\ i \in Nat /\ i <= Len(q)
      /\ \A i \in DOMAIN r : i \in DOMAIN q \/ \E k \in DOMAIN s : r[i] = s[k]
      /\ \A k \in DOMAIN s : /\ Len(q) + k \in DOMAIN r /\ Len(q) + k > Len(q)
                             /\ r[Len(q) + k] = s[k]
      /\ Len(q) \in Nat /\ \A k \in DOMAIN s : Len(q) + k \in Nat
  BY ConcatParts
<1>2. /\ \A x, o, n : RowComes(q, x, o, n) => RowComes(r, x, o, n)
      /\ \A x, o, n : MessageComes(q, x, o, n) => MessageComes(r, x, o, n)
  BY RowComesBehind, MessageComesBehind
<1> HIDE DEF r
<1>3. \A o \in {m.from, m.to} : \A n \in DOMAIN q : MessageComes(r, m, o, n) /\ RowComes(r, m, o, n)
  <2> SUFFICES ASSUME NEW o \in {m.from, m.to}, NEW n \in DOMAIN q
               PROVE  MessageComes(r, m, o, n) /\ RowComes(r, m, o, n)
    OBVIOUS
  <2>1. PICK k \in DOMAIN s : s[k].kind = "message" /\ s[k].msg = m /\ s[k].owner = o
    OBVIOUS
  <2>2. PICK j \in DOMAIN r : j > n /\ r[j] = s[k]
    <3>1. Len(q) + k > n
      BY <1>1
    <3>2. QED
      BY <1>1, <3>1
  <2>3. QED
    BY <2>1, <2>2 DEF MessageComes, RowComes
<1>4. ASSUME NEW i \in DOMAIN r
      PROVE  /\ r[i].kind \in {"message", "row"} => r[i].msg.from = u
             /\ r[i].kind = "message" =>
                  r[i].heard /\ \A x \in S \cup {m} :
                    Newer(x, r[i].msg) => MessageComes(r, x, r[i].owner, i)
             /\ r[i].kind = "row" =>
                  \A x \in S \cup {m} : Newer(x, r[i].msg) => RowComes(r, x, r[i].owner, i)
  <2>1. CASE i \in DOMAIN q
    <3>1. r[i] = q[i]
      BY <1>1, <2>1
    <3>2. /\ r[i].kind \in {"message", "row"} => r[i].msg.from = u
          /\ r[i].kind = "message" =>
               r[i].heard /\ \A x \in S : Newer(x, r[i].msg) => MessageComes(r, x, r[i].owner, i)
          /\ r[i].kind = "row" =>
               \A x \in S : Newer(x, r[i].msg) => RowComes(r, x, r[i].owner, i)
      BY <1>2, <2>1, <3>1 DEF InOrder
    <3>3. ASSUME r[i].kind \in {"message", "row"}, Newer(m, r[i].msg)
          PROVE  MessageComes(r, m, r[i].owner, i) /\ RowComes(r, m, r[i].owner, i)
      <4>1. r[i].owner \in {m.from, m.to}
        BY <2>1, <3>1, <3>3 DEF Newer
      <4>2. QED
        BY <1>3, <2>1, <4>1
    <3>4. QED
      BY <3>2, <3>3
  <2>2. CASE i \notin DOMAIN q
    <3>1. PICK k \in DOMAIN s : r[i] = s[k]
      BY <1>1, <2>2
    <3>2. CASE r[i].kind = "message"
      <4>1. r[i].msg = m /\ r[i].heard
        BY <3>1, <3>2
      <4>2. \A x \in S \cup {m} : ~Newer(x, m)
        <5>1. \A x \in S \cup {m} : x.id \in Nat /\ m.id \in Nat
          BY MessagingAssumption DEF Message
        <5>2. QED
          BY <5>1 DEF Newer
      <4>3. QED
        BY <3>2, <4>1, <4>2
    <3>3. CASE r[i].kind # "message"
      BY <3>1, <3>3
    <3>4. QED
      BY <3>2, <3>3
  <2>3. QED
    BY <2>1, <2>2
<1>5. InOrder(r, u, S \cup {m})
  BY <1>4 DEF InOrder
<1>6. QED
  BY <1>5 DEF r

(* An acknowledgement: the row of a message comes behind everything else. *)
LEMMA RowComesShift ==
  ASSUME NEW q \in Seq(Write), q # <<>>, NEW s \in Seq(Write), NEW r, r = Tail(q) \o s,
         q[1].kind = "message" =>
           \E k \in DOMAIN s : s[k].kind = "row" /\ s[k].msg = q[1].msg /\ s[k].owner = q[1].owner,
         NEW n \in 1..Len(q), NEW m, NEW o, RowComes(q, m, o, n)
  PROVE  RowComes(r, m, o, n - 1)
<1>1. /\ Len(q) \in Nat /\ DOMAIN q = 1..Len(q) /\ Len(q) >= 1
      /\ \A i \in DOMAIN q : i = 1 \/ (i - 1 \in DOMAIN r /\ r[i - 1] = q[i])
      /\ \A k \in DOMAIN s : (Len(q) - 1) + k \in DOMAIN r /\ r[(Len(q) - 1) + k] = s[k]
      /\ DOMAIN s \subseteq Nat \ {0}
  <2>1. DOMAIN s \subseteq Nat \ {0}
    BY LenProperties
  <2>2. /\ Len(q) \in Nat /\ DOMAIN q = 1..Len(q) /\ Len(q) >= 1
        /\ \A i \in DOMAIN q : i = 1 \/ (i - 1 \in DOMAIN r /\ r[i - 1] = q[i])
    BY ShiftParts
  <2>3. \A k \in DOMAIN s : (Len(q) - 1) + k \in DOMAIN r /\ r[(Len(q) - 1) + k] = s[k]
    BY ShiftParts
  <2>4. QED
    BY <2>1, <2>2, <2>3
<1>2. PICK i \in DOMAIN q : /\ q[i].msg = m /\ q[i].owner = o
                            /\ q[i].kind = "message" \/ (q[i].kind = "row" /\ i > n)
  BY DEF RowComes
<1>3. i \in Nat /\ n \in Nat /\ n >= 1 /\ n <= Len(q)
  BY <1>1
<1>4. CASE i = 1
  <2>1. q[1].kind = "message" /\ q[1].msg = m /\ q[1].owner = o
    BY <1>2, <1>3, <1>4
  <2>2. PICK k \in DOMAIN s : s[k].kind = "row" /\ s[k].msg = m /\ s[k].owner = o
    BY <2>1
  <2>3. (Len(q) - 1) + k > n - 1
    BY <1>1, <1>3
  <2>4. PICK j : j = (Len(q) - 1) + k
    OBVIOUS
  <2>5. j \in DOMAIN r /\ r[j] = s[k] /\ j > n - 1
    BY <1>1, <2>3, <2>4
  <2>6. QED
    BY <2>2, <2>5 DEF RowComes
<1>5. CASE i # 1
  <2>1. i - 1 \in DOMAIN r /\ r[i - 1] = q[i]
    BY <1>1, <1>5
  <2>2. i > n => i - 1 > n - 1
    BY <1>3
  <2>3. QED
    BY <1>2, <2>1, <2>2 DEF RowComes
<1>6. QED
  BY <1>4, <1>5

LEMMA OrderShift ==
  ASSUME NEW q \in Seq(Write), q # <<>>, NEW s \in Seq(Write), NEW r, r = Tail(q) \o s,
         NEW u, NEW S, InOrder(q, u, S),
         q[1].kind = "message" =>
           \E k \in DOMAIN s : s[k].kind = "row" /\ s[k].msg = q[1].msg /\ s[k].owner = q[1].owner,
         \A k \in DOMAIN s : /\ q[1].kind = "message" /\ s[k].kind = "row"
                             /\ s[k].msg = q[1].msg /\ s[k].owner = q[1].owner
  PROVE  InOrder(r, u, S)
<1>1. /\ Len(q) \in Nat /\ DOMAIN q = 1..Len(q) /\ Len(q) >= 1
      /\ \A i \in DOMAIN q : i = 1 \/ (i - 1 \in DOMAIN r /\ r[i - 1] = q[i])
      /\ \A i \in DOMAIN r :
           \/ i + 1 \in DOMAIN q /\ r[i] = q[i + 1]
           \/ \E k \in DOMAIN s : r[i] = s[k]
      /\ DOMAIN r \subseteq Nat \ {0}
  BY ShiftParts
<1>2. ASSUME NEW n \in Nat, NEW m, NEW o, MessageComes(q, m, o, n + 1)
      PROVE  MessageComes(r, m, o, n)
  <2>1. PICK j \in DOMAIN q : j > n + 1 /\ q[j].kind = "message" /\ q[j].msg = m /\ q[j].owner = o
    BY <1>2 DEF MessageComes
  <2>2. j \in Nat /\ j # 1 /\ j - 1 > n
    BY <1>1, <2>1
  <2>3. PICK l \in DOMAIN r : l > n /\ r[l] = q[j]
    BY <1>1, <2>2
  <2>4. QED
    BY <2>1, <2>3 DEF MessageComes
<1>3. ASSUME NEW n \in Nat, n + 1 \in DOMAIN q, NEW m, NEW o, RowComes(q, m, o, n + 1)
      PROVE  RowComes(r, m, o, n)
  <2>1. n + 1 \in 1..Len(q) /\ (n + 1) - 1 = n
    BY <1>1, <1>3
  <2>2. RowComes(r, m, o, (n + 1) - 1)
    BY <1>3, <2>1, RowComesShift
  <2>3. QED
    BY <2>1, <2>2
<1>4. ASSUME NEW i \in DOMAIN r
      PROVE  /\ r[i].kind \in {"message", "row"} => r[i].msg.from = u
             /\ r[i].kind = "message" =>
                  r[i].heard /\ \A x \in S : Newer(x, r[i].msg) => MessageComes(r, x, r[i].owner, i)
             /\ r[i].kind = "row" =>
                  \A x \in S : Newer(x, r[i].msg) => RowComes(r, x, r[i].owner, i)
  <2>1. i \in Nat
    BY <1>1
  <2>2. CASE i + 1 \in DOMAIN q /\ r[i] = q[i + 1]
    <3>1. /\ q[i + 1].kind \in {"message", "row"} => q[i + 1].msg.from = u
          /\ q[i + 1].kind = "message" =>
               q[i + 1].heard /\ \A x \in S :
                 Newer(x, q[i + 1].msg) => MessageComes(q, x, q[i + 1].owner, i + 1)
          /\ q[i + 1].kind = "row" =>
               \A x \in S : Newer(x, q[i + 1].msg) => RowComes(q, x, q[i + 1].owner, i + 1)
      BY <2>2 DEF InOrder
    <3>2. QED
      BY <1>2, <1>3, <2>1, <2>2, <3>1
  <2>3. ASSUME NEW k \in DOMAIN s, r[i] = s[k]
        PROVE  /\ r[i].kind = "row" /\ r[i].msg.from = u
               /\ \A x \in S : Newer(x, r[i].msg) => RowComes(r, x, r[i].owner, i)
    <3>1. q[1].kind = "message" /\ r[i].kind = "row" /\ r[i].msg = q[1].msg /\ r[i].owner = q[1].owner
      BY <2>3
    <3>2. 1 \in DOMAIN q
      BY <1>1
    <3>3. /\ q[1].msg.from = u
          /\ \A x \in S : Newer(x, q[1].msg) => MessageComes(q, x, q[1].owner, 1)
      BY <3>1, <3>2 DEF InOrder
    <3>4. ASSUME NEW x \in S, Newer(x, q[1].msg)
          PROVE  RowComes(r, x, q[1].owner, i)
      <4>1. PICK j \in DOMAIN q :
              j > 1 /\ q[j].kind = "message" /\ q[j].msg = x /\ q[j].owner = q[1].owner
        BY <3>3, <3>4 DEF MessageComes
      <4>2. j # 1
        BY <1>1, <4>1
      <4>3. PICK l \in DOMAIN r : r[l] = q[j]
        BY <1>1, <4>2
      <4>4. QED
        BY <4>1, <4>3 DEF RowComes
    <3>5. QED
      BY <3>1, <3>3, <3>4
  <2>4. QED
    BY <1>1, <2>2, <2>3
<1>5. QED
  BY <1>4 DEF InOrder

-----------------------------------------------------------------------------
(* The rows catch up *)

LEMMA OrderTypes ==
  ASSUME IInv
  PROVE  /\ queue \in [User -> Seq(Write)] /\ answers \in [User -> Seq(BOOLEAN)]
         /\ \A v \in User : /\ Len(answers[v]) \in Nat /\ Len(queue[v]) \in Nat
                            /\ Len(answers[v]) <= Len(queue[v])
         /\ sent \subseteq Message
         /\ \A m \in Message : /\ m.from \in User /\ m.to \in User /\ m.id \in Nat
                               /\ \A o \in {m.from, m.to} : o \in User /\ Other(m, o) \in User
         /\ rows \in [User -> [User -> [last : sent \cup {NoMsg}, badge : Nat]]]
         /\ NoMsg \notin Message
<1>1. /\ queue \in [User -> Seq(Write)] /\ answers \in [User -> Seq(BOOLEAN)]
      /\ \A v \in User : Len(answers[v]) <= Len(queue[v])
      /\ sent \subseteq Message
      /\ rows \in [User -> [User -> [last : sent \cup {NoMsg}, badge : Nat]]]
  BY DEF IInv, TypeOK, PerPair
<1>2. \A v \in User : Len(answers[v]) \in Nat /\ Len(queue[v]) \in Nat
  <2> SUFFICES ASSUME NEW v \in User
               PROVE  Len(answers[v]) \in Nat /\ Len(queue[v]) \in Nat
    OBVIOUS
  <2>1. queue[v] \in Seq(Write) /\ answers[v] \in Seq(BOOLEAN)
    BY <1>1
  <2>2. QED
    BY <2>1, LenProperties
<1>3. \A m \in Message : /\ m.from \in User /\ m.to \in User /\ m.id \in Nat
                         /\ \A o \in {m.from, m.to} : o \in User /\ Other(m, o) \in User
  BY MessagingAssumption DEF Message, Other
<1>4. QED
  BY <1>1, <1>2, <1>3, MessagingAssumption

(* The rows stay, and so does what is to come. *)
LEMMA CatchUpStays ==
  ASSUME IInv, RowsCatchUp, sent' = sent,
         \A o, p \in User : rows'[o][p].last = rows[o][p].last,
         \A m \in sent : \A o \in User :
           RowComes(queue[m.from], m, o, Len(answers[m.from])) =>
             RowComes(queue'[m.from], m, o, Len(answers'[m.from]))
  PROVE  RowsCatchUp'
<1>1. \A m \in sent : \A o \in {m.from, m.to} : o \in User /\ Other(m, o) \in User
  BY OrderTypes
<1>2. ASSUME NEW m \in sent, NEW o \in {m.from, m.to}
      PROVE  \/ rows'[o][Other(m, o)].last # NoMsg
             \/ RowComes(queue'[m.from], m, o, Len(answers'[m.from]))
  BY <1>1 DEF RowsCatchUp, Comes
<1>3. ASSUME NEW o \in User, NEW p \in User, rows'[o][p].last # NoMsg
      PROVE  /\ o \in {rows'[o][p].last.from, rows'[o][p].last.to}
             /\ p = Other(rows'[o][p].last, o)
             /\ \A x \in sent : Newer(x, rows'[o][p].last) =>
                  RowComes(queue'[x.from], x, o, Len(answers'[x.from]))
  <2>1. PICK last : last = rows[o][p].last
    OBVIOUS
  <2>2. rows'[o][p].last = last /\ last # NoMsg
    BY <1>3, <2>1
  <2>3. /\ o \in {last.from, last.to} /\ p = Other(last, o)
        /\ \A x \in sent : Newer(x, last) => RowComes(queue[x.from], x, o, Len(answers[x.from]))
    BY <2>1, <2>2 DEF RowsCatchUp, Comes
  <2>4. QED
    BY <2>2, <2>3
<1>4. QED
  BY <1>2, <1>3 DEF RowsCatchUp, Comes

(* A step of an app that sends nothing. *)
LEMMA EnqueueOrdered ==
  ASSUME IInv, Ordered, NEW u \in User, NEW s \in Seq(Write), Enqueue(u, s),
         UNCHANGED <<sent, answers, server>>,
         \A k \in DOMAIN s : s[k].kind \notin {"message", "row"}
  PROVE  Ordered'
<1>1. queue' = [queue EXCEPT ![u] = queue[u] \o s] /\ answers' = answers /\ rows' = rows
  BY DEF Enqueue, server
<1>2. \A v \in User : queue'[v] = IF v = u THEN queue[u] \o s ELSE queue[v]
  BY <1>1, OrderTypes
<1>3. \A v \in User : ~Refusing(v)'
  BY <1>1 DEF Ordered, Refusing
<1>4. \A v \in User : InOrder(queue'[v], v, sent')
  <2>1. InOrder(queue[u] \o s, u, sent)
    BY OrderTypes, OrderBehind DEF Ordered
  <2>2. QED
    BY <1>2, <2>1 DEF Ordered
<1>5. ASSUME NEW m \in sent, NEW o \in User, RowComes(queue[m.from], m, o, Len(answers[m.from]))
      PROVE  RowComes(queue'[m.from], m, o, Len(answers'[m.from]))
  <2>1. m.from \in User /\ queue[u] \in Seq(Write)
    BY OrderTypes
  <2>2. CASE m.from = u
    <3>1. RowComes(queue[u] \o s, m, o, Len(answers[u]))
      BY <1>5, <2>1, <2>2, RowComesBehind
    <3>2. QED
      BY <1>1, <1>2, <2>2, <3>1
  <2>3. CASE m.from # u
    BY <1>1, <1>2, <1>5, <2>1, <2>3
  <2>4. QED
    BY <2>2, <2>3
<1>6. RowsCatchUp'
  BY <1>1, <1>5, CatchUpStays DEF Ordered
<1>7. (\A v \in User : InOrder(queue[v], v, sent))'
  BY <1>4
<1>8. QED
  BY <1>3, <1>6, <1>7 DEF Ordered

LEMMA NothingOrdered ==
  ASSUME IInv, Ordered, UNCHANGED <<queue, sent, answers, server>>
  PROVE  Ordered'
<1>1. rows' = rows
  BY DEF server
<1>2. RowsCatchUp'
  BY <1>1 DEF Ordered, RowsCatchUp, Comes
<1>3. (\A u \in User : InOrder(queue[u], u, sent))'
  BY DEF Ordered
<1>4. (\A u \in User : ~Refusing(u))'
  BY DEF Ordered, Refusing
<1>5. QED
  BY <1>2, <1>3, <1>4 DEF Ordered

LEMMA SendMessageOrdered ==
  ASSUME IInv, Ordered, NEW u \in User, NEW p \in User, NEW t \in Stamp,
         SendMessage(u, p, t), u # p
  PROVE  Ordered'
<1> DEFINE m == [from |-> u, to |-> p, id |-> t]
           w1 == About("message", m, u)
           w2 == About("message", m, p)
           w3 == About("badge", m, p)
<1>1. m \in Message /\ m.from = u /\ m.to = p /\ m.id = t
  BY DEF Message
<1>2. /\ sent' = sent \cup {m}
      /\ \A x \in sent : x.from = u => x.id < m.id
      /\ Enqueue(u, <<w1, w2, w3>>)
      /\ UNCHANGED <<answers, rows>>
  BY DEF SendMessage, server
<1> HIDE DEF m
<1>3. /\ w1 \in Write /\ w1.kind = "message" /\ w1.msg = m /\ w1.owner = u /\ w1.heard
      /\ w2 \in Write /\ w2.kind = "message" /\ w2.msg = m /\ w2.owner = p /\ w2.heard
      /\ w3 \in Write /\ w3.kind = "badge"
  <2>1. "message" \in Kind /\ "badge" \in Kind
    BY DEF Kind
  <2>2. w1.heard /\ w2.heard
    BY DEF About
  <2>3. QED
    BY <1>1, <2>1, <2>2, AboutType
<1> HIDE DEF w1, w2, w3
<1>4. PICK s : s = <<w1, w2, w3>>
  OBVIOUS
<1>5. /\ s \in Seq(Write) /\ DOMAIN s = {1, 2, 3}
      /\ s[1] = w1 /\ s[2] = w2 /\ s[3] = w3
  BY <1>3, <1>4
<1>6. /\ \A k \in DOMAIN s : s[k].kind # "row"
      /\ \A k \in DOMAIN s : s[k].kind = "message" => s[k].msg = m /\ s[k].heard
      /\ \A o \in {m.from, m.to} : \E k \in DOMAIN s :
           s[k].kind = "message" /\ s[k].msg = m /\ s[k].owner = o
  BY <1>1, <1>3, <1>5
<1>7. queue' = [queue EXCEPT ![u] = queue[u] \o s]
  BY <1>2, <1>4 DEF Enqueue
<1>8. \A v \in User : queue'[v] = IF v = u THEN queue[u] \o s ELSE queue[v]
  BY <1>7, OrderTypes
<1>9. InOrder(queue[u] \o s, u, sent')
  <2>1. queue[u] \in Seq(Write) /\ sent \in SUBSET Message /\ InOrder(queue[u], u, sent)
    BY OrderTypes DEF Ordered
  <2>2. \A i \in DOMAIN queue[u] : queue[u][i].kind \in {"message", "row"} =>
          queue[u][i].owner \in {queue[u][i].msg.from, queue[u][i].msg.to}
    BY DEF IInv, QueueFits, Fits
  <2>3. PICK q : q = queue[u]
    OBVIOUS
  <2>4. InOrder(q \o s, u, sent \cup {m})
    BY <1>1, <1>2, <1>5, <1>6, <2>1, <2>2, <2>3, OrderSend
  <2>5. QED
    BY <1>2, <2>3, <2>4
<1>10. ASSUME NEW v \in User, v # u
       PROVE  InOrder(queue[v], v, sent')
  <2>1. InOrder(queue[v], v, sent)
    BY DEF Ordered
  <2>2. \A i \in DOMAIN queue[v] :
          queue[v][i].kind \in {"message", "row"} => ~Newer(m, queue[v][i].msg)
    BY <1>1, <1>10, <2>1 DEF InOrder, Newer
  <2>3. QED
    BY <1>2, <2>1, <2>2 DEF InOrder
<1>11. (\A v \in User : InOrder(queue[v], v, sent))'
  BY <1>8, <1>9, <1>10
<1>12. (\A v \in User : ~Refusing(v))'
  BY <1>2 DEF Ordered, Refusing
<1>13. ASSUME NEW x \in sent, NEW o \in User, RowComes(queue[x.from], x, o, Len(answers[x.from]))
       PROVE  RowComes(queue'[x.from], x, o, Len(answers'[x.from]))
  <2>1. x.from \in User /\ queue[u] \in Seq(Write)
    BY OrderTypes
  <2>2. CASE x.from = u
    <3>1. RowComes(queue[u] \o s, x, o, Len(answers[u]))
      BY <1>5, <1>13, <2>1, <2>2, RowComesBehind
    <3>2. QED
      BY <1>2, <1>8, <2>2, <3>1
  <2>3. CASE x.from # u
    BY <1>2, <1>8, <1>13, <2>1, <2>3
  <2>4. QED
    BY <2>2, <2>3
<1>14. \A o \in {m.from, m.to} : RowComes(queue'[u], m, o, Len(answers'[u]))
  <2> SUFFICES ASSUME NEW o \in {m.from, m.to}
               PROVE  RowComes(queue[u] \o s, m, o, Len(answers[u]))
    BY <1>2, <1>8
  <2>1. PICK k \in DOMAIN s : s[k].kind = "message" /\ s[k].msg = m /\ s[k].owner = o
    BY <1>6
  <2>2. queue[u] \in Seq(Write)
    BY OrderTypes
  <2>3. PICK i \in DOMAIN (queue[u] \o s) : (queue[u] \o s)[i] = s[k]
    BY <1>5, <2>2, ConcatParts
  <2>4. QED
    BY <2>1, <2>3 DEF RowComes
<1>15. ASSUME NEW x \in sent', NEW o \in {x.from, x.to}
       PROVE  rows[o][Other(x, o)].last # NoMsg \/ RowComes(queue'[x.from], x, o, Len(answers'[x.from]))
  <2>1. CASE x \in sent
    <3>1. o \in User
      BY <2>1, OrderTypes
    <3>2. QED
      BY <1>13, <2>1, <3>1 DEF Ordered, RowsCatchUp, Comes
  <2>2. CASE x = m
    BY <1>1, <1>14, <2>2
  <2>3. QED
    BY <1>2, <2>1, <2>2
<1>16. ASSUME NEW o \in User, NEW q \in User, NEW last, last = rows[o][q].last, last # NoMsg
       PROVE  /\ o \in {last.from, last.to} /\ q = Other(last, o)
              /\ \A x \in sent' : Newer(x, last) =>
                   RowComes(queue'[x.from], x, o, Len(answers'[x.from]))
  <2>1. /\ o \in {last.from, last.to} /\ q = Other(last, o)
        /\ \A x \in sent : Newer(x, last) => RowComes(queue[x.from], x, o, Len(answers[x.from]))
    BY <1>16 DEF Ordered, RowsCatchUp, Comes
  <2>2. Newer(m, last) => RowComes(queue'[m.from], m, o, Len(answers'[m.from]))
    BY <1>1, <1>14, <2>1 DEF Newer
  <2>3. QED
    BY <1>2, <1>13, <2>1, <2>2
<1>17. RowsCatchUp'
  BY <1>2, <1>15, <1>16 DEF RowsCatchUp, Comes
<1>18. QED
  BY <1>11, <1>12, <1>17 DEF Ordered

LEMMA CounterWritten ==
  ASSUME NEW R, NEW D, NEW E, R \in [User -> [User -> [last : D, badge : E]]],
         NEW o, NEW p, NEW n, NEW S, S = [R EXCEPT ![o][p].badge = n]
  PROVE  \A v, x \in User : S[v][x].last = R[v][x].last
<1> SUFFICES ASSUME NEW v \in User, NEW x \in User
             PROVE  S[v][x].last = R[v][x].last
  OBVIOUS
<1>1. R[v] \in [User -> [last : D, badge : E]] /\ R[v][x] \in [last : D, badge : E]
  OBVIOUS
<1>2. CASE v = o /\ x = p
  <2>1. S[v] = [R[v] EXCEPT ![p] = [R[v][p] EXCEPT !.badge = n]]
    BY <1>2
  <2>2. S[v][x] = [R[v][x] EXCEPT !.badge = n]
    BY <1>1, <1>2, <2>1
  <2>3. QED
    BY <1>1, <2>2
<1>3. CASE v # o
  BY <1>3
<1>4. CASE v = o /\ x # p
  <2>1. S[v] = [R[v] EXCEPT ![p] = [R[v][p] EXCEPT !.badge = n]]
    BY <1>4
  <2>2. QED
    BY <1>1, <1>4, <2>1
<1>5. QED
  BY <1>2, <1>3, <1>4

LEMMA RowWritten ==
  ASSUME NEW R, NEW D, NEW E, R \in [User -> [User -> [last : D, badge : E]]],
         NEW o \in User, NEW p \in User, NEW m, NEW S, S = [R EXCEPT ![o][p].last = m]
  PROVE  /\ S[o][p].last = m
         /\ \A v, x \in User : (v = o /\ x = p) \/ S[v][x].last = R[v][x].last
<1>1. R[o] \in [User -> [last : D, badge : E]] /\ R[o][p] \in [last : D, badge : E]
  OBVIOUS
<1>2. S[o] = [R[o] EXCEPT ![p] = [R[o][p] EXCEPT !.last = m]]
  OBVIOUS
<1>3. S[o][p] = [R[o][p] EXCEPT !.last = m]
  BY <1>1, <1>2
<1>4. S[o][p].last = m
  BY <1>1, <1>3
<1>5. ASSUME NEW v \in User, NEW x \in User, ~(v = o /\ x = p)
      PROVE  S[v][x].last = R[v][x].last
  <2>1. CASE v # o
    BY <2>1
  <2>2. CASE v = o /\ x # p
    BY <1>1, <1>2, <2>2
  <2>3. QED
    BY <1>5, <2>1, <2>2
<1>6. QED
  BY <1>4, <1>5

(* The server applies the next write of u: a row gives way to its own only, *)
(* and what is newer than that comes behind it.                             *)
LEMMA CommitOrdered ==
  ASSUME IInv, Ordered, NEW u \in User, Commit(u)
  PROVE  Ordered'
<1> DEFINE n == Len(answers[u]) + 1
<1>1. /\ CanAnswer(u) /\ Store(NextWrite(u))
      /\ answers' = [answers EXCEPT ![u] = Append(@, TRUE)]
      /\ UNCHANGED <<queue, sent>>
  BY DEF Commit, client
<1>2. PICK w : w = NextWrite(u)
  OBVIOUS
<1>3. w \in Write /\ Fits(w) /\ w = queue[u][n] /\ n \in DOMAIN queue[u]
  BY <1>1, <1>2, NextWriteIsThere
<1>4. /\ answers' \in [User -> Seq(BOOLEAN)]
      /\ \A v \in User : v = u \/ answers'[v] = answers[v]
      /\ Len(answers'[u]) = n /\ answers'[u][n] = TRUE
      /\ \A i \in 1..Len(answers[u]) : answers'[u][i] = answers[u][i]
  BY <1>1, AnswerGrows
<1>5. (\A v \in User : ~Refusing(v))'
  <2> SUFFICES ASSUME NEW v \in User, NEW i \in DOMAIN answers'[v]
               PROVE  answers'[v][i] = TRUE
    BY DEF Refusing
  <2>1. \A j \in DOMAIN answers[v] : answers[v][j] = TRUE
    BY OrderTypes DEF Ordered, Refusing
  <2>2. CASE v # u
    BY <1>4, <2>1, <2>2
  <2>3. CASE v = u
    <3>1. i \in 1..n /\ Len(answers[u]) \in Nat /\ DOMAIN answers[u] = 1..Len(answers[u])
      BY <1>4, <2>3, OrderTypes
    <3>2. i = n \/ i \in 1..Len(answers[u])
      BY <3>1
    <3>3. QED
      BY <1>4, <2>1, <2>3, <3>1, <3>2
  <2>4. QED
    BY <2>2, <2>3
<1>6. (\A v \in User : InOrder(queue[v], v, sent))'
  BY <1>1 DEF Ordered
<1>7. ASSUME NEW m \in sent, NEW o \in User, RowComes(queue[m.from], m, o, Len(answers[m.from])),
             ~(w.kind = "row" /\ w.msg = m /\ w.owner = o)
      PROVE  RowComes(queue'[m.from], m, o, Len(answers'[m.from]))
  <2>1. PICK i \in DOMAIN queue[m.from] :
          /\ queue[m.from][i].msg = m /\ queue[m.from][i].owner = o
          /\ queue[m.from][i].kind = "message"
               \/ (queue[m.from][i].kind = "row" /\ i > Len(answers[m.from]))
    BY <1>7 DEF RowComes
  <2>2. /\ m.from \in User /\ i \in Nat /\ Len(answers[m.from]) \in Nat /\ Len(answers[u]) \in Nat
    <3>1. m.from \in User /\ queue[m.from] \in Seq(Write)
      BY OrderTypes
    <3>2. i \in Nat
      BY <3>1
    <3>3. QED
      BY <3>1, <3>2, OrderTypes
  <2>3. CASE queue[m.from][i].kind = "message"
    BY <1>1, <2>1, <2>3 DEF RowComes
  <2>4. CASE queue[m.from][i].kind = "row" /\ i > Len(answers[m.from])
    <3>1. ~(m.from = u /\ i = n)
      BY <1>3, <1>7, <2>1, <2>4
    <3>2. i > Len(answers'[m.from])
      BY <1>4, <2>2, <2>4, <3>1
    <3>3. QED
      BY <1>1, <2>1, <2>4, <3>2 DEF RowComes
  <2>5. QED
    BY <2>1, <2>3, <2>4
<1>8. CASE w.kind # "row"
  <2>1. \A o, p \in User : rows'[o][p].last = rows[o][p].last
    <3>1. rows' = rows \/ rows' = [rows EXCEPT ![w.owner][w.peer].badge = w.count]
      BY <1>1, <1>2, <1>8 DEF Store
    <3>2. PICK D : D = sent \cup {NoMsg}
      OBVIOUS
    <3>3. rows \in [User -> [User -> [last : D, badge : Nat]]]
      BY <3>2, OrderTypes
    <3>4. CASE rows' = [rows EXCEPT ![w.owner][w.peer].badge = w.count]
      <4>1. PICK S : S = rows'
        OBVIOUS
      <4>2. S = [rows EXCEPT ![w.owner][w.peer].badge = w.count]
        BY <3>4, <4>1
      <4>3. \A v, x \in User : S[v][x].last = rows[v][x].last
        BY <3>3, <4>2, CounterWritten
      <4>4. QED
        BY <4>1, <4>3
    <3>5. QED
      BY <3>1, <3>4
  <2>2. RowsCatchUp'
    BY <1>1, <1>7, <1>8, <2>1, CatchUpStays DEF Ordered
  <2>3. QED
    BY <1>5, <1>6, <2>2 DEF Ordered
<1>9. CASE w.kind = "row"
  <2>1. /\ w.owner \in User /\ w.peer \in User /\ w.msg \in sent /\ w.msg # NoMsg
        /\ w.owner \in {w.msg.from, w.msg.to} /\ w.peer = Other(w.msg, w.owner)
    <3>1. w.msg \in sent /\ w.owner \in {w.msg.from, w.msg.to} /\ w.peer = Other(w.msg, w.owner)
      BY <1>3, <1>9 DEF Fits
    <3>2. QED
      BY <1>3, <3>1, OrderTypes DEF Write
  <2>2. /\ rows'[w.owner][w.peer].last = w.msg
        /\ \A o, p \in User : (o = w.owner /\ p = w.peer) \/ rows'[o][p].last = rows[o][p].last
    <3>1. rows' = [rows EXCEPT ![w.owner][w.peer].last = w.msg]
      BY <1>1, <1>2, <1>9 DEF Store
    <3>2. PICK D : D = sent \cup {NoMsg}
      OBVIOUS
    <3>3. rows \in [User -> [User -> [last : D, badge : Nat]]]
      BY <3>2, OrderTypes
    <3>4. PICK S : S = rows'
      OBVIOUS
    <3>5. S = [rows EXCEPT ![w.owner][w.peer].last = w.msg]
      BY <3>1, <3>4
    <3>6. /\ S[w.owner][w.peer].last = w.msg
          /\ \A v, x \in User : (v = w.owner /\ x = w.peer) \/ S[v][x].last = rows[v][x].last
      BY <2>1, <3>3, <3>5, RowWritten
    <3>7. QED
      BY <3>4, <3>6
  <2>3. \A x \in sent : Newer(x, w.msg) =>
          RowComes(queue'[x.from], x, w.owner, Len(answers'[x.from]))
    <3>1. InOrder(queue[u], u, sent)
      BY DEF Ordered
    <3>2. w.msg.from = u /\ \A x \in sent : Newer(x, w.msg) => RowComes(queue[u], x, w.owner, n)
      BY <1>3, <1>9, <3>1 DEF InOrder
    <3>3. QED
      BY <1>1, <1>4, <3>2 DEF Newer
  <2>4. ASSUME NEW m \in sent, NEW o \in {m.from, m.to}
        PROVE  \/ rows'[o][Other(m, o)].last # NoMsg
               \/ RowComes(queue'[m.from], m, o, Len(answers'[m.from]))
    <3>1. o \in User /\ Other(m, o) \in User
      BY OrderTypes
    <3>2. CASE o = w.owner /\ Other(m, o) = w.peer
      BY <2>1, <2>2, <3>2
    <3>3. CASE ~(o = w.owner /\ Other(m, o) = w.peer)
      <4>1. ~(w.msg = m /\ w.owner = o)
        BY <2>1, <3>3
      <4>2. rows[o][Other(m, o)].last # NoMsg \/ RowComes(queue[m.from], m, o, Len(answers[m.from]))
        BY DEF Ordered, RowsCatchUp, Comes
      <4>3. QED
        BY <1>7, <2>2, <3>1, <3>3, <4>1, <4>2
    <3>4. QED
      BY <3>2, <3>3
  <2>5. ASSUME NEW o \in User, NEW p \in User, NEW last, last = rows'[o][p].last, last # NoMsg
        PROVE  /\ o \in {last.from, last.to} /\ p = Other(last, o)
               /\ \A x \in sent : Newer(x, last) =>
                    RowComes(queue'[x.from], x, o, Len(answers'[x.from]))
    <3>1. CASE o = w.owner /\ p = w.peer
      BY <2>1, <2>2, <2>3, <2>5, <3>1
    <3>2. CASE ~(o = w.owner /\ p = w.peer)
      <4>1. last = rows[o][p].last
        BY <2>2, <2>5, <3>2
      <4>2. /\ o \in {last.from, last.to} /\ p = Other(last, o)
            /\ \A x \in sent : Newer(x, last) => RowComes(queue[x.from], x, o, Len(answers[x.from]))
        BY <2>5, <4>1 DEF Ordered, RowsCatchUp, Comes
      <4>3. ASSUME NEW x \in sent, Newer(x, last)
            PROVE  ~(w.msg = x /\ w.owner = o)
        BY <2>1, <3>2, <4>2, <4>3 DEF Newer, Other
      <4>4. QED
        BY <1>7, <4>2, <4>3
    <3>3. QED
      BY <3>1, <3>2
  <2>6. RowsCatchUp'
    BY <1>1, <2>4, <2>5 DEF RowsCatchUp, Comes
  <2>7. QED
    BY <1>5, <1>6, <2>6 DEF Ordered
<1>10. QED
  BY <1>8, <1>9

LEMMA AcknowledgeOrdered ==
  ASSUME IInv, Ordered, NEW u \in User, Acknowledge(u)
  PROVE  Ordered'
<1>1. /\ answers[u] # <<>>
      /\ queue' = [queue EXCEPT ![u] = Tail(queue[u]) \o Callback(Head(queue[u]), TRUE)]
      /\ UNCHANGED <<sent, rows>>
  BY DEF Acknowledge, client, server
<1>2. /\ answers' \in [User -> Seq(BOOLEAN)]
      /\ \A v \in User : v = u \/ answers'[v] = answers[v]
      /\ Len(answers'[u]) = Len(answers[u]) - 1 /\ Len(answers[u]) >= 1
      /\ \A i \in 1..Len(answers'[u]) : answers'[u][i] = answers[u][i + 1]
  BY AcknowledgeShifts
<1>3. PICK q \in Seq(Write) : q = queue[u]
  BY OrderTypes
<1>4. PICK s : s = Callback(q[1], TRUE)
  OBVIOUS
<1>5. PICK r : r = Tail(q) \o s
  OBVIOUS
<1>6. /\ q # <<>> /\ Head(q) = q[1] /\ 1 \in DOMAIN q
      /\ Len(q) \in Nat /\ Len(answers[u]) \in 1..Len(q)
  BY <1>2, <1>3, OrderTypes
<1>7. InOrder(q, u, sent)
  BY <1>3 DEF Ordered
<1>8. /\ s \in Seq(Write)
      /\ q[1].kind = "message" =>
           \E k \in DOMAIN s : s[k].kind = "row" /\ s[k].msg = q[1].msg /\ s[k].owner = q[1].owner
      /\ \A k \in DOMAIN s : /\ q[1].kind = "message" /\ s[k].kind = "row"
                             /\ s[k].msg = q[1].msg /\ s[k].owner = q[1].owner
  <2>1. CASE q[1].kind = "message"
    <3>1. q[1].heard
      BY <1>6, <1>7, <2>1 DEF InOrder
    <3>2. PICK x : x = About("row", q[1].msg, q[1].owner)
      OBVIOUS
    <3>3. s = <<x>>
      BY <1>4, <2>1, <3>1, <3>2 DEF Callback
    <3>4. x \in Write /\ x.kind = "row" /\ x.msg = q[1].msg /\ x.owner = q[1].owner
      <4>1. q[1].msg \in Message /\ q[1].owner \in {q[1].msg.from, q[1].msg.to}
        <5>1. Fits(queue[u][1])
          BY <1>3, <1>6 DEF IInv, QueueFits
        <5>2. QED
          BY <1>3, <2>1, <5>1, OrderTypes DEF Fits
      <4>2. "row" \in Kind
        BY DEF Kind
      <4>3. QED
        BY <3>2, <4>1, <4>2, AboutType
    <3>5. s \in Seq(Write) /\ DOMAIN s = {1} /\ s[1] = x
      BY <3>3, <3>4, OneWrite
    <3>6. QED
      BY <2>1, <3>4, <3>5
  <2>2. CASE q[1].kind # "message"
    BY <1>4, <2>2 DEF Callback
  <2>3. QED
    BY <2>1, <2>2
<1>9. \A v \in User : queue'[v] = IF v = u THEN r ELSE queue[v]
  BY <1>1, <1>3, <1>4, <1>5, <1>6, OrderTypes
<1>10. (\A v \in User : InOrder(queue[v], v, sent))'
  <2>1. InOrder(r, u, sent)
    BY <1>5, <1>6, <1>7, <1>8, OrderShift
  <2>2. QED
    BY <1>1, <1>9, <2>1 DEF Ordered
<1>11. (\A v \in User : ~Refusing(v))'
  <2> SUFFICES ASSUME NEW v \in User, NEW i \in DOMAIN answers'[v]
               PROVE  answers'[v][i] = TRUE
    BY DEF Refusing
  <2>1. \A j \in DOMAIN answers[v] : answers[v][j] = TRUE
    BY OrderTypes DEF Ordered, Refusing
  <2>2. CASE v # u
    BY <1>2, <2>1, <2>2
  <2>3. CASE v = u
    <3>1. i \in 1..Len(answers'[u]) /\ i + 1 \in DOMAIN answers[u]
      <4>1. DOMAIN answers[u] = 1..Len(answers[u]) /\ Len(answers[u]) \in Nat
        BY OrderTypes
      <4>2. i \in 1..Len(answers'[u])
        BY <1>2, <2>3
      <4>3. QED
        BY <1>2, <4>1, <4>2
    <3>2. QED
      BY <1>2, <2>1, <2>3, <3>1
  <2>4. QED
    BY <2>2, <2>3
<1>12. ASSUME NEW m \in sent, NEW o \in User, RowComes(queue[m.from], m, o, Len(answers[m.from]))
       PROVE  RowComes(queue'[m.from], m, o, Len(answers'[m.from]))
  <2>1. m.from \in User
    BY OrderTypes
  <2>2. CASE m.from = u
    <3>1. RowComes(q, m, o, Len(answers[u]))
      BY <1>3, <1>12, <2>2
    <3>2. RowComes(r, m, o, Len(answers[u]) - 1)
      BY <1>5, <1>6, <1>8, <3>1, RowComesShift
    <3>3. QED
      BY <1>2, <1>9, <2>2, <3>2
  <2>3. CASE m.from # u
    BY <1>2, <1>9, <1>12, <2>1, <2>3
  <2>4. QED
    BY <2>2, <2>3
<1>13. RowsCatchUp'
  BY <1>1, <1>12, CatchUpStays DEF Ordered
<1>14. QED
  BY <1>10, <1>11, <1>13 DEF Ordered

LEMMA BreakOrdered ==
  ASSUME IInv, Ordered, NEW u \in User, Break(u)
  PROVE  Ordered'
<1>1. answers' = [answers EXCEPT ![u] = <<>>] /\ UNCHANGED <<queue, sent, rows>>
  BY DEF Break, client, server
<1>2. \A v \in User : answers'[v] = IF v = u THEN <<>> ELSE answers[v]
  BY <1>1, OrderTypes
<1>3. (\A v \in User : ~Refusing(v))'
  BY <1>2 DEF Ordered, Refusing
<1>4. (\A v \in User : InOrder(queue[v], v, sent))'
  BY <1>1 DEF Ordered
<1>5. ASSUME NEW m \in sent, NEW o \in User, RowComes(queue[m.from], m, o, Len(answers[m.from]))
      PROVE  RowComes(queue'[m.from], m, o, Len(answers'[m.from]))
  <2>1. PICK i \in DOMAIN queue[m.from] :
          /\ queue[m.from][i].msg = m /\ queue[m.from][i].owner = o
          /\ queue[m.from][i].kind = "message"
               \/ (queue[m.from][i].kind = "row" /\ i > Len(answers[m.from]))
    BY <1>5 DEF RowComes
  <2>2. m.from \in User /\ i \in 1..Len(queue[m.from])
    <3>1. m.from \in User
      BY OrderTypes
    <3>2. queue[m.from] \in Seq(Write)
      BY <3>1, OrderTypes
    <3>3. QED
      BY <3>1, <3>2
  <2>3. i > Len(answers[m.from]) => i > Len(answers'[m.from])
    <3>1. Len(<<>>) = 0 /\ i > 0
      BY <2>2, OrderTypes
    <3>2. QED
      BY <1>2, <2>2, <3>1
  <2>4. QED
    BY <1>1, <2>1, <2>3 DEF RowComes
<1>6. RowsCatchUp'
  BY <1>1, <1>5, CatchUpStays DEF Ordered
<1>7. QED
  BY <1>3, <1>4, <1>6 DEF Ordered

LEMMA ClearAnsweredOrdered ==
  ASSUME IInv, Ordered, NEW u \in User, NEW p \in User, ClearAnswered(u, p)
  PROVE  Ordered'
<1> DEFINE found == badges[u][p] \ QueuedDocs(u, "unbadge", u, p)
<1>1. UNCHANGED <<sent, answers, server>>
  BY DEF ClearAnswered
<1>2. CASE UNCHANGED <<queue, cleared>>
  BY <1>1, <1>2, NothingOrdered
<1>3. ASSUME NEW f \in Listings(found),
             Enqueue(u, [i \in DOMAIN f |-> About("unbadge", f[i], u)])
      PROVE  Ordered'
  <2> DEFINE s == [i \in DOMAIN f |-> About("unbadge", f[i], u)]
  <2>1. found \subseteq From(p, u) /\ IsFiniteSet(found) /\ found \subseteq sent
        /\ Cardinality(found) \in Nat
    BY FS_Subset, FS_CardinalityType DEF IInv, BadgesFit, From
  <2>2. DOMAIN f = 1..Cardinality(found) /\ \A i \in DOMAIN f : f[i] \in found
    BY DEF Listings
  <2> HIDE DEF found
  <2>3. \A i \in DOMAIN f : f[i] \in Message /\ f[i].to = u
    BY <2>1, <2>2, OrderTypes DEF From
  <2>4. \A i \in DOMAIN f : /\ About("unbadge", f[i], u) \in Write
                            /\ About("unbadge", f[i], u).kind = "unbadge"
    <3>1. "unbadge" \in Kind
      BY DEF Kind
    <3>2. QED
      BY <2>3, <3>1, AboutType
  <2>5. s \in Seq(Write) /\ DOMAIN s = DOMAIN f
    BY <2>1, <2>2, <2>4
  <2>6. \A k \in DOMAIN s : s[k].kind \notin {"message", "row"}
    BY <2>4, <2>5
  <2> HIDE DEF s
  <2>7. Enqueue(u, s)
    BY <1>3 DEF s
  <2>8. QED
    BY <1>1, <2>5, <2>6, <2>7, EnqueueOrdered
<1>4. QED
  BY <1>2, <1>3 DEF ClearAnswered

(* A step of an app that queues at most a count. *)
LEMMA CountOrdered ==
  ASSUME IInv, Ordered, NEW u \in User, NEW w \in Write, w.kind = "count",
         Enqueue(u, <<w>>), UNCHANGED <<sent, answers, server>>
  PROVE  Ordered'
<1>1. PICK s : s = <<w>>
  OBVIOUS
<1>2. s \in Seq(Write) /\ Enqueue(u, s) /\ \A k \in DOMAIN s : s[k].kind \notin {"message", "row"}
  BY <1>1, OneWrite
<1>3. QED
  BY <1>2, EnqueueOrdered

LEMMA AppOrdered ==
  ASSUME IInv, Ordered, NEW u \in User,
         \/ \E p \in User : OpenChat(u, p) \/ CloseChat(u, p)
         \/ \E m \in counting[u] : CountAnswered(u, m)
  PROVE  Ordered'
<1>1. ASSUME NEW p \in User, OpenChat(u, p)
      PROVE  Ordered'
  BY <1>1, NothingOrdered DEF OpenChat
<1>2. ASSUME NEW p \in User, CloseChat(u, p)
      PROVE  Ordered'
  <2>1. PICK w : w = CountWrite(u, p, 0)
    OBVIOUS
  <2>2. w \in Write /\ w.kind = "count"
    BY <2>1, CountWriteType
  <2>3. Enqueue(u, <<w>>) /\ UNCHANGED <<sent, answers, server>>
    BY <1>2, <2>1 DEF CloseChat
  <2>4. QED
    BY <2>2, <2>3, CountOrdered
<1>3. ASSUME NEW m \in counting[u], CountAnswered(u, m)
      PROVE  Ordered'
  <2>1. UNCHANGED <<sent, answers, server>>
    BY <1>3 DEF CountAnswered
  <2>2. m \in Message /\ m.to \in User
    BY DEF IInv, TypeOK, Message
  <2>3. CASE UNCHANGED queue
    BY <2>1, <2>3, NothingOrdered
  <2>4. ASSUME NEW known \in {badges[m.to][u], {}},
               Enqueue(u, <<CountWrite(m.to, u,
                              Cardinality(known \cup QueuedDocs(u, "badge", m.to, u)))>>)
        PROVE  Ordered'
    <3>1. PICK k : k = Cardinality(known \cup QueuedDocs(u, "badge", m.to, u))
      OBVIOUS
    <3>2. k \in Nat
      BY <2>2, <3>1, CountIsSent
    <3>3. PICK w : w = CountWrite(m.to, u, k)
      OBVIOUS
    <3>4. w \in Write /\ w.kind = "count"
      BY <2>2, <3>2, <3>3, CountWriteType
    <3>5. Enqueue(u, <<w>>)
      BY <2>4, <3>1, <3>3
    <3>6. QED
      BY <2>1, <3>4, <3>5, CountOrdered
  <2>5. QED
    BY <1>3, <2>3, <2>4 DEF CountAnswered
<1>4. QED
  BY <1>1, <1>2, <1>3

(* No step makes up for a restart or a refusal. *)
LEMMA FaultsStay ==
  ASSUME IInv, [Next]_vars, restarts' = 0 /\ refused' = {}
  PROVE  restarts = 0 /\ refused = {}
<1>1. restarts \in Nat
  BY DEF IInv, TypeOK
<1>2. restarts' \in {restarts, restarts + 1} /\ refused \subseteq refused'
  <2>1. CASE UNCHANGED vars
    BY <2>1 DEF vars, history
  <2>2. ASSUME NEW u \in User, NEW p \in User,
               OpenChat(u, p) \/ CloseChat(u, p) \/ ClearAnswered(u, p)
        PROVE  restarts' = restarts /\ refused' = refused
    BY <2>2 DEF OpenChat, CloseChat, ClearAnswered
  <2>3. ASSUME NEW u \in User, NEW p \in User, NEW t \in Stamp, SendMessage(u, p, t)
        PROVE  restarts' = restarts /\ refused' = refused
    BY <2>3 DEF SendMessage, history
  <2>4. ASSUME NEW u \in User, NEW m, CountAnswered(u, m)
        PROVE  restarts' = restarts /\ refused' = refused
    BY <2>4 DEF CountAnswered, history
  <2>5. ASSUME NEW u \in User, Commit(u) \/ Acknowledge(u) \/ Reject(u)
        PROVE  restarts' = restarts /\ refused' = refused
    BY <2>5 DEF Commit, Acknowledge, Reject, history
  <2>6. ASSUME NEW u \in User, Refuse(u)
        PROVE  restarts' = restarts /\ refused \subseteq refused'
    BY <2>6 DEF Refuse
  <2>7. ASSUME NEW u \in User, Break(u)
        PROVE  restarts' = restarts /\ refused' = refused
    BY <2>7 DEF Break
  <2>8. ASSUME NEW u \in User, Restart(u)
        PROVE  restarts' = restarts + 1 /\ refused' = refused
    BY <2>8 DEF Restart
  <2>9. ASSUME Next
        PROVE  restarts' \in {restarts, restarts + 1} /\ refused \subseteq refused'
    BY <2>2, <2>3, <2>4, <2>5, <2>6, <2>7, <2>8, <2>9 DEF Next
  <2>10. QED
    BY <2>1, <2>9
<1>3. QED
  BY <1>1, <1>2

LEMMA OrderStep ==
  ASSUME IInv, OrderInv, [Next]_vars
  PROVE  OrderInv'
<1> SUFFICES ASSUME restarts' = 0 /\ refused' = {}
             PROVE  Ordered'
  BY DEF OrderInv
<1>1. restarts = 0 /\ refused = {} /\ Ordered
  BY FaultsStay DEF OrderInv
<1>2. CASE UNCHANGED vars
  BY <1>1, <1>2, NothingOrdered DEF vars, client
<1>3. CASE Next
  <2>1. PICK u \in User :
          \/ \E p \in User \ {u} : \/ OpenChat(u, p) \/ CloseChat(u, p) \/ ClearAnswered(u, p)
                                   \/ \E t \in Stamp : SendMessage(u, p, t)
          \/ \E m \in counting[u] : CountAnswered(u, m)
          \/ Commit(u) \/ Refuse(u) \/ Acknowledge(u) \/ Reject(u) \/ Break(u) \/ Restart(u)
    BY <1>3 DEF Next
  <2>2. CASE \E p \in User \ {u} : \E t \in Stamp : SendMessage(u, p, t)
    BY <1>1, <2>2, SendMessageOrdered
  <2>3. CASE \E p \in User \ {u} : ClearAnswered(u, p)
    BY <1>1, <2>3, ClearAnsweredOrdered
  <2>4. CASE \/ \E p \in User \ {u} : OpenChat(u, p) \/ CloseChat(u, p)
             \/ \E m \in counting[u] : CountAnswered(u, m)
    BY <1>1, <2>4, AppOrdered
  <2>5. ~Refuse(u)
    BY DEF Refuse
  <2>6. ~Reject(u)
    BY <1>1 DEF Reject, Ordered
  <2>7. ~Restart(u)
    <3>1. restarts \in Nat
      BY DEF IInv, TypeOK
    <3>2. QED
      BY <1>1, <3>1 DEF Restart
  <2>8. CASE Commit(u) \/ Acknowledge(u) \/ Break(u)
    BY <1>1, <2>8, CommitOrdered, AcknowledgeOrdered, BreakOrdered
  <2>9. QED
    BY <2>1, <2>2, <2>3, <2>4, <2>5, <2>6, <2>7, <2>8
<1>4. QED
  BY <1>2, <1>3

LEMMA OrderInit ==
  ASSUME Init
  PROVE  OrderInv
<1>1. /\ \A u \in User : queue[u] = <<>> /\ answers[u] = <<>>
      /\ sent = {} /\ \A o, p \in User : rows[o][p].last = NoMsg
  BY DEF Init
<1>2. \A u \in User : ~Refusing(u) /\ InOrder(queue[u], u, sent)
  BY <1>1 DEF Refusing, InOrder
<1>3. RowsCatchUp
  BY <1>1 DEF RowsCatchUp
<1>4. QED
  BY <1>2, <1>3 DEF OrderInv, Ordered

LEMMA CaughtUp ==
  ASSUME IInv, OrderInv
  PROVE  PreviewIsNewest
<1> SUFFICES ASSUME Quiet, restarts = 0, refused = {}, NEW m \in sent, NEW o \in {m.from, m.to},
                    NEW last, last = rows[o][Other(m, o)].last
             PROVE  last # NoMsg /\ Newest(last)
  BY DEF PreviewIsNewest
<1>1. Ordered
  BY DEF OrderInv
<1>2. \A x \in sent : \A v : ~Comes(x, v)
  <2> SUFFICES ASSUME NEW x \in sent, NEW v
               PROVE  ~Comes(x, v)
    OBVIOUS
  <2>1. x.from \in User
    BY OrderTypes
  <2>2. queue[x.from] = <<>>
    BY <2>1 DEF Quiet
  <2>3. DOMAIN queue[x.from] = {}
    BY <2>2, EmptySeq
  <2>4. QED
    BY <2>3 DEF Comes, RowComes
<1>3. o \in User /\ Other(m, o) \in User
  BY OrderTypes
<1>4. last # NoMsg
  BY <1>1, <1>2 DEF Ordered, RowsCatchUp
<1>5. \A x \in sent : ~Newer(x, last)
  BY <1>1, <1>2, <1>3, <1>4 DEF Ordered, RowsCatchUp
<1>6. last \in sent
  BY <1>3, <1>4, OrderTypes
<1>7. \A x \in sent : x.id \in Nat /\ last.id \in Nat
  BY <1>6, OrderTypes
<1>8. QED
  BY <1>4, <1>5, <1>7 DEF Newest, Newer

(* PreviewIsNewest: with no completion lost and nothing refused, the rows   *)
(* of both users end with the newest message of one of them, although       *)
(* broken connections write older rows once more.                           *)
THEOREM PreviewsCatchUp == Spec => []PreviewIsNewest
<1>1. Init => OrderInv
  BY OrderInit
<1>2. IInv /\ OrderInv /\ [Next]_vars => OrderInv'
  BY OrderStep
<1>3. IInv /\ OrderInv => PreviewIsNewest
  BY CaughtUp
<1>4. QED
  BY <1>1, <1>2, <1>3, Invariance, PTL DEF Spec

-----------------------------------------------------------------------------
(* The write queue the service is written on *)

SilentWrites(q) == [i \in DOMAIN q |-> Silent(q[i])]
HeardWrites(q) == [i \in DOMAIN q |-> q[i].heard]

queueBar == [u \in User |-> [i \in DOMAIN queue[u] |-> Silent(queue[u][i])]]
heardBar == [u \in User |-> [i \in DOMAIN queue[u] |-> queue[u][i].heard]]

(* WriteQueue's actions, of the queue as the module sees it. *)
ExtendsBar(u, q, h) ==
  /\ queueBar'[u] \in Seq(Write) /\ WQ!IsPrefix(q, queueBar'[u])
  /\ heardBar'[u] \in Seq(BOOLEAN) /\ WQ!IsPrefix(h, heardBar'[u])
  /\ Len(heardBar'[u]) = Len(queueBar'[u])
  /\ queueBar' = [queueBar EXCEPT ![u] = queueBar'[u]]
  /\ heardBar' = [heardBar EXCEPT ![u] = heardBar'[u]]

LEMMA BarIssues ==
  ASSUME NEW u \in User, ExtendsBar(u, queueBar[u], heardBar[u]), UNCHANGED answers
  PROVE  WQ!Issue(u)
BY DEF ExtendsBar, queueBar, heardBar, WQ!Issue, WQ!Extends

LEMMA BarAccepts ==
  ASSUME NEW u \in User, ExtendsBar(u, Tail(queueBar[u]), Tail(heardBar[u])),
         answers[u] # <<>>, Head(answers[u]), answers' = [answers EXCEPT ![u] = Tail(@)]
  PROVE  WQ!Accept(u)
BY DEF ExtendsBar, queueBar, heardBar, WQ!Accept, WQ!Extends

LEMMA BarRejects ==
  ASSUME NEW u \in User, ExtendsBar(u, Tail(queueBar[u]), Tail(heardBar[u])),
         Refusing(u), answers' = [answers EXCEPT ![u] = <<>>]
  PROVE  WQ!Reject(u)
BY DEF ExtendsBar, queueBar, heardBar, Refusing, WQ!Reject, WQ!Refused, WQ!Extends

LEMMA BarRestarts ==
  ASSUME NEW u \in User, UNCHANGED queueBar,
         answers' = [v \in User |-> IF v \in {u} THEN <<>> ELSE answers[v]],
         heardBar' = [v \in User |-> IF v \in {u} THEN [i \in DOMAIN queueBar'[v] |-> FALSE]
                                                  ELSE heardBar[v]]
  PROVE  WQ!Restart({u})
BY DEF queueBar, heardBar, WQ!Restart

LEMMA IsSeq ==
  ASSUME NEW S, NEW n \in Nat, NEW f \in [1..n -> S]
  PROVE  f \in Seq(S) /\ Len(f) = n
OBVIOUS

(* What WriteQueue sees of a queue. *)
LEMMA SeenWrites ==
  ASSUME NEW q \in Seq(Write)
  PROVE  /\ SilentWrites(q) \in Seq(Write) /\ Len(SilentWrites(q)) = Len(q)
         /\ HeardWrites(q) \in Seq(BOOLEAN) /\ Len(HeardWrites(q)) = Len(q)
         /\ \A i \in 1..Len(q) : /\ SilentWrites(q)[i] = Silent(q[i])
                                 /\ HeardWrites(q)[i] = q[i].heard
<1>1. Len(q) \in Nat /\ DOMAIN q = 1..Len(q) /\ \A i \in 1..Len(q) : q[i] \in Write
  BY LenProperties, ElementOfSeq
<1>2. \A w \in Write : Silent(w) \in Write /\ w.heard \in BOOLEAN
  BY DEF Silent, Write
<1>3. /\ SilentWrites(q) \in [1..Len(q) -> Write]
      /\ \A i \in 1..Len(q) : SilentWrites(q)[i] = Silent(q[i])
  BY <1>1, <1>2 DEF SilentWrites
<1>4. HeardWrites(q) \in [1..Len(q) -> BOOLEAN]
  <2>1. \A i \in 1..Len(q) : q[i].heard \in BOOLEAN
    BY <1>1, <1>2
  <2>2. QED
    BY <1>1, <2>1 DEF HeardWrites
<1>5. \A i \in 1..Len(q) : HeardWrites(q)[i] = q[i].heard
  BY <1>1 DEF HeardWrites
<1>6. QED
  BY <1>1, <1>3, <1>4, <1>5, IsSeq

(* A prefix, element by element. *)
LEMMA PrefixSeen ==
  ASSUME NEW S, NEW p \in Seq(S), NEW q \in Seq(S), Len(p) <= Len(q),
         \A i \in 1..Len(p) : p[i] = q[i]
  PROVE  WQ!IsPrefix(p, q)
<1>1. Len(p) \in Nat /\ Len(q) \in Nat
  BY LenProperties
<1>2. \A i \in 1..Len(p) : p[i] \in S /\ q[i] \in S
  BY <1>1, ElementOfSeq
<1>3. PICK s : s = SubSeq(p, 1, Len(p))
  OBVIOUS
<1>4. PICK t : t = SubSeq(q, 1, Len(p))
  OBVIOUS
<1>5. Len(p) = 0 \/ 1 <= Len(p)
  BY <1>1
<1>6. s \in Seq(S) /\ Len(s) = Len(p) /\ \A i \in 1..Len(p) : s[i] = p[i]
  BY <1>1, <1>2, <1>3, <1>5, SubSeqProperties
<1>7. t \in Seq(S) /\ Len(t) = Len(p) /\ \A i \in 1..Len(p) : t[i] = q[i]
  BY <1>1, <1>2, <1>4, <1>5, SubSeqProperties
<1>8. s = t
  BY <1>6, <1>7, SeqEqual
<1>9. QED
  BY <1>3, <1>4, <1>8 DEF WQ!IsPrefix

(* The queue goes on from p: WriteQueue sees it extend what it saw of p. *)
LEMMA QueueExtends ==
  ASSUME NEW u \in User, queue \in [User -> Seq(Write)], queue' \in [User -> Seq(Write)],
         \A v \in User : v = u \/ queue'[v] = queue[v],
         NEW p \in Seq(Write), Len(p) <= Len(queue'[u]),
         \A i \in 1..Len(p) : queue'[u][i] = p[i]
  PROVE  ExtendsBar(u, SilentWrites(p), HeardWrites(p))
<1>1. PICK q \in Seq(Write) : q = queue'[u]
  OBVIOUS
<1>2. queueBar'[u] = SilentWrites(q) /\ heardBar'[u] = HeardWrites(q)
  BY <1>1 DEF queueBar, heardBar, SilentWrites, HeardWrites
<1>3. Len(p) \in Nat /\ Len(q) \in Nat /\ Len(p) <= Len(q) /\ \A i \in 1..Len(p) : p[i] = q[i]
  BY <1>1, LenProperties
<1>4. \A i \in 1..Len(p) : i \in 1..Len(q)
  BY <1>3
<1>5. WQ!IsPrefix(SilentWrites(p), SilentWrites(q))
  <2>1. \A i \in 1..Len(p) : SilentWrites(p)[i] = SilentWrites(q)[i]
    BY <1>3, <1>4, SeenWrites
  <2>2. QED
    BY <1>3, <2>1, SeenWrites, PrefixSeen
<1>6. WQ!IsPrefix(HeardWrites(p), HeardWrites(q))
  <2>1. /\ \A i \in 1..Len(p) : HeardWrites(p)[i] = p[i].heard
        /\ \A i \in 1..Len(q) : HeardWrites(q)[i] = q[i].heard
    BY SeenWrites
  <2>2. \A i \in 1..Len(p) : HeardWrites(p)[i] = HeardWrites(q)[i]
    BY <1>3, <1>4, <2>1, Zenon
  <2>3. QED
    BY <1>3, <2>2, SeenWrites, PrefixSeen
<1>7. queueBar' = [queueBar EXCEPT ![u] = queueBar'[u]]
  <2>1. \A v \in User : v = u \/ queueBar'[v] = queueBar[v]
    BY DEF queueBar
  <2>2. queueBar' = [v \in User |-> queueBar'[v]] /\ queueBar = [v \in User |-> queueBar[v]]
    BY DEF queueBar
  <2>3. QED
    BY <2>1, <2>2
<1>8. heardBar' = [heardBar EXCEPT ![u] = heardBar'[u]]
  <2>1. \A v \in User : v = u \/ heardBar'[v] = heardBar[v]
    BY DEF heardBar
  <2>2. heardBar' = [v \in User |-> heardBar'[v]] /\ heardBar = [v \in User |-> heardBar[v]]
    BY DEF heardBar
  <2>3. QED
    BY <2>1, <2>2
<1>9. QED
  BY <1>2, <1>5, <1>6, <1>7, <1>8, SeenWrites DEF ExtendsBar

(* What WriteQueue sees of the queue without its first write. *)
LEMMA SeenTail ==
  ASSUME NEW q \in Seq(Write), q # <<>>
  PROVE  /\ Tail(q) \in Seq(Write) /\ Len(Tail(q)) = Len(q) - 1
         /\ \A i \in 1..Len(Tail(q)) : Tail(q)[i] = q[i + 1]
         /\ SilentWrites(Tail(q)) = Tail(SilentWrites(q))
         /\ HeardWrites(Tail(q)) = Tail(HeardWrites(q))
<1>1. PICK r : r = Tail(q)
  OBVIOUS
<1>2. /\ r \in Seq(Write) /\ Len(r) = Len(q) - 1
      /\ \A i \in 1..Len(r) : r[i] = q[i + 1]
  BY <1>1, HeadTailProperties
<1>3. Len(q) \in Nat \ {0} /\ \A i \in 1..Len(r) : i + 1 \in 1..Len(q)
  BY <1>2, LenProperties, EmptySeq
<1>4. PICK s \in Seq(Write) : s = SilentWrites(q)
  BY SeenWrites
<1>5. PICK h \in Seq(BOOLEAN) : h = HeardWrites(q)
  BY SeenWrites
<1>6. /\ Len(s) = Len(q) /\ \A i \in 1..Len(q) : s[i] = Silent(q[i])
      /\ Len(h) = Len(q) /\ \A i \in 1..Len(q) : h[i] = q[i].heard
  BY <1>4, <1>5, SeenWrites
<1>7. s # <<>> /\ h # <<>>
  BY <1>3, <1>6
<1>8. SilentWrites(r) = Tail(s)
  <2>1. /\ Tail(s) \in Seq(Write) /\ Len(Tail(s)) = Len(q) - 1
        /\ \A i \in 1..Len(Tail(s)) : Tail(s)[i] = s[i + 1]
    BY <1>6, <1>7, HeadTailProperties
  <2>2. /\ SilentWrites(r) \in Seq(Write) /\ Len(SilentWrites(r)) = Len(r)
        /\ \A i \in 1..Len(r) : SilentWrites(r)[i] = Silent(r[i])
    BY <1>2, SeenWrites
  <2>3. \A i \in 1..Len(r) : SilentWrites(r)[i] = Tail(s)[i]
    BY <1>2, <1>3, <1>6, <2>1, <2>2
  <2>4. QED
    BY <1>2, <2>1, <2>2, <2>3, SeqEqual
<1>9. HeardWrites(r) = Tail(h)
  <2>1. /\ Tail(h) \in Seq(BOOLEAN) /\ Len(Tail(h)) = Len(q) - 1
        /\ \A i \in 1..Len(Tail(h)) : Tail(h)[i] = h[i + 1]
    BY <1>6, <1>7, HeadTailProperties
  <2>2. /\ HeardWrites(r) \in Seq(BOOLEAN) /\ Len(HeardWrites(r)) = Len(r)
        /\ \A i \in 1..Len(r) : HeardWrites(r)[i] = r[i].heard
    BY <1>2, SeenWrites
  <2>3. \A i \in 1..Len(r) : HeardWrites(r)[i] = Tail(h)[i]
    BY <1>2, <1>3, <1>6, <2>1, <2>2
  <2>4. QED
    BY <1>2, <2>1, <2>2, <2>3, SeqEqual
<1>10. QED
  BY <1>1, <1>2, <1>4, <1>5, <1>8, <1>9

(* A step of an app issues what it queues. *)
LEMMA EnqueueIssues ==
  ASSUME IInv, NEW u \in User, NEW s \in Seq(Write), Enqueue(u, s), UNCHANGED answers
  PROVE  WQ!Issue(u)
<1>1. queue \in [User -> Seq(Write)]
  BY OrderTypes
<1>2. /\ queue' \in [User -> Seq(Write)] /\ Len(queue[u]) <= Len(queue'[u])
      /\ \A i \in DOMAIN queue[u] : queue'[u][i] = queue[u][i]
      /\ \A v \in User : v = u \/ queue'[v] = queue[v]
  BY <1>1, QueueGrows DEF Enqueue
<1>3. ExtendsBar(u, SilentWrites(queue[u]), HeardWrites(queue[u]))
  <2>1. PICK p \in Seq(Write) : p = queue[u]
    BY <1>1
  <2>2. Len(p) <= Len(queue'[u]) /\ \A i \in 1..Len(p) : queue'[u][i] = p[i]
    BY <1>2, <2>1, LenProperties
  <2>3. ExtendsBar(u, SilentWrites(p), HeardWrites(p))
    BY <1>1, <1>2, <2>2, QueueExtends
  <2>4. QED
    BY <2>1, <2>3
<1>4. queueBar[u] = SilentWrites(queue[u]) /\ heardBar[u] = HeardWrites(queue[u])
  BY DEF queueBar, heardBar, SilentWrites, HeardWrites
<1>5. QED
  BY <1>3, <1>4, BarIssues

LEMMA NothingIssued ==
  ASSUME UNCHANGED <<queue, answers>>
  PROVE  UNCHANGED WQ!vars
BY DEF WQ!vars

(* The completions write behind what waits. *)
LEMMA AcknowledgeAccepts ==
  ASSUME IInv, NEW u \in User, Acknowledge(u)
  PROVE  WQ!Accept(u)
<1>1. /\ queue \in [User -> Seq(Write)] /\ queue' \in [User -> Seq(Write)]
      /\ \A v \in User : v = u \/ queue'[v] = queue[v]
      /\ Len(answers[u]) >= 1
      /\ \A i \in 1..(Len(queue[u]) - 1) :
           i \in DOMAIN queue'[u] /\ queue'[u][i] = queue[u][i + 1]
  BY AcknowledgeShifts, OrderTypes
<1>2. /\ answers[u] # <<>> /\ Head(answers[u])
      /\ answers' = [answers EXCEPT ![u] = Tail(@)]
  BY DEF Acknowledge
<1>3. PICK q \in Seq(Write) : q = queue[u]
  BY <1>1
<1>4. Len(q) \in Nat \ {0} /\ q # <<>>
  BY <1>1, <1>3, OrderTypes, LenProperties, EmptySeq
<1>5. Len(Tail(q)) <= Len(queue'[u]) /\ \A i \in 1..Len(Tail(q)) : queue'[u][i] = Tail(q)[i]
  <2>1. Len(Tail(q)) = Len(q) - 1 /\ \A i \in 1..Len(Tail(q)) : Tail(q)[i] = q[i + 1]
    BY <1>4, SeenTail
  <2>2. PICK r \in Seq(Write) : r = queue'[u]
    BY <1>1
  <2>3. Len(r) \in Nat /\ DOMAIN r = 1..Len(r)
    BY LenProperties
  <2>4. PICK n : n = Len(q) - 1
    OBVIOUS
  <2>5. n \in Nat /\ \A i \in 1..n : i \in 1..Len(r) /\ r[i] = q[i + 1]
    BY <1>1, <1>3, <1>4, <2>2, <2>3, <2>4
  <2>6. n <= Len(r)
    <3>1. n = 0 \/ n \in 1..n
      BY <2>5
    <3>2. QED
      BY <2>3, <2>5, <3>1
  <2>7. QED
    BY <2>1, <2>2, <2>4, <2>5, <2>6
<1>6. ExtendsBar(u, SilentWrites(Tail(q)), HeardWrites(Tail(q)))
  BY <1>1, <1>4, <1>5, SeenTail, QueueExtends
<1>7. queueBar[u] = SilentWrites(q) /\ heardBar[u] = HeardWrites(q)
  BY <1>3 DEF queueBar, heardBar, SilentWrites, HeardWrites
<1>8. ExtendsBar(u, Tail(queueBar[u]), Tail(heardBar[u]))
  BY <1>4, <1>6, <1>7, SeenTail
<1>9. QED
  BY <1>2, <1>8, BarAccepts

LEMMA RejectRejects ==
  ASSUME IInv, NEW u \in User, Reject(u)
  PROVE  WQ!Reject(u)
<1>1. /\ queue \in [User -> Seq(Write)] /\ queue' \in [User -> Seq(Write)]
      /\ \A v \in User : v = u \/ queue'[v] = queue[v]
      /\ Len(answers[u]) >= 1
      /\ Len(queue'[u]) = Len(queue[u]) - 1
      /\ \A i \in 1..(Len(queue[u]) - 1) : queue'[u][i] = queue[u][i + 1]
  BY RejectShifts, OrderTypes
<1>2. Refusing(u) /\ answers' = [answers EXCEPT ![u] = <<>>]
  BY DEF Reject
<1>3. PICK q \in Seq(Write) : q = queue[u]
  BY <1>1
<1>4. Len(q) \in Nat \ {0} /\ q # <<>>
  BY <1>1, <1>3, OrderTypes, LenProperties, EmptySeq
<1>5. Len(Tail(q)) <= Len(queue'[u]) /\ \A i \in 1..Len(Tail(q)) : queue'[u][i] = Tail(q)[i]
  <2>1. Len(Tail(q)) = Len(q) - 1 /\ \A i \in 1..Len(Tail(q)) : Tail(q)[i] = q[i + 1]
    BY <1>4, SeenTail
  <2>2. QED
    BY <1>1, <1>3, <1>4, <2>1
<1>6. ExtendsBar(u, SilentWrites(Tail(q)), HeardWrites(Tail(q)))
  BY <1>1, <1>4, <1>5, SeenTail, QueueExtends
<1>7. queueBar[u] = SilentWrites(q) /\ heardBar[u] = HeardWrites(q)
  BY <1>3 DEF queueBar, heardBar, SilentWrites, HeardWrites
<1>8. ExtendsBar(u, Tail(queueBar[u]), Tail(heardBar[u]))
  BY <1>4, <1>6, <1>7, SeenTail
<1>9. QED
  BY <1>2, <1>8, BarRejects

(* A restart silences the queue of its user, and keeps it. *)
LEMMA RestartSilences ==
  ASSUME IInv, NEW u \in User, Restart(u)
  PROVE  WQ!Restart({u})
<1>1. queue \in [User -> Seq(Write)] /\ answers \in [User -> Seq(BOOLEAN)]
  BY OrderTypes
<1>2. /\ queue' = [queue EXCEPT ![u] = [i \in DOMAIN queue[u] |-> [queue[u][i] EXCEPT !.heard = FALSE]]]
      /\ answers' = [answers EXCEPT ![u] = <<>>]
  BY DEF Restart
<1>3. \A v \in User : v = u \/ queue'[v] = queue[v]
  BY <1>1, <1>2
<1>4. queue'[u] = [i \in DOMAIN queue[u] |-> [queue[u][i] EXCEPT !.heard = FALSE]]
  BY <1>1, <1>2
<1>5. \A i \in DOMAIN queue[u] : queue[u][i] \in Write
  BY <1>1, ElementOfSeq, LenProperties
<1>6. \A w \in Write : /\ Silent([w EXCEPT !.heard = FALSE]) = Silent(w)
                       /\ [w EXCEPT !.heard = FALSE].heard = FALSE
  BY DEF Silent, Write
<1>7. /\ DOMAIN queue'[u] = DOMAIN queue[u]
      /\ \A i \in DOMAIN queue[u] : /\ Silent(queue'[u][i]) = Silent(queue[u][i])
                                    /\ queue'[u][i].heard = FALSE
  BY <1>4, <1>5, <1>6
<1>8. queueBar' = queueBar
  <2>1. \A v \in User : queueBar'[v] = queueBar[v]
    BY <1>3, <1>7 DEF queueBar
  <2>2. queueBar' = [v \in User |-> queueBar'[v]] /\ queueBar = [v \in User |-> queueBar[v]]
    BY DEF queueBar
  <2>3. QED
    BY <2>1, <2>2
<1>9. heardBar' = [v \in User |-> IF v \in {u} THEN [i \in DOMAIN queueBar'[v] |-> FALSE]
                                               ELSE heardBar[v]]
  <2>1. heardBar' = [v \in User |-> heardBar'[v]]
    BY DEF heardBar
  <2>2. DOMAIN queueBar'[u] = DOMAIN queue[u]
    BY <1>7 DEF queueBar
  <2>3. heardBar'[u] = [i \in DOMAIN queue[u] |-> FALSE]
    BY <1>7 DEF heardBar
  <2>4. \A v \in User : v = u \/ heardBar'[v] = heardBar[v]
    BY <1>3 DEF heardBar
  <2>5. QED
    BY <2>1, <2>2, <2>3, <2>4
<1>10. answers' = [v \in User |-> IF v \in {u} THEN <<>> ELSE answers[v]]
  BY <1>1, <1>2
<1>11. QED
  BY <1>8, <1>9, <1>10, BarRestarts

(* What an app queues are writes. *)
LEMMA ClearAnsweredIssues ==
  ASSUME IInv, NEW u \in User, NEW p \in User, ClearAnswered(u, p)
  PROVE  WQ!Issue(u) \/ UNCHANGED WQ!vars
<1> DEFINE found == badges[u][p] \ QueuedDocs(u, "unbadge", u, p)
<1>1. UNCHANGED answers
  BY DEF ClearAnswered
<1>2. CASE UNCHANGED <<queue, cleared>>
  BY <1>1, <1>2, NothingIssued
<1>3. ASSUME NEW f \in Listings(found),
             Enqueue(u, [i \in DOMAIN f |-> About("unbadge", f[i], u)])
      PROVE  WQ!Issue(u)
  <2>1. found \subseteq From(p, u) /\ found \subseteq sent /\ Cardinality(found) \in Nat
    BY FS_Subset, FS_CardinalityType DEF IInv, BadgesFit, From
  <2>2. DOMAIN f = 1..Cardinality(found) /\ \A i \in DOMAIN f : f[i] \in found
    BY DEF Listings
  <2> HIDE DEF found
  <2>3. \A i \in DOMAIN f : f[i] \in Message /\ f[i].to = u
    BY <2>1, <2>2, OrderTypes DEF From
  <2>4. \A i \in DOMAIN f : About("unbadge", f[i], u) \in Write
    <3>1. "unbadge" \in Kind
      BY DEF Kind
    <3>2. QED
      BY <2>3, <3>1, AboutType
  <2>5. PICK s : s = [i \in DOMAIN f |-> About("unbadge", f[i], u)]
    OBVIOUS
  <2>6. s \in Seq(Write)
    BY <2>1, <2>2, <2>4, <2>5
  <2>7. Enqueue(u, s)
    BY <1>3, <2>5
  <2>8. QED
    BY <1>1, <2>6, <2>7, EnqueueIssues
<1>4. QED
  BY <1>2, <1>3 DEF ClearAnswered

LEMMA SendMessageIssues ==
  ASSUME IInv, NEW u \in User, NEW p \in User, NEW t \in Stamp, SendMessage(u, p, t), u # p
  PROVE  WQ!Issue(u)
<1> DEFINE m == [from |-> u, to |-> p, id |-> t]
<1>1. m \in Message /\ m.from = u /\ m.to = p
  BY DEF Message
<1>2. /\ Enqueue(u, <<About("message", m, u), About("message", m, p), About("badge", m, p)>>)
      /\ UNCHANGED answers
  BY DEF SendMessage
<1> HIDE DEF m
<1>3. /\ About("message", m, u) \in Write /\ About("message", m, p) \in Write
      /\ About("badge", m, p) \in Write
  <2>1. "message" \in Kind /\ "badge" \in Kind
    BY DEF Kind
  <2>2. QED
    BY <1>1, <2>1, AboutType
<1>4. PICK s : s = <<About("message", m, u), About("message", m, p), About("badge", m, p)>>
  OBVIOUS
<1>5. s \in Seq(Write)
  BY <1>3, <1>4
<1>6. QED
  BY <1>2, <1>4, <1>5, EnqueueIssues

LEMMA CountIssues ==
  ASSUME IInv, NEW u \in User, NEW w \in Write, Enqueue(u, <<w>>), UNCHANGED answers
  PROVE  WQ!Issue(u)
<1>1. PICK s : s = <<w>>
  OBVIOUS
<1>2. s \in Seq(Write) /\ Enqueue(u, s)
  BY <1>1, OneWrite
<1>3. QED
  BY <1>2, EnqueueIssues

LEMMA AppIssues ==
  ASSUME IInv, NEW u \in User,
         \/ \E p \in User : OpenChat(u, p) \/ CloseChat(u, p)
         \/ \E m \in counting[u] : CountAnswered(u, m)
  PROVE  WQ!Issue(u) \/ UNCHANGED WQ!vars
<1>1. ASSUME NEW p \in User, OpenChat(u, p)
      PROVE  UNCHANGED WQ!vars
  BY <1>1, NothingIssued DEF OpenChat
<1>2. ASSUME NEW p \in User, CloseChat(u, p)
      PROVE  WQ!Issue(u)
  <2>1. CountWrite(u, p, 0) \in Write
    BY CountWriteType
  <2>2. Enqueue(u, <<CountWrite(u, p, 0)>>) /\ UNCHANGED answers
    BY <1>2 DEF CloseChat
  <2>3. QED
    BY <2>1, <2>2, CountIssues
<1>3. ASSUME NEW m \in counting[u], CountAnswered(u, m)
      PROVE  WQ!Issue(u) \/ UNCHANGED WQ!vars
  <2>1. UNCHANGED answers
    BY <1>3 DEF CountAnswered
  <2>2. m \in Message /\ m.to \in User
    BY DEF IInv, TypeOK, Message
  <2>3. CASE UNCHANGED queue
    BY <2>1, <2>3, NothingIssued
  <2>4. ASSUME NEW known \in {badges[m.to][u], {}},
               Enqueue(u, <<CountWrite(m.to, u,
                              Cardinality(known \cup QueuedDocs(u, "badge", m.to, u)))>>)
        PROVE  WQ!Issue(u)
    <3>1. PICK k : k = Cardinality(known \cup QueuedDocs(u, "badge", m.to, u))
      OBVIOUS
    <3>2. k \in Nat
      BY <2>2, <3>1, CountIsSent
    <3>3. CountWrite(m.to, u, k) \in Write
      BY <2>2, <3>2, CountWriteType
    <3>4. QED
      BY <2>1, <2>4, <3>1, <3>3, CountIssues
  <2>5. QED
    BY <1>3, <2>3, <2>4 DEF CountAnswered
<1>4. QED
  BY <1>1, <1>2, <1>3

LEMMA AnswerJudges ==
  ASSUME IInv, NEW u \in User, Commit(u) \/ Refuse(u)
  PROVE  WQ!Judge(u)
<1>1. /\ CanAnswer(u) /\ UNCHANGED queue
      /\ \E ok \in BOOLEAN : answers' = [answers EXCEPT ![u] = Append(@, ok)]
  BY DEF Commit, Refuse
<1>2. Len(queueBar[u]) = Len(queue[u])
  <2>1. PICK q \in Seq(Write) : q = queue[u]
    BY OrderTypes
  <2>2. queueBar[u] = SilentWrites(q)
    BY <2>1 DEF queueBar, SilentWrites
  <2>3. QED
    BY <2>1, <2>2, SeenWrites
<1>3. ~Refusing(u) /\ Len(answers[u]) < Len(queueBar[u]) /\ UNCHANGED <<queueBar, heardBar>>
  BY <1>1, <1>2 DEF CanAnswer, queueBar, heardBar
<1>4. QED
  BY <1>1, <1>3 DEF WQ!Judge, WQ!Refused, Refusing, queueBar, heardBar

LEMMA BreakBreaks ==
  ASSUME NEW u \in User, Break(u)
  PROVE  WQ!Break(u)
BY DEF Break, WQ!Break

LEMMA NextUsesQueue == IInv /\ [Next]_vars => [WQ!Next]_(WQ!vars)
<1> SUFFICES ASSUME IInv, [Next]_vars
             PROVE  WQ!Next \/ UNCHANGED WQ!vars
  OBVIOUS
<1>1. CASE UNCHANGED vars
  BY <1>1, NothingIssued DEF vars
<1>2. CASE Next
  <2>1. PICK u \in User :
          \/ \E p \in User \ {u} : \/ OpenChat(u, p) \/ CloseChat(u, p) \/ ClearAnswered(u, p)
                                   \/ \E t \in Stamp : SendMessage(u, p, t)
          \/ \E m \in counting[u] : CountAnswered(u, m)
          \/ Commit(u) \/ Refuse(u) \/ Acknowledge(u) \/ Reject(u) \/ Break(u) \/ Restart(u)
    BY <1>2 DEF Next
  <2>2. CASE \E p \in User \ {u} : \E t \in Stamp : SendMessage(u, p, t)
    BY <2>2, SendMessageIssues DEF WQ!Next
  <2>3. CASE \E p \in User \ {u} : ClearAnswered(u, p)
    BY <2>3, ClearAnsweredIssues DEF WQ!Next
  <2>4. CASE \/ \E p \in User \ {u} : OpenChat(u, p) \/ CloseChat(u, p)
             \/ \E m \in counting[u] : CountAnswered(u, m)
    BY <2>4, AppIssues DEF WQ!Next
  <2>5. CASE Commit(u) \/ Refuse(u)
    BY <2>5, AnswerJudges DEF WQ!Next
  <2>6. CASE Acknowledge(u) \/ Reject(u) \/ Break(u)
    BY <2>6, AcknowledgeAccepts, RejectRejects, BreakBreaks DEF WQ!Next
  <2>7. CASE Restart(u)
    <3>1. {u} \in SUBSET User
      OBVIOUS
    <3>2. QED
      BY <2>7, <3>1, RestartSilences DEF WQ!Next
  <2>8. QED
    BY <2>1, <2>2, <2>3, <2>4, <2>5, <2>6, <2>7
<1>3. QED
  BY <1>1, <1>2

(* UsesWriteQueue: whatever the service and its completions do, restarts    *)
(* and broken connections included, WriteQueue allows: with what            *)
(* WritePipeline proves of Firestore, the two fit together for every user.  *)
THEOREM WritesThroughQueue == Spec => UsesWriteQueue
<1>1. Init => WQ!Init
  BY DEF Init, WQ!Init
<1>2. IInv /\ [Next]_vars => [WQ!Next]_(WQ!vars)
  BY NextUsesQueue
<1>3. QED
  BY <1>1, <1>2, Invariance, PTL DEF Spec, UsesWriteQueue, WQ!Spec
=============================================================================
