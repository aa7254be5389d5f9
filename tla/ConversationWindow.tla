------------------------- MODULE ConversationWindow -------------------------
(***************************************************************************)
(* The message list of ConservationController: a live query for the newest *)
(* documents of the mailbox, and one query for the documents before the    *)
(* oldest known one each time the user pulls the list down.                *)
(*                                                                         *)
(* Both append to the same array and both move firstPage, the document the *)
(* next pull starts from.  A message is its id, the clock of its sender,   *)
(* so a message may arrive with an id below those already there.  The      *)
(* array is taken as a bag: its order, sorted by date after each pull, is  *)
(* left out.                                                               *)
(***************************************************************************)
EXTENDS Naturals, FiniteSets

CONSTANTS Id,           \* message ids
          PageSize,     \* limit(toLast: 10)
          MaxTimes,     \* bound: how often a message is on screen
          MaxUnsettled  \* bound: own messages waiting for the server

ASSUME WindowAssumption ==
  /\ Id \subseteq Nat \ {0}
  /\ PageSize \in Nat \ {0} /\ MaxTimes \in Nat /\ MaxUnsettled \in Nat

VARIABLES
  mail,       \* the mailbox, as this device sees it
  unsettled,  \* own messages the server has not accepted yet
  window,     \* the documents of the listener's last snapshot
  messages,   \* how often each message is in the array on screen
  firstPage,  \* the document the next pull ends before; 0 is nil
  asked,      \* the page an unanswered pull was asked for; 0 when there is none
  known,      \* history: what is left of the mailbox of the last snapshot
  missed,     \* history: messages that came below firstPage, or in a burst during a pull
  untouched   \* history: the mailbox is as it was when the screen opened

vars == <<mail, unsettled, window, messages, firstPage, asked, known, missed, untouched>>

Shown == {m \in Id : messages[m] > 0}

(* The last n and the smallest of a set of ids. *)
LastOf(S, n) == {m \in S : Cardinality({x \in S : x > m}) < n}
FirstId(S) == CHOOSE m \in S : \A x \in S : m <= x

(* Appending the documents of S, each once. *)
Shows(S) ==
  /\ \A m \in S : messages[m] < MaxTimes
  /\ messages' = [m \in Id |-> IF m \in S THEN messages[m] + 1 ELSE messages[m]]

Init ==
  /\ mail \in {S \in SUBSET Id : IsFiniteSet(S)}
  /\ unsettled = {}
  /\ window = {}
  /\ messages = [m \in Id |-> 0]
  /\ firstPage = 0
  /\ asked = 0
  /\ known = {}
  /\ missed = {}
  /\ untouched = TRUE

(* The other user writes, or this one: an own message is seen at once.      *)
Arrive(m) ==
  /\ m \notin mail \cup Shown
  /\ mail' = mail \cup {m}
  /\ \/ UNCHANGED unsettled
     \/ Cardinality(unsettled) < MaxUnsettled /\ unsettled' = unsettled \cup {m}
  /\ untouched' = FALSE
  /\ UNCHANGED <<window, messages, firstPage, asked, known, missed>>

(* The server refuses an own message: it leaves the local mailbox. *)
Withdraw(m) ==
  /\ m \in unsettled
  /\ mail' = mail \ {m}
  /\ unsettled' = unsettled \ {m}
  /\ known' = known \ {m}
  /\ missed' = missed \ {m}
  /\ UNCHANGED <<window, messages, firstPage, asked, untouched>>

Settle(m) ==
  /\ m \in unsettled
  /\ unsettled' = unsettled \ {m}
  /\ UNCHANGED <<mail, window, messages, firstPage, asked, known, missed, untouched>>

(* The listener of getAllMessages: the documents that are new in the window *)
(* are appended, those that left it are kept.  Several changes may come in  *)
(* one snapshot.                                                            *)
Snapshot ==
  LET now   == LastOf(mail, PageSize)
      added == now \ window
  IN
  /\ now # window \/ known # mail
  /\ window' = now
  /\ known' = mail
  /\ Shows(added)
  /\ firstPage' = IF added = {} THEN firstPage ELSE FirstId(now)
  /\ missed' = missed \cup {m \in (mail \ known) \ now : asked # 0 \/ firstPage' <= m}
  /\ UNCHANGED <<mail, unsettled, asked, untouched>>

(* loadBeforePage; the refresh control fires once until it is ended. *)
Pull ==
  /\ asked = 0 /\ firstPage # 0
  /\ asked' = firstPage
  /\ UNCHANGED <<mail, unsettled, window, messages, firstPage, known, missed, untouched>>

(* Slip: limit(to:) instead of limit(toLast:). *)
BeforePageOldest(page) == {m \in mail : m < page /\ Cardinality({x \in mail : x < m}) < PageSize}

(* Slip: end(atDocument:) instead of end(beforeDocument:). *)
BeforePageInclusive(page) == LastOf({m \in mail : m <= page}, PageSize)

BeforePage(page) == LastOf({m \in mail : m < page}, PageSize)

(* The answer: the documents before the page that was asked for, whatever   *)
(* has become of firstPage since; or an error, or none.                     *)
BeforeAnswered ==
  LET found == BeforePage(asked) IN
  /\ asked # 0
  /\ asked' = 0
  /\ \/ /\ found # {}
        /\ Shows(found)
        /\ firstPage' = FirstId(found)
     \/ UNCHANGED <<messages, firstPage>>
  /\ UNCHANGED <<mail, unsettled, window, known, missed, untouched>>

Next ==
  \/ \E m \in Id : Arrive(m) \/ Withdraw(m) \/ Settle(m)
  \/ Snapshot
  \/ Pull
  \/ BeforeAnswered

Spec == Init /\ [][Next]_vars

-----------------------------------------------------------------------------
(* Properties *)

(* Type correctness; the listener's window is on screen, and so is the page *)
(* a pull starts from.                                                      *)
TypeOK ==
  /\ mail \subseteq Id /\ IsFiniteSet(mail) /\ unsettled \subseteq mail
  /\ messages \in [Id -> Nat] /\ window \subseteq Shown
  /\ firstPage \in Shown \cup {0} /\ asked \in Shown \cup {0}
  /\ known \subseteq mail /\ missed \subseteq Id
  /\ untouched \in BOOLEAN

(* From firstPage on, and from the page of an unanswered pull on, the list  *)
(* has no holes: although the listener moves firstPage forward, and the     *)
(* late answer moves it back to a page before the one asked for, every      *)
(* message the listener could know of is on screen.  Excepted are those     *)
(* that were in no snapshot: written with a clock reading below firstPage's *)
(* window, or too many at a time while a pull was unanswered.               *)
NoHoles ==
  \A page \in {firstPage, asked} \ {0} : \A m \in known : page <= m => m \in Shown \cup missed

(* What the listener and the answers to pulls, in any order, keep of it. *)
WindowInv == TypeOK /\ NoHoles

(* As long as the mailbox is as the first snapshot found it, pulling down  *)
(* shows its newest part, each message once, and firstPage is where it      *)
(* begins.  Any arrival or withdrawal ends this, and the server's snapshot  *)
(* after one from an incomplete cache is an arrival.                        *)
QuietListIsSuffix ==
  untouched => /\ \A m \in Id : messages[m] <= 1
               /\ Shown = LastOf(mail, Cardinality(Shown))
               /\ Shown # {} => firstPage = FirstId(Shown)
=============================================================================
