-------------------------------- MODULE Feed --------------------------------
(***************************************************************************)
(* The feed of one device, FeedVC: carList, the array behind the rows, is  *)
(* emptied by a pull and filled again by the answers of fetchPost, which   *)
(* asks for the list of posts and then for each post by itself; scrolling  *)
(* appends pages to it; sorting reorders it; the rows fetched are copied   *)
(* into a Realm database, which takes the place of the server while there  *)
(* is no connection.                                                       *)
(*                                                                         *)
(* Queries are answered in any order, from the server or, without a        *)
(* connection, from Firestore's persistent cache; both show the user's own *)
(* post while it is still pending.  Posts are never deleted.  A car is its *)
(* post's id, so Nat's order is the order by postId and by document id;    *)
(* the id is the author's clock, so a later post may come first.           *)
(***************************************************************************)
EXTENDS Integers, Sequences, FiniteSets, Orders

CONSTANTS Car,
          Mine,        \* a car of this device's user; its post may be pending
          Price, Year, \* sort keys of the cars
          Fetch,       \* bound: fetches that may overlap
          PageSize,    \* a page of loadMorePost; 5 in the code
          MinRows,     \* rows before pages are loaded; 5 in the code
          MaxEvents    \* bound: pages asked for, changes of the connection and
                       \*   queries that fail, all together

ASSUME FeedAssumption ==
  /\ Car \subseteq Nat /\ IsFiniteSet(Car) /\ Mine \in Car
  /\ Price \in [Car -> Nat] /\ Year \in [Car -> Nat]
  /\ PageSize \in Nat \ {0} /\ MinRows \in Nat
  /\ MaxEvents \in Nat

VARIABLES
  located,     \* the cars whose post has a location
  posts,       \* posts at the server
  pending,     \* own posts that are queued; they have no postTime yet
  cache,       \* posts Firestore's cache holds
  realm,       \* the offline copy
  connected, hasInternet,   \* the connection, and what the screen thinks of it
  carList, sort, page,      \* sort, page: "none" or <<car>>
  fetches,     \* fetches[f]: the calls of fetchPost in progress
  pages,       \* pages[c]: pages after c asked for and not answered
  opening,     \* the row whose author is asked for, and the page that is open;
               \*   history: calm, overtaken, the car that was tapped
  refreshing,  \* the spinner of the refresh control
  stopped,     \* a force unwrap or an index out of range has ended the app
  before,      \* history: the offline copy when the present burst of fetches began
  paged,       \* history: cars that pages have appended to carList
  hadPending,  \* history: an own post was pending
  events,      \* how many of the bounded events there were
  errors       \* how many of them were failures

screen == <<carList, sort, page>>
world  == <<located, posts, pending, cache, connected>>
counts == <<events, errors>>
vars == <<world, realm, hasInternet, screen, fetches, pages, opening, refreshing, stopped,
          before, paged, hadPending, counts>>

Orders == {"none", "price", "year", "date"}

Idle == [at |-> "idle", left |-> {}, post |-> <<>>]
Closed == [at |-> "no", row |-> 0, tapped |-> 0, shown |-> 0,
           calm |-> FALSE, overtaken |-> FALSE]

(* One of the bounded events. *)
Happens == events < MaxEvents /\ events' = events + 1

Rows(s) == {s[i] : i \in DOMAIN s}

Quiet == (\A f \in Fetch : fetches[f].at = "idle") /\ \A c \in Car : pages[c] = 0

(* What a query finds now. *)
Found == (IF connected THEN posts ELSE cache) \cup pending

Learnt == IF connected THEN cache \cup posts ELSE cache

By(order, c) ==
  CASE order = "price" -> Price[c]
    [] order = "year"  -> Year[c]
    [] OTHER           -> c

InOrder(S) == Lined(S, {r \in S \X S : r[1] < r[2]})

(* Rows with the same key keep their order. *)
Precede(s, order) ==
  {r \in (DOMAIN s) \X (DOMAIN s) :
     LET a == By(order, s[r[1]]) b == By(order, s[r[2]]) IN a < b \/ (a = b /\ r[1] < r[2])}

Sorted(s, order) == Arranged(s, Precede(s, order))

Init ==
  /\ located \in SUBSET Car
  /\ pending \in SUBSET {Mine} /\ posts \in SUBSET (Car \ pending)
  /\ cache \in SUBSET posts /\ realm \in SUBSET (cache \cap located)
  /\ connected = TRUE /\ hasInternet = TRUE
  /\ carList = <<>> /\ sort = "none" /\ page = <<>>
  /\ fetches = [f \in Fetch |-> Idle] /\ pages = [c \in Car |-> 0]
  /\ opening = Closed /\ refreshing = FALSE /\ stopped = "no"
  /\ before = {} /\ paged = {} /\ hadPending = (pending # {})
  /\ events = 0 /\ errors = 0

-----------------------------------------------------------------------------
(* The user *)

(* Slip: nothing masks the screen while an author is asked for. *)
AtFeedUnmasked == opening.at # "open"

(* No row is open and no HUD masks the screen. *)
AtFeed == opening.at = "no"

(* getPost.  The list is emptied before the answers come. *)
GetPost ==
  /\ IF hasInternet
       THEN \E f \in Fetch :
              /\ fetches[f].at = "idle"
              /\ fetches' = [fetches EXCEPT ![f].at = "listing"]
              /\ carList' = <<>>
              /\ refreshing' = TRUE
       ELSE /\ carList' = Sorted(InOrder(realm), "date")
            /\ refreshing' = FALSE
            /\ UNCHANGED fetches
  /\ paged' = {}
  /\ before' = IF Quiet THEN realm ELSE before
  /\ UNCHANGED <<world, realm, hasInternet, page, pages, opening, stopped, hadPending, counts>>

(* The refresh control, and viewDidLoad. *)
LoadData == AtFeed /\ GetPost /\ UNCHANGED sort

(* A brand is picked from the search list; the query ignores it. *)
QueryCallBack == AtFeed /\ GetPost /\ sort' = "none"

(* The didSet of sortByPrice, sortByYear, sortByDate: what is on the screen  *)
(* is sorted, by price also for the year; the offline copy replaces it when  *)
(* there is no connection.                                                   *)
DidSelectOrder(order) ==
  /\ AtFeed
  /\ sort' = order
  /\ IF hasInternet
       THEN /\ carList' = Sorted(carList, IF order = "date" THEN "date" ELSE "price")
            /\ UNCHANGED paged
       ELSE /\ carList' = Sorted(InOrder(realm), order)
            /\ paged' = {}
  /\ UNCHANGED <<world, realm, hasInternet, page, fetches, pages, opening, refreshing, stopped,
                 before, hadPending, counts>>

(* The last row comes into view, also by a scroll that goes on behind the HUD: *)
(* loadMorePost.                                                             *)
LoadMorePost ==
  /\ AtFeed \/ opening.at = "asking"
  /\ hasInternet /\ Len(carList) >= MinRows /\ page # <<>>
  /\ Happens /\ UNCHANGED errors
  /\ pages' = [pages EXCEPT ![page[1]] = @ + 1]
  /\ UNCHANGED <<world, realm, hasInternet, screen, fetches, opening, refreshing, stopped,
                 before, paged, hadPending>>

(* didSelectItemAt: the author is asked for under a HUD, one's own car opens *)
(* at once.                                                                  *)
DidSelectRow(i) ==
  /\ AtFeed /\ i \in DOMAIN carList
  /\ opening' = [at |-> IF carList[i] = Mine THEN "open" ELSE "asking", row |-> i,
                 tapped |-> carList[i],
                 shown |-> IF carList[i] = Mine THEN Mine ELSE 0,
                 calm |-> Quiet, overtaken |-> FALSE]
  /\ UNCHANGED <<world, realm, hasInternet, screen, fetches, pages, refreshing, stopped,
                 before, paged, hadPending, counts>>

Back ==
  /\ opening.at = "open"
  /\ opening' = Closed
  /\ UNCHANGED <<world, realm, hasInternet, screen, fetches, pages, refreshing, stopped,
                 before, paged, hadPending, counts>>

-----------------------------------------------------------------------------
(* Answers *)

(* The completion of getPost. *)
Show(list) ==
  /\ carList' = Sorted(list, "price")
  /\ paged' = {}
  /\ refreshing' = FALSE

(* Slip: the list of posts is limited to a page, as lines 417-430 once did. *)
ListedLimited(f) ==
  /\ fetches[f].at = "listing"
  /\ cache' = Learnt
  /\ LET docs == {c \in Found : Cardinality({e \in Found : e < c}) < PageSize} IN
     /\ fetches' = [fetches EXCEPT ![f] =
          IF docs = {} THEN Idle ELSE [Idle EXCEPT !.at = "reading", !.left = docs]]
     /\ IF docs = {} THEN Show(<<>>) /\ page' = <<>>
        ELSE /\ page' = <<CHOOSE c \in docs : \A e \in docs : e <= c>>
             /\ refreshing' = FALSE
             /\ UNCHANGED <<carList, paged>>
  /\ UNCHANGED <<located, posts, pending, connected, realm, hasInternet, sort, pages, opening, stopped,
                 before, hadPending, counts>>

(* Slip: a fetch gives way to another that waits for its list. *)
ListedNewest(f) ==
  /\ fetches[f].at = "listing"
  /\ cache' = Learnt
  /\ IF \E g \in Fetch \ {f} : fetches[g].at = "listing"
       THEN fetches' = [fetches EXCEPT ![f] = Idle] /\ UNCHANGED <<carList, paged, page, refreshing>>
       ELSE /\ Found # {}
            /\ fetches' = [fetches EXCEPT ![f] = [Idle EXCEPT !.at = "reading", !.left = Found]]
            /\ page' = <<CHOOSE c \in Found : \A e \in Found : e <= c>>
            /\ refreshing' = FALSE
            /\ UNCHANGED <<carList, paged>>
  /\ UNCHANGED <<located, posts, pending, connected, realm, hasInternet, sort, pages, opening, stopped,
                 before, hadPending, counts>>

(* The list of posts is answered: each is asked for, the last starts pages. *)
Listed(f) ==
  /\ fetches[f].at = "listing"
  /\ cache' = Learnt
  /\ fetches' = [fetches EXCEPT ![f] =
       IF Found = {} THEN Idle ELSE [Idle EXCEPT !.at = "reading", !.left = Found]]
  /\ IF Found = {} THEN Show(<<>>) /\ page' = <<>>
     ELSE /\ page' = <<CHOOSE c \in Found : \A e \in Found : e <= c>>
          /\ refreshing' = FALSE
          /\ UNCHANGED <<carList, paged>>
  /\ UNCHANGED <<located, posts, pending, connected, realm, hasInternet, sort, pages, opening, stopped,
                 before, hadPending, counts>>

(* The query fails: the spinner goes on. *)
ListingFails(f) ==
  /\ fetches[f].at = "listing"
  /\ Happens /\ errors' = errors + 1
  /\ fetches' = [fetches EXCEPT ![f] = Idle]
  /\ UNCHANGED <<world, realm, hasInternet, screen, pages, opening, refreshing, stopped,
                 before, paged, hadPending>>

(* Slip: the answers of a fetch go to the end of the list. *)
AnsweredAppending(f, c, post) ==
  /\ LET left == fetches[f].left \ {c} IN
     fetches' = [fetches EXCEPT ![f] =
       IF left = {} THEN Idle ELSE [fetches[f] EXCEPT !.left = left, !.post = post]]
  /\ Show(carList \o post)

(* What is left of f after the answer for c; each answer shows what there is. *)
Answered(f, c, post) ==
  /\ LET left == fetches[f].left \ {c} IN
     fetches' = [fetches EXCEPT ![f] =
       IF left = {} THEN Idle ELSE [fetches[f] EXCEPT !.left = left, !.post = post]]
  /\ Show(post)

(* Slip: nothing is copied while the device is offline. *)
SaveOnline(f, c) ==
  IF c \in located /\ c \notin pending
  THEN /\ realm' = IF hasInternet THEN realm \cup {c} ELSE realm
       /\ Answered(f, c, Append(fetches[f].post, c))
       /\ UNCHANGED stopped
  ELSE /\ stopped' = "unwrap"
       /\ UNCHANGED <<realm, fetches, carList, paged, refreshing>>

(* The post is there: it is copied into Realm, which needs its location and  *)
(* its postTime.                                                             *)
Save(f, c) ==
  IF c \in located /\ c \notin pending
  THEN /\ realm' = realm \cup {c}
       /\ Answered(f, c, Append(fetches[f].post, c))
       /\ UNCHANGED stopped
  ELSE /\ stopped' = "unwrap"
       /\ UNCHANGED <<realm, fetches, carList, paged, refreshing>>

(* The answer for one post. *)
Read(f) ==
  \E c \in fetches[f].left :
    /\ fetches[f].at = "reading"
    /\ cache' = IF connected /\ c \in posts THEN cache \cup {c} ELSE cache
    /\ \/ c \in Found /\ Save(f, c) /\ UNCHANGED counts
       \/ /\ c \notin Found
          /\ Answered(f, c, fetches[f].post)
          /\ UNCHANGED <<realm, stopped, counts>>
       \/ /\ Happens /\ errors' = errors + 1
          /\ Answered(f, c, fetches[f].post)
          /\ UNCHANGED <<realm, stopped>>
    /\ UNCHANGED <<located, posts, pending, connected, hasInternet, sort, page, pages, opening, before,
                   hadPending>>

(* The page after c. *)
PageAfter(c) ==
  LET after == {d \in Found : d > c} IN
  {d \in after : Cardinality({e \in after : e < d}) < PageSize}

(* Slip: the order of a page is that of getPost. *)
WithPageByPrice(next) ==
  IF next = {} THEN carList ELSE Sorted(carList \o InOrder(next), "price")

(* The rows with a page: all of them are put in the order that was chosen.   *)
WithPage(next) == IF next = {} THEN carList ELSE Sorted(carList \o InOrder(next), sort)

(* The rows up to the one that is opened are not those that go before it in  *)
(* that order, or the page brings one that does.                             *)
Overtakes(next) ==
  /\ opening.at = "asking" /\ opening.row \in DOMAIN carList /\ next # {}
  /\ LET row == opening.row key(i) == By(sort, carList[i]) IN
     \/ \E i \in DOMAIN carList :
          (i < row /\ key(i) > key(row)) \/ (i > row /\ key(i) < key(row))
     \/ \E c \in next : By(sort, c) < key(row)

(* A page is answered.  page itself stays where it was, and Realm gets none  *)
(* of it.                                                                    *)
PageAnswered(c) ==
  /\ pages[c] > 0
  /\ pages' = [pages EXCEPT ![c] = @ - 1]
  /\ carList' = WithPage(PageAfter(c))
  /\ paged' = paged \cup PageAfter(c)
  /\ cache' = IF connected THEN cache \cup (PageAfter(c) \cap posts) ELSE cache
  /\ opening' = [opening EXCEPT !.overtaken = @ \/ Overtakes(PageAfter(c))]
  /\ UNCHANGED <<located, posts, pending, connected, realm, hasInternet, sort, page, fetches,
                 refreshing, stopped, before, hadPending, counts>>

PageFails(c) ==
  /\ pages[c] > 0
  /\ Happens /\ errors' = errors + 1
  /\ pages' = [pages EXCEPT ![c] = @ - 1]
  /\ UNCHANGED <<world, realm, hasInternet, screen, fetches, opening, refreshing, stopped,
                 before, paged, hadPending>>

(* getOtherUser is answered: the row is read again. *)
AuthorAnswered ==
  /\ opening.at = "asking"
  /\ IF opening.row \in DOMAIN carList
       THEN /\ opening' = [opening EXCEPT !.at = "open", !.shown = carList[opening.row]]
            /\ UNCHANGED stopped
       ELSE stopped' = "row" /\ UNCHANGED opening
  /\ UNCHANGED <<world, realm, hasInternet, screen, fetches, pages, refreshing,
                 before, paged, hadPending, counts>>

AuthorFails ==
  /\ opening.at = "asking"
  /\ Happens /\ errors' = errors + 1
  /\ opening' = Closed
  /\ UNCHANGED <<world, realm, hasInternet, screen, fetches, pages, refreshing, stopped,
                 before, paged, hadPending>>

-----------------------------------------------------------------------------
(* The surroundings *)

(* Somebody posts a car; one that was refused gets a new id.                 *)
Posted(c) ==
  /\ c \notin posts \cup pending /\ ~(c = Mine /\ hadPending)
  /\ posts' = posts \cup {c}
  /\ UNCHANGED <<located, pending, cache, connected, realm, hasInternet, screen, fetches, pages,
                 opening, refreshing, stopped, before, paged, hadPending, counts>>

(* The own post is acknowledged or refused. *)
OwnAnswered ==
  /\ connected /\ pending # {}
  /\ pending' = {}
  /\ \/ posts' = posts \cup pending /\ cache' = cache \cup pending
     \/ UNCHANGED <<posts, cache>>
  /\ UNCHANGED <<located, connected, realm, hasInternet, screen, fetches, pages, opening, refreshing,
                 stopped, before, paged, hadPending, counts>>

Switch ==
  /\ Happens /\ UNCHANGED errors
  /\ connected' = ~connected
  /\ UNCHANGED <<located, posts, pending, cache, realm, hasInternet, screen, fetches, pages, opening,
                 refreshing, stopped, before, paged, hadPending>>

(* The path monitor tells hasInternet, on a queue of its own. *)
PathUpdate ==
  /\ hasInternet # connected
  /\ hasInternet' = connected
  /\ UNCHANGED <<world, realm, screen, fetches, pages, opening, refreshing, stopped,
                 before, paged, hadPending, counts>>

User ==
  \/ LoadData \/ QueryCallBack \/ LoadMorePost \/ Back
  \/ \E order \in Orders \ {"none"} : DidSelectOrder(order)
  \/ \E i \in DOMAIN carList : DidSelectRow(i)

Answers ==
  \/ \E f \in Fetch : Listed(f) \/ Read(f)
  \/ (\E c \in Car : PageAnswered(c)) \/ AuthorAnswered

Failures ==
  (\E f \in Fetch : ListingFails(f)) \/ (\E c \in Car : PageFails(c)) \/ AuthorFails

Surroundings == (\E c \in Car : Posted(c)) \/ OwnAnswered \/ Switch \/ PathUpdate

Next == stopped = "no" /\ (User \/ Answers \/ Failures \/ Surroundings)

Spec == Init /\ [][Next]_vars

(* Every query is answered, and none waits for ever behind later ones. *)
FairSpec ==
  Spec /\ \A f \in Fetch : WF_vars(stopped = "no" /\ (Listed(f) \/ Read(f)))

-----------------------------------------------------------------------------
(* Properties *)

(* Type correctness.  The offline copy is never ahead of Firestore's cache,  *)
(* and a fetch has shown only cars it asked for.                             *)
TypeOK ==
  /\ located \subseteq Car
  /\ posts \subseteq Car /\ pending \subseteq {Mine} /\ pending \cap posts = {}
  /\ cache \subseteq posts /\ realm \subseteq cache
  /\ connected \in BOOLEAN /\ hasInternet \in BOOLEAN
  /\ carList \in Seq(Car) /\ sort \in Orders
  /\ page = <<>> \/ \E c \in Car : page = <<c>>
  /\ \A f \in Fetch :
       /\ fetches[f].at \in {"idle", "listing", "reading"}
       /\ (fetches[f].at = "reading") = (fetches[f].left # {})
       /\ fetches[f].left \subseteq Car
       /\ Rows(fetches[f].post) \subseteq realm \ fetches[f].left
       /\ Cardinality(Rows(fetches[f].post)) = Len(fetches[f].post)
  /\ pages \in [Car -> Nat]
  /\ opening.at \in {"no", "asking", "open"}
  /\ refreshing \in BOOLEAN /\ stopped \in {"no", "unwrap", "row"}

(* Overlapping fetches overwrite each other's rows, in any order.  When the  *)
(* last answer is in, the list has every car the device had copied before    *)
(* the first of them began, whether it comes from the server, from the cache *)
(* or from Realm: a refresh may miss what is new, it never loses what was    *)
(* known.                                                                    *)
SettledListIsComplete ==
  Quiet /\ errors = 0 /\ stopped = "no" => before \subseteq Rows(carList)

(* What the list shows can be shown offline, but for the rows of pages,      *)
(* which are not copied.                                                     *)
OfflineKeepsRows == Rows(carList) \ paged \subseteq realm

(* Only a page may show a car twice: the answers of one fetch replace those  *)
(* of another.                                                               *)
DoublesArePaged ==
  \A i, j \in DOMAIN carList : i # j /\ carList[i] = carList[j] => carList[i] \in paged

(* What rows, fetches and copies have in common at any moment. *)
ListInv == TypeOK /\ DoublesArePaged

(* A row tapped while no query is under way opens as the car that was        *)
(* tapped, though carList is read again after the query for its author and a *)
(* scroll behind the HUD may have brought pages meanwhile, each of which     *)
(* sorts all rows anew.  Excepted, because it does open another car, is a    *)
(* page that moves the row: when it came the list was not in the order the   *)
(* page is sorted by around the row (getPost sorts by price whatever was     *)
(* chosen), or it brought a car that goes before the row's.                  *)
CalmTapOpensItsCar ==
  opening.at = "open" /\ opening.calm /\ ~opening.overtaken => opening.shown = opening.tapped

(* The app stops only for a post without a location, for a post of one's own *)
(* that is still pending, or when a row was tapped while a query was under   *)
(* way: pages that come behind the HUD do not take the row away.             *)
StopsOnlyFor ==
  /\ stopped = "unwrap" => hadPending \/ ~(posts \subseteq located)
  /\ stopped = "row" => ~opening.calm

(* The list a pull has emptied is filled again, if the device had copied     *)
(* anything before; an own post alone may be refused after it was listed.    *)
PulledListFills ==
  carList = <<>> /\ ~Quiet /\ before # {} ~> (carList # <<>> \/ errors > 0 \/ stopped # "no")
=============================================================================
