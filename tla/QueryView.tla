------------------------------ MODULE QueryView ------------------------------
(***************************************************************************)
(* A query that is listened to, as the Firestore client keeps it: View     *)
(* holds the documents of the result and turns every change of the local   *)
(* cache into changes of the result, without running the query again       *)
(* unless a limit makes it necessary; SyncEngine does so for every view;   *)
(* QueryListener decides what of it the app is told.  The app's listener   *)
(* is the one of the chat list (see ChatList).                             *)
(*                                                                         *)
(* A document's data is its rank, by which the query orders; ties are      *)
(* broken by key.  Its state says whether it has local mutations, or only  *)
(* committed ones: acknowledged, but not yet seen from the server.         *)
(***************************************************************************)
EXTENDS Naturals, Sequences, FiniteSets, SequencesExt, Orders, ChatList

CONSTANTS Key, Rank,
          Limit,      \* the limit of a limited query
          EventSize   \* bound: documents in one event of the server

ASSUME QueryViewAssumption ==
  Key \subseteq Nat /\ IsFiniteSet(Key) /\ Rank \subseteq Nat /\ Limit \in Nat \ {0} /\ EventSize \in Nat

VARIABLES
  limitType,    \* of the query; never changes
  cache,        \* the documents of the local store, all of which match
  documents,    \* View::document_set_
  mutated,      \* View::mutated_keys_
  offline,      \* OnlineState::Offline
  raised,       \* QueryListener::raised_initial_event_
  list,         \* the rows of the chat list
  appended,     \* history: a row was added after the others since the last sort
  failed        \* history: a HARD_ASSERT has failed

vars == <<limitType, cache, documents, mutated, offline, raised, list, appended, failed>>

Doc == [key : Key, rank : Rank, state : {"synced", "local", "committed"}]
Absent(k) == [key |-> k, rank |-> 0, state |-> "absent"]

KeysOf(docs) == {d.key : d \in docs}

At(docs, k) == IF k \in KeysOf(docs) THEN CHOOSE d \in docs : d.key = k ELSE Absent(k)

Before(d, e) == d.rank < e.rank \/ (d.rank = e.rank /\ d.key < e.key)

(* Slip: one document too many stays. *)
ExcessOffByOne(docs) ==
  CASE limitType = "first" -> {d \in docs : Cardinality({e \in docs : Before(e, d)}) > Limit}
    [] limitType = "last"  -> {d \in docs : Cardinality({e \in docs : Before(d, e)}) > Limit}
    [] OTHER               -> {}

(* Documents a limit leaves out: those with too many on the other side. *)
Excess(docs) ==
  CASE limitType = "first" -> {d \in docs : Cardinality({e \in docs : Before(e, d)}) >= Limit}
    [] limitType = "last"  -> {d \in docs : Cardinality({e \in docs : Before(d, e)}) >= Limit}
    [] OTHER               -> {}

-----------------------------------------------------------------------------
(* View::ComputeDocumentChanges *)

(* The result of a write is shown when the server sends it, not when the     *)
(* write is acknowledged.                                                    *)
ShouldWait(new, old) == old.state = "local" /\ new.state = "committed"

Full(docs) == limitType # "none" /\ Cardinality(docs) = Limit

(* The document has moved beyond the last one of a full limit. *)
Outside(new, docs) ==
  \A d \in docs : IF limitType = "first" THEN Before(d, new) ELSE Before(new, d)

(* What becomes of one document. *)
ChangeType(new, docs) ==
  LET old  == At(docs, new.key)
      had  == old.key \in mutated
      has  == new.state = "local" \/ (new.key \in mutated /\ new.state = "committed")
      gone == new.state = "absent"
  IN CASE old \notin docs -> IF gone THEN "none" ELSE "added"
       [] old \in docs /\ gone -> "removed"
       [] old \in docs /\ ~gone /\ old.rank # new.rank ->
            IF ShouldWait(new, old) THEN "none" ELSE "modified"
       [] OTHER -> IF had # has THEN "metadata" ELSE "none"

(* Slip: a document that left the result cannot come back in the refill. *)
MergedNever(old, new) ==
  CASE new.type # "added" /\ old.type = "metadata" -> {new}
    [] new.type = "metadata" /\ old.type # "removed" -> {[new EXCEPT !.type = old.type]}
    [] new.type = "modified" /\ old.type \in {"modified", "added"} ->
         {[new EXCEPT !.type = old.type]}
    [] new.type = "removed" /\ old.type = "added" -> {}
    [] new.type = "removed" /\ old.type = "modified" -> {[old EXCEPT !.type = "removed"]}
    [] OTHER -> {[new EXCEPT !.type = "unsupported"]}

(* DocumentViewChangeSet::AddChange: a second change of one document. *)
Merged(old, new) ==
  CASE new.type # "added" /\ old.type = "metadata" -> {new}
    [] new.type = "metadata" /\ old.type # "removed" -> {[new EXCEPT !.type = old.type]}
    [] new.type = "modified" /\ old.type \in {"modified", "added"} ->
         {[new EXCEPT !.type = old.type]}
    [] new.type = "removed" /\ old.type = "added" -> {}
    [] new.type = "removed" /\ old.type = "modified" -> {[old EXCEPT !.type = "removed"]}
    [] new.type = "added" /\ old.type = "removed" -> {[new EXCEPT !.type = "modified"]}
    [] OTHER -> {[new EXCEPT !.type = "unsupported"]}

AddChanges(changes, new) ==
  LET same == {p \in changes \X new : p[1].doc.key = p[2].doc.key}
  IN (changes \ {p[1] : p \in same}) \cup (new \ {p[2] : p \in same})
       \cup UNION {Merged(p[1], p[2]) : p \in same}

(* One pass: from the result and the changes so far, those that the touched  *)
(* documents make of them.  It needs a refill when a document left a full    *)
(* limit, for another may take its place.                                    *)
Compute(touched, docs, mutatedKeys, changes) ==
  LET changed == {[type |-> ChangeType(new, docs), doc |-> new] : new \in touched}
      applied == {c \in changed : c.type # "none"}
      removed == {c \in applied : c.type = "removed"}
      now     == {d \in docs : \A c \in applied : c.doc.key # d.key}
                   \cup {c.doc : c \in applied \ removed}
      excess  == Excess(now)
      first   == AddChanges(changes,
                   (applied \ removed)
                     \cup {[c EXCEPT !.doc = At(docs, c.doc.key)] : c \in removed})
  IN [docs |-> now \ excess,
      mutated |-> ((mutatedKeys \ {c.doc.key : c \in applied})
                     \cup {c.doc.key : c \in {b \in applied : b.doc.state = "local"}})
                    \ KeysOf(excess),
      changes |-> AddChanges(first, {[type |-> "removed", doc |-> d] : d \in excess}),
      refill |-> /\ Full(docs)
                 /\ \E c \in applied : \/ c.type = "removed"
                                       \/ c.type = "modified" /\ Outside(c.doc, docs)]

-----------------------------------------------------------------------------
(* View::ApplyChanges and QueryListener::OnViewSnapshot *)

Position(type) == CASE type = "removed" -> 0 [] type = "added" -> 1 [] OTHER -> 2

(* The changes in the order in which they are told. *)
Told(changes) ==
  Lined(changes, {p \in changes \X changes :
    \/ Position(p[1].type) < Position(p[2].type)
    \/ Position(p[1].type) = Position(p[2].type) /\ Before(p[1].doc, p[2].doc)})

Initially(docs) == {[type |-> "added", doc |-> d] : d \in docs}

(* QuerySnapshot::ForEachChange finds every index it looks for; its special  *)
(* case for an empty old result takes only additions.                        *)
Indexable(event, old) ==
  LET key(i)    == event[i].doc.key
      before(i) == (old \cup {key(j) : j \in 1..(i - 1)})
                     \ {key(j) : j \in {h \in 1..(i - 1) : event[h].type = "removed"}}
  IN \A i \in DOMAIN event :
       /\ event[i].type # "unsupported"
       /\ event[i].type # "added" => old # {} /\ key(i) \in before(i)

(* The app's listener is told. *)
Tell(event, old) ==
  /\ list' = Handle(list, event)
  /\ appended' = IF \E i \in DOMAIN event : event[i].type = "modified" THEN FALSE
                 ELSE appended \/ (list # <<>> /\ \E i \in DOMAIN event : event[i].type = "added")
  /\ failed' = (failed \/ ~Indexable(event, old))

(* A snapshot is raised when there is something to tell; the first one waits *)
(* for the server unless there is something to show, or no connection.       *)
Snapshot(changes, synced) ==
  LET visible == {c \in changes : c.type # "metadata"} IN
  IF ~raised /\ (synced \/ documents' # {}) THEN
    raised' = TRUE /\ Tell(Told(Initially(documents')), {})
  ELSE IF raised /\ visible # {} THEN
    UNCHANGED raised /\ Tell(Told(visible), KeysOf(documents))
  ELSE UNCHANGED <<raised, list, appended, failed>>

(* Slip: the refill is forgotten. *)
EmitNewSnapshotsOnce(touched, synced) ==
  LET once == Compute(touched, documents, mutated, {}) IN
  /\ documents' = once.docs /\ mutated' = once.mutated
  /\ UNCHANGED <<limitType, offline>>
  /\ Snapshot(once.changes, synced)

(* EmitNewSnapshotsAndNotifyLocalStore, for one view.  A refill runs the     *)
(* query on the cache; it must not need another.  That the view is in sync   *)
(* matters to the first event only, and before it no document is in limbo.   *)
EmitNewSnapshots(touched, synced) ==
  \E once \in {Compute(touched, documents, mutated, {})} :
  \E final \in {IF once.refill THEN Compute(cache', once.docs, once.mutated, once.changes)
                ELSE once} :
     /\ documents' = final.docs /\ mutated' = final.mutated
     /\ UNCHANGED <<limitType, offline>>
     /\ IF once.refill /\ final.refill
          THEN failed' = TRUE /\ UNCHANGED <<raised, list, appended>>
          ELSE Snapshot(final.changes, synced)

-----------------------------------------------------------------------------
(* Changes of the cache *)

Put(touched) ==
  cache' = {d \in cache : d.key \notin KeysOf(touched)} \cup {d \in touched : d.state # "absent"}

(* Documents the server sends, or tells are gone; what is written locally    *)
(* stays so on top.  The server may say that the view is current.            *)
RemoteEvent(S, gone, current) ==
  /\ ~offline
  /\ \E rank \in [S \ gone -> Rank] :
       LET touched == {Absent(k) : k \in gone} \cup
             {[key |-> k, rank |-> rank[k],
               state |-> IF At(cache, k).state = "local" THEN "local" ELSE "synced"]
                : k \in S \ gone}
       IN Put(touched) /\ EmitNewSnapshots(touched, current)

(* The user writes, or what he wrote is acknowledged or rejected. *)
Becomes(doc) == Put({doc}) /\ EmitNewSnapshots({doc}, FALSE)

With(k, state) == {[key |-> k, rank |-> r, state |-> state] : r \in Rank}

LocalWrite(k) ==
  \E doc \in With(k, "local") \cup (IF k \in KeysOf(cache) THEN {Absent(k)} ELSE {}) : Becomes(doc)

(* The result is committed, unless the server has sent something newer, or   *)
(* there are other mutations.                                                *)
Acknowledged(k) ==
  /\ At(cache, k).state = "local"
  /\ \E state \in {"committed", "synced", "local"} : \E doc \in With(k, state) : Becomes(doc)

Rejected(k) ==
  /\ At(cache, k).state = "local"
  /\ \E doc \in With(k, "synced") \cup With(k, "local") \cup {Absent(k)} : Becomes(doc)

(* The connection is lost or comes back: ApplyOnlineStateChange, then        *)
(* QueryListener::OnOnlineStateChanged.                                      *)
OnlineStateChange ==
  /\ offline' = ~offline
  /\ IF ~raised /\ offline'
       THEN raised' = TRUE /\ Tell(Told(Initially(documents)), {})
       ELSE UNCHANGED <<raised, list, appended, failed>>
  /\ UNCHANGED <<limitType, cache, documents, mutated>>

(* The first run of the query shows what the cache holds. *)
Init ==
  /\ limitType \in {"none", "first", "last"}
  /\ \E S \in SUBSET Key, rank \in [Key -> Rank] :
       cache = {[key |-> k, rank |-> rank[k], state |-> "synced"] : k \in S}
  /\ documents = cache \ Excess(cache)
  /\ mutated = {}
  /\ offline = FALSE
  /\ raised = (documents # {})
  /\ list = Handle(<<>>, Told(Initially(documents)))
  /\ appended = FALSE /\ failed = FALSE

(* Once the first event is raised, current makes no difference. *)
Next ==
  \/ \E S \in SUBSET Key, current \in {raised, TRUE} :
       Cardinality(S) <= EventSize /\ \E gone \in SUBSET S : RemoteEvent(S, gone, current)
  \/ \E k \in Key : LocalWrite(k) \/ Acknowledged(k) \/ Rejected(k)
  \/ OnlineStateChange

Spec == Init /\ [][Next]_vars

-----------------------------------------------------------------------------
(* Properties *)

(* Type correctness: one version of each document; the keys of the local    *)
(* documents are the mutated ones; a limit is kept.                          *)
TypeOK ==
  /\ limitType \in {"none", "first", "last"}
  /\ \A docs \in {cache, documents} :
       docs \subseteq Doc /\ \A d, e \in docs : d.key = e.key => d = e
  /\ mutated = {d.key : d \in {e \in documents : e.state = "local"}}
  /\ limitType # "none" => Cardinality(documents) <= Limit
  /\ \A i \in DOMAIN list : list[i].key \in Key /\ list[i].rank \in Rank
  /\ {offline, raised, appended, failed} \subseteq BOOLEAN

Shown(docs) == {[key |-> d.key, rank |-> d.rank] : d \in docs}

(* The incremental result is that of the query run on the cache: the limit's *)
(* documents and no other, after any changes in any order.  It may differ    *)
(* while some document is acknowledged but not yet seen from the server.     *)
ViewIsQuery ==
  (\A d \in cache : d.state # "committed") => Shown(documents) = Shown(cache \ Excess(cache))

(* The rows of the cache as the view knows it: of an acknowledged document    *)
(* it keeps what it holds until the server has sent the document.            *)
Known ==
  Shown({d \in cache : d.state # "committed"})
    \cup Shown({d \in documents : At(cache, d.key).state = "committed"})

(* The result is always that of the query run on what the view knows, and    *)
(* only a document that waits for the server differs from the cached one.    *)
FollowsKnown ==
  /\ Shown(documents) = Known \ Excess(Known)
  /\ \A d \in documents, e \in cache :
       d.key = e.key /\ d.rank # e.rank => d.state = "local" /\ e.state = "committed"

(* None of the assertions on the way fails: a refill never needs another, no *)
(* two changes of a document are without a meaning together, and every       *)
(* change can be given its index.                                            *)
NoAssertionFails == ~failed

(* Before the first event there is nothing to tell. *)
NothingUntold == ~raised => documents = {} /\ list = <<>>

(* What View and its snapshots take for granted. *)
ViewInv == TypeOK /\ FollowsKnown /\ NothingUntold /\ NoAssertionFails

(* Once the first event was raised the chat list has one row for each        *)
(* document of the result, with its data, whatever changes it was told of.   *)
OneRowEach ==
  raised => Range(list) = Shown(documents) /\ Len(list) = Cardinality(documents)

(* The rows are sorted by time, unless one was added after the others and    *)
(* none has been modified since.                                             *)
SortedUnlessAdded ==
  ~appended => \A i, j \in DOMAIN list : i < j => list[i].rank <= list[j].rank
=============================================================================
