-------------------------- MODULE LimboResolution --------------------------
(***************************************************************************)
(* How the Firestore client finds out about documents in limbo: documents  *)
(* that a view holds, though the server does not count them among the      *)
(* results of its query.  SyncEngine keeps which view has which of them,   *)
(* queues their keys and asks the server for each with a listen of its     *)
(* own, a limited number at a time.                                        *)
(*                                                                         *)
(* The worker queue runs one handler at a time.  A handler visits views,   *)
(* each of which may report keys that left or entered limbo; what one of   *)
(* them makes of the bookkeeping is a step here, and so is each round of   *)
(* the loop that starts listens.  Views are visited in any order, for they *)
(* are in an unordered map.  Why a key is in limbo is left open; that only *)
(* a current view reports is not.                                          *)
(***************************************************************************)
EXTENDS Naturals, Sequences, FiniteSets

CONSTANTS View,           \* targets of the queries that are listened to
          NoView,         \* none of them
          Key,
          MaxConcurrent,  \* max_concurrent_limbo_resolutions_
          MaxTargets      \* bound: resolutions that are ever queued

ASSUME LimboAssumption ==
  IsFiniteSet(Key) /\ NoView \notin View /\ MaxConcurrent \in Nat \ {0} /\ MaxTargets \in Nat

VARIABLES
  refs,       \* limbo_document_refs_: pairs of a view and a key
  enqueued,   \* enqueued_limbo_resolutions_
  byKey,      \* active_limbo_targets_by_key_, 0 for none
  byTarget,   \* active_limbo_resolutions_by_target_: pairs of a target and its key
  listening,  \* the limbo targets among RemoteStore::listen_targets_
  nextId,     \* target_id_generator_
  current,    \* the views whose current_ is true
  visiting,   \* of the handler: the views it has still to visit
  gone,       \*   the keys its event deletes from the cache
  at,         \*   the view whose changes it applies
  leaving,    \*   keys whose reference is still to be removed
  entering,   \*   keys whose reference is still to be added
  pumping,    \*   it is in PumpEnqueuedLimboResolutions
  late        \* history: references of views that were not current when the
              \*   listen of the key was rejected

engine == <<enqueued, byKey, byTarget, listening, nextId>>
handler == <<visiting, gone, at, leaving, entering, pumping>>
vars == <<refs, engine, current, handler, late>>

Active == {k \in Key : byKey[k] # 0}

Idle == visiting = {} /\ at = NoView /\ ~pumping

Referenced(k, pairs) == \E v \in View : <<v, k>> \in pairs

-----------------------------------------------------------------------------
(* Handlers *)

(* Anything that changes the cache or tells a view that it is current:       *)
(* EmitNewSnapshotsAndNotifyLocalStore visits every view.                    *)
Event ==
  /\ Idle
  /\ visiting' = View /\ gone' = {}
  /\ UNCHANGED <<refs, engine, current, at, leaving, entering, pumping, late>>

(* The server refuses the listen of a limbo document: it is dropped, another *)
(* is started, and the document is taken for deleted.                        *)
HandleRejectedListen(t) ==
  /\ Idle
  /\ t \in listening
  /\ \E k \in Key :
       /\ <<t, k>> \in byTarget
       /\ byKey' = [byKey EXCEPT ![k] = 0]
       /\ byTarget' = byTarget \ {<<t, k>>}
       /\ gone' = {k}
       /\ late' = late \cup {p \in refs : p[2] = k /\ p[1] \notin current}
  /\ listening' = listening \ {t}
  /\ pumping' = TRUE /\ visiting' = View
  /\ UNCHANGED <<refs, enqueued, nextId, current, at, leaving, entering>>

(* A query is not listened to any more, or its listen is rejected: all its   *)
(* references go first.                                                      *)
RemoveAndCleanupTarget(v) ==
  /\ Idle
  /\ at' = v
  /\ leaving' = {k \in Key : <<v, k>> \in refs}
  /\ refs' = {p \in refs : p[1] # v} /\ late' = {p \in late : p[1] # v}
  /\ current' = current \ {v} /\ gone' = {}
  /\ UNCHANGED <<engine, visiting, entering, pumping>>

(* The connection is lost: no view is current until the server says so again.*)
HandleOnlineStateChange ==
  /\ Idle
  /\ current' = {}
  /\ UNCHANGED <<refs, engine, handler, late>>

-----------------------------------------------------------------------------
(* What a handler does *)

(* View::ApplyChanges.  Limbo documents are determined while the view is     *)
(* current; what the event deletes is none of them.                          *)
Visit(v, limbo) ==
  /\ at = NoView /\ ~pumping
  /\ v \in visiting
  /\ visiting' = visiting \ {v} /\ at' = v
  /\ current' \in {c \in {current, current \cup {v}, current \ {v}} : gone # {} => c = current}
  /\ IF v \in current'
       THEN /\ leaving'  = {k \in Key : <<v, k>> \in refs /\ k \notin limbo \ gone}
            /\ entering' = {k \in limbo \ gone : <<v, k>> \notin refs}
       ELSE UNCHANGED <<leaving, entering>>
  /\ nextId + Len(enqueued) + Cardinality(entering') <= MaxTargets + 1
  /\ UNCHANGED <<refs, engine, gone, pumping, late>>

(* Slip: the resolution is stopped while another view waits for it. *)
LeaveAnyway(k) ==
  /\ at # NoView /\ ~pumping /\ k \in leaving
  /\ leaving' = leaving \ {k}
  /\ refs' = refs \ {<<at, k>>} /\ late' = late \ {<<at, k>>}
  /\ IF k \notin Active
       THEN UNCHANGED <<engine, pumping>>
       ELSE /\ listening' = listening \ {byKey[k]}
            /\ byTarget' = byTarget \ {<<byKey[k], k>>}
            /\ byKey' = [byKey EXCEPT ![k] = 0]
            /\ pumping' = TRUE
            /\ UNCHANGED <<enqueued, nextId>>
  /\ UNCHANGED <<current, visiting, gone, at, entering>>

(* A key has left limbo in this view.  The last reference takes the listen   *)
(* with it; a key that is only queued stays queued.                          *)
Leave(k) ==
  /\ at # NoView /\ ~pumping /\ k \in leaving
  /\ leaving' = leaving \ {k}
  /\ refs' = refs \ {<<at, k>>} /\ late' = late \ {<<at, k>>}
  /\ IF Referenced(k, refs') \/ k \notin Active
       THEN UNCHANGED <<engine, pumping>>
       ELSE /\ listening' = listening \ {byKey[k]}
            /\ byTarget' = byTarget \ {<<byKey[k], k>>}
            /\ byKey' = [byKey EXCEPT ![k] = 0]
            /\ pumping' = TRUE
            /\ UNCHANGED <<enqueued, nextId>>
  /\ UNCHANGED <<current, visiting, gone, at, entering>>

(* A key has entered limbo in this view; it is queued unless it is being     *)
(* resolved, whether it is queued already or not.                            *)
Enter(k) ==
  /\ at # NoView /\ ~pumping /\ leaving = {} /\ k \in entering
  /\ entering' = entering \ {k}
  /\ refs' = refs \cup {<<at, k>>}
  /\ IF k \in Active
       THEN UNCHANGED <<enqueued, pumping>>
       ELSE enqueued' = Append(enqueued, k) /\ pumping' = TRUE
  /\ UNCHANGED <<byKey, byTarget, listening, nextId, current, visiting, gone, at, leaving, late>>

(* Slip: one resolution too many. *)
CanStartOneMore == enqueued # <<>> /\ Cardinality(Active) <= MaxConcurrent

CanStart == enqueued # <<>> /\ Cardinality(Active) < MaxConcurrent

(* A round of PumpEnqueuedLimboResolutions.  The map by key keeps the target *)
(* it has.                                                                   *)
Start ==
  LET k == Head(enqueued) IN
  /\ pumping /\ CanStart
  /\ enqueued' = Tail(enqueued)
  /\ nextId' = nextId + 1
  /\ byTarget' = byTarget \cup {<<nextId, k>>}
  /\ byKey' = [byKey EXCEPT ![k] = IF @ = 0 THEN nextId ELSE @]
  /\ listening' = listening \cup {nextId}
  /\ UNCHANGED <<refs, current, handler, late>>

PumpDone ==
  /\ pumping /\ ~CanStart
  /\ pumping' = FALSE
  /\ UNCHANGED <<refs, engine, current, visiting, gone, at, leaving, entering, late>>

VisitDone ==
  /\ at # NoView /\ ~pumping /\ leaving = {} /\ entering = {}
  /\ at' = NoView
  /\ UNCHANGED <<refs, engine, current, visiting, gone, leaving, entering, pumping, late>>

-----------------------------------------------------------------------------
Init ==
  /\ refs = {} /\ late = {}
  /\ enqueued = <<>> /\ byKey = [k \in Key |-> 0] /\ byTarget = {}
  /\ listening = {} /\ nextId = 1
  /\ current = {}
  /\ visiting = {} /\ gone = {} /\ at = NoView /\ leaving = {} /\ entering = {}
  /\ pumping = FALSE

Next ==
  \/ Event
  \/ \E t \in listening : HandleRejectedListen(t)
  \/ \E v \in View : RemoveAndCleanupTarget(v)
  \/ HandleOnlineStateChange
  \/ \E v \in View, limbo \in SUBSET Key : Visit(v, limbo)
  \/ \E k \in Key : Leave(k) \/ Enter(k)
  \/ Start \/ PumpDone \/ VisitDone

Spec == Init /\ [][Next]_vars

-----------------------------------------------------------------------------
(* Properties *)

(* Type correctness: target ids are never used twice, and a key is queued,   *)
(* or its reference added, only by a handler that is at work.                *)
TypeOK ==
  /\ refs \subseteq View \X Key /\ late \subseteq refs
  /\ enqueued \in Seq(Key) /\ byKey \in [Key -> Nat]
  /\ byTarget \subseteq (Nat \ {0}) \X Key /\ listening \subseteq Nat /\ nextId \in Nat \ {0}
  /\ \A p, q \in byTarget : p[1] < nextId /\ (p[1] = q[1] => p = q)
  /\ current \subseteq View /\ visiting \subseteq View /\ gone \subseteq Key
  /\ at \in View \cup {NoView} /\ leaving \subseteq Key /\ entering \subseteq Key
  /\ at = NoView => leaving = {} /\ entering = {}
  /\ pumping \in BOOLEAN

(* SyncEngine and RemoteStore agree: the limbo targets that are listened to  *)
(* are those with a resolution, and the target of a key resolves that key.   *)
(* No listen outlives the bookkeeping by which alone it could be stopped.    *)
ListensAreKnown ==
  /\ listening = {p[1] : p \in byTarget}
  /\ \A k \in Active : <<byKey[k], k>> \in byTarget

(* The limit holds for the keys being resolved. *)
KeysBounded == Cardinality(Active) <= MaxConcurrent

(* Queued keys wait for a slot and for nothing else: whatever frees one      *)
(* starts the next resolution.                                               *)
QueueOnlyWhenFull ==
  enqueued # <<>> /\ ~pumping => Cardinality(Active) >= MaxConcurrent

(* The queue, the two maps and the listens fit together. *)
EngineInv == TypeOK /\ ListensAreKnown /\ KeysBounded /\ QueueOnlyWhenFull

(* A document in limbo is being resolved or queued, or about to leave limbo. *)
(* Only a view that was not current when the listen was rejected may keep a  *)
(* document that nobody asks about.                                          *)
NobodyForgotten ==
  \A p \in refs \ late :
    \/ p[2] \in Active
    \/ \E i \in DOMAIN enqueued : enqueued[i] = p[2]
    \/ p[2] \in gone /\ p[1] \in visiting
    \/ p[1] = at /\ p[2] \in leaving

(* What the comment on PumpEnqueuedLimboResolutions says: the number of      *)
(* concurrent resolutions is bounded.  A key that is queued twice is resolved*)
(* twice, and the second listen counts for nothing.                          *)
ListensBounded == Cardinality(listening) <= MaxConcurrent
=============================================================================
