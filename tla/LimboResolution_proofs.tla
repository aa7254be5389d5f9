---------------------- MODULE LimboResolution_proofs ----------------------
(***************************************************************************)
(* The safety of LimboResolution for any number of views, keys and         *)
(* concurrent resolutions.                                                 *)
(***************************************************************************)
EXTENDS LimboResolution, FiniteSetTheorems, SequenceTheorems, TLAPS

(* A handler that has deleted a key still visits every current view that     *)
(* has it in limbo, and the view it is at is not to be visited again.        *)
HandlerInv ==
  /\ at \notin visiting
  /\ gone = {} \/ \A p \in refs \ late :
                     p[2] \in gone /\ p[1] \in visiting => p[1] \in current

IInv ==
  /\ TypeOK /\ HandlerInv
  /\ ListensAreKnown /\ KeysBounded /\ QueueOnlyWhenFull /\ NobodyForgotten

-----------------------------------------------------------------------------
(* Facts about the bookkeeping *)

LEMMA ActiveFinite == IsFiniteSet(Active) /\ Cardinality(Active) \in Nat
<1>1. Active \subseteq Key
  BY DEF Active
<1>2. QED
  BY <1>1, LimboAssumption, FS_Subset, FS_CardinalityType

(* A key that stops being resolved frees a slot or leaves the number as it   *)
(* was.                                                                      *)
LEMMA FewerActive ==
  ASSUME NEW k \in Key, byKey \in [Key -> Nat], byKey' = [byKey EXCEPT ![k] = 0]
  PROVE  /\ Active' = Active \ {k}
         /\ Cardinality(Active)' <= Cardinality(Active)
<1>1. Active' = Active \ {k}
  BY DEF Active
<1>2. QED
  BY <1>1, ActiveFinite, FS_Subset

LEMMA HeadOrTail ==
  ASSUME NEW S, NEW s \in Seq(S), s # <<>>, NEW i \in DOMAIN s
  PROVE  s[i] = Head(s) \/ \E j \in DOMAIN Tail(s) : Tail(s)[j] = s[i]
<1>1. /\ Len(s) \in Nat \ {0} /\ DOMAIN s = 1..Len(s) /\ Head(s) = s[1]
      /\ Tail(s) \in Seq(S) /\ Len(Tail(s)) = Len(s) - 1
      /\ \A j \in 1..Len(Tail(s)) : Tail(s)[j] = s[j + 1]
  BY HeadTailProperties, EmptySeq, LenProperties
<1>2. DOMAIN Tail(s) = 1..(Len(s) - 1)
  BY <1>1, LenProperties
<1>3. CASE i = 1
  BY <1>1, <1>3
<1>4. CASE i # 1
  <2>1. i - 1 \in DOMAIN Tail(s) /\ Tail(s)[i - 1] = s[i]
    BY <1>1, <1>2, <1>4
  <2>2. QED
    BY <2>1
<1>5. QED
  BY <1>3, <1>4

LEMMA InitIInv == Init => IInv
<1> SUFFICES ASSUME Init PROVE IInv
  OBVIOUS
<1> USE LimboAssumption DEF Init
<1>1. TypeOK
  <2>1. enqueued \in Seq(Key) /\ byKey \in [Key -> Nat]
    BY EmptySeq
  <2>2. refs \subseteq View \X Key /\ late \subseteq refs /\ byTarget \subseteq (Nat \ {0}) \X Key
    OBVIOUS
  <2>3. \A p, q \in byTarget : p[1] < nextId /\ (p[1] = q[1] => p = q)
    OBVIOUS
  <2>4. nextId \in Nat \ {0}
    OBVIOUS
  <2>5. /\ listening \subseteq Nat /\ current \subseteq View /\ visiting \subseteq View /\ gone \subseteq Key
        /\ at \in View \cup {NoView} /\ leaving \subseteq Key /\ entering \subseteq Key
        /\ (at = NoView => leaving = {} /\ entering = {}) /\ pumping \in BOOLEAN
    BY Zenon
  <2>6. QED
    BY <2>1, <2>2, <2>3, <2>4, <2>5, Zenon DEF TypeOK
<1>2. Active = {}
  BY DEF Active
<1>3. HandlerInv /\ ListensAreKnown /\ NobodyForgotten /\ QueueOnlyWhenFull
  BY <1>2 DEF HandlerInv, ListensAreKnown, NobodyForgotten, QueueOnlyWhenFull
<1>4. KeysBounded
  BY <1>2, FS_EmptySet DEF KeysBounded
<1>5. QED
  BY <1>1, <1>3, <1>4 DEF IInv

-----------------------------------------------------------------------------
(* Steps that leave the bookkeeping of the listens alone *)

LEMMA QuietEngine ==
  ASSUME IInv, UNCHANGED engine
  PROVE  ListensAreKnown' /\ KeysBounded' /\ Active' = Active
<1> USE DEF IInv, engine
<1>1. Active' = Active
  BY DEF Active
<1>2. QED
  BY <1>1 DEF ListensAreKnown, KeysBounded

LEMMA EventIInv == IInv /\ Event => IInv'
<1> SUFFICES ASSUME IInv, Event PROVE IInv'
  OBVIOUS
<1> USE LimboAssumption DEF IInv, Event
<1>1. ListensAreKnown' /\ KeysBounded' /\ Active' = Active
  BY QuietEngine
<1>2. TypeOK'
  BY DEF TypeOK, engine
<1>3. HandlerInv'
  BY DEF HandlerInv, Idle
<1>4. QueueOnlyWhenFull'
  BY <1>1 DEF QueueOnlyWhenFull, engine
<1>5. NobodyForgotten'
  BY <1>1 DEF NobodyForgotten, Idle, engine
<1>6. QED
  BY <1>1, <1>2, <1>3, <1>4, <1>5

LEMMA OnlineIInv == IInv /\ HandleOnlineStateChange => IInv'
<1> SUFFICES ASSUME IInv, HandleOnlineStateChange PROVE IInv'
  OBVIOUS
<1> USE LimboAssumption DEF IInv, HandleOnlineStateChange
<1>1. ListensAreKnown' /\ KeysBounded' /\ Active' = Active
  BY QuietEngine
<1>2. TypeOK' /\ HandlerInv'
  BY DEF TypeOK, HandlerInv, Idle, engine, handler
<1>3. QueueOnlyWhenFull' /\ NobodyForgotten'
  BY <1>1 DEF QueueOnlyWhenFull, NobodyForgotten, engine, handler
<1>4. QED
  BY <1>1, <1>2, <1>3

LEMMA RemoveTargetIInv ==
  ASSUME NEW v \in View, IInv, RemoveAndCleanupTarget(v) PROVE IInv'
<1> USE LimboAssumption DEF IInv, RemoveAndCleanupTarget
<1>1. ListensAreKnown' /\ KeysBounded' /\ Active' = Active
  BY QuietEngine
<1>2. TypeOK'
  BY DEF TypeOK, engine
<1>3. HandlerInv' /\ QueueOnlyWhenFull'
  BY <1>1 DEF HandlerInv, QueueOnlyWhenFull, Idle, engine
<1>4. NobodyForgotten'
  <2> SUFFICES ASSUME NEW p \in refs', p \notin late'
               PROVE  p[2] \in Active \/ \E i \in DOMAIN enqueued : enqueued[i] = p[2]
    BY <1>1 DEF NobodyForgotten, engine
  <2>1. p \in refs \ late /\ p[1] \in View
    BY DEF TypeOK
  <2>2. p[1] # at /\ visiting = {}
    BY <2>1 DEF Idle
  <2>3. QED
    BY <2>1, <2>2 DEF NobodyForgotten
<1>5. QED
  BY <1>1, <1>2, <1>3, <1>4

LEMMA VisitIInv ==
  ASSUME NEW v \in View, NEW limbo \in SUBSET Key, IInv, Visit(v, limbo) PROVE IInv'
<1> USE LimboAssumption DEF IInv
<1>0. UNCHANGED <<refs, engine, gone, pumping, late>>
  BY DEF Visit
<1>1. ListensAreKnown' /\ KeysBounded' /\ Active' = Active
  BY <1>0, QuietEngine
<1>2. /\ v \in visiting /\ visiting' = visiting \ {v} /\ at = NoView /\ at' = v
      /\ current' \in {current, current \cup {v}, current \ {v}}
      /\ gone # {} => current' = current
  BY DEF Visit
<1>3. IF v \in current'
        THEN leaving' = {k \in Key : <<v, k>> \in refs /\ k \notin limbo \ gone}
        ELSE leaving' = leaving
  BY DEF Visit
<1>4. leaving' \subseteq Key /\ entering' \subseteq Key
  BY DEF Visit, TypeOK
<1>5. TypeOK'
  BY <1>0, <1>2, <1>4 DEF TypeOK, engine
<1>6. HandlerInv' /\ QueueOnlyWhenFull'
  BY <1>0, <1>1, <1>2 DEF HandlerInv, QueueOnlyWhenFull, engine
<1>7. NobodyForgotten'
  <2> SUFFICES ASSUME NEW p \in refs, p \notin late,
                      p[2] \notin Active,
                      ~ \E i \in DOMAIN enqueued : enqueued[i] = p[2]
               PROVE  \/ p[2] \in gone /\ p[1] \in visiting'
                      \/ p[1] = v /\ p[2] \in leaving'
    BY <1>0, <1>1, <1>2 DEF NobodyForgotten, engine
  <2>1. p = <<p[1], p[2]>> /\ p[1] \in View /\ p[2] \in Key
    BY DEF TypeOK
  <2>2. p[2] \in gone /\ p[1] \in visiting
    BY <1>2, <2>1 DEF NobodyForgotten
  <2>3. CASE p[1] = v
    <3>1. v \in current'
      BY <1>2, <2>2, <2>3 DEF HandlerInv
    <3>2. p[2] \in leaving'
      BY <1>3, <2>1, <2>2, <2>3, <3>1
    <3>3. QED
      BY <2>3, <3>2
  <2>4. QED
    BY <1>2, <2>2, <2>3
<1>8. QED
  BY <1>1, <1>5, <1>6, <1>7

LEMMA DoneIInv == IInv /\ (PumpDone \/ VisitDone) => IInv'
<1> SUFFICES ASSUME IInv, PumpDone \/ VisitDone PROVE IInv'
  OBVIOUS
<1> USE LimboAssumption DEF IInv
<1>0. UNCHANGED <<refs, engine, current, visiting, gone, leaving, entering, late>>
  BY DEF PumpDone, VisitDone
<1>1. ListensAreKnown' /\ KeysBounded' /\ Active' = Active
  BY <1>0, QuietEngine
<1>2. TypeOK' /\ HandlerInv'
  BY <1>0 DEF TypeOK, HandlerInv, engine, PumpDone, VisitDone
<1>3. QueueOnlyWhenFull'
  <2>1. CASE PumpDone
    BY <1>0, <1>1, <2>1, ActiveFinite DEF PumpDone, CanStart, QueueOnlyWhenFull, engine
  <2>2. CASE VisitDone
    BY <1>0, <1>1, <2>2 DEF VisitDone, QueueOnlyWhenFull, engine
  <2>3. QED
    BY <2>1, <2>2
<1>4. NobodyForgotten'
  BY <1>0, <1>1 DEF PumpDone, VisitDone, NobodyForgotten, engine
<1>5. QED
  BY <1>1, <1>2, <1>3, <1>4

-----------------------------------------------------------------------------
(* Steps that change it *)

LEMMA EnterIInv ==
  ASSUME NEW k \in Key, IInv, Enter(k) PROVE IInv'
<1> USE LimboAssumption DEF IInv
<1>0. /\ refs' = refs \cup {<<at, k>>}
      /\ UNCHANGED <<byKey, byTarget, listening, nextId, current, visiting, gone, at, leaving, late>>
      /\ at # NoView /\ at \in View
      /\ entering' = entering \ {k}
  BY DEF Enter, TypeOK
<1>1. Active' = Active
  BY <1>0 DEF Active
<1>2. ListensAreKnown' /\ KeysBounded'
  BY <1>0, <1>1 DEF ListensAreKnown, KeysBounded
<1>3. \/ k \in Active /\ UNCHANGED <<enqueued, pumping>>
      \/ enqueued' = Append(enqueued, k) /\ pumping' = TRUE
  BY DEF Enter
<1>4. enqueued' \in Seq(Key) /\ pumping' \in BOOLEAN
  <2>1. Append(enqueued, k) \in Seq(Key)
    BY AppendProperties DEF TypeOK
  <2>2. QED
    BY <1>3, <2>1 DEF TypeOK
<1>5. TypeOK'
  BY <1>0, <1>4 DEF TypeOK
<1>6. HandlerInv' /\ QueueOnlyWhenFull'
  BY <1>0, <1>1, <1>3 DEF HandlerInv, QueueOnlyWhenFull
<1>7. /\ \A i \in DOMAIN enqueued : i \in DOMAIN enqueued' /\ enqueued'[i] = enqueued[i]
      /\ k \in Active \/ \E i \in DOMAIN enqueued' : enqueued'[i] = k
  <2>1. CASE UNCHANGED enqueued /\ k \in Active
    BY <2>1
  <2>2. CASE enqueued' = Append(enqueued, k)
    <3>1. /\ Len(enqueued) \in Nat /\ DOMAIN enqueued = 1..Len(enqueued)
          /\ DOMAIN enqueued' = 1..(Len(enqueued) + 1)
          /\ \A i \in 1..Len(enqueued) : enqueued'[i] = enqueued[i]
          /\ enqueued'[Len(enqueued) + 1] = k
      BY <2>2, AppendProperties, LenProperties DEF TypeOK
    <3>2. QED
      BY <3>1
  <2>3. QED
    BY <1>3, <2>1, <2>2
<1>8. NobodyForgotten'
  <2> SUFFICES ASSUME NEW p \in refs', p \notin late
               PROVE  \/ p[2] \in Active
                      \/ \E i \in DOMAIN enqueued' : enqueued'[i] = p[2]
                      \/ p[2] \in gone /\ p[1] \in visiting
                      \/ p[1] = at /\ p[2] \in leaving
    BY <1>0, <1>1 DEF NobodyForgotten
  <2>1. CASE p = <<at, k>>
    BY <1>7, <2>1
  <2>2. CASE p \in refs
    BY <1>7, <2>2 DEF NobodyForgotten
  <2>3. QED
    BY <1>0, <2>1, <2>2
<1>9. QED
  BY <1>2, <1>5, <1>6, <1>8

LEMMA StartIInv == IInv /\ Start => IInv'
<1> SUFFICES ASSUME IInv, Start PROVE IInv'
  OBVIOUS
<1> USE LimboAssumption DEF IInv
<1> DEFINE k == Head(enqueued)
<1>0. /\ pumping /\ enqueued # <<>> /\ Cardinality(Active) < MaxConcurrent
      /\ enqueued' = Tail(enqueued) /\ nextId' = nextId + 1
      /\ byTarget' = byTarget \cup {<<nextId, k>>}
      /\ byKey' = [byKey EXCEPT ![k] = IF @ = 0 THEN nextId ELSE @]
      /\ listening' = listening \cup {nextId}
      /\ UNCHANGED <<refs, current, visiting, gone, at, leaving, entering, pumping, late>>
  BY DEF Start, CanStart, handler
<1>1. k \in Key /\ Tail(enqueued) \in Seq(Key)
  BY <1>0, HeadTailProperties DEF TypeOK
<1>2. Active' = Active \cup {k}
  BY <1>0, <1>1 DEF Active, TypeOK
<1> HIDE DEF k
<1>3. KeysBounded'
  <2>1. Cardinality(Active \cup {k}) \in {Cardinality(Active), Cardinality(Active) + 1}
    BY ActiveFinite, FS_AddElement
  <2>2. QED
    BY <1>0, <1>2, <2>1, ActiveFinite DEF KeysBounded
<1>4. TypeOK'
  <2>1. nextId \in Nat \ {0} /\ nextId' \in Nat \ {0}
    BY <1>0 DEF TypeOK
  <2>2. byKey' \in [Key -> Nat]
    BY <1>0, <2>1 DEF TypeOK
  <2>3. ASSUME NEW p \in byTarget', NEW q \in byTarget'
        PROVE  p[1] < nextId' /\ (p[1] = q[1] => p = q)
    <3>1. \A r \in byTarget : r[1] \in Nat /\ r[1] < nextId
      BY <2>1 DEF TypeOK
    <3>2. \A r \in byTarget' : r \in byTarget \/ (r = <<nextId, k>> /\ r[1] = nextId)
      BY <1>0
    <3>3. CASE p \in byTarget /\ q \in byTarget
      BY <1>0, <2>1, <3>1, <3>3 DEF TypeOK
    <3>4. CASE p \notin byTarget \/ q \notin byTarget
      BY <1>0, <2>1, <3>1, <3>2, <3>4
    <3>5. QED
      BY <3>3, <3>4
  <2>4. byTarget' \subseteq (Nat \ {0}) \X Key /\ listening' \subseteq Nat
    BY <1>0, <1>1, <2>1 DEF TypeOK
  <2>5. QED
    BY <1>0, <1>1, <2>1, <2>2, <2>3, <2>4 DEF TypeOK
<1>5. ListensAreKnown'
  <2>1. listening' = {p[1] : p \in byTarget'}
    <3>1. \A t : t \in listening' <=> t \in listening \/ t = nextId
      BY <1>0
    <3>2. \A t : t \in {p[1] : p \in byTarget'} <=> t \in {p[1] : p \in byTarget} \/ t = nextId
      <4>1. <<nextId, k>>[1] = nextId
        OBVIOUS
      <4>2. QED
        BY <1>0, <4>1, Zenon
    <3>3. QED
      BY <3>1, <3>2 DEF ListensAreKnown
  <2>2. ASSUME NEW l \in Active' PROVE <<byKey'[l], l>> \in byTarget'
    <3>1. l \in Key
      BY DEF Active
    <3>2. CASE byKey[l] # 0
      BY <1>0, <1>1, <3>1, <3>2 DEF ListensAreKnown, TypeOK, Active
    <3>3. CASE byKey[l] = 0
      <4>1. l = k /\ byKey'[l] = nextId
        BY <1>0, <1>1, <3>1, <3>3 DEF TypeOK, Active
      <4>2. QED
        BY <1>0, <4>1
    <3>4. QED
      BY <3>2, <3>3
  <2>3. QED
    BY <2>1, <2>2 DEF ListensAreKnown
<1>6. HandlerInv' /\ QueueOnlyWhenFull'
  BY <1>0 DEF HandlerInv, QueueOnlyWhenFull
<1>7. NobodyForgotten'
  <2> SUFFICES ASSUME NEW p \in refs \ late
               PROVE  \/ p[2] \in Active'
                      \/ \E i \in DOMAIN enqueued' : enqueued'[i] = p[2]
                      \/ p[2] \in gone /\ p[1] \in visiting
                      \/ p[1] = at /\ p[2] \in leaving
    BY <1>0 DEF NobodyForgotten
  <2>1. ASSUME NEW i \in DOMAIN enqueued, enqueued[i] = p[2]
        PROVE  p[2] \in Active' \/ \E j \in DOMAIN enqueued' : enqueued'[j] = p[2]
    <3>1. enqueued \in Seq(Key)
      BY DEF TypeOK
    <3>2. enqueued[i] = k \/ \E j \in DOMAIN Tail(enqueued) : Tail(enqueued)[j] = enqueued[i]
      BY <1>0, <3>1, HeadOrTail DEF k
    <3>3. QED
      BY <1>0, <1>2, <2>1, <3>2
  <2>2. QED
    BY <1>2, <2>1 DEF NobodyForgotten
<1>8. QED
  BY <1>3, <1>4, <1>5, <1>6, <1>7

(* What stopping the listen of a key leaves of the bookkeeping. *)
LEMMA StopTarget ==
  ASSUME NEW k \in Key, NEW t, IInv,
         <<t, k>> \in byTarget,
         \A l \in Key : l # k => byKey[l] # t,
         listening' = listening \ {t},
         byTarget' = byTarget \ {<<t, k>>},
         byKey' = [byKey EXCEPT ![k] = 0]
  PROVE  /\ ListensAreKnown' /\ KeysBounded' /\ Active' = Active \ {k}
         /\ byKey' \in [Key -> Nat] /\ byTarget' \subseteq byTarget
<1> USE LimboAssumption DEF IInv
<1>1. byKey' \in [Key -> Nat] /\ byTarget' \subseteq byTarget
  BY DEF TypeOK
<1>2. Active' = Active \ {k} /\ Cardinality(Active)' <= Cardinality(Active)
  BY FewerActive DEF TypeOK
<1>3. Cardinality(Active)' \in Nat
  BY <1>2, ActiveFinite, FS_Subset, FS_CardinalityType
<1>4. KeysBounded'
  BY <1>2, <1>3, ActiveFinite DEF KeysBounded
<1>5. listening' = {p[1] : p \in byTarget'}
  <2>1. ASSUME NEW p \in byTarget, p[1] = t PROVE p = <<t, k>>
    <3>1. <<t, k>>[1] = t
      OBVIOUS
    <3>2. QED
      BY <2>1, <3>1 DEF TypeOK
  <2>2. <<t, k>>[1] = t
    OBVIOUS
  <2>3. {p[1] : p \in byTarget'} = {p[1] : p \in byTarget} \ {t}
    BY <2>1, <2>2, Zenon
  <2>4. QED
    BY <2>3 DEF ListensAreKnown
<1>6. ASSUME NEW l \in Active' PROVE <<byKey'[l], l>> \in byTarget'
  <2>1. l \in Active /\ l # k /\ l \in Key /\ byKey'[l] = byKey[l]
    BY <1>2 DEF Active, TypeOK
  <2>2. <<byKey[l], l>> \in byTarget
    BY <2>1 DEF ListensAreKnown
  <2>3. QED
    BY <2>1, <2>2
<1>7. QED
  BY <1>1, <1>2, <1>4, <1>5, <1>6 DEF ListensAreKnown

LEMMA LeaveIInv ==
  ASSUME NEW k \in Key, IInv, Leave(k) PROVE IInv'
<1> USE LimboAssumption DEF IInv
<1>0. /\ at \in View /\ k \in leaving
      /\ leaving' = leaving \ {k}
      /\ refs' = refs \ {<<at, k>>} /\ late' = late \ {<<at, k>>}
      /\ UNCHANGED <<enqueued, nextId, current, visiting, gone, at, entering>>
  BY DEF Leave, TypeOK, engine
<1>1. HandlerInv'
  BY <1>0 DEF HandlerInv
<1>2. ASSUME NEW p \in refs', p \notin late',
             p[2] \in Active => p[2] \in Active'
      PROVE  \/ p[2] \in Active'
             \/ \E i \in DOMAIN enqueued' : enqueued'[i] = p[2]
             \/ p[2] \in gone' /\ p[1] \in visiting'
             \/ p[1] = at' /\ p[2] \in leaving'
  <2>1. p \in refs \ late /\ p # <<at, k>> /\ p = <<p[1], p[2]>>
    BY <1>0, <1>2 DEF TypeOK
  <2>2. p[1] = at /\ p[2] \in leaving => p[2] \in leaving'
    BY <1>0, <2>1
  <2>3. QED
    BY <1>0, <1>2, <2>1, <2>2 DEF NobodyForgotten
<1>3. CASE Referenced(k, refs') \/ k \notin Active
  <2>1. UNCHANGED <<engine, pumping>>
    BY <1>3 DEF Leave
  <2>2. ListensAreKnown' /\ KeysBounded' /\ Active' = Active
    BY <2>1, QuietEngine
  <2>3. TypeOK'
    BY <1>0, <2>1 DEF TypeOK, engine
  <2>4. QueueOnlyWhenFull'
    BY <2>1, <2>2 DEF QueueOnlyWhenFull, engine
  <2>5. NobodyForgotten'
    BY <1>2, <2>2 DEF NobodyForgotten
  <2>6. QED
    BY <1>1, <2>2, <2>3, <2>4, <2>5
<1>4. CASE ~Referenced(k, refs') /\ k \in Active
  <2>1. /\ listening' = listening \ {byKey[k]}
        /\ byTarget' = byTarget \ {<<byKey[k], k>>}
        /\ byKey' = [byKey EXCEPT ![k] = 0]
        /\ pumping' = TRUE
    BY <1>4 DEF Leave
  <2>2. <<byKey[k], k>> \in byTarget
    BY <1>4 DEF ListensAreKnown
  <2>3. ASSUME NEW l \in Key, l # k PROVE byKey[l] # byKey[k]
    <3>1. SUFFICES ASSUME byKey[l] = byKey[k] PROVE FALSE
      OBVIOUS
    <3>2. <<byKey[k], l>> \in byTarget
      BY <1>4, <3>1 DEF ListensAreKnown, Active
    <3>3. <<byKey[k], l>> = <<byKey[k], k>>
      <4>1. <<byKey[k], l>>[1] = <<byKey[k], k>>[1]
        OBVIOUS
      <4>2. QED
        BY <2>2, <3>2, <4>1 DEF TypeOK
    <3>4. QED
      BY <2>3, <3>3
  <2>4. /\ ListensAreKnown' /\ KeysBounded' /\ Active' = Active \ {k}
        /\ byKey' \in [Key -> Nat] /\ byTarget' \subseteq byTarget
    BY <2>1, <2>2, <2>3, StopTarget
  <2>5. TypeOK'
    BY <1>0, <2>1, <2>4 DEF TypeOK
  <2>6. QueueOnlyWhenFull'
    BY <2>1 DEF QueueOnlyWhenFull
  <2>7. NobodyForgotten'
    <3>1. ASSUME NEW p \in refs' PROVE p[2] # k
      <4>1. p = <<p[1], p[2]>> /\ p[1] \in View
        BY <1>0 DEF TypeOK
      <4>2. QED
        BY <1>4, <4>1 DEF Referenced
    <3>2. QED
      BY <1>2, <2>4, <3>1 DEF NobodyForgotten
  <2>8. QED
    BY <1>1, <2>4, <2>5, <2>6, <2>7
<1>5. QED
  BY <1>3, <1>4

LEMMA RejectedIInv ==
  ASSUME NEW t \in listening, IInv, HandleRejectedListen(t) PROVE IInv'
<1> USE LimboAssumption DEF IInv
<1>1. PICK k \in Key :
        /\ <<t, k>> \in byTarget
        /\ byKey' = [byKey EXCEPT ![k] = 0]
        /\ byTarget' = byTarget \ {<<t, k>>}
        /\ gone' = {k}
        /\ late' = late \cup {p \in refs : p[2] = k /\ p[1] \notin current}
  BY DEF HandleRejectedListen
<1>2. /\ visiting = {} /\ at = NoView
      /\ listening' = listening \ {t} /\ pumping' = TRUE /\ visiting' = View
      /\ UNCHANGED <<refs, enqueued, nextId, current, at, leaving, entering>>
  BY DEF HandleRejectedListen, Idle
<1>3. ASSUME NEW l \in Key, l # k PROVE byKey[l] # t
  <2>1. SUFFICES ASSUME byKey[l] = t PROVE FALSE
    OBVIOUS
  <2>2. t # 0
    BY <1>1 DEF TypeOK
  <2>3. <<t, l>> \in byTarget
    BY <2>1, <2>2 DEF ListensAreKnown, Active
  <2>4. <<t, l>> = <<t, k>>
    <3>1. <<t, l>>[1] = <<t, k>>[1]
      OBVIOUS
    <3>2. QED
      BY <1>1, <2>3, <3>1 DEF TypeOK
  <2>5. QED
    BY <1>3, <2>4
<1>4. /\ ListensAreKnown' /\ KeysBounded' /\ Active' = Active \ {k}
      /\ byKey' \in [Key -> Nat] /\ byTarget' \subseteq byTarget
  BY <1>1, <1>2, <1>3, StopTarget
<1>5. TypeOK'
  BY <1>1, <1>2, <1>4 DEF TypeOK
<1>6. HandlerInv'
  <2>1. at' \notin visiting'
    BY <1>2
  <2>2. ASSUME NEW p \in refs' \ late', p[2] \in gone' PROVE p[1] \in current'
    BY <1>1, <1>2, <2>2
  <2>3. QED
    BY <2>1, <2>2 DEF HandlerInv
<1>7. QueueOnlyWhenFull'
  BY <1>2 DEF QueueOnlyWhenFull
<1>8. NobodyForgotten'
  <2> SUFFICES ASSUME NEW p \in refs', p \notin late', p[2] # k
               PROVE  \/ p[2] \in Active'
                      \/ \E i \in DOMAIN enqueued' : enqueued'[i] = p[2]
    <3>1. \A p \in refs' : p[1] \in visiting'
      BY <1>2 DEF TypeOK
    <3>2. QED
      BY <1>1, <3>1 DEF NobodyForgotten
  <2>1. p \in refs \ late /\ p[1] \in View
    BY <1>1, <1>2 DEF TypeOK
  <2>2. p[2] \in Active \/ \E i \in DOMAIN enqueued : enqueued[i] = p[2]
    BY <1>2, <2>1 DEF NobodyForgotten
  <2>3. QED
    BY <1>2, <1>4, <2>2
<1>9. QED
  BY <1>4, <1>5, <1>6, <1>7, <1>8

LEMMA NextIInv == IInv /\ [Next]_vars => IInv'
<1> SUFFICES ASSUME IInv, [Next]_vars PROVE IInv'
  OBVIOUS
<1>1. CASE UNCHANGED vars
  <2> USE <1>1 DEF vars, engine, handler, IInv
  <2>1. ListensAreKnown' /\ KeysBounded' /\ Active' = Active
    BY QuietEngine
  <2>2. TypeOK' /\ HandlerInv'
    BY DEF TypeOK, HandlerInv
  <2>3. QueueOnlyWhenFull' /\ NobodyForgotten'
    BY <2>1 DEF QueueOnlyWhenFull, NobodyForgotten
  <2>4. QED
    BY <2>1, <2>2, <2>3
<1>2. CASE Next
  BY <1>2, EventIInv, RejectedIInv, RemoveTargetIInv, OnlineIInv, VisitIInv, LeaveIInv,
     EnterIInv, StartIInv, DoneIInv DEF Next
<1>3. QED
  BY <1>1, <1>2

-----------------------------------------------------------------------------
(* The inductive invariant of the limbo bookkeeping holds for any number of  *)
(* views, keys and concurrent resolutions.                                   *)
THEOREM Invariance == Spec => []IInv
BY InitIInv, NextIInv, PTL DEF Spec

(* SyncEngine's maps keep their types, and no target id is used twice.       *)
THEOREM TypeCorrect == Spec => []TypeOK
<1>1. IInv => TypeOK
  BY DEF IInv
<1>2. QED
  BY <1>1, Invariance, PTL

(* Every listen of the remote store for a limbo document has its entry in    *)
(* active_limbo_resolutions_by_target_, however often a key was queued.      *)
THEOREM KnownListens == Spec => []ListensAreKnown
<1>1. IInv => ListensAreKnown
  BY DEF IInv
<1>2. QED
  BY <1>1, Invariance, PTL

(* The keys being resolved never exceed the limit.                           *)
THEOREM BoundedKeys == Spec => []KeysBounded
<1>1. IInv => KeysBounded
  BY DEF IInv
<1>2. QED
  BY <1>1, Invariance, PTL

(* PumpEnqueuedLimboResolutions is called often enough: no key waits while a *)
(* slot is free.                                                             *)
THEOREM NoIdleSlot == Spec => []QueueOnlyWhenFull
<1>1. IInv => QueueOnlyWhenFull
  BY DEF IInv
<1>2. QED
  BY <1>1, Invariance, PTL

(* SyncEngine's queue, maps and listens fit together, for any number of      *)
(* views, keys and slots.                                                    *)
THEOREM EngineCorrect == Spec => []EngineInv
<1>1. IInv => EngineInv
  BY DEF IInv, EngineInv
<1>2. QED
  BY <1>1, Invariance, PTL

(* No document in limbo is forgotten, but for the views that were not        *)
(* current when the listen was rejected.                                     *)
THEOREM AllAskedAbout == Spec => []NobodyForgotten
<1>1. IInv => NobodyForgotten
  BY DEF IInv
<1>2. QED
  BY <1>1, Invariance, PTL
=============================================================================
