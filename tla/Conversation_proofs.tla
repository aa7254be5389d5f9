------------------------- MODULE Conversation_proofs -------------------------
(***************************************************************************)
(* The safety of the two halves of a conversation's screen: what it shows, *)
(* for any message ids, any mailbox and any page size, and the pictures it *)
(* sends, for any number of selections, pictures and failures.  The two    *)
(* share no state.                                                         *)
(***************************************************************************)
EXTENDS ConversationWindow, ImageSender, FiniteSetTheorems, NaturalsInduction, TLAPS

(* S is what T has from some point on. *)
EndOf(S, T) == S \subseteq T /\ \A m \in S, x \in T : m < x => x \in S

-----------------------------------------------------------------------------
(* Sets of ids *)

LEMMA FirstIdIsFirst ==
  ASSUME NEW S \in SUBSET Nat, S # {}
  PROVE  FirstId(S) \in S /\ \A x \in S : FirstId(S) <= x
<1>1. PICK m \in S : \A x \in S : <<x, m>> \notin OpToRel(<, Nat)
  BY NatLessThanWellFounded, WFMin
<1>2. \A x \in S : ~(x < m)
  BY <1>1 DEF OpToRel
<1>3. m \in Nat /\ \A x \in S : x \in Nat
  OBVIOUS
<1>4. \A x \in S : m <= x
  BY <1>2, <1>3
<1>5. QED
  BY <1>4 DEF FirstId

LEMMA FirstIdIs ==
  ASSUME NEW S \in SUBSET Nat, NEW m \in S, \A x \in S : m <= x
  PROVE  FirstId(S) = m
<1>1. FirstId(S) \in S /\ FirstId(S) <= m
  BY FirstIdIsFirst
<1>2. m <= FirstId(S)
  BY <1>1
<1>3. m \in Nat /\ FirstId(S) \in Nat
  BY <1>1
<1>4. QED
  BY <1>1, <1>2, <1>3

(* The last n documents have everything after the first of them. *)
LEMMA LastIsEnd ==
  ASSUME NEW S \in SUBSET Nat, IsFiniteSet(S), NEW n \in Nat
  PROVE  EndOf(LastOf(S, n), S)
<1> SUFFICES ASSUME NEW m \in LastOf(S, n), NEW x \in S, m < x
             PROVE  x \in LastOf(S, n)
  BY DEF EndOf, LastOf
<1> DEFINE over(y) == {z \in S : z > y}
<1>1. over(m) \in SUBSET S /\ over(x) \in SUBSET over(m)
  <2>1. m \in Nat /\ x \in Nat /\ \A z \in S : z \in Nat
    BY DEF LastOf
  <2>2. \A z \in S : z > x => z > m
    BY <2>1
  <2>3. QED
    BY <2>2
<1>2. m \in S /\ Cardinality(over(m)) < n
  BY DEF LastOf
<1> HIDE DEF over
<1>3. IsFiniteSet(over(m)) /\ Cardinality(over(m)) \in Nat
  BY <1>1, FS_Subset, FS_CardinalityType
<1>4. /\ Cardinality(over(x)) <= Cardinality(over(m))
      /\ IsFiniteSet(over(x)) /\ Cardinality(over(x)) \in Nat
  BY <1>1, <1>3, FS_Subset, FS_CardinalityType
<1>5. Cardinality(over(x)) < n
  BY <1>2, <1>3, <1>4
<1>6. QED
  BY <1>5 DEF LastOf, over

(* What has everything after its first document is the last so many. *)
LEMMA EndIsLast ==
  ASSUME NEW S \in SUBSET Nat, IsFiniteSet(S), NEW E, EndOf(E, S)
  PROVE  E = LastOf(S, Cardinality(E))
<1> DEFINE over(y) == {z \in S : z > y}
<1>1. IsFiniteSet(E) /\ Cardinality(E) \in Nat
  BY FS_Subset, FS_CardinalityType DEF EndOf
<1>2. ASSUME NEW m \in E
      PROVE  m \in S /\ Cardinality(over(m)) < Cardinality(E)
  <2>1. m \in S /\ over(m) \subseteq E \ {m}
    <3>1. m \in S /\ m \in Nat /\ \A z \in S : z \in Nat
      BY <1>2 DEF EndOf
    <3>2. \A z \in S : z > m => z \in E /\ z # m
      BY <1>2, <3>1 DEF EndOf
    <3>3. QED
      BY <3>1, <3>2
  <2> HIDE DEF over
  <2>2. IsFiniteSet(E \ {m}) /\ Cardinality(E \ {m}) = Cardinality(E) - 1
    BY <1>1, <1>2, FS_RemoveElement
  <2>3. IsFiniteSet(over(m)) /\ Cardinality(over(m)) <= Cardinality(E \ {m})
    BY <2>1, <2>2, FS_Subset
  <2>4. Cardinality(over(m)) \in Nat
    BY <2>3, FS_CardinalityType
  <2>5. QED
    BY <1>1, <2>1, <2>2, <2>3, <2>4
<1>3. ASSUME NEW m \in S, m \notin E
      PROVE  ~(Cardinality(over(m)) < Cardinality(E))
  <2>1. E \subseteq over(m) /\ over(m) \in SUBSET S
    <3>1. m \in Nat /\ E \subseteq S /\ \A z \in S : z \in Nat
      BY <1>3 DEF EndOf
    <3>2. \A z \in E : z > m
      BY <1>3, <3>1 DEF EndOf
    <3>3. QED
      BY <3>1, <3>2
  <2> HIDE DEF over
  <2>2. IsFiniteSet(over(m)) /\ Cardinality(over(m)) \in Nat
    BY <2>1, FS_Subset, FS_CardinalityType
  <2>3. Cardinality(E) <= Cardinality(over(m))
    BY <2>1, <2>2, FS_Subset
  <2>4. QED
    BY <1>1, <2>2, <2>3
<1>4. QED
  BY <1>2, <1>3 DEF LastOf

(* Appending shows what is appended, and hides nothing. *)
LEMMA ShowsMore ==
  ASSUME TypeOK, NEW S \in SUBSET Id, Shows(S)
  PROVE  Shown' = Shown \cup S /\ messages' \in [Id -> Nat]
<1>1. \A m \in Id : messages'[m] = IF m \in S THEN messages[m] + 1 ELSE messages[m]
  BY DEF Shows
<1>2. \A m \in Id : messages[m] \in Nat /\ messages[m] + 1 \in Nat /\ messages[m] + 1 > 0
  BY DEF TypeOK
<1>3. messages' \in [Id -> Nat]
  BY <1>2 DEF Shows
<1>4. QED
  BY <1>1, <1>2, <1>3 DEF Shown

-----------------------------------------------------------------------------
(* The list has no holes *)

LEMMA Stays ==
  ASSUME UNCHANGED messages
  PROVE  Shown' = Shown
BY DEF Shown

LEMMA SnapshotKeeps ==
  ASSUME WindowInv, Snapshot
  PROVE  WindowInv'
<1> DEFINE now == LastOf(mail, PageSize)
           added == now \ window
<1> USE DEF WindowInv
<1>1. /\ window' = now /\ known' = mail /\ Shows(added)
      /\ firstPage' = IF added = {} THEN firstPage ELSE FirstId(now)
      /\ missed' = missed \cup {m \in (mail \ known) \ now : asked # 0 \/ firstPage' <= m}
      /\ UNCHANGED <<mail, unsettled, asked, untouched>>
  BY DEF Snapshot
<1>2. mail \in SUBSET Nat /\ IsFiniteSet(mail) /\ PageSize \in Nat
  BY WindowAssumption DEF TypeOK
<1>3. EndOf(now, mail) /\ now \in SUBSET Nat /\ now \subseteq Id
  <2>1. EndOf(now, mail)
    BY <1>2, LastIsEnd
  <2> HIDE DEF now
  <2>2. QED
    BY <1>2, <2>1 DEF EndOf, TypeOK
<1> HIDE DEF now
<1>4. Shown' = Shown \cup added /\ messages' \in [Id -> Nat] /\ now \subseteq Shown'
  BY <1>1, <1>3, ShowsMore DEF TypeOK
<1> HIDE DEF added
<1>5. added # {} => FirstId(now) \in now /\ \A x \in now : FirstId(now) <= x
  BY <1>3, FirstIdIsFirst DEF added
<1>6. TypeOK'
  <2>1. firstPage' \in Shown' \cup {0} /\ asked' \in Shown' \cup {0}
    BY <1>1, <1>4, <1>5 DEF TypeOK
  <2>2. missed' \subseteq Id /\ known' \subseteq mail'
    BY <1>1 DEF TypeOK
  <2>3. QED
    BY <1>1, <1>4, <2>1, <2>2 DEF TypeOK
<1>7. ASSUME NEW page \in {firstPage', asked'} \ {0}, NEW m \in mail, page <= m
      PROVE  m \in Shown' \cup missed'
  <2>1. CASE m \in now
    BY <2>1, <1>4
  <2>2. CASE m \notin now /\ m \in known
    <3>1. CASE page \in {firstPage, asked}
      BY <1>1, <1>4, <1>7, <2>2, <3>1 DEF NoHoles
    <3>2. CASE page \notin {firstPage, asked}
      <4>1. page = FirstId(now) /\ added # {}
        BY <1>1, <1>7, <3>2
      <4>2. page \in now /\ page \in Nat /\ m \in Nat
        BY <1>2, <1>3, <1>5, <4>1
      <4>3. m = page \/ page < m
        BY <1>7, <4>2
      <4>4. QED
        BY <1>3, <2>2, <4>2, <4>3 DEF EndOf
    <3>3. QED
      BY <3>1, <3>2
  <2>3. CASE m \notin now /\ m \notin known
    <3>1. asked # 0 \/ firstPage' <= m
      BY <1>1, <1>7
    <3>2. QED
      BY <1>1, <2>3, <3>1
  <2>4. QED
    BY <2>1, <2>2, <2>3
<1>8. NoHoles'
  BY <1>1, <1>7 DEF NoHoles
<1>9. QED
  BY <1>6, <1>8

LEMMA BeforeAnsweredKeeps ==
  ASSUME WindowInv, BeforeAnswered
  PROVE  WindowInv'
<1> DEFINE older == {m \in mail : m < asked}
           found == LastOf(older, PageSize)
<1> USE DEF WindowInv
<1>1. /\ asked # 0 /\ asked' = 0
      /\ \/ found # {} /\ Shows(found) /\ firstPage' = FirstId(found)
         \/ UNCHANGED <<messages, firstPage>>
      /\ UNCHANGED <<mail, unsettled, window, known, missed, untouched>>
  BY DEF BeforeAnswered, BeforePage
<1>2. older \in SUBSET Nat /\ IsFiniteSet(older) /\ PageSize \in Nat /\ older \subseteq mail
  <2>1. older \in SUBSET mail /\ IsFiniteSet(mail) /\ mail \subseteq Nat
    BY WindowAssumption DEF TypeOK
  <2> HIDE DEF older
  <2>2. QED
    BY <2>1, FS_Subset, WindowAssumption
<1>3. EndOf(found, older) /\ found \in SUBSET Nat /\ found \subseteq Id
  <2> HIDE DEF older
  <2>1. EndOf(found, older)
    BY <1>2, LastIsEnd
  <2> HIDE DEF found
  <2>2. QED
    BY <1>2, <2>1 DEF EndOf, TypeOK
<1> HIDE DEF found
<1>4. CASE UNCHANGED <<messages, firstPage>>
  <2>1. Shown' = Shown
    BY <1>4, Stays
  <2>2. QED
    BY <1>1, <1>4, <2>1 DEF TypeOK, NoHoles
<1>5. CASE found # {} /\ Shows(found) /\ firstPage' = FirstId(found)
  <2>1. Shown' = Shown \cup found /\ messages' \in [Id -> Nat]
    BY <1>3, <1>5, ShowsMore
  <2>2. FirstId(found) \in found
    BY <1>3, <1>5, FirstIdIsFirst
  <2>3. TypeOK'
    BY <1>1, <1>5, <2>1, <2>2 DEF TypeOK
  <2>4. ASSUME NEW m \in known, FirstId(found) <= m
        PROVE  m \in Shown' \cup missed'
    <3>1. m \in mail /\ m \in Nat /\ FirstId(found) \in Nat /\ asked \in Nat
      <4>1. mail \subseteq Nat /\ Id \subseteq Nat /\ known \subseteq mail
        BY WindowAssumption DEF TypeOK
      <4>2. asked \in Nat
        BY <1>1, <4>1 DEF TypeOK, Shown
      <4>3. FirstId(found) \in Nat
        BY <1>3, <2>2
      <4>4. QED
        BY <2>4, <4>1, <4>2, <4>3
    <3>2. CASE m < asked
      <4>1. m \in older
        BY <3>1, <3>2
      <4>2. m = FirstId(found) \/ FirstId(found) < m
        BY <2>4, <3>1
      <4>3. m \in found
        BY <1>3, <2>2, <4>1, <4>2 DEF EndOf
      <4>4. QED
        BY <2>1, <4>3
    <3>3. CASE asked <= m
      BY <1>1, <2>1, <3>3 DEF NoHoles
    <3>4. QED
      BY <3>1, <3>2, <3>3
  <2>5. NoHoles'
    BY <1>1, <1>5, <2>4 DEF NoHoles
  <2>6. QED
    BY <2>3, <2>5
<1>6. QED
  BY <1>1, <1>4, <1>5

LEMMA WithdrawKeeps ==
  ASSUME WindowInv, NEW m \in Id, Withdraw(m)
  PROVE  WindowInv'
<1> USE DEF WindowInv
<1>1. /\ mail' = mail \ {m} /\ unsettled' = unsettled \ {m}
      /\ known' = known \ {m} /\ missed' = missed \ {m}
      /\ UNCHANGED <<window, messages, firstPage, asked, untouched>>
  BY DEF Withdraw
<1>2. Shown' = Shown
  BY <1>1, Stays
<1>3. IsFiniteSet(mail \ {m})
  BY FS_RemoveElement DEF TypeOK
<1>4. TypeOK'
  BY <1>1, <1>2, <1>3 DEF TypeOK
<1>5. NoHoles'
  BY <1>1, <1>2 DEF NoHoles
<1>6. QED
  BY <1>4, <1>5

LEMMA WindowStep ==
  ASSUME WindowInv, [Next]_vars
  PROVE  WindowInv'
<1>1. ASSUME NEW m \in Id, Arrive(m)
      PROVE  WindowInv'
  <2>1. Shown' = Shown
    BY <1>1, Stays DEF Arrive
  <2>2. IsFiniteSet(mail \cup {m})
    BY FS_AddElement DEF WindowInv, TypeOK
  <2>3. unsettled' \subseteq unsettled \cup {m} /\ mail' = mail \cup {m} /\ untouched' = FALSE
    BY <1>1 DEF Arrive
  <2>4. TypeOK'
    BY <1>1, <2>1, <2>2, <2>3 DEF Arrive, WindowInv, TypeOK
  <2>5. NoHoles'
    BY <1>1, <2>1 DEF Arrive, WindowInv, NoHoles
  <2>6. QED
    BY <2>4, <2>5 DEF WindowInv
<1>2. ASSUME NEW m \in Id, Settle(m)
      PROVE  WindowInv'
  <2>1. Shown' = Shown
    BY <1>2, Stays DEF Settle
  <2>2. QED
    BY <1>2, <2>1 DEF Settle, WindowInv, TypeOK, NoHoles
<1>3. ASSUME Pull
      PROVE  WindowInv'
  <2>1. Shown' = Shown
    BY <1>3, Stays DEF Pull
  <2>2. QED
    BY <1>3, <2>1 DEF Pull, WindowInv, TypeOK, NoHoles
<1>4. ASSUME UNCHANGED vars
      PROVE  WindowInv'
  <2>1. Shown' = Shown
    BY <1>4, Stays DEF vars
  <2>2. QED
    BY <1>4, <2>1 DEF vars, WindowInv, TypeOK, NoHoles
<1>5. QED
  BY <1>1, <1>2, <1>3, <1>4, WithdrawKeeps, SnapshotKeeps, BeforeAnsweredKeeps DEF Next

(* Nothing is on screen before the first snapshot. *)
LEMMA NothingShown ==
  ASSUME Init
  PROVE  Shown = {} /\ messages \in [Id -> Nat] /\ \A m \in Id : messages[m] = 0
BY DEF Init, Shown

(* WindowInv: snapshots and answers in any order leave no hole from         *)
(* firstPage on, and the listener's window stays on screen.                 *)
THEOREM NoHolesOnScreen == Spec => []WindowInv
<1>1. Init => WindowInv
  <2> SUFFICES ASSUME Init PROVE WindowInv
    OBVIOUS
  <2>1. QED
    BY NothingShown DEF Init, WindowInv, TypeOK, NoHoles
<1>2. WindowInv /\ [Next]_vars => WindowInv'
  BY WindowStep
<1>3. QED
  BY <1>1, <1>2, PTL DEF Spec

-----------------------------------------------------------------------------
(* While nobody writes *)

(* The list is an end of the mailbox, and a pull asks for what is before it; *)
(* either there was no snapshot yet or there is nothing for another one.     *)
Quiet ==
  untouched =>
    /\ unsettled = {} /\ EndOf(Shown, mail)
    /\ \A m \in Id : messages[m] <= 1
    /\ firstPage = IF Shown = {} THEN 0 ELSE FirstId(Shown)
    /\ asked \in {0, firstPage}
    /\ \/ known = {} /\ window = {} /\ Shown = {}
       \/ known = mail /\ window = LastOf(mail, PageSize)

LEMMA QuietSnapshot ==
  ASSUME WindowInv, Quiet, Snapshot
  PROVE  Quiet'
<1> DEFINE now == LastOf(mail, PageSize)
<1> SUFFICES ASSUME untouched'
             PROVE  Quiet'
  BY DEF Quiet
<1>1. untouched /\ UNCHANGED <<mail, unsettled, asked>> /\ known' = mail /\ window' = now
  BY DEF Snapshot
<1>2. known = {} /\ window = {} /\ Shown = {}
  BY <1>1 DEF Quiet, Snapshot
<1>3. Shows(now) /\ firstPage' = IF now = {} THEN firstPage ELSE FirstId(now)
  <2>1. now \ window = now
    BY <1>2
  <2>2. QED
    BY <2>1 DEF Snapshot
<1>4. EndOf(now, mail) /\ now \subseteq Id
  <2>1. mail \in SUBSET Nat /\ IsFiniteSet(mail) /\ mail \subseteq Id /\ PageSize \in Nat
    BY WindowAssumption DEF WindowInv, TypeOK
  <2>2. EndOf(now, mail)
    BY <2>1, LastIsEnd
  <2> HIDE DEF now
  <2>3. QED
    BY <2>1, <2>2 DEF EndOf
<1> HIDE DEF now
<1>5. Shown' = now
  BY <1>2, <1>3, <1>4, ShowsMore DEF WindowInv
<1>6. ASSUME NEW m \in Id
      PROVE  messages'[m] <= 1
  <2>1. messages[m] = 0
    BY <1>2 DEF Shown, WindowInv, TypeOK
  <2>2. QED
    BY <1>3, <2>1 DEF Shows
<1>7. firstPage = 0 /\ asked = 0 /\ unsettled = {}
  BY <1>1, <1>2 DEF Quiet
<1>8. firstPage' = IF Shown' = {} THEN 0 ELSE FirstId(Shown')
  <2>1. FirstId(Shown)' = FirstId(now)
    BY <1>5 DEF FirstId
  <2>2. QED
    BY <1>3, <1>5, <1>7, <2>1
<1>9. EndOf(Shown, mail)' /\ LastOf(mail, PageSize)' = now
  BY <1>1, <1>4, <1>5 DEF EndOf, LastOf, now
<1>10. QED
  BY <1>1, <1>6, <1>7, <1>8, <1>9 DEF Quiet

LEMMA QuietAnswer ==
  ASSUME WindowInv, Quiet, BeforeAnswered
  PROVE  Quiet'
<1> DEFINE older == {m \in mail : m < asked}
           found == LastOf(older, PageSize)
<1> SUFFICES ASSUME untouched'
             PROVE  Quiet'
  BY DEF Quiet
<1>1. /\ asked # 0 /\ asked' = 0 /\ untouched
      /\ \/ found # {} /\ Shows(found) /\ firstPage' = FirstId(found)
         \/ UNCHANGED <<messages, firstPage>>
      /\ UNCHANGED <<mail, unsettled, window, known>>
  BY DEF BeforeAnswered, BeforePage
<1>2. /\ Shown # {} /\ asked = FirstId(Shown) /\ firstPage = asked
      /\ EndOf(Shown, mail) /\ unsettled = {} /\ \A m \in Id : messages[m] <= 1
      /\ known = mail /\ window = LastOf(mail, PageSize)
  BY <1>1 DEF Quiet
<1>3. /\ mail \in SUBSET Nat /\ IsFiniteSet(mail) /\ mail \subseteq Id /\ PageSize \in Nat
      /\ Shown \in SUBSET Nat /\ messages \in [Id -> Nat]
  BY WindowAssumption DEF WindowInv, TypeOK, Shown
<1>4. asked \in Shown /\ \A x \in Shown : asked <= x
  BY <1>2, <1>3, FirstIdIsFirst
<1>5. EndOf(found, older) /\ found \subseteq mail
      /\ \A m \in found : m < asked /\ m \in Nat /\ m \notin Shown
  <2>1. older \in SUBSET mail /\ older \in SUBSET Nat
    BY <1>3
  <2>2. \A m \in older : m < asked /\ m \in Nat /\ m \notin Shown
    BY <1>3, <1>4
  <2> HIDE DEF older
  <2>3. EndOf(found, older)
    BY <1>3, <2>1, FS_Subset, LastIsEnd
  <2> HIDE DEF found
  <2>4. QED
    BY <2>1, <2>2, <2>3 DEF EndOf
<1> HIDE DEF found
<1>6. CASE UNCHANGED <<messages, firstPage>>
  <2>1. Shown' = Shown
    BY <1>6, Stays
  <2>2. FirstId(Shown)' = FirstId(Shown) /\ EndOf(Shown, mail)'
        /\ LastOf(mail, PageSize)' = LastOf(mail, PageSize)
    BY <1>1, <1>2, <2>1 DEF FirstId, EndOf, LastOf
  <2>3. QED
    BY <1>1, <1>2, <1>6, <2>1, <2>2 DEF Quiet
<1>7. CASE found # {} /\ Shows(found) /\ firstPage' = FirstId(found)
  <2>1. Shown' = Shown \cup found
    BY <1>3, <1>5, <1>7, ShowsMore DEF WindowInv
  <2>2. FirstId(found) \in found /\ \A x \in found : FirstId(found) <= x
    BY <1>3, <1>5, <1>7, FirstIdIsFirst
  <2>3. FirstId(Shown') = FirstId(found)
    <3>1. Shown' \in SUBSET Nat /\ FirstId(found) \in Shown'
      BY <1>3, <1>5, <2>1, <2>2
    <3>2. \A x \in Shown : FirstId(found) <= x
      <4>1. FirstId(found) \in Nat /\ FirstId(found) < asked /\ asked \in Nat
        BY <1>3, <1>4, <1>5, <2>2
      <4>2. \A x \in Shown : x \in Nat /\ asked <= x
        BY <1>3, <1>4
      <4>3. QED
        BY <4>1, <4>2
    <3>3. \A x \in Shown' : FirstId(found) <= x
      BY <2>1, <2>2, <3>2
    <3>4. QED
      BY <3>1, <3>3, FirstIdIs
  <2>4. ASSUME NEW m \in Shown', NEW x \in mail, m < x
        PROVE  x \in Shown'
    <3>1. CASE m \in Shown
      BY <1>2, <2>1, <2>4, <3>1 DEF EndOf
    <3>2. CASE m \in found /\ x < asked
      BY <1>5, <2>1, <2>4, <3>2 DEF EndOf
    <3>3. CASE x = asked
      BY <1>4, <2>1, <3>3
    <3>4. CASE asked < x
      BY <1>2, <1>4, <2>1, <3>4 DEF EndOf
    <3>5. QED
      BY <1>3, <1>4, <2>1, <2>4, <3>1, <3>2, <3>3, <3>4
  <2>5. EndOf(Shown, mail)'
    BY <1>1, <1>2, <1>5, <2>1, <2>4 DEF EndOf
  <2>6. ASSUME NEW m \in Id
        PROVE  messages'[m] <= 1
    <3>1. CASE m \in found
      <4>1. messages[m] = 0
        BY <1>3, <1>5, <3>1 DEF Shown
      <4>2. QED
        BY <1>7, <3>1, <4>1 DEF Shows
    <3>2. CASE m \notin found
      BY <1>2, <1>7, <3>2 DEF Shows
    <3>3. QED
      BY <3>1, <3>2
  <2>7. firstPage' = IF Shown' = {} THEN 0 ELSE FirstId(Shown)'
    <3>1. FirstId(Shown)' = FirstId(Shown')
      BY DEF FirstId
    <3>2. QED
      BY <1>7, <2>1, <2>3, <3>1
  <2>8. LastOf(mail, PageSize)' = LastOf(mail, PageSize)
    BY <1>1 DEF LastOf
  <2>9. QED
    BY <1>1, <1>2, <2>5, <2>6, <2>7, <2>8 DEF Quiet
<1>8. QED
  BY <1>1, <1>6, <1>7

LEMMA QuietStep ==
  ASSUME WindowInv, Quiet, [Next]_vars
  PROVE  Quiet'
<1>1. ASSUME NEW m \in Id, Arrive(m)
      PROVE  Quiet'
  BY <1>1 DEF Arrive, Quiet
<1>2. ASSUME NEW m \in Id, Withdraw(m) \/ Settle(m)
      PROVE  Quiet'
  <2>1. ~untouched /\ untouched' = untouched
    BY <1>2 DEF Withdraw, Settle, Quiet
  <2>2. QED
    BY <2>1 DEF Quiet
<1>3. ASSUME Pull \/ UNCHANGED vars
      PROVE  Quiet'
  <2>1. /\ UNCHANGED <<mail, unsettled, window, messages, firstPage, known, untouched>>
        /\ asked' \in {asked, firstPage}
    BY <1>3 DEF Pull, vars
  <2>2. Shown' = Shown
    BY <2>1, Stays
  <2>3. FirstId(Shown)' = FirstId(Shown) /\ EndOf(Shown, mail)' = EndOf(Shown, mail)
        /\ LastOf(mail, PageSize)' = LastOf(mail, PageSize)
    BY <2>1, <2>2 DEF FirstId, EndOf, LastOf
  <2>4. QED
    BY <2>1, <2>2, <2>3 DEF Quiet
<1>4. QED
  BY <1>1, <1>2, <1>3, QuietSnapshot, QuietAnswer DEF Next

LEMMA QuietInit ==
  ASSUME Init
  PROVE  Quiet
BY NothingShown DEF Init, Quiet, EndOf

LEMMA QuietShowsEnd ==
  ASSUME WindowInv, Quiet
  PROVE  QuietListIsSuffix
<1> SUFFICES ASSUME untouched
             PROVE  /\ \A m \in Id : messages[m] <= 1
                    /\ Shown = LastOf(mail, Cardinality(Shown))
                    /\ Shown # {} => firstPage = FirstId(Shown)
  BY DEF QuietListIsSuffix
<1>1. mail \in SUBSET Nat /\ IsFiniteSet(mail)
  BY WindowAssumption DEF WindowInv, TypeOK
<1>2. EndOf(Shown, mail)
  BY DEF Quiet
<1>3. Shown = LastOf(mail, Cardinality(Shown))
  BY <1>1, <1>2, EndIsLast
<1>4. QED
  BY <1>3 DEF Quiet

(* QuietListIsSuffix: as long as the mailbox is as the first snapshot found *)
(* it, any number of pulls shows its newest part, each message once.         *)
THEOREM QuietListIsEnd == Spec => []QuietListIsSuffix
<1>1. Init => Quiet
  BY QuietInit
<1>2. WindowInv /\ Quiet /\ [Next]_vars => Quiet'
  BY QuietStep
<1>3. WindowInv /\ Quiet => QuietListIsSuffix
  BY QuietShowsEnd
<1>4. QED
  BY <1>1, <1>2, <1>3, NoHolesOnScreen, PTL DEF Spec

-----------------------------------------------------------------------------
(* Sending pictures *)

(* Who holds the semaphore of the screen, or has kept it by failing. *)
Holders == {p \in Picture : stage[p] \in {"uploading", "asking", "failed", "unlinked"}}

(* What every variable alone is. *)
Typed ==
  /\ count \in [Selection -> 0..MaxPictures]
  /\ stage \in [Picture -> Stages]
  /\ succesCount \in Nat /\ failures \in Nat
  /\ progressBar \in BOOLEAN /\ alive \in BOOLEAN /\ left \in BOOLEAN /\ stopped \in BOOLEAN
  /\ sent \in [Picture -> 0..1]

SemaphoreInv == semaphore \in {0, 1} /\ semaphore + Cardinality(Holders) = 1

(* The pictures that were selected are the first ones of their selection,   *)
(* a message was sent for those whose URL came, and who kept the semaphore   *)
(* has failed.                                                               *)
PicturesInv ==
  \A p \in Picture :
    /\ stage[p] = "none" <=> p[2] > count[p[1]]
    /\ sent[p] = IF stage[p] = "sent" THEN 1 ELSE 0
    /\ stage[p] \in {"failed", "unlinked"} => failures > 0

(* While there is one selection succesCount counts its uploads; an upload of *)
(* a single picture is not counted.                                          *)
CountInv ==
  /\ Made = {} => succesCount = 0
  /\ Made = {1} /\ count[1] > 1 => succesCount = Cardinality(Uploaded(1))
  /\ Made = {1} /\ count[1] = 1 => succesCount = 0

IInv ==
  /\ Typed /\ SemaphoreInv /\ PicturesInv /\ CountInv
  /\ StopsOnlyAfterFailure /\ BarTellsOfFirstSelection

-----------------------------------------------------------------------------
(* Pictures *)

LEMMA PicturePair ==
  ASSUME NEW p \in Picture
  PROVE  /\ p[1] \in Selection /\ p[2] \in 1..MaxPictures /\ p = <<p[1], p[2]>>
         /\ p[1] \in Nat /\ p[2] \in Nat
BY ImageSenderAssumption DEF Picture, Selection

LEMMA PicturesFinite == IsFiniteSet(Picture)
<1>1. IsFiniteSet(Selection) /\ IsFiniteSet(1..MaxPictures)
  BY ImageSenderAssumption, FS_Interval DEF Selection
<1>2. QED
  BY <1>1, FS_Product DEF Picture

LEMMA SetsFinite ==
  /\ IsFiniteSet(Holders) /\ Cardinality(Holders) \in Nat
  /\ \A s : IsFiniteSet(Uploaded(s)) /\ Cardinality(Uploaded(s)) \in Nat
<1>1. Holders \subseteq Picture /\ \A s : Uploaded(s) \subseteq Picture
  BY DEF Holders, Uploaded
<1>2. QED
  BY <1>1, PicturesFinite, FS_Subset, FS_CardinalityType

(* No more pictures of a selection are uploaded than were selected. *)
LEMMA UploadedBounded ==
  ASSUME Typed, PicturesInv, NEW s \in Selection
  PROVE  /\ Uploaded(s) \subseteq {s} \X (1..count[s])
         /\ Cardinality({s} \X (1..count[s])) = count[s]
         /\ IsFiniteSet({s} \X (1..count[s]))
<1>1. count[s] \in Nat
  BY ImageSenderAssumption DEF Typed
<1>2. ASSUME NEW p \in Uploaded(s)
      PROVE  p \in {s} \X (1..count[s])
  <2>1. p \in Picture /\ p[1] = s /\ stage[p] # "none"
    BY <1>2 DEF Uploaded
  <2>2. p[2] \in Nat /\ p[2] >= 1 /\ p = <<p[1], p[2]>>
    BY <2>1, PicturePair
  <2>3. ~(p[2] > count[s])
    BY <2>1 DEF PicturesInv
  <2>4. p[2] \in 1..count[s]
    BY <1>1, <2>2, <2>3
  <2>5. QED
    BY <2>1, <2>2, <2>4
<1>3. IsFiniteSet({s}) /\ Cardinality({s}) = 1
  BY FS_Singleton
<1>4. IsFiniteSet(1..count[s]) /\ Cardinality(1..count[s]) = count[s]
  <2> DEFINE n == count[s]
  <2>1. 1 \in Int /\ n \in Int /\ (IF 1 > n THEN 0 ELSE n - 1 + 1) = n
    BY <1>1
  <2> HIDE DEF n
  <2>2. IsFiniteSet(1..n) /\ Cardinality(1..n) = n
    BY ONLY <2>1, FS_Interval
  <2>3. QED
    BY <2>2 DEF n
<1>5. /\ IsFiniteSet({s} \X (1..count[s]))
      /\ Cardinality({s} \X (1..count[s])) = Cardinality({s}) * Cardinality(1..count[s])
  BY <1>3, <1>4, FS_Product
<1>6. QED
  BY <1>1, <1>2, <1>3, <1>4, <1>5

-----------------------------------------------------------------------------
(* The steps *)

LEMMA InitIInv == SenderInit => IInv
<1> SUFFICES ASSUME SenderInit PROVE IInv
  OBVIOUS
<1>1. Typed
  <2>1. /\ count \in [Selection -> 0..MaxPictures] /\ stage \in [Picture -> Stages]
        /\ succesCount \in Nat /\ failures \in Nat /\ sent \in [Picture -> 0..1]
    BY ImageSenderAssumption DEF SenderInit, Stages
  <2>2. progressBar \in BOOLEAN /\ alive \in BOOLEAN /\ left \in BOOLEAN /\ stopped \in BOOLEAN
    BY DEF SenderInit
  <2>3. QED
    BY <2>1, <2>2, Zenon DEF Typed
<1>2. SemaphoreInv
  <2>1. Holders = {}
    BY DEF SenderInit, Holders
  <2>2. QED
    BY <2>1, FS_EmptySet DEF SenderInit, SemaphoreInv
<1>3. PicturesInv
  BY PicturePair DEF SenderInit, PicturesInv
<1>4. Made = {}
  BY DEF SenderInit, Made
<1>5. CountInv /\ StopsOnlyAfterFailure /\ BarTellsOfFirstSelection
  BY <1>4 DEF SenderInit, CountInv, StopsOnlyAfterFailure, BarTellsOfFirstSelection
<1>6. QED
  BY <1>1, <1>2, <1>3, <1>5 DEF IInv

(* Who holds the semaphore and what is uploaded did not change. *)
LEMMA HoldersStay ==
  ASSUME IInv, NEW p \in Picture, NEW to \in Stages, Move(p, to),
         stage[p] \in {"uploading", "asking", "failed", "unlinked"} <=>
           to \in {"uploading", "asking", "failed", "unlinked"},
         semaphore' = semaphore
  PROVE  SemaphoreInv'
<1>1. Holders' = Holders
  BY DEF IInv, Typed, Move, Holders
<1>2. QED
  BY <1>1 DEF IInv, SemaphoreInv

(* A picture goes on; nothing is uploaded or counted. *)
LEMMA UploadedStay ==
  ASSUME IInv, NEW p \in Picture, NEW to \in Stages, Move(p, to),
         stage[p] \in {"asking", "sent", "unlinked"} <=> to \in {"asking", "sent", "unlinked"},
         UNCHANGED <<count, succesCount, progressBar>>
  PROVE  CountInv' /\ BarTellsOfFirstSelection'
<1>1. \A s : Uploaded(s)' = Uploaded(s)
  BY DEF IInv, Typed, Move, Uploaded
<1>2. Made' = Made
  BY DEF Made
<1>3. QED
  BY <1>1, <1>2 DEF IInv, CountInv, BarTellsOfFirstSelection

(* A picture that was selected goes on. *)
LEMMA PictureMoves ==
  ASSUME IInv, NEW p \in Picture, stage[p] # "none", stage[p] # "sent",
         NEW to \in Stages \ {"none"}, Move(p, to),
         to \in {"failed", "unlinked"} => failures' > 0,
         sent' = IF to = "sent" THEN [sent EXCEPT ![p] = @ + 1] ELSE sent,
         failures' \in Nat, failures' >= failures, count' = count
  PROVE  /\ PicturesInv' /\ stage' \in [Picture -> Stages] /\ sent' \in [Picture -> 0..1]
<1>1. stage' = [stage EXCEPT ![p] = to] /\ stage \in [Picture -> Stages] /\ failures \in Nat
  BY DEF IInv, Typed, Move
<1>2. sent[p] = 0 /\ sent \in [Picture -> 0..1]
  BY DEF IInv, Typed, PicturesInv
<1>3. sent' \in [Picture -> 0..1]
  BY <1>2
<1>4. PicturesInv'
  <2> SUFFICES ASSUME NEW q \in Picture
               PROVE  /\ stage'[q] = "none" <=> q[2] > count[q[1]]
                      /\ sent'[q] = IF stage'[q] = "sent" THEN 1 ELSE 0
                      /\ stage'[q] \in {"failed", "unlinked"} => failures' > 0
    BY DEF PicturesInv
  <2>1. /\ stage[q] = "none" <=> q[2] > count[q[1]]
        /\ sent[q] = IF stage[q] = "sent" THEN 1 ELSE 0
        /\ stage[q] \in {"failed", "unlinked"} => failures > 0
    BY DEF IInv, PicturesInv
  <2>2. CASE q = p
    <3>1. stage'[q] = to /\ sent'[q] = IF to = "sent" THEN 1 ELSE 0
      <4>1. CASE to = "sent"
        <5>1. sent' = [sent EXCEPT ![p] = sent[p] + 1] /\ sent[p] + 1 = 1
          BY <1>2, <4>1
        <5>2. QED
          BY <1>1, <1>2, <2>2, <4>1, <5>1
      <4>2. CASE to # "sent"
        BY <1>1, <1>2, <2>2, <4>2
      <4>3. QED
        BY <4>1, <4>2
    <3>2. to # "none" /\ ~(q[2] > count[q[1]])
      BY <2>1, <2>2
    <3>3. QED
      BY <3>1, <3>2
  <2>3. CASE q # p
    <3>1. stage'[q] = stage[q] /\ sent'[q] = sent[q]
      BY <1>1, <1>2, <2>3
    <3>2. failures > 0 => failures' > 0
      BY <1>1
    <3>3. QED
      BY <2>1, <3>1, <3>2
  <2>4. QED
    BY <2>2, <2>3
<1>5. QED
  BY <1>1, <1>3, <1>4

LEMMA DidSelectImagesIInv ==
  ASSUME IInv, NEW n \in 1..MaxPictures, DidSelectImages(n)
  PROVE  IInv'
<1>1. PICK s \in Selection :
        /\ count[s] = 0 /\ \A r \in Selection : r < s => count[r] > 0
        /\ count' = [count EXCEPT ![s] = n]
        /\ stage' = [p \in Picture |-> IF p[1] = s /\ p[2] <= n THEN "resolving" ELSE stage[p]]
  BY DEF DidSelectImages
<1>2. /\ progressBar' = TRUE
      /\ UNCHANGED <<semaphore, succesCount, alive, left, stopped, sent, failures>>
  BY DEF DidSelectImages
<1>3. Typed /\ PicturesInv /\ n \in Nat /\ n > 0
  BY ImageSenderAssumption DEF IInv
<1>4. Typed'
  BY <1>1, <1>2, <1>3, ImageSenderAssumption DEF Typed, Stages
<1>5. \A p \in Picture : p[1] = s => stage[p] = "none"
  BY <1>1, <1>3, PicturePair DEF PicturesInv
<1>6. PicturesInv'
  <2> SUFFICES ASSUME NEW p \in Picture
               PROVE  /\ stage'[p] = "none" <=> p[2] > count'[p[1]]
                      /\ sent'[p] = IF stage'[p] = "sent" THEN 1 ELSE 0
                      /\ stage'[p] \in {"failed", "unlinked"} => failures' > 0
    BY DEF PicturesInv
  <2>1. /\ p[1] \in Selection /\ p[2] \in Nat
        /\ stage[p] = "none" <=> p[2] > count[p[1]]
        /\ sent[p] = IF stage[p] = "sent" THEN 1 ELSE 0
        /\ stage[p] \in {"failed", "unlinked"} => failures > 0
        /\ stage'[p] = IF p[1] = s /\ p[2] <= n THEN "resolving" ELSE stage[p]
        /\ count'[p[1]] = IF p[1] = s THEN n ELSE count[p[1]]
    BY <1>1, <1>3, PicturePair DEF PicturesInv, Typed
  <2>2. CASE p[1] = s
    BY <1>2, <1>3, <1>5, <2>1, <2>2
  <2>3. CASE p[1] # s
    BY <1>2, <2>1, <2>3
  <2>4. QED
    BY <2>2, <2>3
<1>7. SemaphoreInv'
  <2>1. Holders' = Holders
    BY <1>1, <1>5 DEF Holders
  <2>2. QED
    BY <1>2, <2>1 DEF IInv, SemaphoreInv
<1>8. Made' = Made \cup {s} /\ s \notin Made
  BY <1>1, <1>3 DEF Made, Typed
<1>9. CountInv' /\ BarTellsOfFirstSelection'
  <2>1. CASE Made = {}
    <3>1. 1 \in Selection /\ s \in Nat /\ s >= 1
      BY ImageSenderAssumption DEF Selection
    <3>2. s = 1
      BY <1>1, <2>1, <3>1 DEF Made
    <3>3. Uploaded(1)' = {}
      BY <1>1, <1>5, <3>2 DEF Uploaded
    <3>4. count'[1] = n /\ succesCount' = 0
      BY <1>1, <1>2, <1>3, <2>1, <3>2 DEF Typed, IInv, CountInv
    <3>5. Cardinality(Uploaded(1)') = 0
      BY <3>3, FS_EmptySet
    <3>6. QED
      BY <1>2, <1>3, <1>8, <3>4, <3>5 DEF CountInv, BarTellsOfFirstSelection
  <2>2. CASE Made # {}
    <3>1. Made' # {1} /\ Made' # {}
      BY <1>8, <2>2
    <3>2. QED
      BY <3>1 DEF CountInv, BarTellsOfFirstSelection
  <2>3. QED
    BY <2>1, <2>2
<1>10. StopsOnlyAfterFailure'
  BY <1>2 DEF IInv, StopsOnlyAfterFailure
<1>11. QED
  BY <1>4, <1>6, <1>7, <1>9, <1>10 DEF IInv

LEMMA ResolveIInv == ASSUME IInv, NEW p \in Picture, Resolve(p) PROVE IInv'
<1>1. /\ stage[p] = "resolving"
      /\ UNCHANGED <<count, semaphore, succesCount, progressBar, alive, left, sent>>
      /\ failures \in Nat
  BY DEF Resolve, IInv, Typed
<1>2. ASSUME NEW to \in {"delayed", "skipped"}, Move(p, to), UNCHANGED <<stopped, failures>>
      PROVE  IInv'
  <2>1. /\ to \in Stages \ {"none"} /\ to # "sent"
        /\ to \notin {"uploading", "asking", "failed", "unlinked"}
        /\ to \notin {"asking", "sent", "unlinked"}
    BY DEF Stages
  <2>2. PicturesInv' /\ stage' \in [Picture -> Stages] /\ sent' \in [Picture -> 0..1]
    BY <1>1, <1>2, <2>1, PictureMoves
  <2>3. SemaphoreInv' /\ CountInv' /\ BarTellsOfFirstSelection'
    BY <1>1, <1>2, <2>1, HoldersStay, UploadedStay
  <2>4. QED
    BY <1>1, <1>2, <2>2, <2>3 DEF IInv, Typed, StopsOnlyAfterFailure
<1>3. CASE failures' = failures + 1 /\ stopped' = TRUE /\ UNCHANGED stage
  <2>1. failures' \in Nat /\ failures' > 0 /\ Holders' = Holders /\ Made' = Made
    BY <1>1, <1>3 DEF Holders, Made
  <2>2. \A s : Uploaded(s)' = Uploaded(s)
    BY <1>3 DEF Uploaded
  <2>3. Typed' /\ SemaphoreInv' /\ PicturesInv' /\ StopsOnlyAfterFailure'
    BY <1>1, <1>3, <2>1 DEF IInv, Typed, SemaphoreInv, PicturesInv, StopsOnlyAfterFailure
  <2>4. CountInv' /\ BarTellsOfFirstSelection'
    BY <1>1, <2>1, <2>2 DEF IInv, CountInv, BarTellsOfFirstSelection
  <2>5. QED
    BY <2>3, <2>4 DEF IInv
<1>4. QED
  BY <1>2, <1>3 DEF Resolve

LEMMA StartUploadIInv == ASSUME IInv, NEW p \in Picture, StartUpload(p) PROVE IInv'
<1>1. /\ stage[p] = "delayed" /\ semaphore > 0 /\ semaphore' = semaphore - 1
      /\ Move(p, "uploading")
      /\ UNCHANGED <<count, succesCount, progressBar, alive, left, stopped, sent, failures>>
      /\ failures \in Nat
  BY DEF StartUpload, IInv, Typed
<1>2. "uploading" \in Stages \ {"none"}
  BY DEF Stages
<1>3. PicturesInv' /\ stage' \in [Picture -> Stages] /\ sent' \in [Picture -> 0..1]
  BY <1>1, <1>2, PictureMoves
<1>4. CountInv' /\ BarTellsOfFirstSelection'
  BY <1>1, <1>2, UploadedStay
<1>5. SemaphoreInv'
  <2>1. semaphore = 1 /\ Cardinality(Holders) = 0
    BY <1>1, SetsFinite DEF IInv, SemaphoreInv
  <2>2. Holders = {}
    BY <2>1, SetsFinite, FS_EmptySet
  <2>3. Holders' = {p}
    BY <1>1, <2>2 DEF Holders, Move, IInv, Typed
  <2>4. QED
    BY <1>1, <2>1, <2>3, FS_Singleton DEF SemaphoreInv
<1>6. QED
  BY <1>1, <1>3, <1>4, <1>5 DEF IInv, Typed, StopsOnlyAfterFailure

(* One more picture of the first selection is uploaded. *)
LEMMA OneMoreUploaded ==
  ASSUME IInv, NEW p \in Picture, stage[p] = "uploading", Move(p, "asking"),
         CountSuccess(count[p[1]]), UNCHANGED count
  PROVE  CountInv' /\ BarTellsOfFirstSelection'
<1> DEFINE s == p[1]
           n == count[s]
<1>1. s \in Selection /\ p[2] \in Nat /\ p[2] >= 1 /\ n \in Nat
  BY PicturePair, ImageSenderAssumption DEF IInv, Typed
<1>2. n > 0 /\ s \in Made
  <2>1. ~(p[2] > n)
    BY DEF IInv, PicturesInv
  <2>2. QED
    BY <1>1, <2>1 DEF Made
<1>3. Made' = Made
  BY DEF Made
<1>4. CASE Made # {1}
  <2>1. Made' # {1} /\ Made' # {}
    BY <1>2, <1>3, <1>4
  <2>2. QED
    BY <2>1 DEF CountInv, BarTellsOfFirstSelection
<1>5. CASE Made = {1}
  <2>1. s = 1
    BY <1>2, <1>5
  <2> DEFINE U == Uploaded(1)
             W == {1} \X (1..count[1])
  <2>2. U' = U \cup {p} /\ p \notin U
    BY <2>1 DEF Uploaded, Move, IInv, Typed
  <2>3. /\ U \subseteq W /\ Cardinality(W) = n /\ IsFiniteSet(W)
    BY <1>1, <2>1, UploadedBounded DEF IInv
  <2>4. p \in W
    <3>1. p = <<1, p[2]>> /\ ~(p[2] > count[1])
      BY <2>1, PicturePair DEF IInv, PicturesInv
    <3>2. p[2] \in 1..count[1]
      BY <1>1, <2>1, <3>1
    <3>3. QED
      BY <3>1, <3>2
  <2> HIDE DEF W
  <2>5. IsFiniteSet(U) /\ Cardinality(U) \in Nat
    BY SetsFinite
  <2> HIDE DEF U
  <2>6. Cardinality(U') = Cardinality(U) + 1 /\ Cardinality(U \cup {p}) <= n
    <3>1. Cardinality(U \cup {p}) = Cardinality(U) + 1
      BY <2>2, <2>5, FS_AddElement
    <3>2. U \cup {p} \in SUBSET W
      BY <2>3, <2>4
    <3>3. Cardinality(U \cup {p}) <= n
      BY <2>3, <3>2, FS_Subset
    <3>4. QED
      BY <2>2, <3>1, <3>3
  <2>7. Cardinality(U') <= n /\ Cardinality(U) < n
    BY <1>1, <2>2, <2>5, <2>6
  <2>8. progressBar = TRUE
    <3>1. progressBar = (Cardinality(U) < n)
      BY <1>5, <2>1 DEF U, IInv, BarTellsOfFirstSelection
    <3>2. QED
      BY <2>7, <3>1
  <2>9. /\ succesCount' = IF n > 1 THEN succesCount + 1 ELSE succesCount
        /\ progressBar' = ~(n = 1 \/ succesCount' = n)
    BY <2>8 DEF CountSuccess
  <2>10. CASE n > 1
    <3>1. succesCount = Cardinality(U)
      BY <1>5, <2>1, <2>10 DEF U, IInv, CountInv
    <3>2. succesCount' = Cardinality(U')
      BY <2>6, <2>9, <2>10, <3>1
    <3>3. progressBar' = (Cardinality(U') < n)
      <4> HIDE DEF n
      <4>1. (n = 1 \/ Cardinality(U') = n) <=> ~(Cardinality(U') < n)
        BY <1>1, <2>5, <2>6, <2>7, <2>10
      <4>2. QED
        BY <2>9, <3>2, <4>1
    <3>4. QED
      BY <1>3, <1>5, <2>1, <2>10, <3>2, <3>3 DEF U, CountInv, BarTellsOfFirstSelection
  <2>11. CASE n = 1
    <3>1. succesCount' = 0
      BY <1>5, <2>1, <2>9, <2>11 DEF IInv, CountInv
    <3>2. ~(Cardinality(U') < n)
      BY <2>5, <2>6, <2>11
    <3>3. progressBar' = (Cardinality(U') < n)
      <4>1. (n = 1 \/ succesCount' = n) <=> ~(Cardinality(U') < n)
        BY <2>11, <3>2
      <4> HIDE DEF n
      <4>2. QED
        BY <2>9, <4>1
    <3>4. count'[1] = 1 /\ Cardinality(U') < n <=> Cardinality(Uploaded(1)') < count'[1]
      BY <2>1, <2>11 DEF U
    <3>5. QED
      BY <1>3, <1>5, <2>1, <2>11, <3>1, <3>3 DEF U, CountInv, BarTellsOfFirstSelection
  <2>12. QED
    BY <1>1, <1>2, <2>10, <2>11
<1>6. QED
  BY <1>4, <1>5

LEMMA PutDataDoneIInv == ASSUME IInv, NEW p \in Picture, PutDataDone(p) PROVE IInv'
<1>1. /\ stage[p] = "uploading" /\ CountSuccess(count[p[1]]) /\ Move(p, "asking")
      /\ UNCHANGED <<count, semaphore, alive, left, stopped, sent, failures>>
      /\ failures \in Nat
  BY DEF PutDataDone, IInv, Typed
<1>2. "asking" \in Stages \ {"none"}
  BY DEF Stages
<1>3. PicturesInv' /\ stage' \in [Picture -> Stages] /\ sent' \in [Picture -> 0..1]
  BY <1>1, <1>2, PictureMoves
<1>4. SemaphoreInv' /\ CountInv' /\ BarTellsOfFirstSelection'
  BY <1>1, <1>2, HoldersStay, OneMoreUploaded
<1>5. succesCount' \in Nat /\ progressBar' \in BOOLEAN
  BY <1>1 DEF CountSuccess, IInv, Typed
<1>6. QED
  BY <1>1, <1>3, <1>4, <1>5 DEF IInv, Typed, StopsOnlyAfterFailure

LEMMA UploadFailsIInv == ASSUME IInv, NEW p \in Picture, UploadFails(p) PROVE IInv'
<1> DEFINE to == IF stage[p] = "asking" THEN "unlinked" ELSE "failed"
<1>1. /\ stage[p] \in {"uploading", "asking"} /\ Move(p, to) /\ failures' = failures + 1
      /\ UNCHANGED <<count, semaphore, succesCount, progressBar, alive, left, stopped, sent>>
      /\ failures \in Nat
  BY DEF UploadFails, IInv, Typed
<1>2. to \in Stages \ {"none"} /\ to # "sent" /\ to \in {"failed", "unlinked"}
  BY DEF Stages
<1>3. stage[p] \in {"asking", "sent", "unlinked"} <=> to \in {"asking", "sent", "unlinked"}
  BY <1>1
<1> HIDE DEF to
<1>4. failures' \in Nat /\ failures' > 0 /\ failures' >= failures
  BY <1>1
<1>5. PicturesInv' /\ stage' \in [Picture -> Stages] /\ sent' \in [Picture -> 0..1]
  BY <1>1, <1>2, <1>4, PictureMoves
<1>6. SemaphoreInv' /\ CountInv' /\ BarTellsOfFirstSelection'
  BY <1>1, <1>2, <1>3, HoldersStay, UploadedStay
<1>7. QED
  BY <1>1, <1>4, <1>5, <1>6 DEF IInv, Typed, StopsOnlyAfterFailure

LEMMA DownloadURLDoneIInv == ASSUME IInv, NEW p \in Picture, DownloadURLDone(p) PROVE IInv'
<1>1. /\ stage[p] = "asking" /\ Move(p, "sent") /\ sent' = [sent EXCEPT ![p] = @ + 1]
      /\ semaphore' = semaphore + 1
      /\ UNCHANGED <<count, succesCount, progressBar, alive, left, stopped, failures>>
      /\ failures \in Nat
  BY DEF DownloadURLDone, IInv, Typed
<1>2. "sent" \in Stages \ {"none"}
  BY DEF Stages
<1>3. PicturesInv' /\ stage' \in [Picture -> Stages] /\ sent' \in [Picture -> 0..1]
  <2> DEFINE to == "sent"
  <2>1. /\ to \in Stages \ {"none"} /\ to = "sent" /\ Move(p, to)
        /\ stage[p] # "none" /\ stage[p] # "sent"
    BY <1>1, <1>2
  <2>2. failures' \in Nat /\ failures' >= failures
    BY <1>1
  <2> HIDE DEF to
  <2>3. sent' = IF to = "sent" THEN [sent EXCEPT ![p] = @ + 1] ELSE sent
    BY <1>1, <2>1
  <2>4. to \in {"failed", "unlinked"} => failures' > 0
    BY <2>1
  <2>5. QED
    BY <1>1, <2>1, <2>2, <2>3, <2>4, PictureMoves
<1>4. CountInv' /\ BarTellsOfFirstSelection'
  BY <1>1, <1>2, UploadedStay
<1>5. SemaphoreInv'
  <2>1. p \in Holders
    BY <1>1 DEF Holders
  <2>2. Cardinality(Holders) # 0
    BY <2>1, SetsFinite, FS_EmptySet
  <2>3. semaphore = 0 /\ Cardinality(Holders) = 1
    BY <2>2, SetsFinite DEF IInv, SemaphoreInv
  <2>4. Holders = {p}
    BY <2>1, <2>3, SetsFinite, FS_Singleton
  <2>5. Holders' = {}
    BY <1>1, <2>4 DEF Holders, Move, IInv, Typed
  <2>6. QED
    BY <1>1, <2>3, <2>5, FS_EmptySet DEF SemaphoreInv
<1>6. QED
  BY <1>1, <1>3, <1>4, <1>5 DEF IInv, Typed, StopsOnlyAfterFailure

(* A step that touches neither pictures nor what is counted of them. *)
LEMMA PicturesStay ==
  ASSUME IInv, UNCHANGED <<count, stage, semaphore, succesCount, progressBar, sent, failures>>,
         alive' \in BOOLEAN, left' \in BOOLEAN, stopped' \in BOOLEAN, StopsOnlyAfterFailure'
  PROVE  IInv'
<1>1. Holders' = Holders /\ Made' = Made
  BY DEF Holders, Made
<1>2. \A s : Uploaded(s)' = Uploaded(s)
  BY DEF Uploaded
<1>3. Typed' /\ SemaphoreInv' /\ PicturesInv'
  BY <1>1 DEF IInv, Typed, SemaphoreInv, PicturesInv
<1>4. CountInv' /\ BarTellsOfFirstSelection'
  BY <1>1, <1>2 DEF IInv, CountInv, BarTellsOfFirstSelection
<1>5. QED
  BY <1>3, <1>4 DEF IInv

LEMMA FreeIInv == IInv /\ Free => IInv'
<1> SUFFICES ASSUME IInv, Free PROVE IInv'
  OBVIOUS
<1>1. /\ \A p \in Picture : stage[p] \in {"none", "sent", "skipped", "failed", "unlinked"}
      /\ stopped' = (semaphore < 1) /\ alive' = FALSE
      /\ UNCHANGED <<count, stage, semaphore, succesCount, progressBar, left, sent, failures>>
  BY DEF Free
<1>2. semaphore < 1 => failures > 0
  <2> SUFFICES ASSUME semaphore < 1 PROVE failures > 0
    OBVIOUS
  <2>1. Cardinality(Holders) = 1
    BY SetsFinite DEF IInv, SemaphoreInv
  <2>2. PICK p : Holders = {p}
    BY <2>1, SetsFinite, FS_Singleton
  <2>3. p \in Picture /\ stage[p] \in {"failed", "unlinked"}
    BY <1>1, <2>2 DEF Holders
  <2>4. QED
    BY <2>3 DEF IInv, PicturesInv
<1>3. StopsOnlyAfterFailure'
  BY <1>1, <1>2 DEF StopsOnlyAfterFailure
<1>4. alive' \in BOOLEAN /\ left' \in BOOLEAN /\ stopped' \in BOOLEAN
  <2>1. left \in BOOLEAN /\ (semaphore < 1) \in BOOLEAN /\ FALSE \in BOOLEAN
    BY DEF IInv, Typed
  <2>2. QED
    BY <1>1, <2>1, Zenon
<1>5. QED
  BY <1>1, <1>3, <1>4, PicturesStay

LEMMA NextIInv == IInv /\ [SenderNext]_senderVars => IInv'
<1> SUFFICES ASSUME IInv, [SenderNext]_senderVars PROVE IInv'
  OBVIOUS
<1>1. CASE \E n \in 1..MaxPictures : DidSelectImages(n)
  BY <1>1, DidSelectImagesIInv
<1>2. CASE \E p \in Picture : Steps(p) \/ UploadFails(p)
  BY <1>2, ResolveIInv, StartUploadIInv, PutDataDoneIInv, DownloadURLDoneIInv, UploadFailsIInv
     DEF Steps
<1>3. CASE Leave
  <2>1. alive' \in BOOLEAN /\ left' \in BOOLEAN /\ stopped' \in BOOLEAN /\ StopsOnlyAfterFailure'
    BY <1>3 DEF Leave, IInv, Typed, StopsOnlyAfterFailure
  <2>2. QED
    BY <1>3, <2>1, PicturesStay DEF Leave
<1>4. CASE Free
  BY <1>4, FreeIInv
<1>5. CASE UNCHANGED senderVars
  <2>1. alive' \in BOOLEAN /\ left' \in BOOLEAN /\ stopped' \in BOOLEAN /\ StopsOnlyAfterFailure'
    BY <1>5 DEF senderVars, IInv, Typed, StopsOnlyAfterFailure
  <2>2. QED
    BY <1>5, <2>1, PicturesStay DEF senderVars
<1>6. QED
  BY <1>1, <1>2, <1>3, <1>4, <1>5 DEF SenderNext

THEOREM Invariance == SenderSpec => []IInv
BY InitIInv, NextIInv, PTL DEF SenderSpec

-----------------------------------------------------------------------------
(* The semaphore of ConservationController lets one picture at a time pass,  *)
(* whatever is selected meanwhile, and the app is stopped only after a       *)
(* picture, its upload or the query for its URL failed.                      *)
THEOREM SemaphoreKept == SenderSpec => []SenderInv
<1>1. IInv => SenderInv
  BY DEF IInv, Typed, SemaphoreInv, Holders, SenderInv, SenderTypeOK
<1>2. QED
  BY <1>1, Invariance, PTL

(* The progress bar of the first selection is shown until the last of its    *)
(* pictures is uploaded, for any number of pictures in any order, and for    *)
(* ever if one of them is skipped.                                           *)
THEOREM FirstBar == SenderSpec => []BarTellsOfFirstSelection
<1>1. IInv => BarTellsOfFirstSelection
  BY DEF IInv
<1>2. QED
  BY <1>1, Invariance, PTL
=============================================================================
