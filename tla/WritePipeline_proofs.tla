------------------------ MODULE WritePipeline_proofs ------------------------
(***************************************************************************)
(* The safety of WritePipeline, and that it implements WriteQueue, for any *)
(* users, any size of the pipeline, and any number of writes and faults.   *)
(***************************************************************************)
EXTENDS WritePipeline, SequenceTheorems, WellFoundedInduction, TLAPS

IInv == PipelineInv /\ TellsTruth /\ NoWriteLost

Message == Batch \cup {Hello}

-----------------------------------------------------------------------------
(* Sequences *)

LEMMA OneIsAll ==
  ASSUME NEW a \in Nat, NEW b \in Nat, a # 0, a + b = 1
  PROVE  a = 1 /\ b = 0
OBVIOUS

LEMMA BatchIsNotHello == Hello \notin Batch /\ NoBatch \notin Batch /\ NoBatch # Hello
BY DEF Hello, Batch, NoBatch, Writes

(* A prefix, element by element. *)
LEMMA PrefixIndices ==
  ASSUME NEW S, NEW p \in Seq(S), NEW q \in Seq(S)
  PROVE  IsPrefix(p, q) <=> Len(p) <= Len(q) /\ \A i \in 1..Len(p) : p[i] = q[i]
<1>1. Len(p) \in Nat /\ Len(q) \in Nat /\ DOMAIN p = 1..Len(p) /\ DOMAIN q = 1..Len(q)
  BY LenProperties
<1>2. SubSeq(p, 1, Len(p)) = p
  BY SubSeqFull
<1>3. CASE Len(p) <= Len(q)
  <2>1. \A i \in 1..Len(p) : q[i] \in S
    BY <1>1, <1>3, ElementOfSeq
  <2> DEFINE s == SubSeq(q, 1, Len(p))
  <2>2. Len(p) = 0 \/ 1 <= Len(p)
    BY <1>1
  <2>3. s \in Seq(S) /\ Len(s) = Len(p) /\ \A i \in 1..Len(p) : s[i] = q[i]
    <3>1. /\ s \in Seq(S)
          /\ Len(s) = IF 1 <= Len(p) THEN Len(p) - 1 + 1 ELSE 0
          /\ \A i \in 1..(Len(p) - 1 + 1) : s[i] = q[1 + i - 1]
      BY <1>1, <2>1, SubSeqProperties DEF s
    <3>2. QED
      BY <1>1, <2>2, <3>1
  <2> HIDE DEF s
  <2>4. p = s <=> \A i \in 1..Len(p) : p[i] = q[i]
    BY <2>3, SeqEqual
  <2>5. QED
    BY <1>2, <1>3, <2>4 DEF IsPrefix, s
<1>4. CASE ~(Len(p) <= Len(q))
  BY <1>4 DEF IsPrefix
<1>5. QED
  BY <1>3, <1>4

LEMMA PrefixOfLonger ==
  ASSUME NEW S, NEW p \in Seq(S), NEW q \in Seq(S), NEW b \in S, IsPrefix(p, q)
  PROVE  IsPrefix(p, Append(q, b))
<1>1. Len(p) <= Len(q) /\ \A i \in 1..Len(p) : p[i] = q[i]
  BY PrefixIndices
<1>2. Len(p) \in Nat /\ Len(q) \in Nat
  BY LenProperties
<1>3. /\ Append(q, b) \in Seq(S) /\ Len(Append(q, b)) = Len(q) + 1
      /\ \A i \in 1..Len(q) : Append(q, b)[i] = q[i]
  BY AppendProperties
<1> DEFINE r == Append(q, b)
<1> HIDE DEF r
<1>4. r \in Seq(S) /\ Len(p) <= Len(r) /\ \A i \in 1..Len(p) : p[i] = r[i]
  BY <1>1, <1>2, <1>3 DEF r
<1>5. IsPrefix(p, r)
  BY <1>4, PrefixIndices
<1>6. QED
  BY <1>5 DEF r

LEMMA TailOfPrefix ==
  ASSUME NEW S, NEW p \in Seq(S), NEW q \in Seq(S), IsPrefix(p, q), p # <<>>
  PROVE  /\ q # <<>> /\ Head(p) = Head(q) /\ Head(p) \in S
         /\ Tail(p) \in Seq(S) /\ Tail(q) \in Seq(S)
         /\ IsPrefix(Tail(p), Tail(q))
<1>1. Len(p) <= Len(q) /\ \A i \in 1..Len(p) : p[i] = q[i]
  BY PrefixIndices
<1>2. Len(p) \in Nat \ {0} /\ Len(q) \in Nat
  BY LenProperties, EmptySeq
<1>3. q # <<>>
  BY <1>1, <1>2
<1>4. /\ Tail(p) \in Seq(S) /\ Len(Tail(p)) = Len(p) - 1
      /\ \A i \in 1..Len(Tail(p)) : Tail(p)[i] = p[i + 1]
  BY HeadTailProperties
<1>5. /\ Tail(q) \in Seq(S) /\ Len(Tail(q)) = Len(q) - 1
      /\ \A i \in 1..Len(Tail(q)) : Tail(q)[i] = q[i + 1]
  BY <1>3, HeadTailProperties
<1>6. \A i \in 1..Len(Tail(p)) : Tail(p)[i] = Tail(q)[i]
  BY <1>1, <1>2, <1>4, <1>5
<1> DEFINE pt == Tail(p)
           qt == Tail(q)
<1>7. IsPrefix(Tail(p), Tail(q))
  <2>1. /\ pt \in Seq(S) /\ qt \in Seq(S) /\ Len(pt) <= Len(qt)
        /\ \A i \in 1..Len(pt) : pt[i] = qt[i]
    BY <1>1, <1>2, <1>4, <1>5, <1>6
  <2> HIDE DEF pt, qt
  <2>2. IsPrefix(pt, qt)
    BY <2>1, PrefixIndices
  <2>3. QED
    BY <2>2 DEF pt, qt
<1>8. Head(p) = p[1] /\ Head(q) = q[1]
  BY <1>3
<1>9. QED
  BY <1>1, <1>2, <1>3, <1>4, <1>5, <1>7, <1>8, ElementOfSeq

LEMMA TailOfConcat ==
  ASSUME NEW S, NEW s \in Seq(S), NEW t \in Seq(S), s # <<>>
  PROVE  /\ s \o t # <<>>
         /\ Head(s \o t) = Head(s)
         /\ Tail(s \o t) = Tail(s) \o t
<1>1. /\ s \o t \in Seq(S) /\ Len(s \o t) = Len(s) + Len(t)
      /\ \A i \in 1..(Len(s) + Len(t)) :
           (s \o t)[i] = IF i <= Len(s) THEN s[i] ELSE t[i - Len(s)]
  BY ConcatProperties
<1>2. Len(s) \in Nat \ {0} /\ Len(t) \in Nat
  BY LenProperties, EmptySeq
<1>3. s \o t # <<>>
  BY <1>1, <1>2
<1>4. Head(s \o t) = (s \o t)[1] /\ Head(s) = s[1]
  BY <1>1, <1>3
<1>5. /\ Tail(s) \in Seq(S) /\ Len(Tail(s)) = Len(s) - 1
      /\ \A i \in 1..Len(Tail(s)) : Tail(s)[i] = s[i + 1]
  BY HeadTailProperties
<1>6. /\ Tail(s \o t) \in Seq(S) /\ Len(Tail(s \o t)) = Len(s \o t) - 1
      /\ \A i \in 1..Len(Tail(s \o t)) : Tail(s \o t)[i] = (s \o t)[i + 1]
  BY <1>1, <1>3, HeadTailProperties
<1> DEFINE a == Tail(s)
           c == Tail(s \o t)
           d == a \o t
<1>7. /\ d \in Seq(S) /\ Len(d) = Len(a) + Len(t)
      /\ \A i \in 1..(Len(a) + Len(t)) : d[i] = IF i <= Len(a) THEN a[i] ELSE t[i - Len(a)]
  BY <1>5, ConcatProperties
<1>8. c \in Seq(S) /\ Len(c) = Len(d)
  BY <1>1, <1>2, <1>5, <1>6, <1>7
<1>9. ASSUME NEW i \in 1..Len(c) PROVE c[i] = d[i]
  <2>1. i \in Int /\ i >= 1 /\ i <= Len(s) - 1 + Len(t)
    BY <1>2, <1>5, <1>7, <1>8
  <2>2. c[i] = IF i + 1 <= Len(s) THEN s[i + 1] ELSE t[i + 1 - Len(s)]
    BY <1>1, <1>2, <1>6, <2>1
  <2>3. d[i] = IF i <= Len(s) - 1 THEN a[i] ELSE t[i - (Len(s) - 1)]
    BY <1>2, <1>5, <1>7, <2>1
  <2>4. i <= Len(s) - 1 => a[i] = s[i + 1]
    BY <1>2, <1>5, <2>1
  <2>5. i - (Len(s) - 1) = i + 1 - Len(s)
    BY <1>2, <2>1
  <2>6. QED
    BY <1>2, <2>1, <2>2, <2>3, <2>4, <2>5
<1>10. c = d
  BY <1>7, <1>8, <1>9, SeqEqual
<1>11. QED
  BY <1>1, <1>2, <1>3, <1>4, <1>10

(* A sequence is its first element and the rest. *)
LEMMA HeadAndTail ==
  ASSUME NEW S, NEW s \in Seq(S), s # <<>>
  PROVE  s = <<Head(s)>> \o Tail(s)
<1>1. Len(s) \in Nat \ {0}
  BY LenProperties, EmptySeq
<1>2. SubSeq(s, 1, Len(s)) = <<s[1]>> \o SubSeq(s, 2, Len(s))
  BY <1>1, SubSeqRecursiveFirst
<1>3. QED
  BY <1>2, SubSeqFull, TailIsSubSeq

-----------------------------------------------------------------------------
(* The operators of the pipeline *)

(* NextMutationBatchAfterBatchId skips what is in the pipeline. *)
LEMMA PassedIsPipeline ==
  ASSUME NEW p \in Seq(Batch), NEW q \in Seq(Batch), IsPrefix(p, q), Ascending(q)
  PROVE  Passed(p, q) = Len(p)
<1> DEFINE last == IF p = <<>> THEN -1 ELSE p[Len(p)].id
           Fits(k) == \A i \in DOMAIN q : q[i].id <= last <=> i <= k
<1>1. Len(p) \in Nat /\ Len(q) \in Nat /\ DOMAIN q = 1..Len(q)
  BY LenProperties
<1>2. Len(p) <= Len(q) /\ \A i \in 1..Len(p) : p[i] = q[i]
  BY PrefixIndices
<1>3. \A i \in 1..Len(q) : q[i] \in Batch /\ q[i].id \in Nat
  <2>1. \A i \in 1..Len(q) : q[i] \in Batch
    BY ElementOfSeq
  <2>2. \A b \in Batch : b.id \in Nat
    BY DEF Batch
  <2>3. QED
    BY <2>1, <2>2
<1>4. Fits(Len(p))
  <2>1. CASE p = <<>>
    BY <1>1, <1>3, <2>1
  <2>2. CASE p # <<>>
    <3>1. Len(p) \in 1..Len(q)
      BY <1>1, <1>2, <2>2, EmptySeq
    <3>2. last = q[Len(p)].id
      BY <1>2, <2>2, <3>1
    <3>3. \A i \in 1..Len(q) : i < Len(p) => q[i].id < q[Len(p)].id
      BY <1>1, <3>1 DEF Ascending
    <3>4. \A i \in 1..Len(q) : i > Len(p) => q[i].id > q[Len(p)].id
      BY <1>1, <3>1 DEF Ascending
    <3> HIDE DEF last
    <3>5. QED
      BY <1>1, <1>3, <3>1, <3>2, <3>3, <3>4
  <2>3. QED
    BY <2>1, <2>2
<1>5. ASSUME NEW j \in 0..Len(q), NEW k \in 0..Len(q), Fits(j), Fits(k)
      PROVE  j = k
  <2> HIDE DEF last
  <2>1. j < k => FALSE
    BY <1>1, <1>5
  <2>2. k < j => FALSE
    BY <1>1, <1>5
  <2>3. QED
    BY <2>1, <2>2
<1>6. Passed(p, q) = CHOOSE k \in 0..Len(q) : Fits(k)
  BY DEF Passed
<1> HIDE DEF Fits, last
<1>7. Len(p) \in 0..Len(q)
  BY <1>1, <1>2
<1>8. QED
  BY <1>4, <1>5, <1>6, <1>7

(* FillWritePipeline makes the pipeline a longer prefix of the queue. *)
LEMMA AddedFills ==
  ASSUME NEW p \in Seq(Batch), NEW q \in Seq(Batch), IsPrefix(p, q), Ascending(q),
         Len(p) <= MaxPendingWrites
  PROVE  /\ Added(p, q) \in Seq(Batch)
         /\ p \o Added(p, q) \in Seq(Batch)
         /\ IsPrefix(p \o Added(p, q), q)
         /\ Len(p \o Added(p, q)) <= MaxPendingWrites
<1> DEFINE n == IF Len(q) - Len(p) <= MaxPendingWrites - Len(p)
                  THEN Len(q) ELSE Len(p) + (MaxPendingWrites - Len(p))
           more == SubSeq(q, Len(p) + 1, n)
<1>1. Len(p) \in Nat /\ Len(q) \in Nat /\ MaxPendingWrites \in Nat
  BY LenProperties, PipelineAssumption
<1>2. Len(p) <= Len(q) /\ \A i \in 1..Len(p) : p[i] = q[i]
  BY PrefixIndices
<1>3. Added(p, q) = more
  BY PassedIsPipeline DEF Added
<1>4. n \in Nat /\ Len(p) <= n /\ n <= Len(q) /\ n <= MaxPendingWrites
  BY <1>1, <1>2
<1> HIDE DEF n
<1>5. \A i \in 1..Len(q) : q[i] \in Batch
  BY ElementOfSeq
<1>6. /\ more \in Seq(Batch)
      /\ Len(more) = n - Len(p)
      /\ \A i \in 1..(n - Len(p)) : more[i] = q[Len(p) + i]
  <2>1. \A i \in (Len(p) + 1)..n : q[i] \in Batch
    BY <1>1, <1>4, <1>5
  <2>2. Len(p) + 1 \in Int /\ n \in Int
    BY <1>1, <1>4
  <2>3. /\ more \in Seq(Batch)
        /\ Len(more) = IF Len(p) + 1 <= n THEN n - (Len(p) + 1) + 1 ELSE 0
        /\ \A i \in 1..(n - (Len(p) + 1) + 1) : more[i] = q[Len(p) + 1 + i - 1]
    BY <2>1, <2>2, SubSeqProperties
  <2> HIDE DEF more
  <2>4. Len(more) = n - Len(p)
    BY <1>1, <1>4, <2>3
  <2>5. n - (Len(p) + 1) + 1 = n - Len(p)
    BY <1>1, <1>4
  <2>6. \A i \in 1..(n - Len(p)) : Len(p) + 1 + i - 1 = Len(p) + i
    BY <1>1, <1>4
  <2>7. QED
    BY <2>3, <2>4, <2>5, <2>6
<1> HIDE DEF more
<1> DEFINE r == p \o more
<1>7. /\ r \in Seq(Batch) /\ Len(r) = Len(p) + Len(more)
      /\ \A i \in 1..(Len(p) + Len(more)) :
           r[i] = IF i <= Len(p) THEN p[i] ELSE more[i - Len(p)]
  BY <1>6, ConcatProperties
<1>8. Len(r) = n
  BY <1>1, <1>4, <1>6, <1>7
<1> HIDE DEF r
<1>9. ASSUME NEW i \in 1..n PROVE r[i] = q[i]
  <2>1. CASE i <= Len(p)
    BY <1>1, <1>2, <1>4, <1>6, <1>7, <2>1
  <2>2. CASE i > Len(p)
    <3>1. i - Len(p) \in 1..(n - Len(p)) /\ Len(p) + (i - Len(p)) = i
      BY <1>1, <1>4, <2>2
    <3>2. more[i - Len(p)] = q[i]
      BY <1>6, <3>1
    <3>3. i \in 1..(Len(p) + Len(more)) /\ ~(i <= Len(p))
      BY <1>1, <1>4, <1>6, <2>2
    <3>4. QED
      BY <1>7, <3>2, <3>3
  <2>3. QED
    BY <1>1, <1>4, <2>1, <2>2
<1>10. IsPrefix(r, q)
  BY <1>4, <1>7, <1>8, <1>9, PrefixIndices
<1>11. QED
  BY <1>3, <1>4, <1>6, <1>7, <1>8, <1>10 DEF r

(* A stopped pipeline is filled from the front. *)
LEMMA AddedAnew ==
  ASSUME NEW q \in Seq(Batch), Ascending(q)
  PROVE  /\ Added(<<>>, q) \in Seq(Batch)
         /\ IsPrefix(Added(<<>>, q), q)
         /\ Len(Added(<<>>, q)) <= MaxPendingWrites
<1>1. <<>> \in Seq(Batch) /\ Len(<<>>) = 0 /\ Len(q) \in Nat /\ 0 <= MaxPendingWrites
  BY EmptySeq, LenProperties, PipelineAssumption
<1>2. IsPrefix(<<>>, q)
  <2>1. SubSeq(<<>>, 1, 0) = <<>> /\ SubSeq(q, 1, 0) = <<>>
    BY SubSeqEmpty
  <2>2. QED
    BY <1>1, <2>1 DEF IsPrefix
<1>3. <<>> \o Added(<<>>, q) = Added(<<>>, q)
  BY <1>1, <1>2, AddedFills, ConcatEmptySeq
<1>4. QED
  BY <1>1, <1>2, <1>3, AddedFills

(* The first batch of the pipeline is the first of the queue: the batch     *)
(* that RemoveMutationBatch finds under its id.                             *)
LEMMA WithoutHead ==
  ASSUME currentUser \in User, mutationQueue \in [User -> Seq(Batch)],
         Ascending(mutationQueue[currentUser]), mutationQueue[currentUser] # <<>>
  PROVE  Without(Head(mutationQueue[currentUser])) =
           [mutationQueue EXCEPT ![currentUser] = Tail(mutationQueue[currentUser])]
<1> DEFINE q == mutationQueue[currentUser]
           at == CHOOSE i \in DOMAIN q : q[i].id = Head(q).id
<1>1. q \in Seq(Batch) /\ q # <<>> /\ Ascending(q)
  OBVIOUS
<1>2. Without(Head(q)) = [mutationQueue EXCEPT ![currentUser] = RemoveAt(q, at)]
  BY DEF Without
<1> HIDE DEF q
<1>3. Len(q) \in Nat \ {0} /\ DOMAIN q = 1..Len(q) /\ Head(q) = q[1]
  BY <1>1, LenProperties, EmptySeq
<1>4. \A i \in 1..Len(q) : q[i].id \in Nat
  <2>1. \A i \in 1..Len(q) : q[i] \in Batch
    BY <1>1, ElementOfSeq
  <2>2. \A b \in Batch : b.id \in Nat
    BY DEF Batch
  <2>3. QED
    BY <2>1, <2>2
<1>5. \A i \in 1..Len(q) : i # 1 => q[1].id < q[i].id
  BY <1>1, <1>3 DEF Ascending
<1>6. at = 1
  <2>1. 1 \in DOMAIN q /\ q[1].id = Head(q).id
    BY <1>3
  <2>2. \A i \in DOMAIN q : q[i].id = Head(q).id => i = 1
    BY <1>3, <1>4, <1>5
  <2>3. QED
    BY <2>1, <2>2
<1> HIDE DEF at
<1>7. RemoveAt(q, at) = Tail(q)
  <2>1. RemoveAt(q, at) = SubSeq(q, 1, 0) \o SubSeq(q, 2, Len(q))
    BY <1>6 DEF RemoveAt
  <2>2. SubSeq(q, 1, 0) = <<>>
    BY SubSeqEmpty
  <2>3. SubSeq(q, 2, Len(q)) = Tail(q) /\ Tail(q) \in Seq(Batch)
    BY <1>1, TailIsSubSeq, HeadTailProperties
  <2>4. QED
    BY <2>1, <2>2, <2>3, ConcatEmptySeq
<1>8. QED
  BY <1>2, <1>7 DEF q

(* Every set of numbers has a least one. *)
LEMMA LeastNumber ==
  ASSUME NEW T, T \subseteq Nat, T # {}
  PROVE  \E x \in T : \A y \in T : x <= y
<1>1. PICK x \in T : \A y \in T : ~(<<y, x>> \in OpToRel(<, Nat))
  BY WFMin, NatLessThanWellFounded
<1>2. \A y \in T : ~(y < x)
  BY <1>1 DEF OpToRel
<1>3. QED
  BY <1>2

(* LoadNextBatchIdFromDb: the least id above all that are in the queues. *)
LEMMA NextIdIsFree ==
  ASSUME NEW queues \in [User -> Seq(Batch)], NEW n \in Nat, n <= MaxWrites,
         \A u \in User : \A i \in DOMAIN queues[u] : queues[u][i].id <= n
  PROVE  /\ NextId(queues) \in 1..(n + 1)
         /\ \A u \in User : \A i \in DOMAIN queues[u] : queues[u][i].id < NextId(queues)
<1> DEFINE Above(k) == \A u \in User : \A i \in DOMAIN queues[u] : queues[u][i].id < k
           Used(k) == \E u \in User : \E i \in DOMAIN queues[u] : queues[u][i].id = k
           T == {k \in 1..(n + 1) : Above(k)}
<1>1. \A u \in User : \A i \in DOMAIN queues[u] : queues[u][i].id \in Nat
  <2>1. \A u \in User : \A i \in DOMAIN queues[u] : queues[u][i] \in Batch
    <3>1. \A u \in User : queues[u] \in Seq(Batch) /\ DOMAIN queues[u] = 1..Len(queues[u])
      BY LenProperties
    <3>2. QED
      BY <3>1, ElementOfSeq
  <2>2. \A b \in Batch : b.id \in Nat
    BY DEF Batch
  <2>3. QED
    BY <2>1, <2>2
<1>2. n + 1 \in T
  BY <1>1
<1>3. PICK k \in T : \A y \in T : k <= y
  <2> HIDE DEF Above
  <2>1. T \subseteq Nat
    OBVIOUS
  <2> HIDE DEF T
  <2>2. T # {}
    BY <1>2
  <2>3. QED
    BY <2>1, <2>2, LeastNumber
<1>4. k = 1 \/ Used(k - 1)
  <2>1. ASSUME k # 1 PROVE Used(k - 1)
    <3>1. k - 1 \in 1..(n + 1) /\ ~(k <= k - 1)
      BY <2>1
    <3>2. ~Above(k - 1)
      BY <1>3, <3>1
    <3>3. PICK u \in User : \E i \in DOMAIN queues[u] : ~(queues[u][i].id < k - 1)
      BY <3>2
    <3>4. PICK i \in DOMAIN queues[u] : ~(queues[u][i].id < k - 1)
      BY <3>3
    <3>5. queues[u][i].id < k /\ queues[u][i].id \in Nat /\ k \in Nat
      BY <1>1
    <3> HIDE DEF T, Above
    <3>6. queues[u][i].id = k - 1
      BY <3>4, <3>5
    <3>7. QED
      BY <3>6
  <2>2. QED
    BY <2>1
<1> DEFINE Good(j) == Above(j) /\ (j = 1 \/ Used(j - 1))
<1>5. k \in 1..(MaxWrites + 1) /\ Good(k)
  BY <1>4, PipelineAssumption
<1>6. NextId(queues) = CHOOSE j \in 1..(MaxWrites + 1) : Good(j)
  BY DEF NextId
<1>7. NextId(queues) \in 1..(MaxWrites + 1) /\ Good(NextId(queues))
  <2> HIDE DEF Good
  <2>1. QED
    BY <1>5, <1>6
<1>8. NextId(queues) = 1 \/ NextId(queues) - 1 <= n
  BY <1>7
<1>9. QED
  BY <1>7, <1>8, PipelineAssumption

-----------------------------------------------------------------------------
(* What happens to the queues *)

QueuesTyped ==
  /\ mutationQueue \in [User -> Seq(Batch)]
  /\ \A u \in User : Ascending(mutationQueue[u])

QueuesListWrites ==
  \A u \in User : \A i, j \in DOMAIN mutationQueue[u] :
    /\ mutationQueue[u][i].id \in 1..Len(issued)
    /\ mutationQueue[u][i].write \in WritesOf(u)
    /\ i < j => mutationQueue[u][i].write < mutationQueue[u][j].write

LEMMA QueueShape ==
  ASSUME IInv
  PROVE  /\ QueuesTyped /\ QueuesListWrites
         /\ currentUser \in User
         /\ mutationQueue[currentUser] \in Seq(Batch)
         /\ Ascending(mutationQueue[currentUser])
         /\ \A u \in User :
              /\ Len(mutationQueue[u]) \in Nat
              /\ DOMAIN mutationQueue[u] = 1..Len(mutationQueue[u])
              /\ \A i \in DOMAIN mutationQueue[u] :
                   /\ mutationQueue[u][i] \in Batch
                   /\ mutationQueue[u][i].id \in Nat
                   /\ mutationQueue[u][i].write \in Writes
<1>1. QueuesTyped /\ QueuesListWrites /\ currentUser \in User
  BY DEF IInv, PipelineInv, TypeOK, QueuesInOrder, QueuesTyped, QueuesListWrites
<1>2. \A u \in User : Len(mutationQueue[u]) \in Nat
                      /\ DOMAIN mutationQueue[u] = 1..Len(mutationQueue[u])
  BY <1>1, LenProperties DEF QueuesTyped
<1>3. \A u \in User : \A i \in DOMAIN mutationQueue[u] : mutationQueue[u][i] \in Batch
  BY <1>1, <1>2, ElementOfSeq DEF QueuesTyped
<1>4. \A b \in Batch : b.id \in Nat /\ b.write \in Writes
  BY DEF Batch
<1>5. mutationQueue[currentUser] \in Seq(Batch) /\ Ascending(mutationQueue[currentUser])
  BY <1>1 DEF QueuesTyped
<1>6. QED
  BY <1>1, <1>2, <1>3, <1>4, <1>5

(* Nothing is said of the queues by a step that leaves them alone. *)
LEMMA QueuesStay ==
  ASSUME IInv, UNCHANGED <<mutationQueue, issued, applied, newest, refused>>
  PROVE  QueuesTyped' /\ QueuesListWrites' /\ LastWordStands' /\ NoWriteLost'
<1>1. QueuesTyped /\ QueuesListWrites
  BY QueueShape
<1>2. LastWordStands /\ NoWriteLost
  BY DEF IInv, PipelineInv
<1>3. \A u \in User : WritesOf(u)' = WritesOf(u) /\ Queued(u)' = Queued(u)
  BY DEF WritesOf, Queued
<1>4. LastWordStands'
  BY <1>2, <1>3 DEF LastWordStands
<1>5. NoWriteLost'
  BY <1>2, <1>3 DEF NoWriteLost
<1>6. QueuesListWrites'
  BY <1>1, <1>3 DEF QueuesListWrites
<1>7. QED
  BY <1>1, <1>4, <1>5, <1>6 DEF QueuesTyped, Ascending

(* The head of a queue leaves it once the server has decided on it. *)
LEMMA HeadLeaves ==
  ASSUME IInv, pipeline # <<>>,
         Head(pipeline).write \in applied \cup refused,
         Head(pipeline).write \in applied \ refused =>
           Head(pipeline).write <= newest[currentUser],
         mutationQueue' = Without(Head(pipeline)),
         UNCHANGED <<currentUser, issued, applied, newest, refused>>
  PROVE  /\ mutationQueue[currentUser] # <<>>
         /\ Head(pipeline) = Head(mutationQueue[currentUser])
         /\ mutationQueue' = [mutationQueue EXCEPT ![currentUser] = Tail(@)]
         /\ mutationQueue'[currentUser] = Tail(mutationQueue[currentUser])
         /\ \A u \in User \ {currentUser} : mutationQueue'[u] = mutationQueue[u]
         /\ QueuesTyped' /\ QueuesListWrites' /\ LastWordStands' /\ NoWriteLost'
         /\ \A u \in User : ToSet(mutationQueue[u]) \subseteq
                               ToSet(mutationQueue'[u]) \cup {Head(pipeline)}
         /\ Tail(pipeline) \in Seq(Batch)
         /\ IsPrefix(Tail(pipeline), mutationQueue'[currentUser])
<1> DEFINE c == currentUser
           q == mutationQueue[c]
           h == Head(pipeline)
<1>1. /\ QueuesTyped /\ QueuesListWrites /\ c \in User /\ q \in Seq(Batch) /\ Ascending(q)
      /\ mutationQueue \in [User -> Seq(Batch)]
  BY QueueShape DEF QueuesTyped
<1>2. \A u \in User : /\ Len(mutationQueue[u]) \in Nat
                      /\ DOMAIN mutationQueue[u] = 1..Len(mutationQueue[u])
                      /\ \A i \in DOMAIN mutationQueue[u] : mutationQueue[u][i].write \in Writes
  BY QueueShape
<1>3. pipeline \in Seq(Batch) /\ IsPrefix(pipeline, q)
  BY DEF IInv, PipelineInv, TypeOK, PipelineIsPrefix
<1>4. /\ q # <<>> /\ h = Head(q) /\ h \in Batch
      /\ Tail(pipeline) \in Seq(Batch) /\ Tail(q) \in Seq(Batch)
      /\ IsPrefix(Tail(pipeline), Tail(q))
  BY <1>1, <1>3, TailOfPrefix
<1>5. mutationQueue' = [mutationQueue EXCEPT ![c] = Tail(q)]
  BY <1>1, <1>4, WithoutHead
<1>6. mutationQueue'[c] = Tail(q) /\ \A u \in User \ {c} : mutationQueue'[u] = mutationQueue[u]
  BY <1>1, <1>5
<1>7. mutationQueue' \in [User -> Seq(Batch)]
  BY <1>1, <1>4, <1>5
<1>8. /\ Len(q) \in Nat \ {0} /\ DOMAIN q = 1..Len(q) /\ h = q[1]
      /\ Len(Tail(q)) = Len(q) - 1 /\ DOMAIN Tail(q) = 1..(Len(q) - 1)
      /\ \A i \in 1..(Len(q) - 1) : Tail(q)[i] = q[i + 1]
  <2>1. Len(q) \in Nat \ {0} /\ DOMAIN q = 1..Len(q) /\ h = q[1]
    BY <1>1, <1>4, LenProperties, EmptySeq
  <2>2. /\ Len(Tail(q)) = Len(q) - 1
        /\ \A i \in 1..Len(Tail(q)) : Tail(q)[i] = q[i + 1]
    BY <1>1, <1>4, HeadTailProperties
  <2>3. DOMAIN Tail(q) = 1..Len(Tail(q))
    BY <1>4, LenProperties
  <2>4. QED
    BY <2>1, <2>2, <2>3
<1>9. \A u \in User : WritesOf(u)' = WritesOf(u)
  BY DEF WritesOf
<1>10. \A u \in User \ {c} : Queued(u)' = Queued(u)
  BY <1>6 DEF Queued
<1>11. Queued(c) = Queued(c)' \cup {h.write}
  <2>1. Queued(c) = {q[i].write : i \in 1..Len(q)}
    BY <1>8 DEF Queued
  <2>2. Queued(c)' = {Tail(q)[i].write : i \in 1..(Len(q) - 1)}
    BY <1>6, <1>8 DEF Queued
  <2>3. ASSUME NEW i \in 1..Len(q)
        PROVE  q[i].write \in {Tail(q)[k].write : k \in 1..(Len(q) - 1)} \cup {h.write}
    <3>1. CASE i = 1
      BY <1>8, <3>1
    <3>2. CASE i # 1
      <4>1. i - 1 \in 1..(Len(q) - 1) /\ (i - 1) + 1 = i
        BY <1>8, <3>2
      <4>2. Tail(q)[i - 1] = q[i]
        BY <1>8, <4>1
      <4>3. QED
        BY <4>1, <4>2
    <3>3. QED
      BY <3>1, <3>2
  <2>4. ASSUME NEW k \in 1..(Len(q) - 1)
        PROVE  Tail(q)[k].write \in {q[i].write : i \in 1..Len(q)}
    <3>1. k + 1 \in 1..Len(q)
      BY <1>8
    <3>2. QED
      BY <1>8, <3>1
  <2>5. h.write \in {q[i].write : i \in 1..Len(q)}
    BY <1>8
  <2>6. QED
    BY <2>1, <2>2, <2>3, <2>4, <2>5
<1>12. \A x \in Queued(c)' : h.write < x
  <2>1. Queued(c)' = {Tail(q)[i].write : i \in 1..(Len(q) - 1)}
    BY <1>6, <1>8 DEF Queued
  <2>2. \A i \in 1..Len(q) : 1 < i => q[1].write < q[i].write
    BY <1>1, <1>8 DEF QueuesListWrites
  <2>3. \A k \in 1..(Len(q) - 1) : h.write < Tail(q)[k].write
    <3> TAKE k \in 1..(Len(q) - 1)
    <3>1. k + 1 \in 1..Len(q) /\ 1 < k + 1
      BY <1>8
    <3>2. QED
      BY <1>8, <2>2, <3>1
  <2>4. QED
    BY <2>1, <2>3
<1>13. QueuesTyped'
  <2>1. Ascending(Tail(q))
    <3> SUFFICES ASSUME NEW i \in 1..(Len(q) - 1), NEW j \in 1..(Len(q) - 1), i < j
                 PROVE  Tail(q)[i].id < Tail(q)[j].id
      BY <1>8 DEF Ascending
    <3>1. i + 1 \in 1..Len(q) /\ j + 1 \in 1..Len(q) /\ i + 1 < j + 1
      BY <1>8
    <3>2. q[i + 1].id < q[j + 1].id
      BY <1>1, <1>8, <3>1 DEF Ascending
    <3>3. QED
      BY <1>8, <3>2
  <2>2. \A u \in User : Ascending(mutationQueue'[u])
    BY <1>1, <1>6, <2>1 DEF QueuesTyped
  <2>3. QED
    BY <1>7, <2>2 DEF QueuesTyped
<1>14. QueuesListWrites'
  <2>1. ASSUME NEW i \in 1..(Len(q) - 1), NEW j \in 1..(Len(q) - 1)
        PROVE  /\ Tail(q)[i].id \in 1..Len(issued)
               /\ Tail(q)[i].write \in WritesOf(c)
               /\ i < j => Tail(q)[i].write < Tail(q)[j].write
    <3>1. i + 1 \in 1..Len(q) /\ j + 1 \in 1..Len(q) /\ (i < j => i + 1 < j + 1)
      BY <1>8
    <3>2. Tail(q)[i] = q[i + 1] /\ Tail(q)[j] = q[j + 1]
      BY <1>8
    <3>3. QED
      BY <1>1, <1>8, <3>1, <3>2 DEF QueuesListWrites
  <2>2. ASSUME NEW u \in User,
               NEW i \in DOMAIN mutationQueue'[u], NEW j \in DOMAIN mutationQueue'[u]
        PROVE  /\ mutationQueue'[u][i].id \in 1..Len(issued)
               /\ mutationQueue'[u][i].write \in WritesOf(u)
               /\ i < j => mutationQueue'[u][i].write < mutationQueue'[u][j].write
    <3>1. CASE u = c
      BY <1>6, <1>8, <2>1, <3>1
    <3>2. CASE u # c
      BY <1>1, <1>6, <3>2 DEF QueuesListWrites
    <3>3. QED
      BY <3>1, <3>2
  <2>3. QED
    BY <1>9, <2>2 DEF QueuesListWrites
<1>15. NoWriteLost'
  <2>1. \A u \in User : WritesOf(u) \subseteq Queued(u) \cup applied \cup refused
    BY DEF IInv, NoWriteLost
  <2>2. \A u \in User : WritesOf(u) \subseteq Queued(u)' \cup applied \cup refused
    BY <1>10, <1>11, <2>1
  <2>3. QED
    BY <1>9, <2>2 DEF NoWriteLost
<1>16. LastWordStands'
  <2>1. \A u \in User : \A w \in WritesOf(u) \ Queued(u) :
          /\ \A x \in Queued(u) : w < x
          /\ w \in applied \ refused => w <= newest[u]
    BY DEF IInv, PipelineInv, LastWordStands
  <2>2. ASSUME NEW u \in User, NEW w \in WritesOf(u) \ Queued(u)'
        PROVE  /\ \A x \in Queued(u)' : w < x
               /\ w \in applied \ refused => w <= newest[u]
    <3>1. CASE w \notin Queued(u)
      BY <1>10, <1>11, <2>1, <3>1
    <3>2. CASE w \in Queued(u)
      <4>1. u = c /\ w = h.write
        BY <1>10, <1>11, <3>2
      <4>2. QED
        BY <1>12, <4>1
    <3>3. QED
      BY <3>1, <3>2
  <2>3. QED
    BY <1>9, <2>2 DEF LastWordStands
<1>17. \A u \in User : ToSet(mutationQueue[u]) \subseteq ToSet(mutationQueue'[u]) \cup {h}
  <2>1. ASSUME NEW i \in 1..Len(q) PROVE q[i] \in ToSet(Tail(q)) \cup {h}
    <3>1. CASE i = 1
      BY <1>8, <3>1
    <3>2. CASE i # 1
      <4>1. i - 1 \in 1..(Len(q) - 1) /\ (i - 1) + 1 = i
        BY <1>8, <3>2
      <4>2. Tail(q)[i - 1] = q[i] /\ i - 1 \in DOMAIN Tail(q)
        BY <1>8, <4>1
      <4>3. QED
        BY <4>2 DEF ToSet
    <3>3. QED
      BY <3>1, <3>2
  <2>2. ToSet(q) \subseteq ToSet(Tail(q)) \cup {h}
    BY <1>8, <2>1 DEF ToSet
  <2>3. QED
    BY <1>6, <2>2
<1>18. QED
  BY <1>4, <1>5, <1>6, <1>13, <1>14, <1>15, <1>16, <1>17

(* A new write goes behind the others, which are all older. *)
LEMMA WriteJoins ==
  ASSUME IInv, Len(issued) < MaxWrites,
         NEW b, b = [id |-> nextBatchId, write |-> Len(issued) + 1],
         issued' = Append(issued, currentUser),
         mutationQueue' =
           [mutationQueue EXCEPT ![currentUser] = Append(mutationQueue[currentUser], b)],
         UNCHANGED <<currentUser, applied, newest, refused>>
  PROVE  /\ b \in Batch /\ b.id <= Len(issued) + 1
         /\ issued' \in Seq(User) /\ Len(issued') = Len(issued) + 1
         /\ mutationQueue'[currentUser] = Append(mutationQueue[currentUser], b)
         /\ mutationQueue'[currentUser] \in Seq(Batch)
         /\ \A u \in User \ {currentUser} : mutationQueue'[u] = mutationQueue[u]
         /\ QueuesTyped' /\ QueuesListWrites' /\ LastWordStands' /\ NoWriteLost'
         /\ ToSet(mutationQueue'[currentUser]) = ToSet(mutationQueue[currentUser]) \cup {b}
         /\ \A i \in DOMAIN mutationQueue'[currentUser] :
              mutationQueue'[currentUser][i].id < nextBatchId + 1
<1> DEFINE c == currentUser
           q == mutationQueue[c]
           r == Append(q, b)
           n == Len(issued) + 1
<1>1. /\ QueuesTyped /\ QueuesListWrites /\ c \in User /\ q \in Seq(Batch) /\ Ascending(q)
      /\ mutationQueue \in [User -> Seq(Batch)]
  BY QueueShape DEF QueuesTyped
<1>2. \A u \in User : /\ Len(mutationQueue[u]) \in Nat
                      /\ DOMAIN mutationQueue[u] = 1..Len(mutationQueue[u])
                      /\ \A i \in DOMAIN mutationQueue[u] : mutationQueue[u][i].id \in Nat
  BY QueueShape
<1>3. /\ issued \in Seq(User) /\ nextBatchId \in Nat /\ nextBatchId <= n
      /\ \A i \in DOMAIN q : q[i].id < nextBatchId
      /\ nextBatchId \in 1..n
  BY DEF IInv, PipelineInv, TypeOK, QueuesInOrder
<1>4. Len(issued) \in Nat /\ DOMAIN issued = 1..Len(issued)
  BY <1>3, LenProperties
<1>5. b \in Batch /\ b.id = nextBatchId /\ b.write = n
  BY <1>3, <1>4, PipelineAssumption DEF Batch, Writes
<1>6. /\ issued' \in Seq(User) /\ Len(issued') = n
      /\ \A i \in 1..Len(issued) : issued'[i] = issued[i]
      /\ issued'[n] = c
      /\ DOMAIN issued' = 1..n
  <2>1. /\ issued' \in Seq(User) /\ Len(issued') = n
        /\ \A i \in 1..Len(issued) : issued'[i] = issued[i]
        /\ issued'[n] = c
    BY <1>1, <1>3, AppendProperties
  <2>2. DOMAIN issued' = 1..Len(issued')
    BY <2>1, LenProperties
  <2>3. QED
    BY <2>1, <2>2
<1>7. /\ r \in Seq(Batch) /\ Len(r) = Len(q) + 1 /\ DOMAIN r = 1..(Len(q) + 1)
      /\ \A i \in 1..Len(q) : r[i] = q[i]
      /\ r[Len(q) + 1] = b
  <2>1. /\ r \in Seq(Batch) /\ Len(r) = Len(q) + 1
        /\ \A i \in 1..Len(q) : r[i] = q[i]
        /\ r[Len(q) + 1] = b
    BY <1>1, <1>5, AppendProperties
  <2>2. DOMAIN r = 1..Len(r)
    BY <2>1, LenProperties
  <2>3. QED
    BY <2>1, <2>2
<1>8. mutationQueue'[c] = r /\ \A u \in User \ {c} : mutationQueue'[u] = mutationQueue[u]
  BY <1>1
<1>9. mutationQueue' \in [User -> Seq(Batch)]
  BY <1>1, <1>7
<1>10. DOMAIN q = 1..Len(q) /\ Len(q) \in Nat
  BY <1>1, <1>2
<1> HIDE DEF r
<1>11. \A u \in User : WritesOf(u) \subseteq 1..Len(issued)
  BY <1>4 DEF WritesOf
<1>12. WritesOf(c)' = WritesOf(c) \cup {n}
  BY <1>4, <1>6 DEF WritesOf
<1>13. \A u \in User \ {c} : WritesOf(u)' = WritesOf(u)
  BY <1>4, <1>6 DEF WritesOf
<1>14. \A i \in DOMAIN r :
         (i \in DOMAIN q /\ r[i] = q[i]) \/ (i = Len(q) + 1 /\ r[i] = b)
  BY <1>7, <1>10
<1>15. Queued(c)' = Queued(c) \cup {n}
  <2>1. Queued(c)' = {r[i].write : i \in DOMAIN r}
    BY <1>8 DEF Queued
  <2>2. Queued(c) = {q[i].write : i \in DOMAIN q}
    BY DEF Queued
  <2>3. DOMAIN q \subseteq DOMAIN r /\ Len(q) + 1 \in DOMAIN r
    BY <1>7, <1>10
  <2>4. \A i \in DOMAIN r : r[i].write \in {q[k].write : k \in DOMAIN q} \cup {n}
    BY <1>5, <1>14
  <2>5. \A i \in DOMAIN q : r[i].write = q[i].write
    BY <1>7, <1>10
  <2>6. r[Len(q) + 1].write = n
    BY <1>5, <1>7
  <2> HIDE DEF q, n
  <2>7. {r[i].write : i \in DOMAIN r} = {q[i].write : i \in DOMAIN q} \cup {n}
    BY <2>3, <2>4, <2>5, <2>6
  <2>8. QED
    BY <2>1, <2>2, <2>7
<1>16. \A u \in User \ {c} : Queued(u)' = Queued(u)
  BY <1>8 DEF Queued
<1>17. ToSet(r) = ToSet(q) \cup {b}
  <2>1. DOMAIN q \subseteq DOMAIN r /\ Len(q) + 1 \in DOMAIN r
    BY <1>7, <1>10
  <2>2. QED
    BY <1>7, <1>10, <1>14, <2>1 DEF ToSet
<1>18. \A i \in DOMAIN r : r[i].id < nextBatchId + 1
  <2>1. \A i \in DOMAIN q : q[i].id < nextBatchId + 1
    BY <1>1, <1>2, <1>3
  <2>2. b.id < nextBatchId + 1
    BY <1>3, <1>5
  <2>3. QED
    BY <1>14, <2>1, <2>2
<1>19. QueuesTyped'
  <2>1. Ascending(r)
    <3> SUFFICES ASSUME NEW i \in DOMAIN r, NEW j \in DOMAIN r, i < j
                 PROVE  r[i].id < r[j].id
      BY DEF Ascending
    <3>1. i \in DOMAIN q /\ r[i] = q[i]
      BY <1>7, <1>10
    <3>2. CASE j \in DOMAIN q
      BY <1>1, <1>7, <1>10, <3>1, <3>2 DEF Ascending
    <3>3. CASE j = Len(q) + 1
      BY <1>3, <1>5, <1>7, <3>1, <3>3
    <3>4. QED
      BY <1>14, <3>2, <3>3
  <2>2. \A u \in User : Ascending(mutationQueue'[u])
    BY <1>1, <1>8, <2>1 DEF QueuesTyped
  <2>3. QED
    BY <1>9, <2>2 DEF QueuesTyped
<1>20. QueuesListWrites'
  <2>1. ASSUME NEW i \in DOMAIN r, NEW j \in DOMAIN r
        PROVE  /\ r[i].id \in 1..n
               /\ r[i].write \in WritesOf(c) \cup {n}
               /\ i < j => r[i].write < r[j].write
    <3>1. CASE i \in DOMAIN q /\ r[i] = q[i]
      <4>1. q[i].id \in 1..Len(issued) /\ q[i].write \in WritesOf(c)
        BY <1>1, <3>1 DEF QueuesListWrites
      <4>2. CASE j \in DOMAIN q /\ r[j] = q[j]
        <5>1. i < j => q[i].write < q[j].write
          BY <1>1, <3>1, <4>2 DEF QueuesListWrites
        <5>2. QED
          BY <1>4, <3>1, <4>1, <4>2, <5>1
      <4>3. CASE j = Len(q) + 1 /\ r[j] = b
        BY <1>1, <1>4, <1>5, <1>11, <3>1, <4>1, <4>3
      <4>4. QED
        BY <1>14, <4>2, <4>3
    <3>2. CASE i = Len(q) + 1 /\ r[i] = b
      <4>1. ~(i < j)
        BY <1>7, <1>10, <3>2
      <4>2. QED
        BY <1>3, <1>4, <1>5, <3>2, <4>1
    <3>3. QED
      BY <1>14, <3>1, <3>2
  <2>2. ASSUME NEW u \in User \ {c},
               NEW i \in DOMAIN mutationQueue[u], NEW j \in DOMAIN mutationQueue[u]
        PROVE  /\ mutationQueue[u][i].id \in 1..n
               /\ mutationQueue[u][i].write \in WritesOf(u)
               /\ i < j => mutationQueue[u][i].write < mutationQueue[u][j].write
    <3>1. /\ mutationQueue[u][i].id \in 1..Len(issued)
          /\ mutationQueue[u][i].write \in WritesOf(u)
          /\ i < j => mutationQueue[u][i].write < mutationQueue[u][j].write
      BY <1>1 DEF QueuesListWrites
    <3>2. QED
      BY <1>4, <3>1
  <2>3. ASSUME NEW u \in User,
               NEW i \in DOMAIN mutationQueue'[u], NEW j \in DOMAIN mutationQueue'[u]
        PROVE  /\ mutationQueue'[u][i].id \in 1..n
               /\ mutationQueue'[u][i].write \in WritesOf(u)'
               /\ i < j => mutationQueue'[u][i].write < mutationQueue'[u][j].write
    <3>1. CASE u = c
      BY <1>8, <1>12, <2>1, <3>1
    <3>2. CASE u # c
      BY <1>8, <1>13, <2>2, <3>2
    <3>3. QED
      BY <3>1, <3>2
  <2>4. QED
    BY <1>6, <2>3 DEF QueuesListWrites
<1>21. NoWriteLost'
  <2>1. \A u \in User : WritesOf(u) \subseteq Queued(u) \cup applied \cup refused
    BY DEF IInv, NoWriteLost
  <2>2. \A u \in User : WritesOf(u)' \subseteq Queued(u)' \cup applied \cup refused
    BY <1>12, <1>13, <1>15, <1>16, <2>1
  <2>3. QED
    BY <2>2 DEF NoWriteLost
<1>22. LastWordStands'
  <2>1. \A u \in User : \A w \in WritesOf(u) \ Queued(u) :
          /\ \A x \in Queued(u) : w < x
          /\ w \in applied \ refused => w <= newest[u]
    BY DEF IInv, PipelineInv, LastWordStands
  <2>2. ASSUME NEW u \in User, NEW w \in WritesOf(u)' \ Queued(u)'
        PROVE  /\ \A x \in Queued(u)' : w < x
               /\ w \in applied \ refused => w <= newest[u]
    <3>1. w \in WritesOf(u) \ Queued(u) /\ w < n
      BY <1>4, <1>11, <1>12, <1>13, <1>15, <1>16
    <3>2. \A x \in Queued(u)' : x \in Queued(u) \/ x = n
      BY <1>15, <1>16
    <3>3. QED
      BY <2>1, <3>1, <3>2
  <2>3. QED
    BY <2>2 DEF LastWordStands
<1>23. QED
  BY <1>3, <1>5, <1>6, <1>7, <1>8, <1>17, <1>18, <1>19, <1>20, <1>21, <1>22 DEF r

(* What the server applies comes from the queue of the user it serves. *)
LEMMA LastWordApplied ==
  ASSUME IInv, NEW i \in DOMAIN mutationQueue[currentUser],
         NEW w, w = mutationQueue[currentUser][i].write,
         applied' = applied \cup {w},
         newest' = [newest EXCEPT ![issued[w]] = w],
         UNCHANGED <<mutationQueue, issued, refused>>
  PROVE  /\ QueuesTyped' /\ QueuesListWrites' /\ LastWordStands' /\ NoWriteLost'
         /\ issued[w] = currentUser
         /\ newest' \in [User -> Writes \cup {0}]
         /\ newest'[currentUser] = w
<1>1. /\ QueuesTyped /\ QueuesListWrites /\ currentUser \in User
      /\ w \in WritesOf(currentUser) /\ w \in Queued(currentUser) /\ w \in Writes
  BY QueueShape DEF QueuesListWrites, Queued
<1>2. issued[w] = currentUser /\ newest \in [User -> Writes \cup {0}]
  BY <1>1 DEF WritesOf, IInv, PipelineInv, TypeOK
<1>3. /\ newest' \in [User -> Writes \cup {0}] /\ newest'[currentUser] = w
      /\ \A u \in User \ {currentUser} : newest'[u] = newest[u]
  BY <1>1, <1>2
<1>4. \A u \in User : WritesOf(u)' = WritesOf(u) /\ Queued(u)' = Queued(u)
  BY DEF WritesOf, Queued
<1>5. NoWriteLost'
  <2>1. \A u \in User : WritesOf(u) \subseteq Queued(u) \cup applied \cup refused
    BY DEF IInv, NoWriteLost
  <2>2. QED
    BY <1>4, <2>1 DEF NoWriteLost
<1>6. LastWordStands'
  <2>1. \A u \in User : \A x \in WritesOf(u) \ Queued(u) :
          /\ \A y \in Queued(u) : x < y
          /\ x \in applied \ refused => x <= newest[u]
    BY DEF IInv, PipelineInv, LastWordStands
  <2>2. ASSUME NEW u \in User, NEW x \in WritesOf(u) \ Queued(u)
        PROVE  x \in applied' \ refused => x <= newest'[u]
    <3>1. CASE u = currentUser
      <4>1. x < w
        BY <1>1, <2>1, <3>1
      <4>2. x \in Int /\ w \in Int
        <5>1. issued \in Seq(User)
          BY DEF IInv, PipelineInv, TypeOK
        <5>2. x \in 1..Len(issued)
          BY <5>1, LenProperties DEF WritesOf
        <5>3. QED
          BY <1>1, <5>2 DEF Writes
      <4>3. QED
        BY <1>3, <3>1, <4>1, <4>2
    <3>2. CASE u # currentUser
      <4>1. x # w
        BY <1>2, <3>2 DEF WritesOf
      <4>2. QED
        BY <1>3, <2>1, <3>2, <4>1
    <3>3. QED
      BY <3>1, <3>2
  <2>3. QED
    BY <1>4, <2>1, <2>2 DEF LastWordStands
<1>7. QueuesListWrites'
  BY <1>1, <1>4 DEF QueuesListWrites
<1>8. QED
  BY <1>1, <1>2, <1>3, <1>5, <1>6, <1>7 DEF QueuesTyped, Ascending

(* A refusal takes a claim from the last word and settles a write. *)
LEMMA LastWordRefused ==
  ASSUME IInv, refused \subseteq refused',
         UNCHANGED <<mutationQueue, issued, applied, newest>>
  PROVE  QueuesTyped' /\ QueuesListWrites' /\ LastWordStands' /\ NoWriteLost'
<1>1. QueuesTyped /\ QueuesListWrites
  BY QueueShape
<1>2. LastWordStands /\ NoWriteLost
  BY DEF IInv, PipelineInv
<1>3. \A u \in User : WritesOf(u)' = WritesOf(u) /\ Queued(u)' = Queued(u)
  BY DEF WritesOf, Queued
<1>4. LastWordStands'
  BY <1>2, <1>3 DEF LastWordStands
<1>5. NoWriteLost'
  BY <1>2, <1>3 DEF NoWriteLost
<1>6. QueuesListWrites'
  BY <1>1, <1>3 DEF QueuesListWrites
<1>7. QED
  BY <1>1, <1>4, <1>5, <1>6 DEF QueuesTyped, Ascending

-----------------------------------------------------------------------------
(* What is under way *)

Refusal == IF fault = NoBatch THEN <<>> ELSE <<fault>>

LEMMA WireShape ==
  ASSUME IInv
  PROVE  /\ UnderWay = (responses \o Refusal) \o requests
         /\ responses \in Seq(Message) /\ Refusal \in Seq(Message) /\ requests \in Seq(Message)
         /\ responses \o Refusal \in Seq(Message)
         /\ pipeline \in Seq(Batch) /\ pipeline \in Seq(Message)
         /\ fault = NoBatch => UnderWay = responses \o requests
<1>1. /\ responses \in Seq(Message) /\ requests \in Seq(Message)
      /\ fault \in Batch \cup {NoBatch} /\ pipeline \in Seq(Batch)
  BY DEF IInv, PipelineInv, TypeOK, Message
<1>2. Refusal \in Seq(Message)
  <2>1. CASE fault = NoBatch
    BY <2>1, EmptySeq DEF Refusal
  <2>2. CASE fault # NoBatch
    <3>1. Refusal = <<fault>> /\ fault \in Message
      BY <1>1, <2>2 DEF Refusal, Message
    <3>2. QED
      BY <3>1
  <2>3. QED
    BY <2>1, <2>2
<1>3. Batch \subseteq Message
  BY DEF Message
<1>4. pipeline \in Seq(Message)
  BY <1>1, <1>3, SeqMonotonic
<1>5. responses \o Refusal \in Seq(Message)
  BY <1>1, <1>2, ConcatProperties
<1>6. UnderWay = (responses \o Refusal) \o requests
  BY DEF UnderWay, Refusal
<1>7. fault = NoBatch => responses \o Refusal = responses
  BY <1>1, ConcatEmptySeq DEF Refusal
<1>8. QED
  BY <1>1, <1>2, <1>4, <1>5, <1>6, <1>7

(* The first result on its way is that of the first batch of the pipeline, *)
(* and the server has applied that batch.                                   *)
LEMMA FirstAnswer ==
  ASSUME IInv, state = "open", handshake, responses # <<>>
  PROVE  /\ pipeline # <<>> /\ Head(pipeline) = Head(responses)
         /\ Tail(pipeline) = (Tail(responses) \o Refusal) \o requests
         /\ Tail(responses) \in Seq(Message)
         /\ Head(pipeline).write \in applied
         /\ Head(pipeline).write <= newest[currentUser]
<1>1. UnderWay = pipeline
  BY DEF IInv, PipelineInv, AnswersMatchPipeline
<1>2. /\ UnderWay = (responses \o Refusal) \o requests
      /\ responses \in Seq(Message) /\ Refusal \in Seq(Message) /\ requests \in Seq(Message)
      /\ responses \o Refusal \in Seq(Message) /\ pipeline \in Seq(Batch)
  BY WireShape
<1>3. /\ responses \o Refusal # <<>> /\ Head(responses \o Refusal) = Head(responses)
      /\ Tail(responses \o Refusal) = Tail(responses) \o Refusal
  BY <1>2, TailOfConcat
<1>4. /\ UnderWay # <<>> /\ Head(UnderWay) = Head(responses)
      /\ Tail(UnderWay) = (Tail(responses) \o Refusal) \o requests
  BY <1>2, <1>3, TailOfConcat
<1>5. Head(pipeline) \in Batch /\ Tail(responses) \in Seq(Message)
  BY <1>1, <1>2, <1>4, HeadTailProperties
<1>6. 1 \in DOMAIN responses /\ Head(responses) = responses[1]
  BY <1>2, LenProperties, EmptySeq
<1>7. responses[1] # Hello
  BY <1>1, <1>4, <1>5, <1>6, BatchIsNotHello
<1>8. responses[1].write \in applied /\ responses[1].write <= newest[currentUser]
  BY <1>6, <1>7 DEF IInv, PipelineInv, AnswersAreFacts
<1>9. QED
  BY <1>1, <1>4, <1>5, <1>6, <1>8

(* When a refusal arrives, the server has decided on the first batch of the *)
(* pipeline: it has applied it, or this is the batch it refused.            *)
LEMMA FirstCharged ==
  ASSUME IInv, RefusalArrives
  PROVE  /\ pipeline # <<>> /\ state = "open" /\ handshake
         /\ Head(pipeline).write \in applied \cup refused
         /\ Head(pipeline).write \in applied \ refused =>
              Head(pipeline).write <= newest[currentUser]
<1>1. state = "open" /\ handshake /\ fault # NoBatch
  BY DEF RefusalArrives
<1>2. CASE responses # <<>>
  BY <1>1, <1>2, FirstAnswer
<1>3. CASE responses = <<>>
  <2>1. UnderWay = pipeline
    BY <1>1 DEF IInv, PipelineInv, AnswersMatchPipeline
  <2>2. UnderWay = <<fault>> \o requests /\ requests \in Seq(Message) /\ <<fault>> \in Seq(Message)
    BY <1>1, <1>3, WireShape, ConcatEmptySeq DEF Refusal
  <2>3. UnderWay # <<>> /\ Head(UnderWay) = fault
    BY <2>2, TailOfConcat
  <2>4. fault.write \in refused
    BY <1>1 DEF IInv, PipelineInv, AnswersAreFacts
  <2>5. QED
    BY <1>1, <2>1, <2>3, <2>4
<1>4. QED
  BY <1>2, <1>3

(* What the server reads is the next batch of the pipeline; the results     *)
(* before it are of older writes.                                           *)
LEMMA NextRequest ==
  ASSUME IInv, ServerReads
  PROVE  /\ state = "open" /\ handshake /\ fault = NoBatch
         /\ Head(requests) \in Batch /\ Tail(requests) \in Seq(Message)
         /\ pipeline = responses \o (<<Head(requests)>> \o Tail(requests))
         /\ \E i \in DOMAIN mutationQueue[currentUser] :
              /\ Head(requests) = mutationQueue[currentUser][i]
              /\ \A j \in DOMAIN responses : responses[j].write < Head(requests).write
<1> DEFINE n == Len(responses)
           q == mutationQueue[currentUser]
<1>1. fault = NoBatch /\ requests # <<>> /\ Head(requests) # Hello
  BY DEF ServerReads
<1>2. /\ UnderWay = responses \o requests
      /\ responses \in Seq(Message) /\ requests \in Seq(Message) /\ pipeline \in Seq(Batch)
  BY <1>1, WireShape
<1>3. /\ n \in Nat /\ Len(requests) \in Nat \ {0} /\ Head(requests) = requests[1]
      /\ DOMAIN responses = 1..n
  BY <1>1, <1>2, LenProperties, EmptySeq
<1>4. /\ UnderWay \in Seq(Message) /\ Len(UnderWay) = n + Len(requests)
      /\ \A i \in 1..(n + Len(requests)) :
           UnderWay[i] = IF i <= n THEN responses[i] ELSE requests[i - n]
  BY <1>2, ConcatProperties
<1>5. UnderWay[n + 1] = requests[1]
  <2>1. n + 1 \in 1..(n + Len(requests)) /\ ~(n + 1 <= n) /\ (n + 1) - n = 1
    BY <1>3
  <2>2. QED
    BY <1>4, <2>1
<1>6. state = "open" /\ handshake
  <2>1. UnderWay # <<>>
    BY <1>3, <1>4
  <2>2. UnderWay # <<Hello>>
    <3>1. SUFFICES ASSUME UnderWay = <<Hello>> PROVE FALSE
      OBVIOUS
    <3>2. Len(UnderWay) = 1 /\ UnderWay[1] = Hello
      BY <3>1
    <3>3. n = 0
      <4>1. n + Len(requests) = 1
        BY <1>4, <3>2
      <4>2. n \in Nat /\ Len(requests) \in Nat \ {0}
        BY <1>3
      <4> HIDE DEF n
      <4>3. QED
        BY <4>1, <4>2
    <3>4. QED
      BY <1>1, <1>3, <1>5, <3>2, <3>3
  <2>3. QED
    BY <2>1, <2>2 DEF IInv, PipelineInv, AnswersMatchPipeline
<1>7. UnderWay = pipeline
  BY <1>6 DEF IInv, PipelineInv, AnswersMatchPipeline
<1>8. requests = <<Head(requests)>> \o Tail(requests) /\ Tail(requests) \in Seq(Message)
  BY <1>1, <1>2, HeadAndTail, HeadTailProperties
<1>9. n + 1 \in 1..Len(pipeline) /\ pipeline[n + 1] = Head(requests)
  BY <1>3, <1>4, <1>5, <1>7
<1>10. Head(requests) \in Batch
  BY <1>2, <1>9, ElementOfSeq
<1>11. q \in Seq(Batch) /\ DOMAIN q = 1..Len(q) /\ Len(q) \in Nat /\ currentUser \in User
  BY QueueShape
<1>12. Len(pipeline) <= Len(q) /\ \A i \in 1..Len(pipeline) : pipeline[i] = q[i]
  BY <1>2, <1>11, PrefixIndices DEF IInv, PipelineInv, PipelineIsPrefix
<1>13. n + 1 \in DOMAIN q /\ q[n + 1] = Head(requests)
  BY <1>3, <1>9, <1>11, <1>12
<1>14. ASSUME NEW j \in DOMAIN responses
       PROVE  responses[j].write < Head(requests).write
  <2>1. j \in 1..n /\ j \in 1..(n + Len(requests)) /\ j <= n
    BY <1>3
  <2>2. pipeline[j] = responses[j]
    BY <1>4, <1>7, <2>1
  <2>3. j \in 1..Len(pipeline) /\ j \in DOMAIN q /\ j < n + 1
    BY <1>3, <1>4, <1>7, <1>11, <1>12, <2>1
  <2>4. q[j].write < q[n + 1].write
    BY <1>11, <1>13, <2>3, QueueShape DEF QueuesListWrites
  <2>5. QED
    BY <1>12, <1>13, <2>2, <2>3, <2>4
<1>15. pipeline = responses \o (<<Head(requests)>> \o Tail(requests))
  BY <1>2, <1>7, <1>8
<1>16. QED
  BY <1>1, <1>6, <1>8, <1>10, <1>13, <1>14, <1>15

(* A stream that is closed has nothing under way. *)
LEMMA ClosedWire ==
  ASSUME Closed, state' # "open"
  PROVE  /\ AnswersMatchPipeline' /\ IdleOnlyWhenEmpty' /\ AnswersAreFacts'
         /\ requests' \in Seq(Message) /\ responses' \in Seq(Message)
         /\ fault' \in Batch \cup {NoBatch}
         /\ handshake' \in BOOLEAN /\ idle' \in BOOLEAN
<1>1. /\ requests' = <<>> /\ responses' = <<>> /\ fault' = NoBatch
      /\ handshake' = FALSE /\ idle' = FALSE
  BY DEF Closed
<1>2. <<>> \in Seq(Message)
  BY EmptySeq
<1>3. UnderWay' = <<>>
  BY <1>1, <1>2, ConcatEmptySeq DEF UnderWay
<1>4. AnswersAreFacts'
  BY <1>1 DEF AnswersAreFacts
<1>5. AnswersMatchPipeline'
  BY <1>1, <1>3 DEF AnswersMatchPipeline
<1>6. QED
  BY <1>1, <1>2, <1>4, <1>5 DEF IdleOnlyWhenEmpty

-----------------------------------------------------------------------------
(* The invariant is inductive *)

StreamTyped ==
  /\ pipeline \in Seq(Batch)
  /\ network \in BOOLEAN
  /\ state \in StreamState /\ handshake \in BOOLEAN /\ idle \in BOOLEAN
  /\ requests \in Seq(Message) /\ responses \in Seq(Message)
  /\ fault \in Batch \cup {NoBatch}
  /\ breaks \in Nat /\ restarts \in Nat /\ resets \in Nat

StreamInv ==
  /\ StreamTyped
  /\ PipelineIsPrefix
  /\ AnswersMatchPipeline
  /\ IdleOnlyWhenEmpty
  /\ StoppedWhenDisabled
  /\ AnswersAreFacts

LEMMA StreamParts == ASSUME IInv PROVE StreamInv
BY DEF IInv, PipelineInv, TypeOK, StreamInv, StreamTyped, Message

(* The next id is free, and what is told is a verdict. *)
EngineInv ==
  /\ currentUser \in User
  /\ nextBatchId \in 1..(Len(issued) + 1)
  /\ \A i \in DOMAIN mutationQueue[currentUser] : mutationQueue[currentUser][i].id < nextBatchId
  /\ callbacks \in [User -> SUBSET Batch]
  /\ CompletionsKeepTheirBatch
  /\ told \in [Writes -> {"nothing", "ok", "error"}]
  /\ TellsTruth

LEMMA EngineParts == ASSUME IInv PROVE EngineInv
BY DEF IInv, PipelineInv, TypeOK, QueuesInOrder, EngineInv

ServerTyped ==
  /\ issued \in Seq(User) /\ Len(issued) <= MaxWrites
  /\ applied \subseteq Writes /\ refused \subseteq Writes
  /\ newest \in [User -> Writes \cup {0}]

LEMMA ServerParts == ASSUME IInv PROVE ServerTyped
BY DEF IInv, PipelineInv, TypeOK, QueuesInOrder, ServerTyped

QueuesInv == QueuesTyped /\ QueuesListWrites /\ LastWordStands /\ NoWriteLost

LEMMA Whole == StreamInv /\ EngineInv /\ ServerTyped /\ QueuesInv => IInv
<1> SUFFICES ASSUME StreamInv, EngineInv, ServerTyped, QueuesInv PROVE IInv
  OBVIOUS
<1>1. Len(issued) \in Nat
  BY LenProperties DEF ServerTyped
<1>2. nextBatchId \in Nat
  BY <1>1 DEF EngineInv
<1>3. TypeOK
  BY <1>2 DEF TypeOK, StreamInv, StreamTyped, EngineInv, ServerTyped, QueuesInv, QueuesTyped,
            Message
<1>4. QueuesInOrder
  BY DEF QueuesInOrder, EngineInv, ServerTyped, QueuesInv, QueuesListWrites
<1>5. QED
  BY <1>3, <1>4 DEF IInv, PipelineInv, StreamInv, EngineInv, QueuesInv

LEMMA WholeNext == StreamInv' /\ EngineInv' /\ ServerTyped' /\ QueuesInv' => IInv'
BY Whole, PTL

LEMMA InitIInv == Init => IInv
<1> SUFFICES ASSUME Init PROVE IInv
  OBVIOUS
<1>1. \A S : <<>> \in Seq(S) /\ Len(<<>>) = 0 /\ DOMAIN <<>> = {}
  <2> TAKE S
  <2>1. <<>> \in Seq(S) /\ Len(<<>>) = 0
    BY EmptySeq
  <2>2. DOMAIN <<>> = 1..0
    BY <2>1, LenProperties
  <2>3. QED
    BY <2>1, <2>2
<1>2. UnderWay = <<>>
  <2>1. UnderWay = (<<>> \o <<>>) \o <<>>
    BY DEF UnderWay, Init
  <2>2. QED
    BY <1>1, <2>1, ConcatEmptySeq
<1>3. StreamTyped
  BY <1>1 DEF Init, StreamTyped, StreamState
<1>4. PipelineIsPrefix
  <2>1. SubSeq(<<>>, 1, 0) = <<>>
    BY SubSeqEmpty
  <2>2. mutationQueue[currentUser] = <<>> /\ pipeline = <<>>
    BY DEF Init
  <2>3. QED
    BY <1>1, <2>1, <2>2, PipelineAssumption DEF PipelineIsPrefix, IsPrefix
<1>5. AnswersMatchPipeline /\ IdleOnlyWhenEmpty /\ StoppedWhenDisabled
  BY <1>2 DEF Init, AnswersMatchPipeline, IdleOnlyWhenEmpty, StoppedWhenDisabled
<1>6. AnswersAreFacts
  BY <1>1 DEF Init, AnswersAreFacts
<1>7. EngineInv
  BY <1>1 DEF Init, EngineInv, CompletionsKeepTheirBatch, TellsTruth
<1>8. ServerTyped
  BY <1>1, PipelineAssumption DEF Init, ServerTyped
<1>9. QueuesInv
  <2>1. \A u \in User : WritesOf(u) = {} /\ Queued(u) = {}
    BY <1>1 DEF Init, WritesOf, Queued
  <2>2. LastWordStands /\ NoWriteLost
    BY <2>1 DEF LastWordStands, NoWriteLost
  <2>3. QueuesTyped /\ QueuesListWrites
    BY <1>1 DEF Init, QueuesTyped, QueuesListWrites, Ascending
  <2>4. QED
    BY <2>2, <2>3 DEF QueuesInv
<1>10. QED
  BY <1>3, <1>4, <1>5, <1>6, <1>7, <1>8, <1>9, Whole DEF StreamInv

(* Steps of the stream touch neither the queues nor what was told. *)
LEMMA EngineStays ==
  ASSUME IInv, UNCHANGED <<disk, engine, server, issued, told>>
  PROVE  EngineInv' /\ ServerTyped' /\ QueuesInv'
<1>1. EngineInv /\ ServerTyped
  BY EngineParts, ServerParts
<1>2. UNCHANGED <<mutationQueue, currentUser, nextBatchId, callbacks, applied, newest, refused,
                  issued, told>>
  BY DEF disk, engine, server
<1>3. QueuesInv'
  BY <1>2, QueuesStay DEF QueuesInv
<1>4. CompletionsKeepTheirBatch' /\ TellsTruth'
  BY <1>1, <1>2 DEF EngineInv, CompletionsKeepTheirBatch, ToSet, TellsTruth
<1>5. EngineInv'
  BY <1>1, <1>2, <1>4 DEF EngineInv
<1>6. ServerTyped'
  BY <1>1, <1>2 DEF ServerTyped
<1>7. QED
  BY <1>3, <1>5, <1>6

LEMMA OpenStreamIInv == IInv /\ OpenStream => IInv'
<1> SUFFICES ASSUME IInv, OpenStream PROVE IInv'
  OBVIOUS
<1>1. StreamInv
  BY StreamParts
<1>2. EngineInv' /\ ServerTyped' /\ QueuesInv'
  BY EngineStays DEF OpenStream, history
<1>3. /\ state = "starting" /\ state' = "open" /\ requests' = <<Hello>>
      /\ UNCHANGED <<mutationQueue, currentUser, pipeline, network, handshake, idle, responses,
                     fault, applied, newest, refused, breaks, restarts, resets>>
  BY DEF OpenStream, disk, engine, server, history
<1>4. UnderWay = <<>> /\ ~handshake /\ fault = NoBatch /\ network
  BY <1>1, <1>3 DEF StreamInv, StreamTyped, AnswersMatchPipeline, StoppedWhenDisabled
<1>5. responses = <<>>
  <2>1. UnderWay = responses \o requests /\ responses \in Seq(Message) /\ requests \in Seq(Message)
    BY <1>4, WireShape
  <2>2. Len(responses \o requests) = 0
    BY <1>4, <2>1
  <2>3. Len(responses) + Len(requests) = 0 /\ Len(responses) \in Nat /\ Len(requests) \in Nat
    BY <2>1, <2>2, ConcatProperties, LenProperties
  <2>4. QED
    BY <2>1, <2>3, EmptySeq
<1>6. <<Hello>> \in Seq(Message) /\ <<>> \in Seq(Message)
  BY DEF Message
<1>7. UnderWay' = <<Hello>>
  <2>1. UnderWay' = (<<>> \o <<>>) \o <<Hello>>
    BY <1>3, <1>4, <1>5 DEF UnderWay
  <2>2. QED
    BY <1>6, <2>1, ConcatEmptySeq
<1>8. StreamTyped'
  BY <1>1, <1>3, <1>6 DEF StreamInv, StreamTyped, StreamState
<1>9. AnswersMatchPipeline'
  BY <1>3, <1>4, <1>7 DEF AnswersMatchPipeline
<1>10. PipelineIsPrefix' /\ IdleOnlyWhenEmpty' /\ StoppedWhenDisabled' /\ AnswersAreFacts'
  BY <1>1, <1>3, <1>4 DEF StreamInv, PipelineIsPrefix, IdleOnlyWhenEmpty, StoppedWhenDisabled,
                          AnswersAreFacts
<1>11. QED
  BY <1>2, <1>8, <1>9, <1>10, WholeNext DEF StreamInv

(* A stream that never opened is quiet, and stays so when its state moves on. *)
LEMMA QuietStreamStays ==
  ASSUME IInv, state # "open", state' # "open", state' \in StreamState,
         UNCHANGED <<mutationQueue, currentUser, pipeline, network, handshake, idle, wire,
                     applied, newest, refused, restarts, resets>>,
         ~network => state' \in {"initial", "error"},
         breaks' \in Nat
  PROVE  StreamInv'
<1>1. StreamInv
  BY StreamParts
<1>2. /\ UNCHANGED <<requests, responses, fault>>
      /\ UnderWay' = UnderWay
  BY DEF wire, UnderWay
<1>3. StreamTyped'
  BY <1>1, <1>2 DEF StreamInv, StreamTyped
<1>4. AnswersMatchPipeline'
  BY <1>1, <1>2 DEF StreamInv, AnswersMatchPipeline
<1>5. PipelineIsPrefix' /\ IdleOnlyWhenEmpty' /\ StoppedWhenDisabled' /\ AnswersAreFacts'
  BY <1>1, <1>2 DEF StreamInv, PipelineIsPrefix, IdleOnlyWhenEmpty, StoppedWhenDisabled,
                    AnswersAreFacts
<1>6. QED
  BY <1>3, <1>4, <1>5 DEF StreamInv

LEMMA TokenFailsIInv == IInv /\ TokenFails => IInv'
<1> SUFFICES ASSUME IInv, TokenFails PROVE IInv'
  OBVIOUS
<1>1. EngineInv' /\ ServerTyped' /\ QueuesInv'
  BY EngineStays DEF TokenFails
<1>2. /\ state = "starting" /\ state' \in {"backoff", "error"}
      /\ UNCHANGED <<mutationQueue, currentUser, pipeline, network, handshake, idle, wire,
                     applied, newest, refused, restarts, resets>>
  BY DEF TokenFails, Started, disk, engine, server
<1>3. network /\ breaks' \in Nat
  BY <1>2, StreamParts DEF StreamInv, StreamTyped, StoppedWhenDisabled, TokenFails
<1>4. StreamInv'
  BY <1>2, <1>3, QuietStreamStays DEF StreamState
<1>5. QED
  BY <1>1, <1>4, WholeNext

LEMMA BackoffElapsesIInv == IInv /\ BackoffElapses => IInv'
<1> SUFFICES ASSUME IInv, BackoffElapses PROVE IInv'
  OBVIOUS
<1>1. EngineInv' /\ ServerTyped' /\ QueuesInv'
  BY EngineStays DEF BackoffElapses, history
<1>2. /\ state = "backoff" /\ state' = "starting"
      /\ UNCHANGED <<mutationQueue, currentUser, pipeline, network, handshake, idle, wire,
                     applied, newest, refused, breaks, restarts, resets>>
  BY DEF BackoffElapses, disk, engine, server, history
<1>3. network /\ breaks' \in Nat
  BY <1>2, StreamParts DEF StreamInv, StreamTyped, StoppedWhenDisabled
<1>4. StreamInv'
  BY <1>2, <1>3, QuietStreamStays DEF StreamState
<1>5. QED
  BY <1>1, <1>4, WholeNext

(* The greeting of the server is all that is under way before it is read. *)
LEMMA GreetingRead ==
  ASSUME IInv, HandshakeComplete
  PROVE  fault = NoBatch /\ ~idle /\ requests = <<>> /\ Tail(responses) = <<>>
<1>1. state = "open" /\ ~handshake /\ responses # <<>>
  BY DEF HandshakeComplete
<1>2. UnderWay = <<Hello>> /\ fault = NoBatch /\ ~idle
  BY <1>1, StreamParts DEF StreamInv, AnswersMatchPipeline, IdleOnlyWhenEmpty
<1>3. UnderWay = responses \o requests /\ responses \in Seq(Message) /\ requests \in Seq(Message)
  BY <1>2, WireShape
<1>4. Len(responses \o requests) = 1
  BY <1>2, <1>3
<1>5. /\ Len(responses) + Len(requests) = 1 /\ Len(responses) \in Nat \ {0}
      /\ Len(requests) \in Nat
  BY <1>1, <1>3, <1>4, ConcatProperties, LenProperties, EmptySeq
<1>6. Len(requests) = 0 /\ Len(responses) = 1
  BY <1>5, OneIsAll
<1>7. Tail(responses) \in Seq(Message) /\ Len(Tail(responses)) = 0
  BY <1>1, <1>3, <1>6, HeadTailProperties
<1>8. QED
  BY <1>2, <1>3, <1>6, <1>7, EmptySeq

LEMMA HandshakeCompleteIInv == IInv /\ HandshakeComplete => IInv'
<1> SUFFICES ASSUME IInv, HandshakeComplete PROVE IInv'
  OBVIOUS
<1>1. StreamInv
  BY StreamParts
<1>2. EngineInv' /\ ServerTyped' /\ QueuesInv'
  BY EngineStays DEF HandshakeComplete, history
<1>3. /\ state = "open" /\ ~handshake /\ responses # <<>>
      /\ responses' = Tail(responses) /\ handshake' = TRUE /\ requests' = requests \o pipeline
      /\ idle' = (idle /\ pipeline = <<>>)
      /\ UNCHANGED <<mutationQueue, currentUser, pipeline, network, state, fault,
                     applied, newest, refused, breaks, restarts, resets>>
  BY DEF HandshakeComplete, disk, engine, server, history
<1>4. fault = NoBatch /\ ~idle
  BY GreetingRead
<1>5. requests = <<>> /\ Tail(responses) = <<>>
  BY GreetingRead
<1>6. pipeline \in Seq(Batch) /\ pipeline \in Seq(Message)
  BY WireShape
<1>7. requests' = pipeline /\ responses' = <<>> /\ <<>> \in Seq(Message)
  BY <1>3, <1>5, <1>6, ConcatEmptySeq, EmptySeq
<1>8. UnderWay' = pipeline
  <2>1. UnderWay' = (<<>> \o <<>>) \o pipeline
    BY <1>3, <1>4, <1>7 DEF UnderWay
  <2>2. QED
    BY <1>6, <1>7, <2>1, ConcatEmptySeq
<1>9. StreamTyped'
  BY <1>1, <1>3, <1>6, <1>7 DEF StreamInv, StreamTyped
<1>10. AnswersMatchPipeline'
  BY <1>3, <1>8 DEF AnswersMatchPipeline
<1>11. PipelineIsPrefix' /\ IdleOnlyWhenEmpty' /\ StoppedWhenDisabled'
  BY <1>1, <1>3, <1>4 DEF StreamInv, PipelineIsPrefix, IdleOnlyWhenEmpty, StoppedWhenDisabled
<1>12. AnswersAreFacts'
  BY <1>3, <1>4, <1>7, EmptySeq, LenProperties DEF AnswersAreFacts
<1>13. QED
  BY <1>2, <1>9, <1>10, <1>11, <1>12, WholeNext DEF StreamInv

(* Before the handshake the greeting of the client is all that is under way. *)
LEMMA GreetingSent ==
  ASSUME IInv, ServerGreets
  PROVE  /\ state = "open" /\ ~handshake /\ fault = NoBatch
         /\ responses = <<>> /\ Tail(requests) = <<>>
<1>1. requests # <<>> /\ Head(requests) = Hello
  BY DEF ServerGreets
<1>2. /\ responses \in Seq(Message) /\ Refusal \in Seq(Message) /\ requests \in Seq(Message)
      /\ responses \o Refusal \in Seq(Message) /\ pipeline \in Seq(Batch)
      /\ UnderWay = (responses \o Refusal) \o requests
  BY WireShape
<1>3. /\ UnderWay \in Seq(Message) /\ Len(UnderWay) \in Nat /\ Len(UnderWay) >= 1
      /\ UnderWay[Len(responses \o Refusal) + 1] = Hello
      /\ Len(UnderWay) = Len(responses \o Refusal) + Len(requests)
      /\ Len(responses \o Refusal) + 1 \in 1..Len(UnderWay)
  <2> DEFINE s == responses \o Refusal
             k == Len(s)
             t == s \o requests
  <2>1. /\ t \in Seq(Message) /\ Len(t) = k + Len(requests)
        /\ \A i \in 1..(k + Len(requests)) : t[i] = IF i <= k THEN s[i] ELSE requests[i - k]
    BY <1>2, ConcatProperties
  <2>2. k \in Nat /\ Len(requests) \in Nat \ {0} /\ requests[1] = Hello
    BY <1>1, <1>2, LenProperties, EmptySeq
  <2> HIDE DEF k, t, s
  <2>3. k + 1 \in 1..(k + Len(requests)) /\ ~(k + 1 <= k) /\ (k + 1) - k = 1
    BY <2>2
  <2>4. t[k + 1] = Hello
    BY <2>1, <2>2, <2>3
  <2>5. UnderWay = t
    BY <1>2 DEF t, s
  <2>6. Len(t) \in Nat /\ Len(t) >= 1 /\ k + 1 \in 1..Len(t)
    BY <2>1, <2>2, <2>3
  <2>7. QED
    BY <2>1, <2>4, <2>5, <2>6 DEF k, s
<1>4. ~(state = "open" /\ handshake)
  <2>1. SUFFICES ASSUME state = "open", handshake PROVE FALSE
    OBVIOUS
  <2>2. UnderWay = pipeline
    BY StreamParts, <2>1 DEF StreamInv, AnswersMatchPipeline
  <2>3. Hello \in Batch
    BY <1>2, <1>3, <2>2, ElementOfSeq
  <2>4. QED
    BY <2>3, BatchIsNotHello
<1>5. state = "open" /\ ~handshake /\ fault = NoBatch /\ UnderWay = <<Hello>>
  <2>1. Len(<<>>) = 0
    OBVIOUS
  <2>2. UnderWay # <<>>
    BY <1>3, <2>1
  <2>3. QED
    BY StreamParts, <1>4, <2>2 DEF StreamInv, AnswersMatchPipeline
<1>6. responses = <<>> /\ Tail(requests) = <<>>
  <2>1. responses \o Refusal = responses
    BY <1>2, <1>5, ConcatEmptySeq DEF Refusal
  <2>2. Len(requests) \in Nat \ {0} /\ Len(responses) \in Nat
    BY <1>1, <1>2, LenProperties, EmptySeq
  <2>3. Len(requests) + Len(responses) = 1
    BY <1>3, <1>5, <2>1, <2>2
  <2>4. Len(requests) = 1 /\ Len(responses) = 0
    BY <2>2, <2>3, OneIsAll
  <2>5. Tail(requests) \in Seq(Message) /\ Len(Tail(requests)) = 0
    BY <1>1, <1>2, <2>4, HeadTailProperties
  <2>6. QED
    BY <1>2, <2>4, <2>5, EmptySeq
<1>7. QED
  BY <1>5, <1>6

LEMMA ServerGreetsIInv == IInv /\ ServerGreets => IInv'
<1> SUFFICES ASSUME IInv, ServerGreets PROVE IInv'
  OBVIOUS
<1>1. StreamInv
  BY StreamParts
<1>2. EngineInv' /\ ServerTyped' /\ QueuesInv'
  BY EngineStays DEF ServerGreets, history
<1>3. /\ requests # <<>> /\ Head(requests) = Hello
      /\ requests' = Tail(requests) /\ responses' = Append(responses, Hello)
      /\ UNCHANGED <<mutationQueue, currentUser, pipeline, network, state, handshake, idle, fault,
                     applied, newest, refused, breaks, restarts, resets>>
  BY DEF ServerGreets, disk, engine, stream, server, history
<1>4. state = "open" /\ ~handshake /\ fault = NoBatch
  BY GreetingSent
<1>5. responses = <<>> /\ Tail(requests) = <<>>
  BY GreetingSent
<1>6. <<Hello>> \in Seq(Message) /\ <<>> \in Seq(Message)
  BY DEF Message
<1>7. responses' = <<Hello>> /\ requests' = <<>>
  BY <1>3, <1>5
<1>8. UnderWay' = <<Hello>>
  <2>1. UnderWay' = (<<Hello>> \o <<>>) \o <<>>
    BY <1>3, <1>4, <1>7 DEF UnderWay
  <2>2. QED
    BY <1>6, <2>1, ConcatEmptySeq
<1>9. StreamTyped'
  BY <1>1, <1>3, <1>6, <1>7 DEF StreamInv, StreamTyped
<1>10. AnswersMatchPipeline'
  BY <1>3, <1>4, <1>8 DEF AnswersMatchPipeline
<1>11. PipelineIsPrefix' /\ IdleOnlyWhenEmpty' /\ StoppedWhenDisabled'
  BY <1>1, <1>3 DEF StreamInv, PipelineIsPrefix, IdleOnlyWhenEmpty, StoppedWhenDisabled
<1>12. AnswersAreFacts'
  BY <1>3, <1>4, <1>7 DEF AnswersAreFacts
<1>13. QED
  BY <1>2, <1>9, <1>10, <1>11, <1>12, WholeNext DEF StreamInv

(* A stream that is closed while the pipeline stays. *)
LEMMA StreamCloses ==
  ASSUME IInv, Closed, state' # "open", state' \in StreamState,
         UNCHANGED <<mutationQueue, currentUser, pipeline, network, restarts, resets>>,
         network, breaks' \in Nat
  PROVE  StreamInv'
<1>1. StreamInv
  BY StreamParts
<1>2. /\ AnswersMatchPipeline' /\ IdleOnlyWhenEmpty' /\ AnswersAreFacts'
      /\ requests' \in Seq(Message) /\ responses' \in Seq(Message)
      /\ fault' \in Batch \cup {NoBatch}
      /\ handshake' \in BOOLEAN /\ idle' \in BOOLEAN
  BY ClosedWire
<1>3. PipelineIsPrefix' /\ StoppedWhenDisabled'
  BY <1>1 DEF StreamInv, PipelineIsPrefix, StoppedWhenDisabled
<1>4. StreamTyped'
  BY <1>1, <1>2 DEF StreamInv, StreamTyped
<1>5. QED
  BY <1>2, <1>3, <1>4 DEF StreamInv

LEMMA StreamBreaksIInv == IInv /\ StreamBreaks => IInv'
<1> SUFFICES ASSUME IInv, StreamBreaks PROVE IInv'
  OBVIOUS
<1>1. EngineInv' /\ ServerTyped' /\ QueuesInv'
  BY EngineStays DEF StreamBreaks
<1>2. /\ state = "open" /\ state' \in {"backoff", "error"} /\ Closed
      /\ UNCHANGED <<mutationQueue, currentUser, pipeline, network, restarts, resets>>
  BY DEF StreamBreaks, Started, disk, engine
<1>3. network /\ breaks' \in Nat
  BY <1>2, StreamParts DEF StreamInv, StreamTyped, StoppedWhenDisabled, StreamBreaks
<1>4. StreamInv'
  BY <1>2, <1>3, StreamCloses DEF StreamState
<1>5. QED
  BY <1>1, <1>4, WholeNext

LEMMA IdleTimeoutIInv == IInv /\ IdleTimeout => IInv'
<1> SUFFICES ASSUME IInv, IdleTimeout PROVE IInv'
  OBVIOUS
<1>1. EngineInv' /\ ServerTyped' /\ QueuesInv'
  BY EngineStays DEF IdleTimeout, history
<1>2. /\ idle /\ state' = "initial" /\ Closed
      /\ UNCHANGED <<mutationQueue, currentUser, pipeline, network, breaks, restarts, resets>>
  BY DEF IdleTimeout, disk, engine, history
<1>3. network /\ breaks' \in Nat
  BY <1>2, StreamParts DEF StreamInv, StreamTyped, StoppedWhenDisabled, IdleOnlyWhenEmpty
<1>4. StreamInv'
  BY <1>2, <1>3, StreamCloses DEF StreamState
<1>5. QED
  BY <1>1, <1>4, WholeNext

(* The network starts again with the front of the queue. *)
LEMMA NetworkStarts ==
  ASSUME NEW u \in User, NEW queues, u = currentUser', queues = mutationQueue',
         queues[u] \in Seq(Batch), Ascending(queues[u]), StartNetwork(u, queues),
         network' = TRUE, breaks' \in Nat, restarts' \in Nat, resets' \in Nat
  PROVE  StreamInv'
<1>1. pipeline' = Added(<<>>, queues[u]) /\ state' = Started("initial", pipeline') /\ Closed
  BY DEF StartNetwork
<1>2. pipeline' \in Seq(Batch) /\ PipelineIsPrefix'
  BY <1>1, AddedAnew DEF PipelineIsPrefix
<1>3. state' \in {"initial", "starting"}
  BY <1>1 DEF Started
<1>4. /\ AnswersMatchPipeline' /\ IdleOnlyWhenEmpty' /\ AnswersAreFacts'
      /\ requests' \in Seq(Message) /\ responses' \in Seq(Message)
      /\ fault' \in Batch \cup {NoBatch}
      /\ handshake' \in BOOLEAN /\ idle' \in BOOLEAN
  BY <1>1, <1>3, ClosedWire
<1>5. StreamTyped' /\ StoppedWhenDisabled'
  BY <1>2, <1>3, <1>4 DEF StreamTyped, StreamState, StoppedWhenDisabled
<1>6. QED
  BY <1>2, <1>4, <1>5 DEF StreamInv

LEMMA RestartNetworkIInv == IInv /\ RestartNetwork => IInv'
<1> SUFFICES ASSUME IInv, RestartNetwork PROVE IInv'
  OBVIOUS
<1>1. EngineInv' /\ ServerTyped' /\ QueuesInv'
  BY EngineStays DEF RestartNetwork
<1>2. /\ network /\ StartNetwork(currentUser, mutationQueue) /\ resets' = resets + 1
      /\ UNCHANGED <<mutationQueue, currentUser, network, breaks, restarts>>
  BY DEF RestartNetwork, disk, engine
<1>3. network' = TRUE /\ breaks' \in Nat /\ restarts' \in Nat /\ resets' \in Nat
  BY <1>2, StreamParts DEF StreamInv, StreamTyped
<1>4. StreamInv'
  BY <1>2, <1>3, NetworkStarts, QueueShape
<1>5. QED
  BY <1>1, <1>4, WholeNext

LEMMA DisableNetworkIInv == IInv /\ DisableNetwork => IInv'
<1> SUFFICES ASSUME IInv, DisableNetwork PROVE IInv'
  OBVIOUS
<1>1. StreamInv
  BY StreamParts
<1>2. EngineInv' /\ ServerTyped' /\ QueuesInv'
  BY EngineStays DEF DisableNetwork
<1>3. /\ network' = FALSE /\ pipeline' = <<>> /\ state' \in {"error", "initial"} /\ Closed
      /\ resets' = resets + 1
      /\ UNCHANGED <<mutationQueue, currentUser, breaks, restarts>>
  BY DEF DisableNetwork, disk, engine
<1>4. /\ AnswersMatchPipeline' /\ IdleOnlyWhenEmpty' /\ AnswersAreFacts'
      /\ requests' \in Seq(Message) /\ responses' \in Seq(Message)
      /\ fault' \in Batch \cup {NoBatch}
      /\ handshake' \in BOOLEAN /\ idle' \in BOOLEAN
  BY <1>3, ClosedWire
<1>5. StreamTyped' /\ StoppedWhenDisabled'
  <2>1. <<>> \in Seq(Batch)
    BY EmptySeq
  <2>2. pipeline' \in Seq(Batch) /\ state' \in StreamState /\ resets' \in Nat
    BY <1>1, <1>3, <2>1 DEF StreamInv, StreamTyped, StreamState
  <2>3. StreamTyped'
    BY <1>1, <1>3, <1>4, <2>2 DEF StreamInv, StreamTyped
  <2>4. QED
    BY <1>3, <2>3 DEF StoppedWhenDisabled
<1>6. PipelineIsPrefix'
  <2> DEFINE q == mutationQueue[currentUser]
  <2>1. /\ SubSeq(<<>>, 1, 0) = <<>> /\ SubSeq(q, 1, 0) = <<>> /\ Len(<<>>) = 0
        /\ Len(q) \in Nat
    BY SubSeqEmpty, EmptySeq, QueueShape
  <2>2. IsPrefix(<<>>, q)
    BY <2>1 DEF IsPrefix
  <2>3. QED
    BY <1>3, <2>1, <2>2, PipelineAssumption DEF PipelineIsPrefix
<1>7. QED
  BY <1>2, <1>4, <1>5, <1>6, WholeNext DEF StreamInv

LEMMA EnableNetworkIInv == IInv /\ EnableNetwork => IInv'
<1> SUFFICES ASSUME IInv, EnableNetwork PROVE IInv'
  OBVIOUS
<1>1. StreamInv
  BY StreamParts
<1>2. EngineInv' /\ ServerTyped' /\ QueuesInv'
  BY EngineStays DEF EnableNetwork, history
<1>3. /\ ~network /\ network' = TRUE
      /\ pipeline' = Added(<<>>, mutationQueue[currentUser])
      /\ state' = Started(state, pipeline')
      /\ UNCHANGED <<mutationQueue, currentUser, handshake, idle, requests, responses, fault,
                     applied, newest, refused, breaks, restarts, resets>>
  BY DEF EnableNetwork, disk, engine, wire, server, history
<1>4. state \in {"initial", "error"}
  BY <1>1, <1>3 DEF StreamInv, StoppedWhenDisabled
<1>5. state' \in {"initial", "starting", "error", "backoff"}
  BY <1>3, <1>4 DEF Started
<1>6. pipeline' \in Seq(Batch) /\ PipelineIsPrefix'
  BY <1>3, AddedAnew, QueueShape DEF PipelineIsPrefix
<1>7. StreamTyped' /\ StoppedWhenDisabled'
  BY <1>1, <1>3, <1>5, <1>6 DEF StreamInv, StreamTyped, StreamState, StoppedWhenDisabled
<1>8. UnderWay' = UnderWay
  BY <1>3 DEF UnderWay
<1>9. AnswersMatchPipeline' /\ IdleOnlyWhenEmpty' /\ AnswersAreFacts'
  BY <1>1, <1>3, <1>4, <1>5, <1>8 DEF StreamInv, AnswersMatchPipeline, IdleOnlyWhenEmpty,
                                     AnswersAreFacts
<1>10. QED
  BY <1>2, <1>6, <1>7, <1>9, WholeNext DEF StreamInv

LEMMA ServerAppliesIInv == IInv /\ ServerApplies => IInv'
<1> SUFFICES ASSUME IInv, ServerApplies PROVE IInv'
  OBVIOUS
<1> DEFINE b == Head(requests)
<1>1. StreamInv /\ EngineInv /\ ServerTyped
  BY StreamParts, EngineParts, ServerParts
<1>2. /\ ServerReads /\ requests' = Tail(requests) /\ responses' = Append(responses, b)
      /\ applied' = applied \cup {b.write}
      /\ newest' = [newest EXCEPT ![issued[b.write]] = b.write]
      /\ UNCHANGED <<mutationQueue, currentUser, nextBatchId, callbacks, pipeline, network, state,
                     handshake, idle, fault, refused, issued, told, breaks, restarts, resets>>
  BY DEF ServerApplies, ServerReads, disk, engine, stream, history
<1>3. /\ state = "open" /\ handshake /\ fault = NoBatch
      /\ b \in Batch /\ Tail(requests) \in Seq(Message)
      /\ pipeline = responses \o (<<b>> \o Tail(requests))
      /\ \E i \in DOMAIN mutationQueue[currentUser] :
           /\ b = mutationQueue[currentUser][i]
           /\ \A j \in DOMAIN responses : responses[j].write < b.write
  BY <1>2, NextRequest
<1>4. PICK i \in DOMAIN mutationQueue[currentUser] :
        /\ b = mutationQueue[currentUser][i]
        /\ \A j \in DOMAIN responses : responses[j].write < b.write
  BY <1>3
<1> HIDE DEF b
<1>5. /\ QueuesInv' /\ newest' \in [User -> Writes \cup {0}] /\ newest'[currentUser] = b.write
  BY <1>2, <1>4, LastWordApplied DEF QueuesInv
<1>6. b \in Message /\ <<b>> \in Seq(Message) /\ b.write \in Writes /\ b.write \in Int
  BY <1>3 DEF Message, Batch, Writes
<1>7. /\ responses \in Seq(Message) /\ responses' \in Seq(Message)
      /\ responses' = responses \o <<b>>
      /\ \A j \in 1..Len(responses) : responses'[j] = responses[j]
      /\ responses'[Len(responses) + 1] = b
      /\ Len(responses) \in Nat
      /\ DOMAIN responses = 1..Len(responses) /\ DOMAIN responses' = 1..(Len(responses) + 1)
  <2>1. responses \in Seq(Message)
    BY <1>1 DEF StreamInv, StreamTyped
  <2>2. /\ responses' \in Seq(Message) /\ Len(responses') = Len(responses) + 1
        /\ \A j \in 1..Len(responses) : responses'[j] = responses[j]
        /\ responses'[Len(responses) + 1] = b
    BY <1>2, <1>6, <2>1, AppendProperties
  <2>3. responses' = responses \o <<b>>
    BY <1>2, <1>6, <2>1, AppendIsConcat
  <2>4. /\ Len(responses) \in Nat
        /\ DOMAIN responses = 1..Len(responses) /\ DOMAIN responses' = 1..Len(responses')
    BY <2>1, <2>2, LenProperties
  <2>5. QED
    BY <2>1, <2>2, <2>3, <2>4
<1>8. UnderWay' = pipeline
  <2>1. UnderWay' = (responses' \o <<>>) \o Tail(requests)
    BY <1>2, <1>3 DEF UnderWay
  <2>2. UnderWay' = (responses \o <<b>>) \o Tail(requests)
    BY <1>7, <2>1, ConcatEmptySeq
  <2>3. \A t \in Seq(Message) : (responses \o <<b>>) \o t = responses \o (<<b>> \o t)
    BY <1>6, <1>7, ConcatAssociative
  <2>4. UnderWay' = responses \o (<<b>> \o Tail(requests))
    BY <1>3, <2>2, <2>3
  <2>5. QED
    BY <1>2, <1>3, <2>4
<1>9. StreamTyped'
  BY <1>1, <1>2, <1>3, <1>7 DEF StreamInv, StreamTyped
<1>10. AnswersMatchPipeline'
  BY <1>2, <1>3, <1>8 DEF AnswersMatchPipeline
<1>11. PipelineIsPrefix' /\ IdleOnlyWhenEmpty' /\ StoppedWhenDisabled'
  BY <1>1, <1>2 DEF StreamInv, PipelineIsPrefix, IdleOnlyWhenEmpty, StoppedWhenDisabled
<1>12. AnswersAreFacts'
  <2>1. ASSUME NEW j \in DOMAIN responses', responses'[j] # Hello
        PROVE  responses'[j].write \in applied' /\ responses'[j].write <= b.write
    <3>1. CASE j = Len(responses) + 1
      BY <1>2, <1>6, <1>7, <3>1
    <3>2. CASE j \in DOMAIN responses
      <4>1. responses'[j] = responses[j]
        BY <1>7, <3>2
      <4>2. responses[j].write \in applied /\ responses[j].write < b.write
        BY <1>1, <1>4, <2>1, <3>2, <4>1 DEF StreamInv, AnswersAreFacts
      <4>3. responses[j].write \in Int
        BY <1>1, <4>2 DEF ServerTyped, Writes
      <4>4. QED
        BY <1>2, <1>6, <4>1, <4>2, <4>3
    <3>3. QED
      BY <1>7, <3>1, <3>2
  <2>2. QED
    BY <1>2, <1>3, <1>5, <2>1 DEF AnswersAreFacts
<1>13. ServerTyped'
  BY <1>1, <1>2, <1>5, <1>6 DEF ServerTyped
<1>14. EngineInv'
  <2>1. CompletionsKeepTheirBatch'
    BY <1>1, <1>2 DEF EngineInv, CompletionsKeepTheirBatch, ToSet
  <2>2. TellsTruth'
    BY <1>1, <1>2 DEF EngineInv, TellsTruth
  <2>3. QED
    BY <1>1, <1>2, <2>1, <2>2 DEF EngineInv
<1>15. QED
  BY <1>5, <1>9, <1>10, <1>11, <1>12, <1>13, <1>14, WholeNext DEF StreamInv

LEMMA ServerRefusesIInv == IInv /\ ServerRefuses => IInv'
<1> SUFFICES ASSUME IInv, ServerRefuses PROVE IInv'
  OBVIOUS
<1> DEFINE b == Head(requests)
<1>1. StreamInv /\ EngineInv /\ ServerTyped
  BY StreamParts, EngineParts, ServerParts
<1>2. /\ ServerReads /\ requests' = Tail(requests) /\ fault' = b
      /\ refused' = refused \cup {b.write}
      /\ UNCHANGED <<mutationQueue, currentUser, nextBatchId, callbacks, pipeline, network, state,
                     handshake, idle, responses, applied, newest, issued, told, breaks, restarts,
                     resets>>
  BY DEF ServerRefuses, ServerReads, disk, engine, stream, history
<1>3. /\ state = "open" /\ handshake
      /\ b \in Batch /\ Tail(requests) \in Seq(Message)
      /\ pipeline = responses \o (<<b>> \o Tail(requests))
  BY <1>2, NextRequest
<1> HIDE DEF b
<1>4. b \in Message /\ <<b>> \in Seq(Message) /\ b.write \in Writes /\ b # NoBatch
  BY <1>3, BatchIsNotHello DEF Message, Batch
<1>5. UnderWay' = pipeline
  <2>1. UnderWay' = (responses \o <<b>>) \o Tail(requests)
    BY <1>2, <1>4 DEF UnderWay
  <2>2. responses \in Seq(Message)
    BY <1>1 DEF StreamInv, StreamTyped
  <2>3. QED
    BY <1>3, <1>4, <2>1, <2>2, ConcatAssociative
<1>6. StreamTyped'
  BY <1>1, <1>2, <1>3 DEF StreamInv, StreamTyped
<1>7. AnswersMatchPipeline'
  BY <1>2, <1>3, <1>5 DEF AnswersMatchPipeline
<1>8. PipelineIsPrefix' /\ IdleOnlyWhenEmpty' /\ StoppedWhenDisabled'
  BY <1>1, <1>2 DEF StreamInv, PipelineIsPrefix, IdleOnlyWhenEmpty, StoppedWhenDisabled
<1>9. AnswersAreFacts'
  BY <1>1, <1>2 DEF StreamInv, AnswersAreFacts
<1>10. QueuesInv'
  BY <1>2, LastWordRefused DEF QueuesInv
<1>11. ServerTyped'
  BY <1>1, <1>2, <1>4 DEF ServerTyped
<1>12. EngineInv'
  <2>1. CompletionsKeepTheirBatch'
    BY <1>1, <1>2 DEF EngineInv, CompletionsKeepTheirBatch, ToSet
  <2>2. TellsTruth'
    BY <1>1, <1>2 DEF EngineInv, TellsTruth
  <2>3. QED
    BY <1>1, <1>2, <2>1, <2>2 DEF EngineInv
<1>13. QED
  BY <1>6, <1>7, <1>8, <1>9, <1>10, <1>11, <1>12, WholeNext DEF StreamInv

(* The completion that waits for the first batch is that of its write. *)
LEMMA WaitingForHead ==
  ASSUME IInv, pipeline # <<>>
  PROVE  /\ Waiting(Head(pipeline)) \subseteq {Head(pipeline)}
         /\ Head(pipeline) \in callbacks[currentUser] =>
              Head(pipeline) \in Waiting(Head(pipeline))
<1> DEFINE q == mutationQueue[currentUser]
           h == Head(pipeline)
<1>1. /\ q \in Seq(Batch) /\ Ascending(q) /\ DOMAIN q = 1..Len(q)
      /\ \A i \in DOMAIN q : q[i].id \in Nat
      /\ currentUser \in User
  BY QueueShape
<1>2. pipeline \in Seq(Batch) /\ IsPrefix(pipeline, q)
  BY DEF IInv, PipelineInv, TypeOK, PipelineIsPrefix
<1>3. q # <<>> /\ h = Head(q)
  BY <1>1, <1>2, TailOfPrefix
<1>4. Len(q) \in Nat \ {0} /\ h = q[1]
  BY <1>1, <1>3, LenProperties, EmptySeq
<1>5. \A i \in DOMAIN q : q[i].id = q[1].id => i = 1
  <2>1. \A i \in DOMAIN q : i # 1 => q[1].id < q[i].id
    BY <1>1, <1>4 DEF Ascending
  <2>2. 1 \in DOMAIN q
    BY <1>1, <1>4
  <2>3. QED
    BY <1>1, <2>1, <2>2
<1>6. callbacks[currentUser] \subseteq ToSet(q)
  BY <1>1 DEF IInv, PipelineInv, CompletionsKeepTheirBatch
<1>7. ASSUME NEW c \in Waiting(h) PROVE c = h
  <2>1. c \in callbacks[currentUser] /\ c.id = h.id
    BY DEF Waiting
  <2>2. PICK i \in DOMAIN q : c = q[i]
    BY <1>6, <2>1 DEF ToSet
  <2>3. QED
    BY <1>4, <1>5, <2>1, <2>2
<1>8. QED
  BY <1>7 DEF Waiting

(* NotifyUser tells the truth, and the completion leaves with its batch. *)
LEMMA NotifiedEngine ==
  ASSUME IInv, pipeline # <<>>, NEW outcome \in {"ok", "error"},
         NotifyUser(Head(pipeline), outcome),
         outcome = "ok" => Head(pipeline).write \in applied,
         QueuesTyped', mutationQueue' = [mutationQueue EXCEPT ![currentUser] = Tail(@)],
         mutationQueue[currentUser] # <<>>,
         \A u \in User : ToSet(mutationQueue[u]) \subseteq
                         ToSet(mutationQueue'[u]) \cup {Head(pipeline)},
         UNCHANGED <<currentUser, nextBatchId, issued, applied>>
  PROVE  EngineInv'
<1> DEFINE h == Head(pipeline)
           q == mutationQueue[currentUser]
<1>1. EngineInv
  BY EngineParts
<1>2. Waiting(h) \subseteq {h} /\ (h \in callbacks[currentUser] => h \in Waiting(h))
  BY WaitingForHead
<1>3. /\ told' = [w \in Writes |-> IF \E c \in Waiting(h) : c.write = w THEN outcome ELSE told[w]]
      /\ callbacks' = [callbacks EXCEPT ![currentUser] = @ \ Waiting(h)]
  BY DEF NotifyUser
<1> HIDE DEF h
<1>4. told' \in [Writes -> {"nothing", "ok", "error"}]
  BY <1>1, <1>3 DEF EngineInv
<1>5. TellsTruth'
  <2>1. \A w \in Writes : told[w] = "ok" => w \in applied
    BY <1>1 DEF EngineInv, TellsTruth
  <2>2. ASSUME NEW w \in Writes, told'[w] = "ok" PROVE w \in applied
    <3>1. CASE \E c \in Waiting(h) : c.write = w
      <4>1. w = h.write /\ outcome = "ok"
        BY <1>2, <1>3, <2>2, <3>1
      <4>2. QED
        BY <4>1 DEF h
    <3>2. CASE ~\E c \in Waiting(h) : c.write = w
      BY <1>3, <2>1, <2>2, <3>2
    <3>3. QED
      BY <3>1, <3>2
  <2>3. QED
    BY <2>2 DEF TellsTruth
<1>6. callbacks' \in [User -> SUBSET Batch]
  BY <1>1, <1>3 DEF EngineInv
<1>7. CompletionsKeepTheirBatch'
  <2>1. \A u \in User : callbacks[u] \subseteq ToSet(mutationQueue[u])
    BY <1>1 DEF EngineInv, CompletionsKeepTheirBatch
  <2>2. \A u \in User : callbacks'[u] \subseteq ToSet(mutationQueue'[u])
    <3> TAKE u \in User
    <3>1. CASE u = currentUser
      <4>1. callbacks'[u] = callbacks[u] \ Waiting(h)
        BY <1>1, <1>3, <3>1 DEF EngineInv
      <4>2. h \notin callbacks'[u]
        BY <1>2, <3>1, <4>1
      <4>3. QED
        BY <2>1, <4>1, <4>2 DEF h
    <3>2. CASE u # currentUser
      <4>1. callbacks'[u] = callbacks[u] /\ mutationQueue'[u] = mutationQueue[u]
        BY <1>1, <1>3, <3>2, QueueShape DEF EngineInv, QueuesTyped
      <4>2. QED
        BY <2>1, <4>1
    <3>3. QED
      BY <3>1, <3>2
  <2>3. QED
    BY <2>2 DEF CompletionsKeepTheirBatch
<1>8. \A i \in DOMAIN mutationQueue'[currentUser] : mutationQueue'[currentUser][i].id < nextBatchId
  <2>1. q \in Seq(Batch) /\ q # <<>> /\ mutationQueue'[currentUser] = Tail(q)
    BY <1>1, QueueShape DEF EngineInv, QueuesTyped
  <2>2. /\ Len(q) \in Nat /\ DOMAIN q = 1..Len(q) /\ DOMAIN Tail(q) = 1..(Len(q) - 1)
        /\ \A i \in 1..(Len(q) - 1) : Tail(q)[i] = q[i + 1]
    <3>1. /\ Tail(q) \in Seq(Batch) /\ Len(Tail(q)) = Len(q) - 1
          /\ \A i \in 1..Len(Tail(q)) : Tail(q)[i] = q[i + 1]
      BY <2>1, HeadTailProperties
    <3>2. DOMAIN Tail(q) = 1..Len(Tail(q)) /\ Len(q) \in Nat /\ DOMAIN q = 1..Len(q)
      BY <2>1, <3>1, LenProperties
    <3>3. QED
      BY <3>1, <3>2
  <2>3. \A i \in DOMAIN q : q[i].id < nextBatchId
    BY <1>1 DEF EngineInv
  <2> HIDE DEF q
  <2>4. \A i \in DOMAIN Tail(q) : i + 1 \in DOMAIN q /\ Tail(q)[i] = q[i + 1]
    BY <2>2
  <2>5. QED
    BY <2>1, <2>3, <2>4
<1>9. QED
  BY <1>1, <1>4, <1>5, <1>6, <1>7, <1>8 DEF EngineInv

(* The pipeline without its first batch, filled up again. *)
LEMMA Refilled ==
  ASSUME IInv, pipeline # <<>>, QueuesTyped', currentUser' = currentUser,
         NEW q, q = mutationQueue'[currentUser],
         Tail(pipeline) \in Seq(Batch), IsPrefix(Tail(pipeline), q)
  PROVE  /\ Added(Tail(pipeline), q) \in Seq(Batch)
         /\ Tail(pipeline) \o Added(Tail(pipeline), q) \in Seq(Batch)
         /\ IsPrefix(Tail(pipeline) \o Added(Tail(pipeline), q), q)
         /\ Len(Tail(pipeline) \o Added(Tail(pipeline), q)) <= MaxPendingWrites
<1>1. StreamInv /\ currentUser \in User
  BY StreamParts, QueueShape
<1>2. q \in Seq(Batch) /\ Ascending(q)
  BY <1>1 DEF QueuesTyped
<1>3. pipeline \in Seq(Batch) /\ Len(pipeline) <= MaxPendingWrites
  BY <1>1 DEF StreamInv, StreamTyped, PipelineIsPrefix
<1>4. Len(Tail(pipeline)) = Len(pipeline) - 1 /\ Len(pipeline) \in Nat
  BY <1>3, HeadTailProperties, LenProperties
<1>5. Len(Tail(pipeline)) <= MaxPendingWrites
  BY <1>3, <1>4, PipelineAssumption
<1>6. QED
  BY <1>2, <1>5, AddedFills

LEMMA MutationResultIInv == IInv /\ MutationResult => IInv'
<1> SUFFICES ASSUME IInv, MutationResult PROVE IInv'
  OBVIOUS
<1> DEFINE b == Head(pipeline)
           more == Added(Tail(pipeline), mutationQueue'[currentUser])
<1>1. StreamInv /\ ServerTyped
  BY StreamParts, ServerParts
<1>2. /\ state = "open" /\ handshake /\ responses # <<>> /\ responses' = Tail(responses)
      /\ NotifyUser(b, "ok") /\ mutationQueue' = Without(b)
      /\ pipeline' = Tail(pipeline) \o more /\ requests' = requests \o more
      /\ idle' = (pipeline' = <<>> \/ (idle /\ more = <<>>))
      /\ UNCHANGED <<currentUser, nextBatchId, network, state, handshake, fault,
                     applied, newest, refused, issued, breaks, restarts, resets>>
  BY DEF MutationResult, server
<1>3. /\ pipeline # <<>> /\ b.write \in applied /\ b.write <= newest[currentUser]
      /\ Tail(pipeline) = (Tail(responses) \o Refusal) \o requests
      /\ Tail(responses) \in Seq(Message)
  BY <1>2, FirstAnswer
<1>4. /\ mutationQueue[currentUser] # <<>>
      /\ mutationQueue' = [mutationQueue EXCEPT ![currentUser] = Tail(@)]
      /\ QueuesTyped' /\ QueuesListWrites' /\ LastWordStands' /\ NoWriteLost'
      /\ \A u \in User : ToSet(mutationQueue[u]) \subseteq ToSet(mutationQueue'[u]) \cup {b}
      /\ Tail(pipeline) \in Seq(Batch)
      /\ IsPrefix(Tail(pipeline), mutationQueue'[currentUser])
  BY <1>2, <1>3, HeadLeaves
<1>5. EngineInv'
  BY <1>2, <1>3, <1>4, NotifiedEngine
<1>6. /\ more \in Seq(Batch) /\ pipeline' \in Seq(Batch)
      /\ IsPrefix(pipeline', mutationQueue'[currentUser])
      /\ Len(pipeline') <= MaxPendingWrites
  BY <1>2, <1>3, <1>4, Refilled
<1> HIDE DEF more, b
<1>7. more \in Seq(Message)
  <2>1. Batch \subseteq Message
    BY DEF Message
  <2>2. QED
    BY <1>6, <2>1, SeqMonotonic
<1>8. requests \in Seq(Message) /\ requests' \in Seq(Message) /\ Refusal \in Seq(Message)
  BY <1>2, <1>7, WireShape, ConcatProperties
<1>9. UnderWay' = pipeline'
  <2>1. UnderWay' = (Tail(responses) \o Refusal) \o (requests \o more)
    BY <1>2 DEF UnderWay, Refusal
  <2> DEFINE s == Tail(responses) \o Refusal
  <2>2. s \in Seq(Message) /\ requests \in Seq(Message) /\ more \in Seq(Message)
    BY <1>3, <1>7, <1>8, ConcatProperties
  <2> HIDE DEF s
  <2>3. (s \o requests) \o more = s \o (requests \o more)
    BY <2>2, ConcatAssociative
  <2>4. QED
    BY <1>2, <1>3, <2>1, <2>3 DEF s
<1>10. StreamTyped'
  BY <1>1, <1>2, <1>3, <1>6, <1>8 DEF StreamInv, StreamTyped
<1>11. AnswersMatchPipeline'
  BY <1>2, <1>9 DEF AnswersMatchPipeline
<1>12. IdleOnlyWhenEmpty'
  BY <1>1, <1>2, <1>3 DEF StreamInv, IdleOnlyWhenEmpty
<1>13. StoppedWhenDisabled'
  BY <1>1, <1>2 DEF StreamInv, StoppedWhenDisabled
<1>14. PipelineIsPrefix'
  BY <1>2, <1>6 DEF PipelineIsPrefix
<1>15. AnswersAreFacts'
  <2>1. responses \in Seq(Message)
    BY <1>1 DEF StreamInv, StreamTyped
  <2>2. /\ DOMAIN responses = 1..Len(responses) /\ Len(responses) \in Nat
        /\ DOMAIN Tail(responses) = 1..(Len(responses) - 1)
        /\ \A i \in 1..(Len(responses) - 1) : Tail(responses)[i] = responses[i + 1]
    BY <1>2, <1>3, <2>1, HeadTailProperties, LenProperties
  <2>3. \A i \in DOMAIN responses' : i + 1 \in DOMAIN responses /\ responses'[i] = responses[i + 1]
    BY <1>2, <2>2
  <2>4. QED
    BY <1>1, <1>2, <2>3 DEF StreamInv, AnswersAreFacts
<1>16. ServerTyped'
  BY <1>1, <1>2 DEF ServerTyped
<1>17. QED
  BY <1>4, <1>5, <1>10, <1>11, <1>12, <1>13, <1>14, <1>15, <1>16, WholeNext
     DEF StreamInv, QueuesInv

LEMMA WriteErrorIInv == IInv /\ WriteError => IInv'
<1> SUFFICES ASSUME IInv, WriteError PROVE IInv'
  OBVIOUS
<1> DEFINE b == Head(pipeline)
           more == Added(Tail(pipeline), mutationQueue'[currentUser])
<1>1. StreamInv /\ ServerTyped
  BY StreamParts, ServerParts
<1>2. /\ RefusalArrives /\ pipeline # <<>> /\ mutationQueue' = Without(b)
      /\ NotifyUser(b, "error")
      /\ pipeline' = Tail(pipeline) \o more /\ state' = Started("initial", pipeline') /\ Closed
      /\ UNCHANGED <<currentUser, nextBatchId, network, applied, newest, refused, issued,
                     breaks, restarts, resets>>
  BY DEF WriteError, server
<1>3. /\ state = "open"
      /\ b.write \in applied \cup refused
      /\ b.write \in applied \ refused => b.write <= newest[currentUser]
  BY <1>2, FirstCharged
<1>4. /\ mutationQueue[currentUser] # <<>>
      /\ mutationQueue' = [mutationQueue EXCEPT ![currentUser] = Tail(@)]
      /\ QueuesTyped' /\ QueuesListWrites' /\ LastWordStands' /\ NoWriteLost'
      /\ \A u \in User : ToSet(mutationQueue[u]) \subseteq ToSet(mutationQueue'[u]) \cup {b}
      /\ Tail(pipeline) \in Seq(Batch)
      /\ IsPrefix(Tail(pipeline), mutationQueue'[currentUser])
  BY <1>2, <1>3, HeadLeaves
<1>5. EngineInv'
  BY <1>2, <1>4, NotifiedEngine
<1>6. /\ pipeline' \in Seq(Batch)
      /\ IsPrefix(pipeline', mutationQueue'[currentUser])
      /\ Len(pipeline') <= MaxPendingWrites
  BY <1>2, <1>4, Refilled
<1> HIDE DEF more, b
<1>7. state' \in {"initial", "starting"}
  BY <1>2 DEF Started
<1>8. /\ AnswersMatchPipeline' /\ IdleOnlyWhenEmpty' /\ AnswersAreFacts'
      /\ requests' \in Seq(Message) /\ responses' \in Seq(Message)
      /\ fault' \in Batch \cup {NoBatch}
      /\ handshake' \in BOOLEAN /\ idle' \in BOOLEAN
  BY <1>2, <1>7, ClosedWire
<1>9. StreamTyped'
  BY <1>1, <1>2, <1>6, <1>7, <1>8 DEF StreamInv, StreamTyped, StreamState
<1>10. StoppedWhenDisabled' /\ PipelineIsPrefix'
  BY <1>1, <1>2, <1>3, <1>6 DEF StreamInv, StoppedWhenDisabled, PipelineIsPrefix
<1>11. ServerTyped'
  BY <1>1, <1>2 DEF ServerTyped
<1>12. QED
  BY <1>4, <1>5, <1>8, <1>9, <1>10, <1>11, WholeNext DEF StreamInv, QueuesInv

(* The id that LoadNextBatchIdFromDb finds is greater than all in the queues. *)
LEMMA NextIdInQueues ==
  ASSUME ServerTyped, QueuesTyped, QueuesListWrites
  PROVE  /\ NextId(mutationQueue) \in 1..(Len(issued) + 1)
         /\ \A u \in User : \A i \in DOMAIN mutationQueue[u] :
              mutationQueue[u][i].id < NextId(mutationQueue)
<1>1. Len(issued) \in Nat /\ Len(issued) <= MaxWrites
  BY LenProperties DEF ServerTyped
<1>2. \A u \in User : \A i \in DOMAIN mutationQueue[u] : mutationQueue[u][i].id <= Len(issued)
  BY <1>1 DEF QueuesListWrites
<1>3. QED
  BY <1>1, <1>2, NextIdIsFree DEF QueuesTyped

LEMMA SwitchUserIInv == ASSUME IInv, NEW u \in User, SwitchUser(u) PROVE IInv'
<1>1. StreamInv /\ EngineInv /\ ServerTyped /\ QueuesTyped /\ QueuesListWrites
  BY StreamParts, EngineParts, ServerParts, QueueShape
<1>2. /\ currentUser' = u /\ nextBatchId' = NextId(mutationQueue) /\ resets' = resets + 1
      /\ UNCHANGED <<mutationQueue, callbacks, network, applied, newest, refused, issued, told,
                     breaks, restarts>>
  BY DEF SwitchUser, disk, server
<1>3. QueuesInv'
  BY <1>2, QueuesStay DEF QueuesInv
<1>4. /\ NextId(mutationQueue) \in 1..(Len(issued) + 1)
      /\ \A i \in DOMAIN mutationQueue[u] : mutationQueue[u][i].id < NextId(mutationQueue)
  BY <1>1, NextIdInQueues
<1>5. EngineInv'
  <2>1. CompletionsKeepTheirBatch' /\ TellsTruth'
    BY <1>1, <1>2 DEF EngineInv, CompletionsKeepTheirBatch, ToSet, TellsTruth
  <2>2. QED
    BY <1>1, <1>2, <1>4, <2>1 DEF EngineInv
<1>6. ServerTyped'
  BY <1>1, <1>2 DEF ServerTyped
<1>7. StreamInv'
  <2>1. CASE network
    <3>1. StartNetwork(u, mutationQueue)
      BY <2>1 DEF SwitchUser
    <3>2. network' = TRUE /\ breaks' \in Nat /\ restarts' \in Nat /\ resets' \in Nat
      BY <1>1, <1>2, <2>1 DEF StreamInv, StreamTyped
    <3>3. mutationQueue[u] \in Seq(Batch) /\ Ascending(mutationQueue[u])
      BY <1>1 DEF QueuesTyped
    <3>4. QED
      BY <1>2, <3>1, <3>2, <3>3, NetworkStarts
  <2>2. CASE ~network
    <3>1. UNCHANGED <<pipeline, state, handshake, idle, requests, responses, fault>>
      BY <2>2 DEF SwitchUser, stream, wire
    <3>2. pipeline = <<>> /\ state \in {"initial", "error"}
      BY <1>1, <2>2 DEF StreamInv, StoppedWhenDisabled
    <3>3. UnderWay = <<>> /\ fault = NoBatch
      BY <1>1, <3>2 DEF StreamInv, AnswersMatchPipeline
    <3>4. UnderWay' = UnderWay
      BY <3>1 DEF UnderWay
    <3>5. responses = <<>>
      <4>1. UnderWay = responses \o requests /\ responses \in Seq(Message) /\ requests \in Seq(Message)
        BY <3>3, WireShape
      <4>2. responses # <<>> => UnderWay # <<>>
        BY <4>1, TailOfConcat
      <4>3. QED
        BY <3>3, <4>2
    <3>6. AnswersAreFacts'
      BY <3>1, <3>3, <3>5, EmptySeq, LenProperties DEF AnswersAreFacts
    <3>7. StreamTyped' /\ StoppedWhenDisabled' /\ IdleOnlyWhenEmpty'
      BY <1>1, <1>2, <3>1 DEF StreamInv, StreamTyped, StoppedWhenDisabled, IdleOnlyWhenEmpty
    <3>8. AnswersMatchPipeline'
      BY <1>1, <3>1, <3>2, <3>4 DEF StreamInv, AnswersMatchPipeline
    <3>9. PipelineIsPrefix'
      <4> DEFINE q == mutationQueue[u]
      <4>1. /\ SubSeq(<<>>, 1, 0) = <<>> /\ SubSeq(q, 1, 0) = <<>> /\ Len(<<>>) = 0
            /\ Len(q) \in Nat
        BY SubSeqEmpty, EmptySeq, QueueShape
      <4>2. IsPrefix(<<>>, q)
        BY <4>1 DEF IsPrefix
      <4>3. QED
        BY <1>2, <3>1, <3>2, <4>1, <4>2, PipelineAssumption DEF PipelineIsPrefix
    <3>10. QED
      BY <3>6, <3>7, <3>8, <3>9 DEF StreamInv
  <2>3. QED
    BY <2>1, <2>2
<1>8. QED
  BY <1>3, <1>5, <1>6, <1>7, WholeNext

LEMMA CrashIInv == IInv /\ Crash => IInv'
<1> SUFFICES ASSUME IInv, Crash PROVE IInv'
  OBVIOUS
<1> DEFINE b == Head(pipeline)
<1>1. StreamInv /\ EngineInv /\ ServerTyped
  BY StreamParts, EngineParts, ServerParts
<1>2. /\ HalfDone /\ restarts' = restarts + 1 /\ callbacks' = [u \in User |-> {}]
      /\ nextBatchId' = NextId(mutationQueue') /\ network' = TRUE
      /\ StartNetwork(currentUser, mutationQueue')
      /\ UNCHANGED <<currentUser, applied, newest, refused, issued, breaks, resets>>
  BY DEF Crash, server
<1>4. QueuesInv' /\ told' \in [Writes -> {"nothing", "ok", "error"}] /\ TellsTruth'
  <2>1. CASE UNCHANGED <<mutationQueue, told>>
    <3>1. QueuesInv'
      BY <1>2, <2>1, QueuesStay DEF QueuesInv
    <3>2. QED
      BY <1>1, <1>2, <2>1, <3>1 DEF EngineInv, TellsTruth
  <2>2. CASE /\ state = "open" /\ handshake /\ responses # <<>>
             /\ told' = [w \in Writes |-> IF \E c \in Waiting(Head(pipeline)) : c.write = w
                                          THEN "ok" ELSE told[w]]
             /\ UNCHANGED mutationQueue
    <3>1. QueuesInv'
      BY <1>2, <2>2, QueuesStay DEF QueuesInv
    <3>2. pipeline # <<>> /\ b.write \in applied
      BY <2>2, FirstAnswer
    <3>3. Waiting(b) \subseteq {b}
      BY <3>2, WaitingForHead
    <3> HIDE DEF b
    <3>4. told' = [w \in Writes |-> IF \E c \in Waiting(b) : c.write = w THEN "ok" ELSE told[w]]
      BY <2>2 DEF b
    <3>5. told' \in [Writes -> {"nothing", "ok", "error"}]
      BY <1>1, <3>4 DEF EngineInv
    <3>6. TellsTruth'
      BY <1>1, <1>2, <3>2, <3>3, <3>4 DEF EngineInv, TellsTruth
    <3>7. QED
      BY <3>1, <3>5, <3>6
  <2>3. CASE RefusalArrives /\ mutationQueue' = Without(Head(pipeline)) /\ UNCHANGED told
    <3>1. /\ pipeline # <<>> /\ b.write \in applied \cup refused
          /\ b.write \in applied \ refused => b.write <= newest[currentUser]
      BY <2>3, FirstCharged
    <3>2. QueuesInv'
      BY <1>2, <2>3, <3>1, HeadLeaves DEF QueuesInv
    <3>3. QED
      BY <1>1, <1>2, <2>3, <3>2 DEF EngineInv, TellsTruth
  <2>4. QED
    BY <1>2, <2>1, <2>2, <2>3 DEF HalfDone
<1>5. Len(issued) \in Nat /\ Len(issued) <= MaxWrites
  BY <1>1, LenProperties DEF ServerTyped
<1>6. mutationQueue' \in [User -> Seq(Batch)] /\ \A u \in User : Ascending(mutationQueue'[u])
  BY <1>4 DEF QueuesInv, QueuesTyped
<1>7. \A u \in User : \A i \in DOMAIN mutationQueue'[u] : mutationQueue'[u][i].id <= Len(issued)
  BY <1>2, <1>4, <1>5 DEF QueuesInv, QueuesListWrites
<1>8. /\ nextBatchId' \in 1..(Len(issued) + 1)
      /\ \A u \in User : \A i \in DOMAIN mutationQueue'[u] : mutationQueue'[u][i].id < nextBatchId'
  <2> DEFINE queues == mutationQueue'
  <2>1. /\ queues \in [User -> Seq(Batch)]
        /\ \A u \in User : \A i \in DOMAIN queues[u] : queues[u][i].id <= Len(issued)
    BY <1>6, <1>7
  <2> HIDE DEF queues
  <2>2. /\ NextId(queues) \in 1..(Len(issued) + 1)
        /\ \A u \in User : \A i \in DOMAIN queues[u] : queues[u][i].id < NextId(queues)
    BY <1>5, <2>1, NextIdIsFree
  <2>3. QED
    BY <1>2, <2>2 DEF queues
<1>9. CompletionsKeepTheirBatch'
  BY <1>2 DEF CompletionsKeepTheirBatch
<1>10. EngineInv'
  BY <1>1, <1>2, <1>4, <1>8, <1>9 DEF EngineInv
<1>11. ServerTyped'
  BY <1>1, <1>2 DEF ServerTyped
<1>12. StreamInv'
  <2>1. breaks' \in Nat /\ restarts' \in Nat /\ resets' \in Nat
    BY <1>1, <1>2 DEF StreamInv, StreamTyped
  <2>2. currentUser \in User
    BY <1>1 DEF EngineInv
  <2>3. QED
    BY <1>2, <1>6, <2>1, <2>2, NetworkStarts
<1>13. QED
  BY <1>4, <1>10, <1>11, <1>12, WholeNext

LEMMA IssueWriteIInv == IInv /\ IssueWrite => IInv'
<1> SUFFICES ASSUME IInv, IssueWrite PROVE IInv'
  OBVIOUS
<1> DEFINE b == [id |-> nextBatchId, write |-> Len(issued) + 1]
           q == Append(mutationQueue[currentUser], b)
           more == IF network THEN Added(pipeline, q) ELSE <<>>
           sent == IF state = "open" /\ handshake THEN more ELSE <<>>
<1>1. StreamInv /\ EngineInv /\ ServerTyped
  BY StreamParts, EngineParts, ServerParts
<1>2. /\ Len(issued) < MaxWrites
      /\ issued' = Append(issued, currentUser)
      /\ mutationQueue' = [mutationQueue EXCEPT ![currentUser] = q]
      /\ nextBatchId' = nextBatchId + 1
      /\ callbacks' = [callbacks EXCEPT ![currentUser] = @ \cup {b}]
      /\ pipeline' = pipeline \o more /\ requests' = requests \o sent
      /\ idle' = (idle /\ sent = <<>>) /\ state' = Started(state, pipeline')
      /\ UNCHANGED <<currentUser, network, handshake, responses, fault, applied, newest, refused,
                     told, breaks, restarts, resets>>
  BY DEF IssueWrite, server
<1>3. /\ b \in Batch
      /\ issued' \in Seq(User) /\ Len(issued') = Len(issued) + 1
      /\ mutationQueue'[currentUser] = q /\ q \in Seq(Batch)
      /\ \A u \in User \ {currentUser} : mutationQueue'[u] = mutationQueue[u]
      /\ QueuesTyped' /\ QueuesListWrites' /\ LastWordStands' /\ NoWriteLost'
      /\ ToSet(q) = ToSet(mutationQueue[currentUser]) \cup {b}
      /\ \A i \in DOMAIN q : q[i].id < nextBatchId + 1
  BY <1>2, WriteJoins
<1>4. currentUser \in User /\ mutationQueue[currentUser] \in Seq(Batch)
  BY QueueShape
<1>5. /\ pipeline \in Seq(Batch) /\ pipeline \in Seq(Message) /\ Len(pipeline) <= MaxPendingWrites
      /\ IsPrefix(pipeline, mutationQueue[currentUser])
  BY <1>1, WireShape DEF StreamInv, PipelineIsPrefix
<1>6. IsPrefix(pipeline, q)
  BY <1>3, <1>4, <1>5, PrefixOfLonger
<1> HIDE DEF b, q
<1>7. Ascending(q)
  <2>1. Ascending(mutationQueue'[currentUser])
    BY <1>3, <1>4 DEF QueuesTyped
  <2>2. QED
    BY <1>3, <2>1
<1>8. /\ more \in Seq(Batch) /\ pipeline' \in Seq(Batch)
      /\ IsPrefix(pipeline', q) /\ Len(pipeline') <= MaxPendingWrites
  <2>1. CASE network
    BY <1>2, <1>3, <1>5, <1>6, <1>7, <2>1, AddedFills
  <2>2. CASE ~network
    BY <1>2, <1>3, <1>5, <1>6, <2>2, ConcatEmptySeq, EmptySeq
  <2>3. QED
    BY <2>1, <2>2
<1>9. sent \in Seq(Message) /\ more \in Seq(Message)
  <2>1. Batch \subseteq Message
    BY DEF Message
  <2>2. more \in Seq(Message)
    BY <1>8, <2>1, SeqMonotonic
  <2>3. <<>> \in Seq(Message)
    BY EmptySeq
  <2>4. QED
    BY <2>2, <2>3
<1>10. ~network => more = <<>>
  OBVIOUS
<1>11. state = "open" /\ handshake => sent = more
  OBVIOUS
<1>12. ~(state = "open" /\ handshake) => sent = <<>>
  OBVIOUS
<1> HIDE DEF more, sent
<1>13. requests \in Seq(Message) /\ requests' \in Seq(Message)
  BY <1>2, <1>9, WireShape, ConcatProperties
<1>14. /\ state' \in StreamState /\ (state' = "open" <=> state = "open")
       /\ (~network => pipeline' = <<>> /\ state' = state)
  <2>1. state \in StreamState
    BY <1>1 DEF StreamInv, StreamTyped
  <2>2. ~network => pipeline' = <<>>
    BY <1>1, <1>2, <1>5, <1>10, ConcatEmptySeq DEF StreamInv, StoppedWhenDisabled
  <2>3. QED
    BY <1>2, <2>1, <2>2 DEF Started, StreamState
<1>15. AnswersMatchPipeline'
  <2>1. CASE state = "open" /\ handshake
    <3> DEFINE s == responses \o Refusal
    <3>1. s \in Seq(Message) /\ UnderWay = s \o requests /\ UnderWay = pipeline
      BY <1>1, <2>1, WireShape DEF StreamInv, AnswersMatchPipeline
    <3>2. UnderWay' = s \o (requests \o more)
      BY <1>2, <1>11, <2>1 DEF UnderWay, Refusal
    <3>3. s \in Seq(Message) /\ requests \in Seq(Message) /\ more \in Seq(Message)
      BY <1>9, <1>13, <3>1
    <3> HIDE DEF s
    <3>4. (s \o requests) \o more = s \o (requests \o more)
      BY <3>3, ConcatAssociative
    <3>5. UnderWay' = pipeline'
      BY <1>2, <3>1, <3>2, <3>4
    <3>6. QED
      BY <1>2, <1>14, <2>1, <3>5 DEF AnswersMatchPipeline
  <2>2. CASE ~(state = "open" /\ handshake)
    <3>1. requests' = requests
      BY <1>2, <1>12, <1>13, <2>2, ConcatEmptySeq
    <3>2. UnderWay' = UnderWay
      BY <1>2, <3>1 DEF UnderWay
    <3>3. QED
      BY <1>1, <1>2, <1>14, <2>2, <3>2 DEF StreamInv, AnswersMatchPipeline
  <2>3. QED
    BY <2>1, <2>2
<1>16. StreamTyped'
  BY <1>1, <1>2, <1>8, <1>13, <1>14 DEF StreamInv, StreamTyped
<1>17. IdleOnlyWhenEmpty'
  <2>1. ASSUME idle' PROVE state' = "open" /\ handshake' /\ pipeline' = <<>>
    <3>1. idle /\ sent = <<>>
      BY <1>2, <2>1
    <3>2. state = "open" /\ handshake /\ pipeline = <<>>
      BY <1>1, <3>1 DEF StreamInv, IdleOnlyWhenEmpty
    <3>3. more = <<>> /\ pipeline' = <<>>
      BY <1>2, <1>5, <1>11, <3>1, <3>2, ConcatEmptySeq
    <3>4. QED
      BY <1>2, <1>14, <3>2, <3>3
  <2>2. QED
    BY <2>1 DEF IdleOnlyWhenEmpty
<1>18. StoppedWhenDisabled'
  BY <1>1, <1>2, <1>14 DEF StreamInv, StoppedWhenDisabled
<1>19. AnswersAreFacts'
  BY <1>1, <1>2 DEF StreamInv, AnswersAreFacts
<1>20. PipelineIsPrefix'
  BY <1>2, <1>3, <1>8 DEF PipelineIsPrefix
<1>21. ServerTyped'
  <2>1. Len(issued) \in Nat
    BY <1>1, LenProperties DEF ServerTyped
  <2>2. QED
    BY <1>1, <1>2, <1>3, <2>1, PipelineAssumption DEF ServerTyped
<1>22. EngineInv'
  <2>1. callbacks' \in [User -> SUBSET Batch]
    BY <1>1, <1>2, <1>3 DEF EngineInv
  <2>2. CompletionsKeepTheirBatch'
    <3>1. \A u \in User : callbacks[u] \subseteq ToSet(mutationQueue[u])
      BY <1>1 DEF EngineInv, CompletionsKeepTheirBatch
    <3>2. callbacks \in [User -> SUBSET Batch]
      BY <1>1 DEF EngineInv
    <3>3. \A u \in User : callbacks'[u] \subseteq ToSet(mutationQueue'[u])
      <4> TAKE u \in User
      <4>1. CASE u = currentUser
        BY <1>2, <1>3, <3>1, <3>2, <4>1
      <4>2. CASE u # currentUser
        BY <1>2, <1>3, <3>1, <3>2, <4>2
      <4>3. QED
        BY <4>1, <4>2
    <3>4. QED
      BY <3>3 DEF CompletionsKeepTheirBatch
  <2>3. TellsTruth'
    BY <1>1, <1>2 DEF EngineInv, TellsTruth
  <2>4. nextBatchId' \in 1..(Len(issued') + 1)
    <3>1. Len(issued) \in Nat /\ nextBatchId \in 1..(Len(issued) + 1)
      BY <1>1, LenProperties DEF ServerTyped, EngineInv
    <3>2. QED
      BY <1>2, <1>3, <3>1
  <2>5. QED
    BY <1>1, <1>2, <1>3, <2>1, <2>2, <2>3, <2>4 DEF EngineInv
<1>23. QED
  BY <1>3, <1>15, <1>16, <1>17, <1>18, <1>19, <1>20, <1>21, <1>22, WholeNext
     DEF StreamInv, QueuesInv

LEMMA StutterIInv == IInv /\ UNCHANGED vars => IInv'
<1> SUFFICES ASSUME IInv, UNCHANGED vars PROVE IInv'
  OBVIOUS
<1>1. /\ UNCHANGED <<disk, engine, server, issued, told>>
      /\ UNCHANGED <<mutationQueue, currentUser, pipeline, network, state, handshake, idle,
                     requests, responses, fault, applied, newest, refused,
                     breaks, restarts, resets>>
  BY DEF vars, disk, engine, stream, wire, server, history
<1>2. EngineInv' /\ ServerTyped' /\ QueuesInv'
  BY <1>1, EngineStays
<1>3. StreamInv
  BY StreamParts
<1>4. UnderWay' = UnderWay
  BY <1>1 DEF UnderWay
<1>5. StreamInv'
  BY <1>1, <1>3, <1>4 DEF StreamInv, StreamTyped, PipelineIsPrefix, AnswersMatchPipeline,
                          IdleOnlyWhenEmpty, StoppedWhenDisabled, AnswersAreFacts
<1>6. QED
  BY <1>2, <1>5, WholeNext

LEMMA NextIInv == IInv /\ [Next]_vars => IInv'
BY IssueWriteIInv, OpenStreamIInv, BackoffElapsesIInv, HandshakeCompleteIInv, MutationResultIInv,
   WriteErrorIInv, TokenFailsIInv, StreamBreaksIInv, IdleTimeoutIInv, ServerGreetsIInv,
   ServerAppliesIInv, ServerRefusesIInv, RestartNetworkIInv, DisableNetworkIInv,
   EnableNetworkIInv, SwitchUserIInv, CrashIInv, StutterIInv
   DEF Next, Client, Server

(* The stream, the pipeline, the queues and the completions fit together    *)
(* after any sequence of writes, failed streams, refusals, changes of user  *)
(* and crashes.                                                             *)
THEOREM Invariance == Spec => []IInv
BY InitIInv, NextIInv, PTL DEF Spec

(* The pipeline is a prefix of the current user's queue, the answers under  *)
(* way match it by position, and no completion outlives its batch: what     *)
(* OnWriteStreamMutationResult takes for granted.                           *)
THEOREM PipelineFits == Spec => []PipelineInv
<1>1. IInv => PipelineInv
  BY DEF IInv
<1>2. QED
  BY <1>1, Invariance, PTL

(* A completion that hears of success speaks of a write the server has.     *)
THEOREM Truthful == Spec => []TellsTruth
<1>1. IInv => TellsTruth
  BY DEF IInv
<1>2. QED
  BY <1>1, Invariance, PTL

(* A write leaves the persistent queue only when the server has decided on  *)
(* it, whatever breaks, whoever is signed in.                               *)
THEOREM NothingLost == Spec => []NoWriteLost
<1>1. IInv => NoWriteLost
  BY DEF IInv
<1>2. QED
  BY <1>1, Invariance, PTL

(* When a user's queue is empty, the last write the server applied for him  *)
(* is not older than any it applied and never refused.                      *)
THEOREM LastWord == Spec => []Converges
<1>1. IInv => Converges
  <2> SUFFICES ASSUME IInv, NEW u \in User, mutationQueue[u] = <<>>,
                      NEW w \in WritesOf(u) \cap (applied \ refused)
               PROVE  newest[u] >= w
    BY DEF Converges
  <2>1. DOMAIN mutationQueue[u] = {}
    BY EmptySeq, QueueShape
  <2>2. Queued(u) = {}
    BY <2>1 DEF Queued
  <2>3. w <= newest[u]
    BY <2>2 DEF IInv, PipelineInv, LastWordStands
  <2>4. w \in Int /\ newest[u] \in Int
    BY ServerParts DEF ServerTyped, Writes
  <2>5. QED
    BY <2>3, <2>4
<1>2. QED
  BY <1>1, Invariance, PTL

-----------------------------------------------------------------------------
(* WritePipeline implements WriteQueue *)

LEMMA FunctionIsSeq ==
  ASSUME NEW S, NEW n \in Nat, NEW f \in [1..n -> S]
  PROVE  f \in Seq(S) /\ Len(f) = n
<1>1. f \in Seq(S)
  BY SeqDef
<1>2. DOMAIN f = 1..n /\ DOMAIN f = 1..Len(f) /\ Len(f) \in Nat
  BY <1>1, LenProperties
<1>3. QED
  BY <1>1, <1>2

LEMMA PrefixByIndices ==
  ASSUME NEW S, NEW p \in Seq(S), NEW q \in Seq(S), NEW m \in Nat,
         Len(p) = m, m <= Len(q), \A i \in 1..m : p[i] = q[i]
  PROVE  IsPrefix(p, q)
BY PrefixIndices

WritesIn(q) == [i \in DOMAIN q |-> q[i].write]
HeardIn(q, cs) == [i \in DOMAIN q |-> q[i] \in cs]

(* The state of WriteQueue that stands for a state of WritePipeline. *)
queueBar == [u \in User |-> WritesIn(mutationQueue[u])]
heardBar == [u \in User |-> HeardIn(mutationQueue[u], callbacks[u])]
verdictsBar == [u \in User |->
                  IF u # currentUser \/ ~handshake THEN <<>>
                  ELSE [i \in DOMAIN responses |-> TRUE]
                         \o (IF fault = NoBatch THEN <<>> ELSE <<FALSE>>)]

Grows(u, q, h) ==
  /\ queueBar'[u] \in Seq(Writes) /\ IsPrefix(q, queueBar'[u])
  /\ heardBar'[u] \in Seq(BOOLEAN) /\ IsPrefix(h, heardBar'[u])
  /\ Len(heardBar'[u]) = Len(queueBar'[u])
  /\ queueBar' = [queueBar EXCEPT ![u] = queueBar'[u]]
  /\ heardBar' = [heardBar EXCEPT ![u] = heardBar'[u]]

IssueBar(u) ==
  /\ Grows(u, queueBar[u], heardBar[u])
  /\ UNCHANGED verdictsBar

LEMMA Issuing == ASSUME NEW u \in User, IssueBar(u) PROVE WQ!Issue(u)
BY DEF IssueBar, Grows, queueBar, heardBar, verdictsBar, WritesIn, HeardIn, WQ!Issue, WQ!Extends,
       IsPrefix, WQ!IsPrefix

RefusedBar(u) == \E i \in DOMAIN verdictsBar[u] : ~verdictsBar[u][i]

JudgeBar(u, verdict) ==
  /\ ~RefusedBar(u)
  /\ Len(verdictsBar[u]) < Len(queueBar[u])
  /\ verdictsBar' = [verdictsBar EXCEPT ![u] = Append(@, verdict)]
  /\ UNCHANGED <<queueBar, heardBar>>

LEMMA Judging == ASSUME NEW u \in User, NEW verdict \in BOOLEAN, JudgeBar(u, verdict) PROVE WQ!Judge(u)
BY DEF JudgeBar, RefusedBar, queueBar, heardBar, verdictsBar, WritesIn, HeardIn, WQ!Judge, WQ!Refused

AcceptBar(u) ==
  /\ verdictsBar[u] # <<>> /\ Head(verdictsBar[u])
  /\ verdictsBar' = [verdictsBar EXCEPT ![u] = Tail(@)]
  /\ Grows(u, Tail(queueBar[u]), Tail(heardBar[u]))

RejectBar(u) ==
  /\ RefusedBar(u)
  /\ verdictsBar' = [verdictsBar EXCEPT ![u] = <<>>]
  /\ Grows(u, Tail(queueBar[u]), Tail(heardBar[u]))

BreakBar(u) ==
  /\ verdictsBar' = [verdictsBar EXCEPT ![u] = <<>>]
  /\ UNCHANGED <<queueBar, heardBar>>

RestartBar ==
  /\ verdictsBar' = [u \in User |-> <<>>]
  /\ \/ UNCHANGED queueBar
     \/ \E u \in User : RefusedBar(u) /\ queueBar' = [queueBar EXCEPT ![u] = Tail(@)]
  /\ heardBar' = [u \in User |-> [i \in DOMAIN queueBar'[u] |-> FALSE]]

LEMMA Accepting == ASSUME NEW u \in User, AcceptBar(u) PROVE WQ!Accept(u)
BY DEF AcceptBar, Grows, queueBar, heardBar, verdictsBar, WritesIn, HeardIn, WQ!Accept, WQ!Extends,
       IsPrefix, WQ!IsPrefix

LEMMA Rejecting == ASSUME NEW u \in User, RejectBar(u) PROVE WQ!Reject(u)
BY DEF RejectBar, RefusedBar, Grows, queueBar, heardBar, verdictsBar, WritesIn, HeardIn, WQ!Reject,
       WQ!Refused, WQ!Extends, IsPrefix, WQ!IsPrefix

LEMMA Breaking == ASSUME NEW u \in User, BreakBar(u) PROVE WQ!Break(u)
BY DEF BreakBar, queueBar, heardBar, verdictsBar, WritesIn, HeardIn, WQ!Break

LEMMA Restarting == ASSUME RestartBar PROVE WQ!Restart(User)
BY DEF RestartBar, RefusedBar, queueBar, heardBar, verdictsBar, WritesIn, HeardIn, WQ!Restart,
       WQ!Refused

LEMMA Stuttering == ASSUME UNCHANGED <<queueBar, heardBar, verdictsBar>> PROVE UNCHANGED WQ!vars
BY DEF queueBar, heardBar, verdictsBar, WritesIn, HeardIn, WQ!vars

LEMMA BarsAreFunctions ==
  /\ queueBar = [u \in User |-> queueBar[u]]
  /\ heardBar = [u \in User |-> heardBar[u]]
  /\ verdictsBar = [u \in User |-> verdictsBar[u]]
BY DEF queueBar, heardBar, verdictsBar

(* The writes of a queue, and whether their completions wait. *)
LEMMA WritesInSeq ==
  ASSUME NEW q \in Seq(Batch)
  PROVE  /\ WritesIn(q) \in Seq(Writes) /\ Len(WritesIn(q)) = Len(q)
         /\ DOMAIN WritesIn(q) = 1..Len(q)
         /\ \A i \in 1..Len(q) : WritesIn(q)[i] = q[i].write
<1>1. Len(q) \in Nat /\ DOMAIN q = 1..Len(q)
  BY LenProperties
<1>2. \A i \in 1..Len(q) : q[i].write \in Writes
  <2>1. \A i \in 1..Len(q) : q[i] \in Batch
    BY ElementOfSeq
  <2>2. \A b \in Batch : b.write \in Writes
    BY DEF Batch
  <2>3. QED
    BY <2>1, <2>2
<1>3. WritesIn(q) \in [1..Len(q) -> Writes]
  BY <1>1, <1>2 DEF WritesIn
<1>4. \A i \in 1..Len(q) : WritesIn(q)[i] = q[i].write
  BY <1>1 DEF WritesIn
<1>5. QED
  BY <1>1, <1>3, <1>4, FunctionIsSeq

LEMMA HeardInSeq ==
  ASSUME NEW q \in Seq(Batch), NEW cs
  PROVE  /\ HeardIn(q, cs) \in Seq(BOOLEAN) /\ Len(HeardIn(q, cs)) = Len(q)
         /\ DOMAIN HeardIn(q, cs) = 1..Len(q)
         /\ \A i \in 1..Len(q) : HeardIn(q, cs)[i] = (q[i] \in cs)
<1>1. Len(q) \in Nat /\ DOMAIN q = 1..Len(q)
  BY LenProperties
<1>2. HeardIn(q, cs) \in [1..Len(q) -> BOOLEAN]
  BY <1>1 DEF HeardIn
<1>3. \A i \in 1..Len(q) : HeardIn(q, cs)[i] = (q[i] \in cs)
  BY <1>1 DEF HeardIn
<1>4. QED
  BY <1>1, <1>2, <1>3, FunctionIsSeq

(* Growing is what the writes of the queue and the completions say. *)
LEMMA GrowsByQueue ==
  ASSUME NEW u \in User, NEW q \in Seq(Batch), NEW cs,
         mutationQueue' = [mutationQueue EXCEPT ![u] = q], mutationQueue \in [User -> Seq(Batch)],
         callbacks' = [callbacks EXCEPT ![u] = cs], callbacks \in [User -> SUBSET Batch],
         NEW qs \in Seq(Writes), NEW hs \in Seq(BOOLEAN),
         IsPrefix(qs, WritesIn(q)), IsPrefix(hs, HeardIn(q, cs))
  PROVE  Grows(u, qs, hs)
<1>1. queueBar'[u] = WritesIn(q) /\ heardBar'[u] = HeardIn(q, cs)
  BY DEF queueBar, heardBar
<1>2. \A v \in User \ {u} : queueBar'[v] = queueBar[v] /\ heardBar'[v] = heardBar[v]
  BY DEF queueBar, heardBar
<1>3. /\ queueBar' = [v \in User |-> queueBar'[v]] /\ queueBar = [v \in User |-> queueBar[v]]
      /\ heardBar' = [v \in User |-> heardBar'[v]] /\ heardBar = [v \in User |-> heardBar[v]]
  BY DEF queueBar, heardBar
<1>4. /\ WritesIn(q) \in Seq(Writes) /\ HeardIn(q, cs) \in Seq(BOOLEAN)
      /\ Len(HeardIn(q, cs)) = Len(WritesIn(q))
  BY WritesInSeq, HeardInSeq
<1>5. queueBar' = [queueBar EXCEPT ![u] = queueBar'[u]]
  BY <1>2, <1>3
<1>6. heardBar' = [heardBar EXCEPT ![u] = heardBar'[u]]
  BY <1>2, <1>3
<1>7. QED
  BY <1>1, <1>4, <1>5, <1>6 DEF Grows

LEMMA IssueWriteImplements == IInv /\ IssueWrite => WQ!Next
<1> SUFFICES ASSUME IInv, IssueWrite PROVE WQ!Next
  OBVIOUS
<1> DEFINE u == currentUser
           p == mutationQueue[u]
           b == [id |-> nextBatchId, write |-> Len(issued) + 1]
           q == Append(p, b)
           cs == callbacks[u] \cup {b}
<1>1. /\ Len(issued) < MaxWrites
      /\ issued' = Append(issued, currentUser)
      /\ mutationQueue' = [mutationQueue EXCEPT ![u] = q]
      /\ callbacks' = [callbacks EXCEPT ![u] = cs]
      /\ UNCHANGED <<currentUser, handshake, responses, fault, applied, newest, refused>>
  BY DEF IssueWrite, server
<1>2. b \in Batch
  BY <1>1, WriteJoins
<1>3. /\ u \in User /\ p \in Seq(Batch) /\ mutationQueue \in [User -> Seq(Batch)]
      /\ callbacks \in [User -> SUBSET Batch]
      /\ \A i \in DOMAIN p : p[i].id < nextBatchId /\ p[i].id \in Nat
  BY QueueShape, EngineParts DEF QueuesTyped, EngineInv
<1>4. /\ q \in Seq(Batch) /\ Len(q) = Len(p) + 1 /\ Len(p) \in Nat
      /\ \A i \in 1..Len(p) : q[i] = p[i]
      /\ DOMAIN p = 1..Len(p)
  BY <1>2, <1>3, AppendProperties, LenProperties
<1>5. \A i \in 1..Len(p) : p[i] # b
  <2>1. b.id = nextBatchId /\ nextBatchId \in Nat
    BY EngineParts DEF EngineInv
  <2>2. \A i \in 1..Len(p) : p[i].id < nextBatchId /\ p[i].id \in Nat
    BY <1>3, <1>4
  <2> HIDE DEF b, p
  <2>3. QED
    BY <2>1, <2>2
<1>6. IsPrefix(WritesIn(p), WritesIn(q))
  <2> DEFINE s == WritesIn(p)
             t == WritesIn(q)
  <2>1. /\ s \in Seq(Writes) /\ t \in Seq(Writes) /\ Len(s) = Len(p) /\ Len(p) <= Len(t)
        /\ \A i \in 1..Len(p) : s[i] = p[i].write
        /\ \A i \in 1..Len(q) : t[i] = q[i].write
    <3>1. s \in Seq(Writes) /\ Len(s) = Len(p) /\ \A i \in 1..Len(p) : s[i] = p[i].write
      BY <1>3, WritesInSeq
    <3> HIDE DEF q
    <3>2. t \in Seq(Writes) /\ Len(t) = Len(q) /\ \A i \in 1..Len(q) : t[i] = q[i].write
      BY <1>4, WritesInSeq
    <3> HIDE DEF s, t
    <3>3. QED
      BY <1>4, <3>1, <3>2
  <2>2. \A i \in 1..Len(p) : i \in 1..Len(q)
    BY <1>4
  <2>3. \A i \in 1..Len(p) : s[i] = t[i]
    BY <1>4, <2>1, <2>2
  <2> HIDE DEF s, t
  <2>4. IsPrefix(s, t)
    BY <1>4, <2>1, <2>3, PrefixByIndices
  <2>5. QED
    BY <2>4 DEF s, t
<1>7. IsPrefix(HeardIn(p, callbacks[u]), HeardIn(q, cs))
  <2> DEFINE s == HeardIn(p, callbacks[u])
             t == HeardIn(q, cs)
  <2>1. /\ s \in Seq(BOOLEAN) /\ t \in Seq(BOOLEAN) /\ Len(s) = Len(p) /\ Len(t) = Len(q)
        /\ \A i \in 1..Len(p) : s[i] = (p[i] \in callbacks[u])
        /\ \A i \in 1..Len(q) : t[i] = (q[i] \in cs)
    BY <1>3, <1>4, HeardInSeq
  <2>2. \A i \in 1..Len(p) : i \in 1..Len(q) /\ (q[i] \in cs) = (p[i] \in callbacks[u])
    BY <1>4, <1>5
  <2> HIDE DEF s, t, cs
  <2>3. Len(p) <= Len(t)
    BY <1>4, <2>1
  <2> HIDE DEF u, p, q
  <2>4. \A i \in 1..Len(p) : s[i] = t[i]
    BY <2>1, <2>2, Zenon
  <2>5. IsPrefix(s, t)
    BY <1>4, <2>1, <2>3, <2>4, PrefixByIndices
  <2>6. QED
    BY <2>5 DEF s, t
<1>8. Grows(u, WritesIn(p), HeardIn(p, callbacks[u]))
  <2>1. WritesIn(p) \in Seq(Writes) /\ HeardIn(p, callbacks[u]) \in Seq(BOOLEAN)
    BY <1>3, WritesInSeq, HeardInSeq
  <2> HIDE DEF q, cs
  <2>2. QED
    BY <1>1, <1>3, <1>4, <1>6, <1>7, <2>1, GrowsByQueue
<1>9. queueBar[u] = WritesIn(p) /\ heardBar[u] = HeardIn(p, callbacks[u])
  BY <1>3 DEF queueBar, heardBar
<1>10. UNCHANGED verdictsBar
  BY <1>1 DEF verdictsBar
<1>11. u \in User /\ IssueBar(u)
  BY <1>3, <1>8, <1>9, <1>10 DEF IssueBar
<1> HIDE DEF u, p, b, q, cs
<1>12. QED
  BY <1>11, Issuing DEF WQ!Next

(* What the first batch of the queue leaves behind for WriteQueue. *)
LEMMA GrowsWithoutHead ==
  ASSUME IInv, pipeline # <<>>, mutationQueue[currentUser] # <<>>,
         Head(pipeline) = Head(mutationQueue[currentUser]),
         mutationQueue' = [mutationQueue EXCEPT ![currentUser] = Tail(@)],
         callbacks' = [callbacks EXCEPT ![currentUser] = @ \ Waiting(Head(pipeline))]
  PROVE  Grows(currentUser, Tail(queueBar[currentUser]), Tail(heardBar[currentUser]))
<1> DEFINE u == currentUser
           q == mutationQueue[u]
           r == Tail(q)
           cs == callbacks[u] \ Waiting(Head(pipeline))
           qs == WritesIn(q)
           hs == HeardIn(q, callbacks[u])
<1>1. /\ u \in User /\ q \in Seq(Batch) /\ q # <<>> /\ Ascending(q)
      /\ mutationQueue \in [User -> Seq(Batch)] /\ callbacks \in [User -> SUBSET Batch]
      /\ \A i \in DOMAIN q : q[i].id \in Nat
  BY QueueShape, EngineParts DEF QueuesTyped, EngineInv
<1>2. /\ r \in Seq(Batch) /\ Len(r) = Len(q) - 1 /\ Len(q) \in Nat \ {0} /\ DOMAIN q = 1..Len(q)
      /\ \A i \in 1..(Len(q) - 1) : r[i] = q[i + 1]
  <2>1. /\ r \in Seq(Batch) /\ Len(r) = Len(q) - 1
        /\ \A i \in 1..Len(r) : r[i] = q[i + 1]
    BY <1>1, HeadTailProperties
  <2>2. Len(q) \in Nat \ {0} /\ DOMAIN q = 1..Len(q)
    BY <1>1, LenProperties, EmptySeq
  <2>3. QED
    BY <2>1, <2>2
<1>3. Head(pipeline) = q[1] /\ Waiting(Head(pipeline)) \subseteq {q[1]}
  BY <1>1, WaitingForHead
<1>4. \A i \in 1..(Len(q) - 1) : i + 1 \in DOMAIN q /\ q[i + 1] # q[1]
  <2>1. \A i \in 1..(Len(q) - 1) : i + 1 \in DOMAIN q /\ 1 \in DOMAIN q /\ 1 < i + 1
    BY <1>2
  <2>2. \A i \in 1..(Len(q) - 1) : q[1].id < q[i + 1].id
    BY <1>1, <2>1 DEF Ascending
  <2>3. QED
    BY <1>1, <2>1, <2>2
<1>5. \A i \in 1..(Len(q) - 1) : (r[i] \in cs) = (q[i + 1] \in callbacks[u])
  BY <1>2, <1>3, <1>4
<1>6. /\ qs \in Seq(Writes) /\ Len(qs) = Len(q) /\ \A i \in 1..Len(q) : qs[i] = q[i].write
      /\ hs \in Seq(BOOLEAN) /\ Len(hs) = Len(q)
      /\ \A i \in 1..Len(q) : hs[i] = (q[i] \in callbacks[u])
  BY <1>1, WritesInSeq, HeardInSeq
<1>7. /\ WritesIn(r) \in Seq(Writes) /\ Len(WritesIn(r)) = Len(r)
      /\ \A i \in 1..Len(r) : WritesIn(r)[i] = r[i].write
      /\ HeardIn(r, cs) \in Seq(BOOLEAN) /\ Len(HeardIn(r, cs)) = Len(r)
      /\ \A i \in 1..Len(r) : HeardIn(r, cs)[i] = (r[i] \in cs)
  BY <1>2, WritesInSeq, HeardInSeq
<1>8. queueBar[u] = qs /\ heardBar[u] = hs
  BY <1>1 DEF queueBar, heardBar
<1>9. mutationQueue' = [mutationQueue EXCEPT ![u] = r] /\ callbacks' = [callbacks EXCEPT ![u] = cs]
  BY <1>1
<1> HIDE DEF qs, hs, r, cs
<1>10. qs # <<>> /\ hs # <<>>
  BY <1>2, <1>6
<1>11. /\ Tail(qs) \in Seq(Writes) /\ Len(Tail(qs)) = Len(qs) - 1
       /\ \A i \in 1..Len(Tail(qs)) : Tail(qs)[i] = qs[i + 1]
  BY <1>6, <1>10, HeadTailProperties
<1>12. /\ Tail(hs) \in Seq(BOOLEAN) /\ Len(Tail(hs)) = Len(hs) - 1
       /\ \A i \in 1..Len(Tail(hs)) : Tail(hs)[i] = hs[i + 1]
  BY <1>6, <1>10, HeadTailProperties
<1>13. \A i \in 1..(Len(q) - 1) : i + 1 \in 1..Len(q)
  BY <1>2
<1>14. IsPrefix(Tail(qs), WritesIn(r))
  <2> DEFINE s == Tail(qs)
             t == WritesIn(r)
  <2>1. s \in Seq(Writes) /\ t \in Seq(Writes) /\ Len(s) = Len(q) - 1 /\ Len(t) = Len(q) - 1
    BY <1>2, <1>6, <1>7, <1>11
  <2>2. \A i \in 1..(Len(q) - 1) : s[i] = t[i]
    BY <1>2, <1>6, <1>7, <1>11, <1>13
  <2> HIDE DEF s, t
  <2>3. Len(q) - 1 \in Nat /\ Len(q) - 1 <= Len(t)
    BY <1>2, <2>1
  <2>4. IsPrefix(s, t)
    BY <2>1, <2>2, <2>3, PrefixByIndices
  <2>5. QED
    BY <2>4 DEF s, t
<1>15. IsPrefix(Tail(hs), HeardIn(r, cs))
  <2> DEFINE s == Tail(hs)
             t == HeardIn(r, cs)
  <2>1. s \in Seq(BOOLEAN) /\ t \in Seq(BOOLEAN) /\ Len(s) = Len(q) - 1 /\ Len(t) = Len(q) - 1
    BY <1>2, <1>6, <1>7, <1>12
  <2>2. \A i \in 1..(Len(q) - 1) : s[i] = t[i]
    BY <1>2, <1>5, <1>6, <1>7, <1>12, <1>13
  <2> HIDE DEF s, t
  <2>3. Len(q) - 1 \in Nat /\ Len(q) - 1 <= Len(t)
    BY <1>2, <2>1
  <2>4. IsPrefix(s, t)
    BY <2>1, <2>2, <2>3, PrefixByIndices
  <2>5. QED
    BY <2>4 DEF s, t
<1>16. Grows(u, Tail(qs), Tail(hs))
  BY <1>1, <1>2, <1>9, <1>11, <1>12, <1>14, <1>15, GrowsByQueue
<1>17. QED
  BY <1>8, <1>16

(* The verdicts on their way: so many acceptances, and perhaps a refusal. *)
Same(n, a) == [i \in 1..n |-> a]
Accepted(n) == Same(n, TRUE)
Answered(n, f) == Accepted(n) \o (IF f = NoBatch THEN <<>> ELSE <<FALSE>>)

(* The same value, n times. *)
LEMMA SameShape ==
  ASSUME NEW S, NEW a \in S, NEW n \in Nat
  PROVE  /\ Same(n, a) \in Seq(S) /\ Len(Same(n, a)) = n
         /\ \A i \in 1..n : Same(n, a)[i] = a
<1>1. Same(n, a) \in [1..n -> S]
  BY DEF Same
<1>2. QED
  BY <1>1, FunctionIsSeq DEF Same

LEMMA SameAgain ==
  ASSUME NEW S, NEW a \in S, NEW n \in Nat
  PROVE  Append(Same(n, a), a) = Same(n + 1, a)
<1> DEFINE s == Same(n, a)
           t == Same(n + 1, a)
<1>1. s \in Seq(S) /\ Len(s) = n /\ \A i \in 1..n : s[i] = a
  BY SameShape
<1>2. t \in Seq(S) /\ Len(t) = n + 1 /\ \A i \in 1..(n + 1) : t[i] = a
  <2>1. n + 1 \in Nat
    OBVIOUS
  <2>2. QED
    BY <2>1, SameShape
<1> HIDE DEF s, t
<1> DEFINE r == Append(s, a)
<1>3. r \in Seq(S) /\ Len(r) = n + 1 /\ r[n + 1] = a /\ \A i \in 1..n : r[i] = a
  BY <1>1, AppendProperties
<1> HIDE DEF r
<1>4. \A i \in 1..(n + 1) : i \in 1..n \/ i = n + 1
  OBVIOUS
<1>5. r = t
  BY <1>2, <1>3, <1>4, SeqEqual
<1>6. QED
  BY <1>5 DEF r, s, t

LEMMA SameFirst ==
  ASSUME NEW S, NEW a \in S, NEW n \in Nat, n # 0
  PROVE  Same(n, a) # <<>> /\ Head(Same(n, a)) = a /\ Tail(Same(n, a)) = Same(n - 1, a)
<1> DEFINE s == Same(n, a)
           t == Same(n - 1, a)
<1>1. s \in Seq(S) /\ Len(s) = n /\ \A i \in 1..n : s[i] = a
  BY SameShape
<1>2. t \in Seq(S) /\ Len(t) = n - 1 /\ \A i \in 1..(n - 1) : t[i] = a
  <2>1. n - 1 \in Nat
    OBVIOUS
  <2>2. QED
    BY <2>1, SameShape
<1> HIDE DEF s, t
<1>3. s # <<>>
  BY <1>1, EmptySeq
<1>4. /\ Head(s) = s[1] /\ Tail(s) \in Seq(S) /\ Len(Tail(s)) = n - 1
      /\ \A i \in 1..(n - 1) : Tail(s)[i] = s[i + 1]
  BY <1>1, <1>3, HeadTailProperties
<1>5. 1 \in 1..n /\ \A i \in 1..(n - 1) : i + 1 \in 1..n
  OBVIOUS
<1>6. Tail(s) = t
  BY <1>1, <1>2, <1>4, <1>5, SeqEqual
<1>7. s # <<>> /\ Head(s) = a /\ Tail(s) = t
  BY <1>1, <1>3, <1>4, <1>5, <1>6
<1>8. QED
  BY <1>7 DEF s, t

LEMMA AcceptedShape ==
  ASSUME NEW n \in Nat
  PROVE  /\ Accepted(n) \in Seq(BOOLEAN) /\ Len(Accepted(n)) = n
         /\ \A i \in 1..n : Accepted(n)[i] = TRUE
BY SameShape, TRUE \in BOOLEAN DEF Accepted

LEMMA AcceptedAgain ==
  ASSUME NEW n \in Nat
  PROVE  Append(Accepted(n), TRUE) = Accepted(n + 1)
BY SameAgain, TRUE \in BOOLEAN, Zenon DEF Accepted

LEMMA AcceptedFirst ==
  ASSUME NEW n \in Nat, n # 0
  PROVE  Accepted(n) # <<>> /\ Head(Accepted(n)) = TRUE /\ Tail(Accepted(n)) = Accepted(n - 1)
BY SameFirst, TRUE \in BOOLEAN, Zenon DEF Accepted

LEMMA AnsweredShape ==
  ASSUME NEW n \in Nat, NEW f
  PROVE  /\ Answered(n, f) \in Seq(BOOLEAN)
         /\ f = NoBatch => Answered(n, f) = Accepted(n)
         /\ f # NoBatch => Answered(n, f) = Append(Accepted(n), FALSE)
<1>1. Accepted(n) \in Seq(BOOLEAN)
  BY AcceptedShape
<1> HIDE DEF Accepted
<1>2. Accepted(n) \o <<>> = Accepted(n) /\ Accepted(n) \o <<FALSE>> = Append(Accepted(n), FALSE)
  BY <1>1, ConcatEmptySeq, AppendIsConcat
<1>3. Append(Accepted(n), FALSE) \in Seq(BOOLEAN)
  BY <1>1, AppendProperties
<1>4. QED
  BY <1>1, <1>2, <1>3 DEF Answered

(* The index of a refusal is the last one. *)
LEMMA AnsweredRefusal ==
  ASSUME NEW n \in Nat, NEW f
  PROVE  (\E i \in DOMAIN Answered(n, f) : ~Answered(n, f)[i]) <=> f # NoBatch
<1> DEFINE s == Answered(n, f)
<1>1. Accepted(n) \in Seq(BOOLEAN) /\ Len(Accepted(n)) = n /\ \A i \in 1..n : Accepted(n)[i] = TRUE
  BY AcceptedShape
<1>2. CASE f = NoBatch
  <2>1. s = Accepted(n) /\ DOMAIN Accepted(n) = 1..n
    BY <1>2, AnsweredShape DEF Accepted, Same
  <2>2. QED
    BY <1>1, <1>2, <2>1
<1>3. CASE f # NoBatch
  <2>1. s = Append(Accepted(n), FALSE)
    BY <1>3, AnsweredShape
  <2>2. Append(Accepted(n), FALSE)[n + 1] = FALSE /\ DOMAIN Append(Accepted(n), FALSE) = 1..(n + 1)
    BY <1>1, AppendProperties, LenProperties
  <2>3. n + 1 \in 1..(n + 1)
    OBVIOUS
  <2> HIDE DEF Accepted
  <2>4. QED
    BY <1>3, <2>1, <2>2, <2>3
<1>4. QED
  BY <1>2, <1>3

LEMMA VerdictsChange ==
  ASSUME IInv, handshake, currentUser' = currentUser
  PROVE  /\ verdictsBar[currentUser] = Answered(Len(responses), fault)
         /\ Len(responses) \in Nat
         /\ handshake' /\ responses' \in Seq(Message) =>
              /\ verdictsBar' = [verdictsBar EXCEPT
                                   ![currentUser] = Answered(Len(responses'), fault')]
              /\ Len(responses') \in Nat
<1>1. currentUser \in User /\ responses \in Seq(Message)
  BY QueueShape, WireShape
<1>2. DOMAIN responses = 1..Len(responses) /\ Len(responses) \in Nat
  BY <1>1, LenProperties
<1>3. verdictsBar[currentUser] = Answered(Len(responses), fault)
  BY <1>1, <1>2 DEF verdictsBar, Answered, Accepted, Same
<1>4. ASSUME handshake', responses' \in Seq(Message)
      PROVE  /\ verdictsBar' = [verdictsBar EXCEPT
                                  ![currentUser] = Answered(Len(responses'), fault')]
             /\ Len(responses') \in Nat
  <2>1. DOMAIN responses' = 1..Len(responses') /\ Len(responses') \in Nat
    BY <1>4, LenProperties
  <2>2. verdictsBar'[currentUser] = Answered(Len(responses'), fault')
    BY <1>1, <1>4, <2>1 DEF verdictsBar, Answered, Accepted, Same
  <2>3. \A u \in User \ {currentUser} : verdictsBar'[u] = <<>> /\ verdictsBar[u] = <<>>
    BY DEF verdictsBar
  <2>4. /\ verdictsBar' = [u \in User |-> verdictsBar'[u]]
        /\ verdictsBar = [u \in User |-> verdictsBar[u]]
    BY DEF verdictsBar
  <2>5. QED
    BY <2>1, <2>2, <2>3, <2>4
<1>5. QED
  BY <1>2, <1>3, <1>4

LEMMA VerdictsRefused ==
  ASSUME IInv, handshake
  PROVE  RefusedBar(currentUser) <=> fault # NoBatch
<1>1. verdictsBar[currentUser] = Answered(Len(responses), fault) /\ Len(responses) \in Nat
  <2>1. currentUser \in User /\ responses \in Seq(Message)
    BY QueueShape, WireShape
  <2>2. DOMAIN responses = 1..Len(responses) /\ Len(responses) \in Nat
    BY <2>1, LenProperties
  <2>3. QED
    BY <2>1, <2>2 DEF verdictsBar, Answered, Accepted, Same
<1>2. QED
  BY <1>1, AnsweredRefusal DEF RefusedBar

(* When the stream closes, its verdicts are gone. *)
LEMMA VerdictsGone ==
  ASSUME handshake' = FALSE
  PROVE  /\ verdictsBar' = [u \in User |-> <<>>]
         /\ verdictsBar' = [verdictsBar EXCEPT ![currentUser] = <<>>]
<1>1. verdictsBar' = [u \in User |-> <<>>]
  BY DEF verdictsBar
<1>2. \A u \in User \ {currentUser} : verdictsBar[u] = <<>>
  BY DEF verdictsBar
<1>3. verdictsBar = [u \in User |-> verdictsBar[u]]
  BY DEF verdictsBar
<1>4. QED
  BY <1>1, <1>2, <1>3

(* A result: the first write of the queue is accepted. *)
LEMMA MutationResultImplements == IInv /\ MutationResult => WQ!Next
<1> SUFFICES ASSUME IInv, MutationResult PROVE WQ!Next
  OBVIOUS
<1> DEFINE n == Len(responses)
<1>1. /\ state = "open" /\ handshake /\ responses # <<>>
      /\ responses' = Tail(responses)
      /\ mutationQueue' = Without(Head(pipeline))
      /\ callbacks' = [callbacks EXCEPT ![currentUser] = @ \ Waiting(Head(pipeline))]
      /\ handshake' = handshake /\ fault' = fault
      /\ UNCHANGED <<currentUser, issued, applied, newest, refused>>
  BY DEF MutationResult, NotifyUser, server
<1>2. /\ pipeline # <<>> /\ Head(pipeline).write \in applied \cup refused
      /\ Head(pipeline).write \in applied \ refused =>
           Head(pipeline).write <= newest[currentUser]
      /\ Tail(responses) \in Seq(Message)
  BY <1>1, FirstAnswer
<1>3. /\ mutationQueue[currentUser] # <<>> /\ Head(pipeline) = Head(mutationQueue[currentUser])
      /\ mutationQueue' = [mutationQueue EXCEPT ![currentUser] = Tail(@)]
  BY <1>1, <1>2, HeadLeaves
<1>4. Grows(currentUser, Tail(queueBar[currentUser]), Tail(heardBar[currentUser]))
  BY <1>1, <1>2, <1>3, GrowsWithoutHead
<1>5. n \in Nat /\ n # 0 /\ Len(responses') = n - 1
  <2>1. responses \in Seq(Message)
    BY WireShape
  <2>2. Len(Tail(responses)) = Len(responses) - 1 /\ Len(responses) \in Nat
    BY <1>1, <2>1, HeadTailProperties, LenProperties
  <2>3. Len(responses) # 0
    BY <1>1, <2>1, EmptySeq
  <2>4. QED
    BY <1>1, <2>2, <2>3
<1>6. /\ verdictsBar[currentUser] = Answered(n, fault)
      /\ verdictsBar' = [verdictsBar EXCEPT ![currentUser] = Answered(n - 1, fault)]
  BY <1>1, <1>2, <1>5, VerdictsChange
<1>7. /\ Answered(n, fault) # <<>> /\ Head(Answered(n, fault)) = TRUE
      /\ Tail(Answered(n, fault)) = Answered(n - 1, fault)
  <2> HIDE DEF n
  <2> DEFINE more == IF fault = NoBatch THEN <<>> ELSE <<FALSE>>
  <2>1. /\ Accepted(n) # <<>> /\ Head(Accepted(n)) = TRUE
        /\ Tail(Accepted(n)) = Accepted(n - 1) /\ Accepted(n) \in Seq(BOOLEAN)
    BY <1>5, AcceptedShape, AcceptedFirst
  <2>2. more \in Seq(BOOLEAN)
    <3>1. <<>> \in Seq(BOOLEAN) /\ <<FALSE>> \in Seq(BOOLEAN)
      OBVIOUS
    <3>2. QED
      BY <3>1, Zenon
  <2>3. Answered(n, fault) = Accepted(n) \o more /\ Answered(n - 1, fault) = Accepted(n - 1) \o more
    BY DEF Answered
  <2> HIDE DEF more
  <2>4. /\ Accepted(n) \o more # <<>> /\ Head(Accepted(n) \o more) = Head(Accepted(n))
        /\ Tail(Accepted(n) \o more) = Tail(Accepted(n)) \o more
    BY <2>1, <2>2, TailOfConcat
  <2>5. QED
    BY <2>1, <2>3, <2>4, Zenon
<1> HIDE DEF n
<1>8. currentUser \in User /\ AcceptBar(currentUser)
  <2>1. verdictsBar' = [verdictsBar EXCEPT ![currentUser] = Tail(@)]
    BY <1>6, <1>7
  <2>2. verdictsBar[currentUser] # <<>> /\ Head(verdictsBar[currentUser])
    BY <1>6, <1>7, Zenon
  <2>3. QED
    BY <1>4, <2>1, <2>2, QueueShape, Zenon DEF AcceptBar
<1>9. QED
  BY <1>8, Accepting DEF WQ!Next

(* A refusal comes back: the first write of the queue is rejected. *)
LEMMA WriteErrorImplements == IInv /\ WriteError => WQ!Next
<1> SUFFICES ASSUME IInv, WriteError PROVE WQ!Next
  OBVIOUS
<1>1. /\ RefusalArrives /\ pipeline # <<>>
      /\ mutationQueue' = Without(Head(pipeline))
      /\ callbacks' = [callbacks EXCEPT ![currentUser] = @ \ Waiting(Head(pipeline))]
      /\ handshake' = FALSE
      /\ UNCHANGED <<currentUser, issued, applied, newest, refused>>
  BY DEF WriteError, NotifyUser, server, Closed
<1>2. /\ Head(pipeline).write \in applied \cup refused
      /\ Head(pipeline).write \in applied \ refused =>
           Head(pipeline).write <= newest[currentUser]
      /\ handshake /\ fault # NoBatch
  BY <1>1, FirstCharged DEF RefusalArrives
<1>3. /\ mutationQueue[currentUser] # <<>> /\ Head(pipeline) = Head(mutationQueue[currentUser])
      /\ mutationQueue' = [mutationQueue EXCEPT ![currentUser] = Tail(@)]
  BY <1>1, <1>2, HeadLeaves
<1>4. Grows(currentUser, Tail(queueBar[currentUser]), Tail(heardBar[currentUser]))
  BY <1>1, <1>3, GrowsWithoutHead
<1>5. currentUser \in User /\ RejectBar(currentUser)
  BY <1>1, <1>2, <1>4, QueueShape, VerdictsRefused, VerdictsGone DEF RejectBar
<1>6. QED
  BY <1>5, Rejecting DEF WQ!Next

(* The queue and its completions look the same. *)
LEMMA QueueBarStays ==
  ASSUME UNCHANGED <<mutationQueue, callbacks>>
  PROVE  UNCHANGED <<queueBar, heardBar>>
BY DEF queueBar, heardBar

(* The server answers the next request of the stream. *)
LEMMA JudgeNext ==
  ASSUME IInv, ServerReads, NEW verdict \in BOOLEAN,
         UNCHANGED <<mutationQueue, callbacks, currentUser, handshake>>,
         \/ verdict = TRUE /\ responses' = Append(responses, Head(requests)) /\ fault' = fault
         \/ verdict = FALSE /\ responses' = responses /\ fault' = Head(requests)
  PROVE  WQ!Next
<1> DEFINE n == Len(responses)
<1>1. /\ handshake /\ fault = NoBatch /\ Head(requests) \in Batch
      /\ pipeline = responses \o (<<Head(requests)>> \o Tail(requests))
      /\ Tail(requests) \in Seq(Message)
  BY NextRequest
<1>2. responses \in Seq(Message) /\ responses' \in Seq(Message) /\ n \in Nat /\ Head(requests) \in Message
  <2>1. responses \in Seq(Message) /\ Head(requests) \in Message
    BY <1>1, WireShape DEF Message
  <2>2. Append(responses, Head(requests)) \in Seq(Message) /\ n \in Nat
    BY <2>1, AppendProperties, LenProperties
  <2>3. QED
    BY <2>1, <2>2
<1>3. /\ verdictsBar[currentUser] = Answered(n, NoBatch)
      /\ verdictsBar' = [verdictsBar EXCEPT ![currentUser] = Answered(Len(responses'), fault')]
  BY <1>1, <1>2, VerdictsChange
<1>4. /\ Answered(n, NoBatch) = Accepted(n) /\ Accepted(n) \in Seq(BOOLEAN) /\ Len(Accepted(n)) = n
  BY <1>2, AnsweredShape, AcceptedShape
<1>5. Answered(Len(responses'), fault') = Append(Accepted(n), verdict)
  <2>1. CASE verdict = TRUE /\ responses' = Append(responses, Head(requests)) /\ fault' = fault
    <3>1. Len(responses') = n + 1
      BY <1>2, <2>1, AppendProperties
    <3> HIDE DEF n
    <3>2. n \in Nat /\ n + 1 \in Nat
      BY <1>2
    <3>3. Answered(n + 1, NoBatch) = Accepted(n + 1) /\ Append(Accepted(n), TRUE) = Accepted(n + 1)
      BY <3>2, AnsweredShape, AcceptedAgain, Zenon
    <3>4. QED
      BY <1>1, <2>1, <3>1, <3>3, Zenon
  <2>2. CASE verdict = FALSE /\ responses' = responses /\ fault' = Head(requests)
    <3>1. fault' # NoBatch /\ Len(responses') = n
      BY <1>1, <2>2, BatchIsNotHello
    <3> HIDE DEF n
    <3>2. Answered(n, fault') = Append(Accepted(n), FALSE)
      BY <1>2, <3>1, AnsweredShape
    <3>3. QED
      BY <2>2, <3>1, <3>2, Zenon
  <2>3. QED
    BY <2>1, <2>2
<1>6. n < Len(queueBar[currentUser])
  <2>1. /\ currentUser \in User /\ mutationQueue[currentUser] \in Seq(Batch)
        /\ IsPrefix(pipeline, mutationQueue[currentUser]) /\ pipeline \in Seq(Batch)
    BY QueueShape, WireShape DEF IInv, PipelineInv, PipelineIsPrefix
  <2>2. Len(pipeline) <= Len(mutationQueue[currentUser]) /\ Len(mutationQueue[currentUser]) \in Nat
    BY <2>1, PrefixIndices, LenProperties
  <2>3. Len(queueBar[currentUser]) = Len(mutationQueue[currentUser])
    BY <2>1, WritesInSeq DEF queueBar
  <2>4. Len(pipeline) = n + (1 + Len(Tail(requests))) /\ Len(Tail(requests)) \in Nat
    <3> DEFINE h == <<Head(requests)>>
               t == Tail(requests)
    <3>1. h \in Seq(Message) /\ Len(h) = 1
      BY <1>2
    <3> HIDE DEF h, t
    <3>2. /\ t \in Seq(Message) /\ pipeline = responses \o (h \o t)
      BY <1>1 DEF h, t
    <3>3. h \o t \in Seq(Message) /\ Len(h \o t) = 1 + Len(t) /\ Len(t) \in Nat
      BY <3>1, <3>2, ConcatProperties, LenProperties
    <3>4. Len(pipeline) = n + Len(h \o t)
      BY <1>2, <3>2, <3>3, ConcatProperties
    <3>5. QED
      BY <3>3, <3>4 DEF t
  <2>5. QED
    BY <1>2, <2>2, <2>3, <2>4
<1> HIDE DEF n
<1>7. ~RefusedBar(currentUser)
  BY <1>1, VerdictsRefused
<1>8. currentUser \in User /\ JudgeBar(currentUser, verdict)
  <2>1. verdictsBar' = [verdictsBar EXCEPT ![currentUser] = Append(@, verdict)]
    BY <1>3, <1>4, <1>5
  <2>2. Len(verdictsBar[currentUser]) < Len(queueBar[currentUser])
    BY <1>3, <1>4, <1>6
  <2>3. QED
    BY <1>7, <2>1, <2>2, QueueShape, QueueBarStays DEF JudgeBar
<1>9. QED
  BY <1>8, Judging DEF WQ!Next

LEMMA ServerImplements == IInv /\ (ServerApplies \/ ServerRefuses) => WQ!Next
<1>1. ASSUME IInv, ServerApplies PROVE WQ!Next
  <2>1. /\ ServerReads /\ responses' = Append(responses, Head(requests)) /\ fault' = fault
        /\ UNCHANGED <<mutationQueue, callbacks, currentUser, handshake>>
    BY <1>1 DEF ServerApplies, disk, engine, stream
  <2>2. TRUE \in BOOLEAN
    OBVIOUS
  <2>3. QED
    BY <1>1, <2>1, <2>2, JudgeNext
<1>2. ASSUME IInv, ServerRefuses PROVE WQ!Next
  <2>1. /\ ServerReads /\ responses' = responses /\ fault' = Head(requests)
        /\ UNCHANGED <<mutationQueue, callbacks, currentUser, handshake>>
    BY <1>2 DEF ServerRefuses, disk, engine, stream
  <2>2. FALSE \in BOOLEAN
    OBVIOUS
  <2>3. QED
    BY <1>2, <2>1, <2>2, JudgeNext
<1>3. QED
  BY <1>1, <1>2

(* A step that breaks the stream takes the verdicts with it. *)
LEMMA StreamGone ==
  ASSUME IInv, handshake' = FALSE, UNCHANGED <<mutationQueue, callbacks>>
  PROVE  WQ!Next
<1>1. currentUser \in User /\ BreakBar(currentUser)
  BY QueueShape, QueueBarStays, VerdictsGone DEF BreakBar
<1>2. QED
  BY <1>1, Breaking DEF WQ!Next

LEMMA StreamBreaking ==
  IInv /\ (\/ StreamBreaks \/ IdleTimeout \/ RestartNetwork \/ DisableNetwork
           \/ \E u \in User : SwitchUser(u)) => WQ!Next
<1>1. ASSUME IInv, StreamBreaks \/ IdleTimeout \/ RestartNetwork \/ DisableNetwork
      PROVE  handshake' = FALSE /\ UNCHANGED <<mutationQueue, callbacks>>
  BY <1>1 DEF StreamBreaks, IdleTimeout, RestartNetwork, DisableNetwork, StartNetwork, Closed,
              disk, engine
<1>2. ASSUME IInv, NEW u \in User, SwitchUser(u)
      PROVE  handshake' = FALSE /\ UNCHANGED <<mutationQueue, callbacks>>
  <2>1. UNCHANGED <<mutationQueue, callbacks>>
    BY <1>2 DEF SwitchUser, disk
  <2>2. CASE network
    BY <1>2, <2>1, <2>2 DEF SwitchUser, StartNetwork, Closed
  <2>3. CASE ~network
    <3>1. state # "open" /\ handshake' = handshake
      BY <1>2, <2>3, StreamParts DEF StreamInv, StoppedWhenDisabled, SwitchUser, stream
    <3>2. ~handshake
      BY <1>2, <3>1, StreamParts DEF StreamInv, AnswersMatchPipeline
    <3>3. handshake \in BOOLEAN
      BY <1>2, StreamParts DEF StreamInv, StreamTyped
    <3>4. QED
      BY <2>1, <3>1, <3>2, <3>3
  <2>4. QED
    BY <2>2, <2>3
<1>3. QED
  BY <1>1, <1>2, StreamGone

(* Opening a stream and greeting the server tell the users nothing. *)
LEMMA VerdictsStay ==
  ASSUME UNCHANGED <<mutationQueue, callbacks, currentUser, handshake>>,
         handshake => UNCHANGED <<responses, fault>>
  PROVE  UNCHANGED WQ!vars
<1>1. UNCHANGED verdictsBar
  BY DEF verdictsBar
<1>2. QED
  BY <1>1, QueueBarStays, Stuttering

LEMMA QuietSteps ==
  IInv /\ (\/ OpenStream \/ TokenFails \/ BackoffElapses \/ EnableNetwork
           \/ HandshakeComplete \/ ServerGreets \/ UNCHANGED vars) => UNCHANGED WQ!vars
<1>1. ASSUME IInv, OpenStream \/ TokenFails \/ BackoffElapses \/ EnableNetwork \/ UNCHANGED vars
      PROVE  UNCHANGED <<mutationQueue, callbacks, currentUser, handshake, responses, fault>>
  BY <1>1 DEF OpenStream, TokenFails, BackoffElapses, EnableNetwork, disk, engine, stream, wire, vars
<1>2. ASSUME IInv, ServerGreets
      PROVE  /\ UNCHANGED <<mutationQueue, callbacks, currentUser, handshake>>
             /\ ~handshake
  BY <1>2, GreetingSent DEF ServerGreets, disk, engine, stream
<1>3. ASSUME IInv, HandshakeComplete
      PROVE  UNCHANGED WQ!vars
  <2>1. /\ UNCHANGED <<mutationQueue, callbacks, currentUser>> /\ ~handshake /\ handshake'
        /\ fault' = NoBatch /\ responses' = <<>>
    BY <1>3, GreetingRead DEF HandshakeComplete, disk, engine
  <2>2. verdictsBar = [u \in User |-> <<>>]
    BY <2>1 DEF verdictsBar
  <2>3. [i \in DOMAIN responses' |-> TRUE] \o <<>> = <<>>
    BY <2>1
  <2>4. verdictsBar' = [u \in User |-> <<>>]
    BY <2>1, <2>3 DEF verdictsBar
  <2>5. QED
    BY <2>1, <2>2, <2>4, QueueBarStays, Stuttering
<1>4. QED
  BY <1>1, <1>2, <1>3, VerdictsStay

LEMMA WritesInTail ==
  ASSUME NEW q \in Seq(Batch), q # <<>>
  PROVE  WritesIn(Tail(q)) = Tail(WritesIn(q))
<1> DEFINE s == WritesIn(Tail(q))
           r == WritesIn(q)
<1>1. /\ Tail(q) \in Seq(Batch) /\ Len(Tail(q)) = Len(q) - 1 /\ Len(q) \in Nat \ {0}
      /\ \A i \in 1..(Len(q) - 1) : Tail(q)[i] = q[i + 1]
  BY HeadTailProperties, LenProperties, EmptySeq
<1>2. /\ s \in Seq(Writes) /\ Len(s) = Len(q) - 1
      /\ \A i \in 1..(Len(q) - 1) : s[i] = Tail(q)[i].write
  BY <1>1, WritesInSeq
<1>3. r \in Seq(Writes) /\ Len(r) = Len(q) /\ \A i \in 1..Len(q) : r[i] = q[i].write
  BY WritesInSeq
<1> HIDE DEF s, r
<1>4. r # <<>>
  BY <1>1, <1>3
<1>5. /\ Tail(r) \in Seq(Writes) /\ Len(Tail(r)) = Len(q) - 1
      /\ \A i \in 1..(Len(q) - 1) : Tail(r)[i] = r[i + 1]
  BY <1>3, <1>4, HeadTailProperties
<1>6. \A i \in 1..(Len(q) - 1) : i + 1 \in 1..Len(q)
  BY <1>1
<1>7. s = Tail(r)
  BY <1>1, <1>2, <1>3, <1>5, <1>6, SeqEqual
<1>8. QED
  BY <1>7 DEF s, r

(* A crash: the first batch may be gone, its completion never hears. *)
LEMMA CrashImplements == IInv /\ Crash => WQ!Next
<1> SUFFICES ASSUME IInv, Crash PROVE WQ!Next
  OBVIOUS
<1>1. /\ HalfDone /\ handshake' = FALSE /\ callbacks' = [u \in User |-> {}]
      /\ UNCHANGED <<currentUser, issued, applied, newest, refused>>
  BY DEF Crash, StartNetwork, Closed, server
<1>2. verdictsBar' = [u \in User |-> <<>>]
  BY <1>1, VerdictsGone
<1>3. heardBar' = [u \in User |-> [i \in DOMAIN queueBar'[u] |-> FALSE]]
  <2>1. heardBar' = [u \in User |-> HeardIn(mutationQueue'[u], {})]
    BY <1>1 DEF heardBar
  <2>2. \A u \in User : DOMAIN queueBar'[u] = DOMAIN mutationQueue'[u]
    BY DEF queueBar, WritesIn
  <2>3. \A q : HeardIn(q, {}) = [i \in DOMAIN q |-> FALSE]
    <3>1. \A e : (e \in {}) = FALSE
      OBVIOUS
    <3>2. QED
      BY <3>1, Zenon DEF HeardIn
  <2>4. QED
    BY <2>1, <2>2, <2>3
<1>4. \/ UNCHANGED queueBar
      \/ \E u \in User : RefusedBar(u) /\ queueBar' = [queueBar EXCEPT ![u] = Tail(@)]
  <2>1. CASE UNCHANGED mutationQueue
    BY <2>1 DEF queueBar
  <2>2. CASE RefusalArrives /\ mutationQueue' = Without(Head(pipeline))
    <3>1. /\ pipeline # <<>> /\ handshake /\ fault # NoBatch /\ currentUser \in User
          /\ Head(pipeline).write \in applied \cup refused
          /\ Head(pipeline).write \in applied \ refused =>
               Head(pipeline).write <= newest[currentUser]
      BY <2>2, FirstCharged, QueueShape DEF RefusalArrives
    <3>2. /\ mutationQueue[currentUser] # <<>>
          /\ mutationQueue' = [mutationQueue EXCEPT ![currentUser] = Tail(@)]
      BY <1>1, <2>2, <3>1, HeadLeaves
    <3>3. queueBar' = [queueBar EXCEPT ![currentUser] = Tail(@)]
      <4> DEFINE q == mutationQueue[currentUser]
      <4>1. WritesIn(Tail(q)) = Tail(WritesIn(q))
        BY <3>2, WritesInTail, QueueShape
      <4>2. queueBar[currentUser] = WritesIn(q) /\ queueBar'[currentUser] = WritesIn(Tail(q))
        BY <3>1, <3>2, QueueShape DEF queueBar, QueuesTyped
      <4>3. \A u \in User \ {currentUser} : queueBar'[u] = queueBar[u]
        BY <3>2 DEF queueBar
      <4>4. queueBar' = [u \in User |-> queueBar'[u]] /\ queueBar = [u \in User |-> queueBar[u]]
        BY DEF queueBar
      <4>5. QED
        BY <4>1, <4>2, <4>3, <4>4
    <3>4. RefusedBar(currentUser)
      BY <3>1, VerdictsRefused
    <3>5. QED
      BY <3>1, <3>3, <3>4
  <2>3. QED
    BY <1>1, <2>1, <2>2 DEF HalfDone
<1>5. RestartBar
  BY <1>2, <1>3, <1>4 DEF RestartBar
<1>6. QED
  BY <1>5, Restarting DEF WQ!Next

LEMMA NextImplements == IInv /\ [Next]_vars => [WQ!Next]_(WQ!vars)
BY IssueWriteImplements, MutationResultImplements, WriteErrorImplements, ServerImplements,
   StreamBreaking, QuietSteps, CrashImplements DEF Next, Client, Server

(* The write pipeline keeps the promise of the write queue to every user:   *)
(* SyncEngine, RemoteStore and the mutation queue together give verdicts in *)
(* order and settle every write once, for any number of users, writes,      *)
(* failures and restarts.                                                   *)
THEOREM Refinement == Spec => ImplementsWriteQueue
<1>1. Init => WQ!Init
  BY DEF Init, WQ!Init
<1>2. IInv /\ [Next]_vars => [WQ!Next]_(WQ!vars)
  BY NextImplements
<1>3. QED
  BY <1>1, <1>2, Invariance, PTL DEF Spec, ImplementsWriteQueue, WQ!Spec
=============================================================================
