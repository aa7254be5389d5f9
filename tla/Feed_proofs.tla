---------------------------- MODULE Feed_proofs ----------------------------
(***************************************************************************)
(* The safety of Feed for any cars, any number of overlapping fetches, any *)
(* page size and any number of failures.                                   *)
(***************************************************************************)
EXTENDS Feed, FiniteSetTheorems, SequenceTheorems, TLAPS

(* The cars that s shows more than once. *)
Doubles(s) == {s[i] : i \in {i \in DOMAIN s : \E j \in DOMAIN s : j # i /\ s[j] = s[i]}}

-----------------------------------------------------------------------------
(* Orders *)

(* What comes before i. *)
Ahead(D, R, i) == {j \in D : <<j, i>> \in R}

(* Lined enumerates a finite set along a strict total order. *)
LEMMA LinedUp ==
  ASSUME NEW D, IsFiniteSet(D), NEW R,
         \A i \in D : <<i, i>> \notin R,
         \A i, j, k \in D : <<i, j>> \in R /\ <<j, k>> \in R => <<i, k>> \in R,
         \A i, j \in D : i = j \/ <<i, j>> \in R \/ <<j, i>> \in R
  PROVE  LET n == Cardinality(D) L == Lined(D, R) IN
         /\ n \in Nat /\ L \in [1..n -> D]
         /\ \A j, k \in 1..n : L[j] = L[k] => j = k
         /\ \A i \in D : \E k \in 1..n : L[k] = i
         /\ \A j, k \in 1..n : j < k => <<L[j], L[k]>> \in R
         /\ \A k \in 1..n : Cardinality(Ahead(D, R, L[k])) = k - 1
<1> DEFINE n == Cardinality(D)
           L == Lined(D, R)
           ahead(i) == {j \in D : <<j, i>> \in R}
           rank == [i \in D |-> Cardinality(ahead(i)) + 1]
<1>1. n \in Nat
  BY FS_CardinalityType
<1>2. ASSUME NEW i \in D
      PROVE  IsFiniteSet(ahead(i)) /\ Cardinality(ahead(i)) \in 0..(n - 1)
  <2>1. ahead(i) \in SUBSET (D \ {i})
    OBVIOUS
  <2>2. IsFiniteSet(D \ {i}) /\ Cardinality(D \ {i}) = n - 1
    BY FS_RemoveElement
  <2> HIDE DEF ahead, n
  <2>3. IsFiniteSet(ahead(i)) /\ Cardinality(ahead(i)) <= n - 1 /\ Cardinality(ahead(i)) \in Nat
    BY <2>1, <2>2, FS_Subset, FS_CardinalityType
  <2>4. QED
    BY <1>1, <2>3
<1>3. ASSUME NEW i \in D, NEW j \in D, <<i, j>> \in R
      PROVE  Cardinality(ahead(i)) < Cardinality(ahead(j))
  <2>1. ahead(i) \in SUBSET ahead(j)
    BY <1>3
  <2>2. i \in ahead(j) /\ i \notin ahead(i)
    BY <1>3
  <2> HIDE DEF ahead
  <2>3. /\ Cardinality(ahead(i)) <= Cardinality(ahead(j))
        /\ Cardinality(ahead(i)) # Cardinality(ahead(j))
    BY <1>2, <2>1, <2>2, FS_Subset
  <2>4. Cardinality(ahead(i)) \in Int /\ Cardinality(ahead(j)) \in Int
    BY <1>2
  <2>5. QED
    BY <2>3, <2>4
<1> HIDE DEF ahead
<1>4. ASSUME NEW i \in D, NEW j \in D, Cardinality(ahead(i)) = Cardinality(ahead(j))
      PROVE  i = j
  <2>1. Cardinality(ahead(i)) \in Int /\ Cardinality(ahead(j)) \in Int
    BY <1>2
  <2>2. ~(Cardinality(ahead(i)) < Cardinality(ahead(j)))
        /\ ~(Cardinality(ahead(j)) < Cardinality(ahead(i)))
    BY <1>4, <2>1
  <2>3. <<i, j>> \notin R /\ <<j, i>> \notin R
    BY <1>3, <2>2
  <2>4. QED
    BY <2>3
<1>5. rank \in Injection(D, 1..n)
  <2>1. \A i \in D : rank[i] = Cardinality(ahead(i)) + 1 /\ rank[i] \in 1..n
    BY <1>1, <1>2
  <2>2. \A i, j \in D : rank[i] = rank[j] => i = j
    BY <1>2, <1>4, <2>1
  <2>3. QED
    BY <2>1, <2>2 DEF Injection, IsInjective
<1>6. rank \in Surjection(D, 1..n)
  <2>1. IsFiniteSet(1..n) /\ Cardinality(1..n) = n
    BY <1>1, FS_Interval
  <2> HIDE DEF rank
  <2>2. QED
    BY <1>5, <2>1, FS_Injection
<1>7. ASSUME NEW k \in 1..n
      PROVE  L[k] \in D /\ Cardinality(ahead(L[k])) = k - 1
  <2>1. \E i \in D : rank[i] = k
    BY <1>6 DEF Surjection
  <2>2. \E i \in D : Cardinality(ahead(i)) = k - 1
    BY <1>1, <1>2, <2>1
  <2>3. L[k] = CHOOSE i \in D : Cardinality(ahead(i)) = k - 1
    BY DEF Lined, ahead
  <2>4. QED
    BY <2>2, <2>3
<1>8. L \in [1..n -> D]
  <2> DEFINE pick(k) == CHOOSE i \in D : Cardinality(ahead(i)) = k - 1
  <2>1. L = [k \in 1..n |-> pick(k)]
    BY DEF Lined, ahead
  <2> HIDE DEF L, n, pick
  <2>2. \A k \in 1..n : pick(k) = L[k]
    BY <2>1
  <2>3. \A k \in 1..n : pick(k) \in D
    BY <1>7, <2>2
  <2>4. QED
    BY <2>1, <2>3
<1> HIDE DEF L, rank
<1>9. \A j, k \in 1..n : L[j] = L[k] => j = k
  <2> SUFFICES ASSUME NEW j \in 1..n, NEW k \in 1..n, L[j] = L[k] PROVE j = k
    OBVIOUS
  <2>1. j - 1 = k - 1
    BY <1>7
  <2>2. QED
    BY <1>1, <2>1
<1>10. \A i \in D : \E k \in 1..n : L[k] = i
  <2> SUFFICES ASSUME NEW i \in D PROVE \E k \in 1..n : L[k] = i
    OBVIOUS
  <2> DEFINE k == Cardinality(ahead(i)) + 1
  <2>1. k \in 1..n /\ k - 1 = Cardinality(ahead(i))
    BY <1>1, <1>2
  <2> HIDE DEF k
  <2>2. L[k] = i
    BY <1>4, <1>7, <2>1
  <2>3. QED
    BY <2>1, <2>2
<1>11. \A j, k \in 1..n : j < k => <<L[j], L[k]>> \in R
  <2> SUFFICES ASSUME NEW j \in 1..n, NEW k \in 1..n, j < k PROVE <<L[j], L[k]>> \in R
    OBVIOUS
  <2>1. L[j] \in D /\ L[k] \in D
    BY <1>7
  <2>2. Cardinality(ahead(L[j])) = j - 1 /\ Cardinality(ahead(L[k])) = k - 1
    BY <1>7
  <2>3. ~(Cardinality(ahead(L[k])) < Cardinality(ahead(L[j]))) /\ L[j] # L[k]
    BY <1>1, <2>2
  <2>4. QED
    BY <1>3, <2>1, <2>3
<1>12. \A k \in 1..n : Cardinality(Ahead(D, R, L[k])) = k - 1
  BY <1>7 DEF ahead, Ahead
<1>13. QED
  BY <1>1, <1>8, <1>9, <1>10, <1>11, <1>12 DEF L

LEMMA FunctionIsSeq ==
  ASSUME NEW S, NEW n \in Nat, NEW f \in [1..n -> S]
  PROVE  f \in Seq(S) /\ Len(f) = n /\ DOMAIN f = 1..n
<1>1. f \in Seq(S)
  BY SeqDef
<1>2. DOMAIN f = 1..n /\ DOMAIN f = 1..Len(f) /\ Len(f) \in Nat
  BY <1>1, LenProperties
<1>3. QED
  BY <1>1, <1>2

LEMMA CarsFinite == ASSUME NEW S, S \subseteq Car PROVE IsFiniteSet(S)
BY FeedAssumption, FS_Subset

(* The cars of S by their ids. *)
LEMMA InOrderLists ==
  ASSUME NEW S, S \subseteq Car
  PROVE  /\ InOrder(S) \in Seq(Car) /\ Rows(InOrder(S)) = S
         /\ Doubles(InOrder(S)) = {}
         /\ S # {} => \E c \in S : \A e \in S : e <= c
<1> DEFINE R == {r \in S \X S : r[1] < r[2]}
           n == Cardinality(S)
           L == Lined(S, R)
<1>1. \A a, b \in S : <<a, b>> \in R <=> a < b
  OBVIOUS
<1>2. S \subseteq Nat /\ IsFiniteSet(S)
  BY CarsFinite, FeedAssumption
<1> HIDE DEF R
<1>3. /\ n \in Nat /\ L \in [1..n -> S]
      /\ \A j, k \in 1..n : L[j] = L[k] => j = k
      /\ \A i \in S : \E k \in 1..n : L[k] = i
      /\ \A j, k \in 1..n : j < k => <<L[j], L[k]>> \in R
  <2>1. \A i \in S : <<i, i>> \notin R
    BY <1>1, <1>2
  <2>2. \A i, j, k \in S : <<i, j>> \in R /\ <<j, k>> \in R => <<i, k>> \in R
    BY <1>1, <1>2
  <2>3. \A i, j \in S : i = j \/ <<i, j>> \in R \/ <<j, i>> \in R
    <3>1. \A i, j \in S : i = j \/ i < j \/ j < i
      BY <1>2
    <3>2. QED
      BY <1>1, <3>1
  <2> HIDE DEF n, L
  <2>4. /\ n \in Nat /\ L \in [1..n -> S]
        /\ \A j, k \in 1..n : L[j] = L[k] => j = k
        /\ \A i \in S : \E k \in 1..n : L[k] = i
        /\ \A j, k \in 1..n : j < k => <<L[j], L[k]>> \in R
        /\ \A k \in 1..n : Cardinality(Ahead(S, R, L[k])) = k - 1
    BY ONLY <1>2, <2>1, <2>2, <2>3, LinedUp, Zenon DEF n, L
  <2>5. QED
    BY <2>4
<1>4. InOrder(S) = L
  BY DEF InOrder, R
<1> HIDE DEF L
<1>5. L \in Seq(S) /\ DOMAIN L = 1..n
  BY <1>3, FunctionIsSeq
<1>6. L \in Seq(Car)
  BY <1>3, FunctionIsSeq
<1>7. Rows(L) = S
  BY <1>3, <1>5 DEF Rows
<1>8. Doubles(L) = {}
  BY <1>3, <1>5 DEF Doubles
<1>9. ASSUME S # {} PROVE \E c \in S : \A e \in S : e <= c
  <2>1. n # 0
    BY <1>2, <1>9, FS_EmptySet
  <2>2. n \in 1..n /\ L[n] \in S
    BY <1>3, <2>1
  <2>3. ASSUME NEW e \in S PROVE e <= L[n]
    <3>1. PICK k \in 1..n : L[k] = e
      BY <1>3
    <3>2. CASE k = n
      BY <1>2, <2>2, <3>1, <3>2
    <3>3. CASE k # n
      <4>1. <<L[k], L[n]>> \in R
        BY <1>3, <2>2, <3>3
      <4>2. e < L[n]
        BY <1>1, <2>2, <3>1, <4>1
      <4>3. e \in Int /\ L[n] \in Int
        <5>1. e \in Nat /\ L[n] \in Nat
          BY <1>2, <2>2, <2>3
        <5>2. QED
          BY <5>1
      <4>4. QED
        BY <4>2, <4>3
    <3>4. QED
      BY <3>2, <3>3
  <2>4. QED
    BY <2>2, <2>3
<1>10. QED
  BY <1>4, <1>6, <1>7, <1>8, <1>9

LEMMA KeysAreNumbers ==
  ASSUME NEW c \in Car, NEW order
  PROVE  By(order, c) \in Nat
BY FeedAssumption DEF By

(* The rows of s have numbers for keys, and Precede compares these. *)
LEMMA KeyedRows ==
  ASSUME NEW s \in Seq(Car), NEW order
  PROVE  /\ DOMAIN s = 1..Len(s) /\ Len(s) \in Nat
         /\ IsFiniteSet(DOMAIN s) /\ Cardinality(DOMAIN s) = Len(s)
         /\ \A i \in DOMAIN s : s[i] \in Car /\ By(order, s[i]) \in Nat /\ i \in Nat
         /\ \A i, j \in DOMAIN s : <<i, j>> \in Precede(s, order) <=>
              \/ By(order, s[i]) < By(order, s[j])
              \/ By(order, s[i]) = By(order, s[j]) /\ i < j
<1>1. DOMAIN s = 1..Len(s) /\ Len(s) \in Nat /\ \A i \in DOMAIN s : s[i] \in Car
  BY LenProperties, ElementOfSeq
<1>2. IsFiniteSet(DOMAIN s) /\ Cardinality(DOMAIN s) = Len(s)
  BY <1>1, FS_Interval
<1>3. \A i \in DOMAIN s : By(order, s[i]) \in Nat /\ i \in Nat
  BY <1>1, KeysAreNumbers
<1>4. \A i, j \in DOMAIN s : <<i, j>> \in Precede(s, order) <=>
        \/ By(order, s[i]) < By(order, s[j])
        \/ By(order, s[i]) = By(order, s[j]) /\ i < j
  BY DEF Precede
<1>5. QED
  BY <1>1, <1>2, <1>3, <1>4

(* Sorting s takes its indexes in some order L, each one once, and each of   *)
(* them after those that precede it.                                         *)
LEMMA SortedIndexes ==
  ASSUME NEW s \in Seq(Car), NEW order
  PROVE  \E L \in [DOMAIN s -> DOMAIN s] :
           /\ Sorted(s, order) = [k \in DOMAIN s |-> s[L[k]]]
           /\ \A j, k \in DOMAIN s : L[j] = L[k] => j = k
           /\ \A i \in DOMAIN s : \E k \in DOMAIN s : L[k] = i
           /\ \A k \in DOMAIN s :
                Cardinality(Ahead(DOMAIN s, Precede(s, order), L[k])) = k - 1
<1> DEFINE D == DOMAIN s
           R == Precede(s, order)
           n == Cardinality(D)
           L == Lined(D, R)
<1>1. IsFiniteSet(D) /\ D = 1..n
  BY KeyedRows
<1>2. /\ \A i \in D : By(order, s[i]) \in Nat /\ i \in Nat
      /\ \A i, j \in D : <<i, j>> \in R <=>
           \/ By(order, s[i]) < By(order, s[j])
           \/ By(order, s[i]) = By(order, s[j]) /\ i < j
  BY KeyedRows
<1>3. Sorted(s, order) = [k \in D |-> s[L[k]]]
  BY DEF Sorted, Arranged
<1> HIDE DEF D, R
<1>4. /\ \A i \in D : <<i, i>> \notin R
      /\ \A i, j, k \in D : <<i, j>> \in R /\ <<j, k>> \in R => <<i, k>> \in R
  BY <1>2
<1>5. \A i, j \in D : i = j \/ <<i, j>> \in R \/ <<j, i>> \in R
  <2>1. \A i, j \in D : i = j \/ i < j \/ j < i
    BY <1>2
  <2>2. \A i, j \in D : \/ By(order, s[i]) = By(order, s[j])
                         \/ By(order, s[i]) < By(order, s[j])
                         \/ By(order, s[j]) < By(order, s[i])
    BY <1>2
  <2>3. QED
    BY <1>2, <2>1, <2>2
<1> HIDE DEF n, L
<1>6. /\ n \in Nat /\ L \in [1..n -> D]
      /\ \A j, k \in 1..n : L[j] = L[k] => j = k
      /\ \A i \in D : \E k \in 1..n : L[k] = i
      /\ \A j, k \in 1..n : j < k => <<L[j], L[k]>> \in R
      /\ \A k \in 1..n : Cardinality(Ahead(D, R, L[k])) = k - 1
  BY ONLY <1>1, <1>4, <1>5, LinedUp, Zenon DEF n, L
<1>7. \E M \in [D -> D] :
        /\ Sorted(s, order) = [k \in D |-> s[M[k]]]
        /\ \A j, k \in D : M[j] = M[k] => j = k
        /\ \A i \in D : \E k \in D : M[k] = i
        /\ \A k \in D : Cardinality(Ahead(D, R, M[k])) = k - 1
  <2>1. L \in [D -> D]
    BY ONLY <1>1, <1>6
  <2>2. WITNESS L \in [D -> D]
  <2>3. QED
    BY ONLY <1>1, <1>3, <1>6
<1>8. QED
  BY <1>7 DEF D, R

(* Sorting neither loses nor doubles a row. *)
LEMMA SortedLists ==
  ASSUME NEW s \in Seq(Car), NEW order
  PROVE  /\ Sorted(s, order) \in Seq(Car)
         /\ Rows(Sorted(s, order)) = Rows(s)
         /\ Doubles(Sorted(s, order)) \subseteq Doubles(s)
         /\ DOMAIN Sorted(s, order) = DOMAIN s
<1> DEFINE D == DOMAIN s
           t == Sorted(s, order)
<1>1. D = 1..Len(s) /\ Len(s) \in Nat /\ \A i \in D : s[i] \in Car
  BY KeyedRows
<1>2. PICK L \in [D -> D] :
        /\ t = [k \in D |-> s[L[k]]]
        /\ \A j, k \in D : L[j] = L[k] => j = k
        /\ \A i \in D : \E k \in D : L[k] = i
        /\ \A k \in D : Cardinality(Ahead(D, Precede(s, order), L[k])) = k - 1
  BY SortedIndexes, Zenon
<1> HIDE DEF t, D
<1>3. t \in Seq(Car) /\ DOMAIN t = D /\ \A k \in D : t[k] = s[L[k]] /\ L[k] \in D
  <2>1. t \in [1..Len(s) -> Car]
    BY <1>1, <1>2
  <2>2. QED
    BY <1>1, <1>2, <2>1, FunctionIsSeq
<1>4. Rows(t) = Rows(s)
  <2>1. \A k \in D : \E i \in D : t[k] = s[i]
    BY <1>3
  <2>2. \A i \in D : \E k \in D : t[k] = s[i]
    BY <1>2, <1>3
  <2>3. QED
    BY <1>3, <2>1, <2>2 DEF Rows, D
<1>5. Doubles(t) \subseteq Doubles(s)
  <2> SUFFICES ASSUME NEW k \in D, NEW j \in D, j # k, t[j] = t[k]
               PROVE  t[k] \in Doubles(s)
    BY <1>3 DEF Doubles
  <2>1. L[j] # L[k] /\ L[j] \in D /\ L[k] \in D /\ s[L[j]] = s[L[k]] /\ t[k] = s[L[k]]
    BY <1>2, <1>3
  <2>2. QED
    BY <2>1 DEF Doubles, D
<1>6. QED
  BY <1>3, <1>4, <1>5 DEF t, D

(* A row stays where it is if those before it go before it in the order, or  *)
(* equal it, and those behind it behind.                                     *)
LEMMA RowStays ==
  ASSUME NEW s \in Seq(Car), NEW order, NEW row \in DOMAIN s,
         \A i \in DOMAIN s :
            /\ i < row => By(order, s[i]) <= By(order, s[row])
            /\ i > row => By(order, s[row]) <= By(order, s[i])
  PROVE  row \in DOMAIN Sorted(s, order) /\ Sorted(s, order)[row] = s[row]
<1> DEFINE D == DOMAIN s
           R == Precede(s, order)
           t == Sorted(s, order)
<1>1. D = 1..Len(s) /\ Len(s) \in Nat /\ row \in 1..Len(s)
  BY KeyedRows
<1>2. ASSUME NEW j \in D PROVE <<j, row>> \in R <=> j < row
  <2> DEFINE a == By(order, s[j])
             b == By(order, s[row])
  <2>1. a \in Nat /\ b \in Nat /\ j \in Nat /\ row \in Nat
    BY KeyedRows
  <2>2. <<j, row>> \in R <=> a < b \/ (a = b /\ j < row)
    BY KeyedRows
  <2>3. (j < row => a <= b) /\ (j > row => b <= a) /\ (j = row => a = b)
    BY <1>1 DEF D
  <2> HIDE DEF a, b, R
  <2>4. QED
    BY ONLY <2>1, <2>2, <2>3
<1>3. PICK L \in [D -> D] :
        /\ t = [k \in D |-> s[L[k]]]
        /\ \A j, k \in D : L[j] = L[k] => j = k
        /\ \A i \in D : \E k \in D : L[k] = i
        /\ \A k \in D : Cardinality(Ahead(D, R, L[k])) = k - 1
  BY SortedIndexes, Zenon
<1> HIDE DEF D, R, t
<1>4. Ahead(D, R, row) = 1..(row - 1)
  <2>1. \A j : j \in Ahead(D, R, row) <=> j \in D /\ j < row
    BY ONLY <1>2 DEF Ahead
  <2>2. \A j : j \in D /\ j < row <=> j \in 1..(row - 1)
    BY ONLY <1>1
  <2>3. QED
    BY ONLY <2>1, <2>2
<1>5. Cardinality(Ahead(D, R, row)) = row - 1
  <2>1. 1 \in Int /\ row - 1 \in Int /\ row \in Int /\ row >= 1
    BY ONLY <1>1
  <2>2. Cardinality(1..(row - 1)) = IF 1 > row - 1 THEN 0 ELSE row - 1 - 1 + 1
    BY ONLY <2>1, FS_Interval
  <2>3. QED
    BY ONLY <1>4, <2>1, <2>2
<1>6. PICK k \in D : L[k] = row
  BY ONLY <1>1, <1>3
<1>7. k = row
  BY ONLY <1>1, <1>3, <1>5, <1>6
<1>8. row \in DOMAIN t /\ t[row] = s[row]
  BY ONLY <1>3, <1>6, <1>7
<1>9. QED
  BY <1>8 DEF t

(* One row more at the end, and a page more. *)
LEMMA AppendedRow ==
  ASSUME NEW s \in Seq(Car), NEW c \in Car
  PROVE  /\ Append(s, c) \in Seq(Car)
         /\ Rows(Append(s, c)) = Rows(s) \cup {c}
         /\ c \notin Rows(s) => Doubles(Append(s, c)) \subseteq Doubles(s)
<1> DEFINE t == Append(s, c)
<1>1. /\ t \in Seq(Car) /\ Len(t) = Len(s) + 1 /\ Len(s) \in Nat
      /\ DOMAIN s = 1..Len(s)
      /\ \A i \in 1..Len(s) : t[i] = s[i]
      /\ t[Len(s) + 1] = c
  BY AppendProperties, LenProperties
<1>2. DOMAIN t = 1..(Len(s) + 1)
  BY <1>1, LenProperties
<1> HIDE DEF t
<1>3. \A i : i \in DOMAIN t <=> i \in DOMAIN s \/ i = Len(s) + 1
  BY <1>1, <1>2
<1>4. Rows(t) = Rows(s) \cup {c}
  BY <1>1, <1>3 DEF Rows
<1>5. ASSUME c \notin Rows(s) PROVE Doubles(t) \subseteq Doubles(s)
  <2> SUFFICES ASSUME NEW i \in DOMAIN t, NEW j \in DOMAIN t, j # i, t[j] = t[i]
               PROVE  t[i] \in Doubles(s)
    BY DEF Doubles
  <2>1. \A k \in DOMAIN s : s[k] # c
    BY <1>5 DEF Rows
  <2>2. i \in DOMAIN s /\ j \in DOMAIN s
    BY <1>1, <1>3, <2>1
  <2>3. s[i] = t[i] /\ s[j] = t[j]
    BY <1>1, <2>2
  <2>4. QED
    BY <2>2, <2>3 DEF Doubles
<1>6. QED
  BY <1>1, <1>4, <1>5 DEF t

LEMMA AppendedRows ==
  ASSUME NEW s \in Seq(Car), NEW t \in Seq(Car), Doubles(t) = {}
  PROVE  /\ s \o t \in Seq(Car)
         /\ Rows(s \o t) = Rows(s) \cup Rows(t)
         /\ Doubles(s \o t) \subseteq Doubles(s) \cup Rows(t)
<1> DEFINE r == s \o t
           m == Len(s)
           n == Len(t)
<1>1. /\ r \in Seq(Car) /\ Len(r) = m + n /\ m \in Nat /\ n \in Nat
      /\ DOMAIN s = 1..m /\ DOMAIN t = 1..n
      /\ \A i \in 1..m : r[i] = s[i]
      /\ \A i \in 1..n : r[m + i] = t[i]
  BY ConcatProperties, LenProperties
<1>2. DOMAIN r = 1..(m + n)
  BY <1>1, LenProperties
<1> HIDE DEF r, m, n
<1>3. \A i \in 1..(m + n) : i \in 1..m \/ (i - m \in 1..n /\ i = m + (i - m))
  BY <1>1
<1>4. ASSUME NEW i \in DOMAIN r
      PROVE  /\ i \in 1..m => r[i] \in Rows(s)
             /\ i \notin 1..m => r[i] \in Rows(t)
  <2>1. CASE i \in 1..m
    BY <1>1, <2>1 DEF Rows
  <2>2. CASE i \notin 1..m
    <3>1. i - m \in 1..n /\ i = m + (i - m)
      BY <1>2, <1>3, <2>2
    <3>2. r[i] = t[i - m] /\ i - m \in DOMAIN t
      BY <1>1, <3>1
    <3>3. QED
      BY <2>2, <3>2 DEF Rows
  <2>3. QED
    BY <2>1, <2>2
<1>5. Rows(r) = Rows(s) \cup Rows(t)
  <2>1. \A i \in 1..m : i \in DOMAIN r /\ r[i] = s[i]
    BY <1>1, <1>2
  <2>2. \A i \in 1..n : m + i \in DOMAIN r /\ r[m + i] = t[i]
    BY <1>1, <1>2
  <2>3. Rows(s) \subseteq Rows(r)
    BY <1>1, <2>1 DEF Rows
  <2>4. Rows(t) \subseteq Rows(r)
    BY <1>1, <2>2 DEF Rows
  <2>5. Rows(r) \subseteq Rows(s) \cup Rows(t)
    BY <1>4 DEF Rows
  <2>6. QED
    BY <2>3, <2>4, <2>5
<1>6. Doubles(r) \subseteq Doubles(s) \cup Rows(t)
  <2> SUFFICES ASSUME NEW i \in DOMAIN r, NEW j \in DOMAIN r, j # i, r[j] = r[i]
               PROVE  r[i] \in Doubles(s) \cup Rows(t)
    BY DEF Doubles
  <2>1. CASE i \in 1..m /\ j \in 1..m
    BY <1>1, <2>1 DEF Doubles
  <2>2. CASE ~(i \in 1..m /\ j \in 1..m)
    BY <1>4, <2>2
  <2>3. QED
    BY <2>1, <2>2
<1>7. QED
  BY <1>1, <1>5, <1>6 DEF r

(* A list that shows no car twice has as many rows as cars. *)
LEMMA RowsCounted ==
  ASSUME NEW s \in Seq(Car), Doubles(s) = {}
  PROVE  Cardinality(Rows(s)) = Len(s)
<1>1. Len(s) \in Nat /\ DOMAIN s = 1..Len(s) /\ s \in [1..Len(s) -> Car]
  BY LenProperties
<1>2. s \in Bijection(1..Len(s), Rows(s))
  <2>1. s \in [1..Len(s) -> Rows(s)]
    BY <1>1 DEF Rows
  <2>2. \A i, j \in 1..Len(s) : s[i] = s[j] => i = j
    BY <1>1 DEF Doubles
  <2>3. \A c \in Rows(s) : \E i \in 1..Len(s) : s[i] = c
    BY <1>1 DEF Rows
  <2>4. QED
    BY <2>1, <2>2, <2>3 DEF Bijection, Injection, IsInjective, Surjection
<1>3. ExistsBijection(1..Len(s), Rows(s))
  BY <1>2 DEF ExistsBijection
<1>4. QED
  BY <1>1, <1>3, FS_CountingElements

-----------------------------------------------------------------------------
(* The inductive invariant *)

FetchRecord == [at : {"idle", "listing", "reading"}, left : SUBSET Car, post : Seq(Car)]
OpeningRecord ==
  [at : {"no", "asking", "open"}, row : Nat, tapped : Nat, shown : Nat,
   calm : BOOLEAN, overtaken : BOOLEAN]

AllIdle == \A f \in Fetch : fetches[f].at = "idle"

(* What is stored where: the offline copy is behind the cache, the cache     *)
(* behind the server, and no copy is ever lost.                              *)
Stores ==
  /\ located \subseteq Car /\ posts \subseteq Car /\ pending \subseteq {Mine}
  /\ pending \cap posts = {}
  /\ cache \subseteq posts /\ realm \subseteq cache /\ before \subseteq realm
  /\ pending # {} => hadPending
  /\ connected \in BOOLEAN /\ hasInternet \in BOOLEAN
  /\ errors \in Nat

(* A fetch has shown or will ask for every car that was copied before the    *)
(* burst it belongs to, unless a query failed.                               *)
Fetches ==
  /\ fetches \in [Fetch -> FetchRecord]
  /\ \A f \in Fetch :
       /\ (fetches[f].at = "reading") = (fetches[f].left # {})
       /\ Rows(fetches[f].post) \subseteq realm \ fetches[f].left
       /\ Doubles(fetches[f].post) = {}
       /\ errors = 0 /\ fetches[f].at = "reading" =>
            before \subseteq fetches[f].left \cup Rows(fetches[f].post)

(* What the rows show. *)
Listing ==
  /\ carList \in Seq(Car) /\ sort \in Orders
  /\ Doubles(carList) \subseteq paged
  /\ Rows(carList) \ paged \subseteq realm
  /\ errors = 0 /\ AllIdle => before \subseteq Rows(carList)

Paging ==
  /\ page = <<>> \/ \E c \in Car : page = <<c>>
  /\ pages \in [Car -> Nat]
  /\ refreshing \in BOOLEAN /\ stopped \in {"no", "unwrap", "row"}

(* While the author of a row tapped in a quiet moment is asked for, only     *)
(* pages change the list below the HUD: the row stays there, and with it the *)
(* car unless a page moves it.                                               *)
Opening ==
  /\ opening \in OpeningRecord
  /\ opening.at = "asking" /\ opening.calm =>
       /\ AllIdle /\ opening.row \in DOMAIN carList
       /\ ~opening.overtaken => carList[opening.row] = opening.tapped
  /\ CalmTapOpensItsCar

IInv == Stores /\ Fetches /\ Listing /\ Paging /\ Opening /\ StopsOnlyFor

(* The cars a query can find. *)
LEMMA FoundCars ==
  ASSUME Stores
  PROVE  Found \subseteq Car /\ realm \subseteq Found /\ before \subseteq Found
BY FeedAssumption DEF Stores, Found

LEMMA FetchShape ==
  ASSUME Fetches, NEW f \in Fetch
  PROVE  /\ fetches[f] \in FetchRecord /\ fetches[f].at \in {"idle", "listing", "reading"}
         /\ fetches[f].left \subseteq Car /\ fetches[f].post \in Seq(Car)
         /\ fetches[f] = [at |-> fetches[f].at, left |-> fetches[f].left, post |-> fetches[f].post]
<1>1. fetches[f] \in FetchRecord
  BY DEF Fetches
<1>2. QED
  BY <1>1 DEF FetchRecord

LEMMA EmptyList == <<>> \in Seq(Car) /\ Rows(<<>>) = {} /\ Doubles(<<>>) = {}
BY DEF Rows, Doubles

LEMMA InitIInv == Init => IInv
<1> SUFFICES ASSUME Init PROVE IInv
  OBVIOUS
<1>1. Stores
  <2>1. /\ located \subseteq Car /\ posts \subseteq Car /\ pending \subseteq {Mine}
        /\ pending \cap posts = {}
        /\ cache \subseteq posts /\ realm \subseteq cache /\ before \subseteq realm
        /\ pending # {} => hadPending
        /\ errors \in Nat
    BY DEF Init
  <2>2. connected \in BOOLEAN /\ hasInternet \in BOOLEAN
    BY DEF Init
  <2>3. QED
    BY <2>1, <2>2 DEF Stores
<1>2. Fetches
  <2>1. fetches = [f \in Fetch |-> Idle] /\ Idle = [at |-> "idle", left |-> {}, post |-> <<>>]
    BY DEF Init, Idle
  <2>2. Idle \in FetchRecord
    BY EmptyList DEF Idle, FetchRecord
  <2>3. QED
    BY <2>1, <2>2, EmptyList DEF Fetches
<1>3. Listing
  BY EmptyList DEF Init, Listing, Orders
<1>4. Paging
  BY DEF Init, Paging
<1>5. Opening
  <2>1. opening = [at |-> "no", row |-> 0, tapped |-> 0, shown |-> 0,
                   calm |-> FALSE, overtaken |-> FALSE]
    BY DEF Init, Closed
  <2>2. opening \in OpeningRecord
    BY <2>1 DEF OpeningRecord
  <2>3. QED
    BY <2>1, <2>2 DEF Opening, CalmTapOpensItsCar
<1>6. StopsOnlyFor
  BY DEF Init, StopsOnlyFor
<1>7. QED
  BY <1>1, <1>2, <1>3, <1>4, <1>5, <1>6 DEF IInv

-----------------------------------------------------------------------------
(* What a step leaves as it was *)

LEMMA StoresStay ==
  ASSUME Stores,
         UNCHANGED <<located, posts, pending, cache, realm, connected, hadPending>>,
         before' = before \/ before' = realm, hasInternet' \in BOOLEAN,
         errors' = errors \/ errors' = errors + 1
  PROVE  Stores'
<1>1. before' \subseteq realm' /\ errors' \in Nat
  BY DEF Stores
<1>2. QED
  BY <1>1 DEF Stores

LEMMA FetchesStay ==
  ASSUME Fetches, UNCHANGED <<fetches, realm, before>>, errors' = errors
  PROVE  Fetches'
BY DEF Fetches

LEMMA ListingStays ==
  ASSUME Listing, UNCHANGED <<fetches, carList, sort, paged, realm, before>>, errors' = errors
  PROVE  Listing'
BY DEF Listing, AllIdle

LEMMA OpeningStays ==
  ASSUME Opening, UNCHANGED <<fetches, opening, carList>>
  PROVE  Opening'
BY DEF Opening, AllIdle, CalmTapOpensItsCar

(* Nothing is promised of a row while the user is at the feed. *)
LEMMA OpeningAtFeed ==
  ASSUME Opening, AtFeed, UNCHANGED opening
  PROVE  Opening'
BY DEF Opening, AtFeed, CalmTapOpensItsCar

(* An answer for the list comes while a fetch is under way. *)
LEMMA OpeningUnquiet ==
  ASSUME Opening, ~AllIdle, UNCHANGED opening
  PROVE  Opening'
BY DEF Opening, CalmTapOpensItsCar

LEMMA RunningOn ==
  ASSUME stopped' = "no"
  PROVE  StopsOnlyFor'
BY DEF StopsOnlyFor

-----------------------------------------------------------------------------
(* The user *)

LEMMA GetPostIInv ==
  ASSUME IInv, stopped = "no", AtFeed, GetPost, sort' \in Orders
  PROVE  IInv'
<1>1. /\ Stores /\ Fetches /\ Listing /\ Paging /\ Opening
      /\ paged' = {} /\ before' = IF Quiet THEN realm ELSE before
      /\ UNCHANGED <<located, posts, pending, cache, connected, realm, hasInternet, page, pages,
                     opening, stopped, hadPending, errors>>
  BY DEF IInv, GetPost, world, counts
<1>2. before' \subseteq realm /\ (before' = before \/ before' = realm)
  BY <1>1 DEF Stores
<1>3. Stores'
  <2>1. hasInternet' \in BOOLEAN
    BY <1>1 DEF Stores
  <2>2. QED
    BY <1>1, <2>1, StoresStay
<1>4. Opening' /\ StopsOnlyFor'
  BY <1>1, OpeningAtFeed, RunningOn
<1>5. \A f \in Fetch : fetches[f].at = "reading" => before' = before
  BY <1>1 DEF Quiet
<1>6. CASE hasInternet
  <2>1. PICK f \in Fetch : /\ fetches[f].at = "idle"
                           /\ fetches' = [fetches EXCEPT ![f].at = "listing"]
                           /\ carList' = <<>> /\ refreshing' = TRUE
    BY <1>6 DEF GetPost
  <2>2. fetches'[f] = [fetches[f] EXCEPT !.at = "listing"] /\ fetches[f] \in FetchRecord
    BY <1>1, <2>1 DEF Fetches
  <2>3. /\ fetches'[f] \in FetchRecord /\ fetches'[f].at = "listing"
        /\ fetches'[f].left = fetches[f].left /\ fetches'[f].post = fetches[f].post
    BY <2>2 DEF FetchRecord
  <2>4. \A g \in Fetch \ {f} : fetches'[g] = fetches[g]
    BY <1>1, <2>1 DEF Fetches
  <2>5. fetches' \in [Fetch -> FetchRecord]
    BY <1>1, <2>1, <2>3, <2>4 DEF Fetches
  <2>6. Fetches'
    BY <1>1, <1>5, <2>1, <2>3, <2>4, <2>5 DEF Fetches
  <2>7. ~AllIdle'
    BY <2>3 DEF AllIdle
  <2>8. Listing' /\ Paging'
    BY <1>1, <2>1, <2>7, EmptyList DEF Listing, Paging
  <2>9. QED
    BY <1>3, <1>4, <2>6, <2>8 DEF IInv
<1>7. CASE ~hasInternet
  <2>1. /\ fetches' = fetches /\ refreshing' = FALSE
        /\ carList' = Sorted(InOrder(realm), "date")
    BY <1>7 DEF GetPost
  <2>2. Fetches'
    BY <1>1, <1>5, <2>1 DEF Fetches
  <2>3. realm \subseteq Car
    BY <1>1 DEF Stores
  <2>4. carList' \in Seq(Car) /\ Rows(carList') = realm /\ Doubles(carList') = {}
    BY <2>1, <2>3, InOrderLists, SortedLists
  <2>5. Listing' /\ Paging'
    BY <1>1, <1>2, <2>1, <2>4 DEF Listing, Paging
  <2>6. QED
    BY <1>3, <1>4, <2>2, <2>5 DEF IInv
<1>8. QED
  BY <1>6, <1>7

LEMMA DidSelectOrderIInv ==
  ASSUME IInv, stopped = "no", NEW order \in Orders \ {"none"}, DidSelectOrder(order)
  PROVE  IInv'
<1>1. /\ Stores /\ Fetches /\ Listing /\ Paging /\ Opening
      /\ AtFeed /\ sort' = order
      /\ UNCHANGED <<located, posts, pending, cache, connected, realm, hasInternet, page, fetches,
                     pages, opening, refreshing, stopped, before, hadPending, errors>>
  BY DEF IInv, DidSelectOrder, world, counts
<1>2. Stores' /\ Fetches' /\ Paging' /\ Opening' /\ StopsOnlyFor'
  <2>1. hasInternet' \in BOOLEAN
    BY <1>1 DEF Stores
  <2>2. Paging'
    BY <1>1 DEF Paging
  <2>3. QED
    BY <1>1, <2>1, <2>2, StoresStay, FetchesStay, OpeningAtFeed, RunningOn
<1>3. CASE hasInternet
  <2> DEFINE key == IF order = "date" THEN "date" ELSE "price"
  <2>1. carList' = Sorted(carList, key) /\ paged' = paged
    BY <1>3 DEF DidSelectOrder
  <2> HIDE DEF key
  <2>2. /\ carList' \in Seq(Car) /\ Rows(carList') = Rows(carList)
        /\ Doubles(carList') \subseteq Doubles(carList)
    BY <1>1, <2>1, SortedLists DEF Listing
  <2>3. Listing'
    BY <1>1, <2>1, <2>2 DEF Listing, AllIdle
  <2>4. QED
    BY <1>2, <2>3 DEF IInv
<1>4. CASE ~hasInternet
  <2>1. carList' = Sorted(InOrder(realm), order) /\ paged' = {}
    BY <1>4 DEF DidSelectOrder
  <2>2. realm \subseteq Car /\ before \subseteq realm
    BY <1>1 DEF Stores
  <2>3. carList' \in Seq(Car) /\ Rows(carList') = realm /\ Doubles(carList') = {}
    BY <2>1, <2>2, InOrderLists, SortedLists
  <2>4. Listing'
    BY <1>1, <2>1, <2>2, <2>3 DEF Listing
  <2>5. QED
    BY <1>2, <2>4 DEF IInv
<1>5. QED
  BY <1>3, <1>4

LEMMA LoadMorePostIInv == IInv /\ stopped = "no" /\ LoadMorePost => IInv'
<1> SUFFICES ASSUME IInv, stopped = "no", LoadMorePost PROVE IInv'
  OBVIOUS
<1>1. /\ Stores /\ Fetches /\ Listing /\ Paging /\ Opening
      /\ page # <<>> /\ pages' = [pages EXCEPT ![page[1]] = @ + 1]
      /\ UNCHANGED <<located, posts, pending, cache, connected, realm, hasInternet, carList, sort,
                     page, fetches, opening, refreshing, stopped, before, paged, hadPending, errors>>
  BY DEF IInv, LoadMorePost, world, screen
<1>2. Stores' /\ Fetches' /\ Listing' /\ StopsOnlyFor'
  <2>1. hasInternet' \in BOOLEAN
    BY <1>1 DEF Stores
  <2>2. QED
    BY <1>1, <2>1, StoresStay, FetchesStay, ListingStays, RunningOn
<1>3. Paging'
  <2>1. PICK c \in Car : page = <<c>>
    BY <1>1 DEF Paging
  <2>2. pages' = [pages EXCEPT ![c] = @ + 1] /\ pages \in [Car -> Nat]
    BY <1>1, <2>1 DEF Paging
  <2>3. pages' \in [Car -> Nat]
    BY <2>2
  <2>4. QED
    BY <1>1, <2>3 DEF Paging
<1>4. Opening'
  BY <1>1, OpeningStays
<1>5. QED
  BY <1>2, <1>3, <1>4 DEF IInv

(* A step that only concerns the page that is open. *)
LEMMA OnlyOpening ==
  ASSUME IInv, Opening', StopsOnlyFor', stopped' \in {"no", "unwrap", "row"},
         UNCHANGED <<world, realm, hasInternet, screen, fetches, pages, refreshing,
                     before, paged, hadPending>>,
         errors' = errors \/ errors' = errors + 1
  PROVE  IInv'
<1>1. /\ Stores /\ Fetches /\ Listing /\ Paging
      /\ UNCHANGED <<located, posts, pending, cache, connected, realm, hasInternet, carList, sort,
                     page, fetches, pages, refreshing, before, paged, hadPending>>
  BY DEF IInv, world, screen
<1>2. Stores'
  <2>1. hasInternet' \in BOOLEAN
    BY <1>1 DEF Stores
  <2>2. QED
    BY <1>1, <2>1, StoresStay
<1>3. errors' = 0 => errors = 0
  BY <1>1 DEF Stores
<1>4. Fetches' /\ Listing' /\ Paging'
  BY <1>1, <1>3 DEF Fetches, Listing, Paging, AllIdle
<1>5. QED
  BY <1>2, <1>4 DEF IInv

LEMMA DidSelectRowIInv ==
  ASSUME IInv, stopped = "no", NEW i \in DOMAIN carList, DidSelectRow(i)
  PROVE  IInv'
<1>1. /\ Opening /\ carList \in Seq(Car)
      /\ opening' = [at |-> IF carList[i] = Mine THEN "open" ELSE "asking", row |-> i,
                     tapped |-> carList[i],
                     shown |-> IF carList[i] = Mine THEN Mine ELSE 0,
                     calm |-> Quiet, overtaken |-> FALSE]
      /\ UNCHANGED <<world, realm, hasInternet, screen, fetches, pages, refreshing, stopped,
                     before, paged, hadPending, counts>>
  BY DEF DidSelectRow, IInv, Listing
<1>2. i \in Nat /\ carList[i] \in Car /\ carList[i] \in Nat /\ Mine \in Nat
  <2>1. DOMAIN carList = 1..Len(carList) /\ Len(carList) \in Nat
    BY <1>1, LenProperties
  <2>2. carList[i] \in Car
    BY <1>1, <2>1, ElementOfSeq
  <2>3. i \in Nat
    BY <1>1, <2>1
  <2>4. carList[i] \in Nat /\ Mine \in Nat
    BY <2>2, FeedAssumption
  <2>5. QED
    BY <2>2, <2>3, <2>4
<1>3. opening' \in OpeningRecord
  <2>1. Quiet \in BOOLEAN
    BY DEF Quiet
  <2> HIDE DEF Quiet
  <2>2. QED
    BY <1>1, <1>2, <2>1, Zenon DEF OpeningRecord
<1>4. /\ opening'.at = "open" => carList[i] = Mine /\ opening'.shown = Mine
      /\ opening'.tapped = carList[i] /\ opening'.row = i
      /\ opening'.calm <=> Quiet
  BY <1>1
<1>5. Quiet => AllIdle'
  BY <1>1 DEF Quiet, AllIdle
<1>6. carList' = carList
  BY <1>1 DEF screen
<1>7. Opening'
  BY <1>3, <1>4, <1>5, <1>6 DEF Opening, CalmTapOpensItsCar
<1>8. StopsOnlyFor' /\ stopped' \in {"no", "unwrap", "row"} /\ errors' = errors
  BY <1>1, RunningOn DEF counts
<1>9. QED
  BY <1>1, <1>7, <1>8, OnlyOpening

LEMMA OpeningClosed ==
  ASSUME opening' = Closed
  PROVE  Opening'
<1>1. opening' \in OpeningRecord
  BY DEF Closed, OpeningRecord
<1>2. QED
  BY <1>1 DEF Opening, Closed, CalmTapOpensItsCar

LEMMA ClosingIInv == IInv /\ stopped = "no" /\ (Back \/ AuthorFails) => IInv'
<1> SUFFICES ASSUME IInv, stopped = "no", Back \/ AuthorFails PROVE IInv'
  OBVIOUS
<1>1. /\ opening' = Closed
      /\ UNCHANGED <<world, realm, hasInternet, screen, fetches, pages, refreshing, stopped,
                     before, paged, hadPending>>
      /\ errors' = errors \/ errors' = errors + 1
  BY DEF Back, AuthorFails, counts
<1>2. Opening' /\ StopsOnlyFor' /\ stopped' \in {"no", "unwrap", "row"}
  BY <1>1, OpeningClosed, RunningOn
<1>3. QED
  BY <1>1, <1>2, OnlyOpening

LEMMA AuthorAnsweredIInv == IInv /\ stopped = "no" /\ AuthorAnswered => IInv'
<1> SUFFICES ASSUME IInv, stopped = "no", AuthorAnswered PROVE IInv'
  OBVIOUS
<1>1. /\ Opening /\ carList \in Seq(Car) /\ opening.at = "asking"
      /\ UNCHANGED <<world, realm, hasInternet, screen, fetches, pages, refreshing,
                     before, paged, hadPending, errors>>
  BY DEF AuthorAnswered, IInv, Listing, counts
<1>2. CASE opening.row \in DOMAIN carList
  <2>1. /\ opening' = [opening EXCEPT !.at = "open", !.shown = carList[opening.row]]
        /\ stopped' = "no"
    BY <1>2 DEF AuthorAnswered
  <2>2. carList[opening.row] \in Nat
    <3>1. DOMAIN carList = 1..Len(carList)
      BY <1>1, LenProperties
    <3>2. carList[opening.row] \in Car
      BY <1>1, <1>2, <3>1, ElementOfSeq
    <3>3. QED
      BY <3>2, FeedAssumption
  <2>3. /\ opening' \in OpeningRecord /\ opening'.at = "open"
        /\ opening'.shown = carList[opening.row]
        /\ opening'.tapped = opening.tapped /\ opening'.calm = opening.calm
        /\ opening'.overtaken = opening.overtaken
    BY <1>1, <2>1, <2>2 DEF Opening, OpeningRecord
  <2>4. Opening'
    BY <1>1, <2>3 DEF Opening, CalmTapOpensItsCar
  <2>5. QED
    BY <1>1, <2>1, <2>4, RunningOn, OnlyOpening
<1>3. CASE opening.row \notin DOMAIN carList
  <2>1. stopped' = "row" /\ opening' = opening
    BY <1>3 DEF AuthorAnswered
  <2>2. ~opening.calm
    BY <1>1, <1>3 DEF Opening
  <2>3. StopsOnlyFor'
    BY <2>1, <2>2 DEF StopsOnlyFor
  <2>4. Opening'
    BY <1>1, <2>1, OpeningStays DEF screen
  <2>5. QED
    BY <1>1, <2>1, <2>3, <2>4, OnlyOpening
<1>4. QED
  BY <1>2, <1>3

-----------------------------------------------------------------------------
(* Answers *)

(* The answer for a post: what fetch f shows then, and what is left of it. *)
LEMMA AnsweredKeeps ==
  ASSUME IInv, NEW f \in Fetch, fetches[f].at = "reading", NEW c \in fetches[f].left,
         NEW post \in Seq(Car), Doubles(post) = {}, Answered(f, c, post),
         Rows(post) \subseteq realm' \ (fetches[f].left \ {c}),
         Rows(fetches[f].post) \subseteq Rows(post),
         errors' = 0 => errors = 0 /\ (c \in before => c \in Rows(post)),
         realm \subseteq realm', UNCHANGED <<before, sort>>
  PROVE  Fetches' /\ Listing' /\ refreshing' = FALSE
<1> DEFINE old == fetches[f]
           new == IF old.left \ {c} = {} THEN Idle
                  ELSE [old EXCEPT !.left = old.left \ {c}, !.post = post]
<1>1. /\ fetches' = [fetches EXCEPT ![f] = new]
      /\ carList' = Sorted(post, "price") /\ paged' = {} /\ refreshing' = FALSE
  BY DEF Answered, Show
<1>2. /\ Fetches /\ Listing /\ old \in FetchRecord /\ old.left \subseteq Car
  BY FetchShape DEF IInv
<1>3. /\ new \in FetchRecord
      /\ old.left \ {c} = {} => new.at = "idle" /\ new.left = {} /\ new.post = <<>>
      /\ old.left # {c} => /\ new.at = "reading" /\ new.left = old.left \ {c}
                           /\ new.post = post
  <2>1. CASE old.left \ {c} = {}
    BY <2>1, EmptyList DEF Idle, FetchRecord
  <2>2. CASE old.left # {c}
    <3>1. new = [old EXCEPT !.left = old.left \ {c}, !.post = post]
      BY <2>2
    <3> HIDE DEF new, old
    <3>2. QED
      BY <1>2, <2>2, <3>1 DEF FetchRecord, old
  <2>3. QED
    BY <2>1, <2>2
<1>4. old.left # {c} => old.left \ {c} # {}
  OBVIOUS
<1>5. errors' = 0 => before \subseteq (old.left \ {c}) \cup Rows(post)
  BY <1>2 DEF Fetches
<1> HIDE DEF new
<1>6. fetches'[f] = new /\ \A g \in Fetch \ {f} : fetches'[g] = fetches[g]
  BY <1>1, <1>2 DEF Fetches
<1>7. fetches' \in [Fetch -> FetchRecord]
  BY <1>1, <1>2, <1>3 DEF Fetches
<1>8. ASSUME NEW g \in Fetch
      PROVE  /\ (fetches'[g].at = "reading") = (fetches'[g].left # {})
             /\ Rows(fetches'[g].post) \subseteq realm' \ fetches'[g].left
             /\ Doubles(fetches'[g].post) = {}
             /\ errors' = 0 /\ fetches'[g].at = "reading" =>
                  before' \subseteq fetches'[g].left \cup Rows(fetches'[g].post)
  <2>1. CASE g # f
    <3>1. fetches'[g] = fetches[g]
      BY <1>6, <2>1
    <3>2. QED
      BY <1>2, <3>1 DEF Fetches
  <2>2. CASE g = f /\ old.left \ {c} = {}
    BY <1>3, <1>6, <2>2, EmptyList
  <2>3. CASE g = f /\ old.left # {c}
    <3>1. /\ fetches'[g].at = "reading" /\ fetches'[g].left = old.left \ {c}
          /\ fetches'[g].post = post
      BY <1>3, <1>6, <2>3
    <3>2. QED
      BY <1>4, <1>5, <2>3, <3>1
  <2>4. QED
    BY <2>1, <2>2, <2>3
<1>9. Fetches'
  BY <1>7, <1>8 DEF Fetches
<1>10. /\ carList' \in Seq(Car) /\ Rows(carList') = Rows(post)
       /\ Doubles(carList') = {}
  BY <1>1, SortedLists
<1>11. errors' = 0 /\ AllIdle' => before \subseteq Rows(post)
  <2> SUFFICES ASSUME errors' = 0, AllIdle' PROVE before \subseteq Rows(post)
    OBVIOUS
  <2>1. new.at = "idle"
    BY <1>6 DEF AllIdle
  <2>2. old.left \ {c} = {}
    BY <1>3, <2>1
  <2>3. QED
    BY <1>5, <2>2
<1>12. Listing'
  BY <1>1, <1>2, <1>10, <1>11 DEF Listing
<1>13. QED
  BY <1>1, <1>9, <1>12

LEMMA ReadIInv ==
  ASSUME IInv, stopped = "no", NEW f \in Fetch, Read(f)
  PROVE  IInv'
<1>1. PICK c \in fetches[f].left :
        /\ fetches[f].at = "reading"
        /\ cache' = IF connected /\ c \in posts THEN cache \cup {c} ELSE cache
        /\ \/ c \in Found /\ Save(f, c) /\ UNCHANGED counts
           \/ /\ c \notin Found
              /\ Answered(f, c, fetches[f].post)
              /\ UNCHANGED <<realm, stopped, counts>>
           \/ /\ errors' = errors + 1
              /\ Answered(f, c, fetches[f].post)
              /\ UNCHANGED <<realm, stopped>>
        /\ UNCHANGED <<located, posts, pending, connected, hasInternet, sort, page, pages, opening,
                       before, hadPending>>
  BY DEF Read
<1> DEFINE post == fetches[f].post
<1>2. /\ Stores /\ Fetches /\ Listing /\ Paging /\ Opening /\ c \in Car
      /\ post \in Seq(Car) /\ Doubles(post) = {} /\ fetches[f].left \subseteq Car
      /\ Rows(post) \subseteq realm \ fetches[f].left
  BY FetchShape DEF IInv, Fetches
<1>3. Opening'
  BY <1>1, <1>2, OpeningUnquiet DEF AllIdle
<1>4. cache \subseteq cache' /\ cache' \subseteq posts /\ errors \in Nat
  BY <1>1, <1>2 DEF Stores
<1>5. /\ located \subseteq Car /\ posts \subseteq Car /\ pending \subseteq {Mine}
      /\ pending \cap posts = {} /\ before \subseteq realm /\ realm \subseteq cache
      /\ pending # {} => hadPending
      /\ connected \in BOOLEAN /\ hasInternet \in BOOLEAN
  BY <1>2 DEF Stores
<1>6. CASE /\ realm' = realm /\ Answered(f, c, post) /\ stopped' = "no"
           /\ (c \notin Found /\ errors' = errors) \/ errors' = errors + 1
  <2>1. before \subseteq Found
    BY <1>2, FoundCars
  <2>2. errors' = 0 => errors = 0 /\ (c \in before => c \in Rows(post))
    BY <1>4, <1>6, <2>1
  <2>3. Rows(post) \subseteq realm' \ (fetches[f].left \ {c})
    BY <1>2, <1>6
  <2> HIDE DEF post
  <2>4. Fetches' /\ Listing' /\ refreshing' = FALSE
    <3>1. Rows(fetches[f].post) \subseteq Rows(post)
      BY DEF post
    <3>2. QED
      BY <1>1, <1>2, <1>6, <2>2, <2>3, <3>1, AnsweredKeeps
  <2>5. Stores'
    <3>1. errors' \in Nat
      BY <1>4, <1>6
    <3>2. QED
      BY <1>1, <1>4, <1>5, <1>6, <3>1 DEF Stores
  <2>6. Paging' /\ StopsOnlyFor'
    BY <1>1, <1>2, <1>6, <2>4, RunningOn DEF Paging
  <2>7. QED
    BY <1>3, <2>4, <2>5, <2>6 DEF IInv
<1>7. CASE c \in Found /\ Save(f, c) /\ UNCHANGED counts
  <2>1. CASE c \in located /\ c \notin pending
    <3>1. /\ realm' = realm \cup {c} /\ Answered(f, c, Append(post, c)) /\ stopped' = "no"
          /\ errors' = errors
      BY <1>7, <2>1 DEF Save, counts
    <3>2. realm' \subseteq cache' /\ realm \subseteq realm'
      BY <1>1, <1>4, <1>5, <1>7, <2>1, <3>1 DEF Found
    <3>3. c \notin Rows(post)
      BY <1>1, <1>2
    <3> HIDE DEF post
    <3> DEFINE more == Append(post, c)
    <3>4. /\ more \in Seq(Car) /\ Rows(more) = Rows(post) \cup {c} /\ Doubles(more) = {}
      BY <1>2, <3>3, AppendedRow
    <3> HIDE DEF more
    <3>5. Rows(more) \subseteq realm' \ (fetches[f].left \ {c})
      BY <1>2, <3>1, <3>4
    <3>6. Fetches' /\ Listing' /\ refreshing' = FALSE
      <4>1. Rows(fetches[f].post) \subseteq Rows(more)
        BY <3>4 DEF post
      <4>2. Answered(f, c, more)
        BY <3>1 DEF more
      <4>3. errors' = 0 => errors = 0 /\ (c \in before => c \in Rows(more))
        BY <3>1, <3>4
      <4>4. QED
        BY <1>1, <3>2, <3>4, <3>5, <4>1, <4>2, <4>3, AnsweredKeeps
    <3>7. Stores'
      BY <1>1, <1>4, <1>5, <3>1, <3>2 DEF Stores
    <3>8. Paging' /\ StopsOnlyFor'
      BY <1>1, <1>2, <3>1, <3>6, RunningOn DEF Paging
    <3>9. QED
      BY <1>3, <3>6, <3>7, <3>8 DEF IInv
  <2>2. CASE ~(c \in located /\ c \notin pending)
    <3>1. /\ stopped' = "unwrap" /\ errors' = errors
          /\ UNCHANGED <<realm, fetches, carList, paged, refreshing>>
      BY <1>7, <2>2 DEF Save, counts
    <3>2. hadPending \/ ~(posts \subseteq located)
      <4>1. c \in posts \/ c \in pending
        BY <1>2, <1>7 DEF Found, Stores
      <4>2. QED
        BY <1>5, <2>2, <4>1
    <3>3. StopsOnlyFor'
      BY <1>1, <3>1, <3>2 DEF StopsOnlyFor
    <3>4. Stores'
      BY <1>1, <1>4, <1>5, <3>1 DEF Stores
    <3>5. Fetches' /\ Listing' /\ Paging'
      BY <1>1, <1>2, <3>1, FetchesStay, ListingStays DEF Paging
    <3>6. QED
      BY <1>3, <3>3, <3>4, <3>5 DEF IInv
  <2>3. QED
    BY <2>1, <2>2
<1>8. QED
  BY <1>1, <1>6, <1>7 DEF counts

LEMMA ListedIInv ==
  ASSUME IInv, stopped = "no", NEW f \in Fetch, Listed(f)
  PROVE  IInv'
<1> DEFINE new == IF Found = {} THEN Idle ELSE [Idle EXCEPT !.at = "reading", !.left = Found]
<1>1. /\ fetches[f].at = "listing" /\ cache' = Learnt
      /\ fetches' = [fetches EXCEPT ![f] = new]
      /\ UNCHANGED <<located, posts, pending, connected, realm, hasInternet, sort, pages, opening,
                     stopped, before, hadPending, errors>>
  BY DEF Listed, counts
<1>2. /\ Stores /\ Fetches /\ Listing /\ Paging /\ Opening
      /\ Found \subseteq Car /\ before \subseteq Found
  BY FoundCars DEF IInv
<1>3. Stores'
  <2>1. cache \subseteq cache' /\ cache' \subseteq posts
    BY <1>1, <1>2 DEF Stores, Learnt
  <2>2. QED
    BY <1>1, <1>2, <2>1 DEF Stores
<1>4. Opening' /\ StopsOnlyFor'
  BY <1>1, <1>2, OpeningUnquiet, RunningOn DEF AllIdle
<1>5. /\ new \in FetchRecord /\ new.post = <<>> /\ new.left = Found
      /\ Found = {} => new.at = "idle"
      /\ Found # {} => new.at = "reading"
  BY <1>2, EmptyList DEF Idle, FetchRecord
<1> HIDE DEF new
<1>6. fetches'[f] = new /\ \A g \in Fetch \ {f} : fetches'[g] = fetches[g]
  BY <1>1, <1>2 DEF Fetches
<1>7. fetches' \in [Fetch -> FetchRecord]
  BY <1>1, <1>2, <1>5 DEF Fetches
<1>8. Fetches'
  <2> SUFFICES ASSUME NEW g \in Fetch
               PROVE  /\ (fetches'[g].at = "reading") = (fetches'[g].left # {})
                      /\ Rows(fetches'[g].post) \subseteq realm' \ fetches'[g].left
                      /\ Doubles(fetches'[g].post) = {}
                      /\ errors' = 0 /\ fetches'[g].at = "reading" =>
                           before' \subseteq fetches'[g].left \cup Rows(fetches'[g].post)
    BY <1>7 DEF Fetches
  <2>1. CASE g # f
    <3>1. fetches'[g] = fetches[g]
      BY <1>6, <2>1
    <3>2. QED
      BY <1>1, <1>2, <3>1 DEF Fetches
  <2>2. CASE g = f
    <3>1. fetches'[g] = new
      BY <1>6, <2>2
    <3>2. (new.at = "reading") = (new.left # {})
      BY <1>5
    <3>3. QED
      BY <1>1, <1>2, <1>5, <3>1, <3>2, EmptyList
  <2>3. QED
    BY <2>1, <2>2
<1>9. CASE Found = {}
  <2>1. carList' = Sorted(<<>>, "price") /\ paged' = {} /\ refreshing' = FALSE /\ page' = <<>>
    BY <1>9 DEF Listed, Show
  <2>2. carList' \in Seq(Car) /\ Rows(carList') = {} /\ Doubles(carList') = {}
    BY <2>1, SortedLists, EmptyList
  <2>3. Listing' /\ Paging'
    BY <1>1, <1>2, <1>9, <2>1, <2>2 DEF Listing, Paging
  <2>4. QED
    BY <1>3, <1>4, <1>8, <2>3 DEF IInv
<1>10. CASE Found # {}
  <2>1. /\ page' = <<CHOOSE c \in Found : \A e \in Found : e <= c>>
        /\ refreshing' = FALSE /\ UNCHANGED <<carList, paged>>
    BY <1>10 DEF Listed
  <2>2. \E c \in Found : \A e \in Found : e <= c
    BY <1>2, <1>10, InOrderLists
  <2>3. (CHOOSE c \in Found : \A e \in Found : e <= c) \in Car
    BY <1>2, <2>2
  <2>4. \E c \in Car : page' = <<c>>
    BY <2>1, <2>3
  <2>5. ~AllIdle'
    BY <1>5, <1>6, <1>10 DEF AllIdle
  <2>6. Listing' /\ Paging'
    BY <1>1, <1>2, <2>1, <2>4, <2>5 DEF Listing, Paging
  <2>7. QED
    BY <1>3, <1>4, <1>8, <2>6 DEF IInv
<1>11. QED
  BY <1>9, <1>10

(* The list with a page: the page's cars, and the old rows.  A row no page   *)
(* overtakes stays.                                                          *)
LEMMA WithPageLists ==
  ASSUME carList \in Seq(Car), NEW next, next \subseteq Car
  PROVE  /\ WithPage(next) \in Seq(Car)
         /\ Rows(WithPage(next)) = Rows(carList) \cup next
         /\ Doubles(WithPage(next)) \subseteq Doubles(carList) \cup next
         /\ DOMAIN carList \subseteq DOMAIN WithPage(next)
         /\ opening.at = "asking" /\ opening.row \in DOMAIN carList /\ ~Overtakes(next) =>
              WithPage(next)[opening.row] = carList[opening.row]
<1>1. CASE next = {}
  <2>1. WithPage(next) = carList
    BY <1>1 DEF WithPage
  <2>2. QED
    BY <1>1, <2>1
<1>2. CASE next # {}
  <2> DEFINE s == carList
             t == InOrder(next)
             both == s \o t
  <2>1. t \in Seq(Car) /\ Rows(t) = next /\ Doubles(t) = {}
    BY InOrderLists
  <2>2. WithPage(next) = Sorted(both, sort)
    BY <1>2 DEF WithPage
  <2> HIDE DEF t
  <2>3. /\ both \in Seq(Car) /\ Rows(both) = Rows(s) \cup next
        /\ Doubles(both) \subseteq Doubles(s) \cup next
    BY <2>1, AppendedRows
  <2>4. /\ Len(s) \in Nat /\ Len(t) \in Nat
        /\ DOMAIN s = 1..Len(s) /\ DOMAIN t = 1..Len(t)
        /\ DOMAIN both = 1..(Len(s) + Len(t))
        /\ \A i \in 1..(Len(s) + Len(t)) : both[i] = IF i <= Len(s) THEN s[i] ELSE t[i - Len(s)]
    BY <2>1, <2>3, ConcatProperties, LenProperties
  <2> HIDE DEF both
  <2>5. ASSUME opening.at = "asking", opening.row \in DOMAIN s, ~Overtakes(next)
        PROVE  Sorted(both, sort)[opening.row] = s[opening.row]
    <3> DEFINE row == opening.row
               key(i) == By(sort, both[i])
    <3>1. row \in 1..Len(s) /\ row \in DOMAIN both /\ both[row] = s[row]
      BY <2>4, <2>5
    <3>2. /\ \A i \in DOMAIN s : /\ ~(i < row /\ By(sort, s[i]) > By(sort, s[row]))
                                /\ ~(i > row /\ By(sort, s[i]) < By(sort, s[row]))
          /\ \A c \in next : ~(By(sort, c) < By(sort, s[row]))
      BY <1>2, <2>5 DEF Overtakes
    <3>3. \A i \in DOMAIN both : key(i) \in Nat
      <4>1. \A i \in DOMAIN both : both[i] \in Car
        BY <2>3, <2>4, LenProperties, ElementOfSeq
      <4>2. QED
        BY <4>1, KeysAreNumbers
    <3>4. ASSUME NEW i \in DOMAIN both
          PROVE  (i < row => key(i) <= key(row)) /\ (i > row => key(row) <= key(i))
      <4>1. key(i) \in Nat /\ key(row) \in Nat /\ i \in Nat /\ row \in Nat
        BY <2>4, <3>1, <3>3
      <4>2. CASE i <= Len(s)
        <5>1. i \in DOMAIN s /\ both[i] = s[i]
          BY <2>4, <4>2
        <5>2. ~(i < row /\ key(i) > key(row)) /\ ~(i > row /\ key(i) < key(row))
          BY <3>1, <3>2, <5>1
        <5> HIDE DEF key, row
        <5>3. QED
          BY <4>1, <5>2
      <4>3. CASE ~(i <= Len(s))
        <5>1. i - Len(s) \in DOMAIN t /\ both[i] = t[i - Len(s)]
          BY <2>4, <4>3
        <5>2. both[i] \in next
          BY <2>1, <5>1 DEF Rows
        <5>3. ~(key(i) < key(row)) /\ ~(i < row)
          BY <2>4, <3>1, <3>2, <4>3, <5>2
        <5> HIDE DEF key, row
        <5>4. QED
          BY <4>1, <5>3
      <4>4. QED
        BY <4>2, <4>3
    <3> HIDE DEF row
    <3>5. Sorted(both, sort)[row] = both[row]
      BY <2>3, <3>1, <3>4, RowStays
    <3>6. QED
      BY <3>1, <3>5 DEF row
  <2>6. DOMAIN s \subseteq DOMAIN both
    BY <2>4
  <2>7. QED
    BY <2>2, <2>3, <2>5, <2>6, SortedLists
<1>3. QED
  BY <1>1, <1>2

LEMMA PageAnsweredIInv ==
  ASSUME IInv, stopped = "no", NEW c \in Car, PageAnswered(c)
  PROVE  IInv'
<1> DEFINE next == PageAfter(c)
<1>1. /\ pages' = [pages EXCEPT ![c] = @ - 1] /\ pages[c] > 0
      /\ carList' = WithPage(next)
      /\ paged' = paged \cup next
      /\ cache' = IF connected THEN cache \cup (next \cap posts) ELSE cache
      /\ opening' = [opening EXCEPT !.overtaken = opening.overtaken \/ Overtakes(next)]
      /\ UNCHANGED <<located, posts, pending, connected, realm, hasInternet, sort, page, fetches,
                     refreshing, stopped, before, hadPending, errors>>
  BY DEF PageAnswered, counts
<1>2. /\ Stores /\ Fetches /\ Listing /\ Paging /\ Opening /\ next \subseteq Car
  BY FoundCars DEF IInv, PageAfter
<1> HIDE DEF next
<1>3. Stores'
  <2>1. cache \subseteq cache' /\ cache' \subseteq posts
    BY <1>1, <1>2 DEF Stores
  <2>2. QED
    BY <1>1, <1>2, <2>1 DEF Stores
<1>4. StopsOnlyFor' /\ Fetches'
  BY <1>1, <1>2, RunningOn, FetchesStay
<1>5. Paging'
  <2>1. pages' \in [Car -> Nat]
    BY <1>1, <1>2 DEF Paging
  <2>2. QED
    BY <1>1, <1>2, <2>1 DEF Paging
<1>6. /\ carList' \in Seq(Car) /\ Rows(carList') = Rows(carList) \cup next
      /\ Doubles(carList') \subseteq Doubles(carList) \cup next
      /\ DOMAIN carList \subseteq DOMAIN carList'
      /\ opening.at = "asking" /\ opening.row \in DOMAIN carList /\ ~Overtakes(next) =>
           carList'[opening.row] = carList[opening.row]
  BY <1>1, <1>2, WithPageLists DEF Listing
<1>7. Listing'
  BY <1>1, <1>2, <1>6 DEF Listing, AllIdle
<1>8. Opening'
  <2> DEFINE moved == Overtakes(next)
  <2>1. moved \in BOOLEAN
    BY DEF Overtakes
  <2> HIDE DEF moved
  <2>2. opening' = [opening EXCEPT !.overtaken = opening.overtaken \/ moved]
    BY <1>1 DEF moved
  <2>3. /\ opening' \in OpeningRecord
        /\ opening'.at = opening.at /\ opening'.row = opening.row /\ opening'.calm = opening.calm
        /\ opening'.tapped = opening.tapped /\ opening'.shown = opening.shown
        /\ opening'.overtaken <=> opening.overtaken \/ moved
    BY <1>2, <2>1, <2>2 DEF Opening, OpeningRecord
  <2>4. CalmTapOpensItsCar'
    BY <1>2, <2>3 DEF Opening, CalmTapOpensItsCar
  <2>5. AllIdle => AllIdle'
    BY <1>1 DEF AllIdle
  <2>6. QED
    BY <1>2, <1>6, <2>3, <2>4, <2>5 DEF Opening, moved
<1>9. QED
  BY <1>3, <1>4, <1>5, <1>7, <1>8 DEF IInv

LEMMA FailureIInv ==
  ASSUME IInv, stopped = "no",
         (\E c \in Car : PageFails(c)) \/ \E f \in Fetch : ListingFails(f)
  PROVE  IInv'
<1>1. /\ Stores /\ Fetches /\ Listing /\ Paging /\ Opening
      /\ errors' = errors + 1
      /\ UNCHANGED <<located, posts, pending, cache, connected, realm, hasInternet, carList, sort,
                     page, opening, refreshing, stopped, before, paged, hadPending>>
  BY DEF IInv, PageFails, ListingFails, world, screen
<1>2. errors' \in Nat /\ errors' # 0
  BY <1>1 DEF Stores
<1>3. Stores' /\ Listing' /\ StopsOnlyFor'
  BY <1>1, <1>2, RunningOn DEF Stores, Listing
<1>4. ASSUME NEW c \in Car, PageFails(c) PROVE IInv'
  <2>1. pages[c] > 0 /\ pages' = [pages EXCEPT ![c] = @ - 1] /\ fetches' = fetches
    BY <1>4 DEF PageFails
  <2>2. Opening'
    BY <1>1, <2>1, OpeningStays
  <2>3. pages' \in [Car -> Nat]
    BY <1>1, <2>1 DEF Paging
  <2>4. Fetches' /\ Paging'
    BY <1>1, <1>2, <2>1, <2>3 DEF Fetches, Paging
  <2>5. QED
    BY <1>3, <2>2, <2>4 DEF IInv
<1>5. ASSUME NEW f \in Fetch, ListingFails(f) PROVE IInv'
  <2>1. fetches[f].at = "listing" /\ fetches' = [fetches EXCEPT ![f] = Idle] /\ pages' = pages
    BY <1>5 DEF ListingFails
  <2>2. Opening'
    BY <1>1, <2>1, OpeningUnquiet DEF AllIdle
  <2>3. Idle \in FetchRecord /\ Idle.at = "idle" /\ Idle.left = {} /\ Idle.post = <<>>
    BY EmptyList DEF Idle, FetchRecord
  <2>4. /\ fetches' \in [Fetch -> FetchRecord] /\ fetches'[f] = Idle
        /\ \A g \in Fetch \ {f} : fetches'[g] = fetches[g]
    BY <1>1, <2>1, <2>3 DEF Fetches
  <2>5. Fetches'
    BY <1>1, <1>2, <2>3, <2>4, EmptyList DEF Fetches
  <2>6. Paging'
    BY <1>1, <2>1 DEF Paging
  <2>7. QED
    BY <1>3, <2>2, <2>5, <2>6 DEF IInv
<1>6. QED
  BY <1>4, <1>5

-----------------------------------------------------------------------------
(* The surroundings, and the whole *)

LEMMA SurroundingsIInv == IInv /\ stopped = "no" /\ Surroundings => IInv'
<1> SUFFICES ASSUME IInv, stopped = "no", Surroundings PROVE IInv'
  OBVIOUS
<1>1. /\ Stores /\ Fetches /\ Listing /\ Paging /\ Opening
      /\ UNCHANGED <<located, realm, carList, sort, page, fetches, pages, opening, refreshing,
                     stopped, before, paged, hadPending, errors>>
  BY DEF IInv, Surroundings, Posted, OwnAnswered, Switch, PathUpdate, world, screen, counts
<1>2. Fetches' /\ Listing' /\ Paging' /\ Opening' /\ StopsOnlyFor'
  BY <1>1, FetchesStay, ListingStays, OpeningStays, RunningOn DEF Paging
<1>3. Stores'
  <2>1. ASSUME NEW c \in Car, Posted(c) PROVE Stores'
    BY <1>1, <2>1 DEF Posted, Stores
  <2>2. CASE OwnAnswered
    BY <1>1, <2>2, FeedAssumption DEF OwnAnswered, Stores
  <2>3. CASE Switch
    <3>1. connected' \in BOOLEAN
      BY <2>3 DEF Switch
    <3>2. UNCHANGED <<posts, pending, cache, hasInternet>>
      BY <2>3 DEF Switch
    <3>3. QED
      BY <1>1, <3>1, <3>2 DEF Stores
  <2>4. CASE PathUpdate
    <3>1. hasInternet' \in BOOLEAN /\ UNCHANGED <<posts, pending, cache, connected>>
      BY <1>1, <2>4 DEF PathUpdate, Stores, world
    <3>2. QED
      BY <1>1, <3>1 DEF Stores
  <2>5. QED
    BY <2>1, <2>2, <2>3, <2>4 DEF Surroundings
<1>4. QED
  BY <1>2, <1>3 DEF IInv

LEMMA StutterIInv == IInv /\ UNCHANGED vars => IInv'
<1> SUFFICES ASSUME IInv, UNCHANGED vars PROVE IInv'
  OBVIOUS
<1>1. UNCHANGED <<located, posts, pending, cache, connected, realm, hasInternet, carList, sort,
                  page, fetches, pages, opening, refreshing, stopped, before, paged, hadPending,
                  errors>>
  BY DEF vars, world, screen, counts
<1>2. Stores' /\ Fetches' /\ Listing' /\ Paging' /\ Opening' /\ StopsOnlyFor'
  <2>1. hasInternet' \in BOOLEAN
    BY <1>1 DEF IInv, Stores
  <2>2. QED
    BY <1>1, <2>1, StoresStay, FetchesStay, ListingStays, OpeningStays
       DEF IInv, Paging, StopsOnlyFor
<1>3. QED
  BY <1>2 DEF IInv

LEMMA NextIInv == IInv /\ [Next]_vars => IInv'
<1> SUFFICES ASSUME IInv, [Next]_vars PROVE IInv'
  OBVIOUS
<1>1. ASSUME stopped = "no", User PROVE IInv'
  <2>1. CASE LoadData
    <3>1. sort' \in Orders
      BY <2>1 DEF LoadData, IInv, Listing
    <3>2. QED
      BY <1>1, <2>1, <3>1, GetPostIInv DEF LoadData
  <2>2. CASE QueryCallBack
    <3>1. sort' \in Orders
      BY <2>2 DEF QueryCallBack, Orders
    <3>2. QED
      BY <1>1, <2>2, <3>1, GetPostIInv DEF QueryCallBack
  <2>3. QED
    BY <1>1, <2>1, <2>2, LoadMorePostIInv, ClosingIInv, DidSelectOrderIInv, DidSelectRowIInv
       DEF User
<1>2. ASSUME stopped = "no", Answers PROVE IInv'
  BY <1>2, ListedIInv, ReadIInv, PageAnsweredIInv, AuthorAnsweredIInv DEF Answers
<1>3. ASSUME stopped = "no", Failures PROVE IInv'
  BY <1>3, FailureIInv, ClosingIInv DEF Failures
<1>4. QED
  BY <1>1, <1>2, <1>3, SurroundingsIInv, StutterIInv DEF Next

THEOREM Invariance == Spec => []IInv
BY InitIInv, NextIInv, PTL DEF Spec

-----------------------------------------------------------------------------
(* Rows, fetches, cache and offline copy of FeedVC agree at any moment: only *)
(* a page may show a car twice, however many fetches overwrite each other.   *)
THEOREM ListsAgree == Spec => []ListInv
<1>1. IInv => ListInv
  <2> SUFFICES ASSUME IInv PROVE ListInv
    OBVIOUS
  <2>1. Stores /\ Fetches /\ Listing /\ Paging /\ Opening
    BY DEF IInv
  <2>2. \A f \in Fetch :
          /\ fetches[f].at \in {"idle", "listing", "reading"}
          /\ fetches[f].left \subseteq Car
          /\ Cardinality(Rows(fetches[f].post)) = Len(fetches[f].post)
    BY <2>1, FetchShape, RowsCounted DEF Fetches
  <2>3. opening.at \in {"no", "asking", "open"}
    BY <2>1 DEF Opening, OpeningRecord
  <2>4. TypeOK
    BY <2>1, <2>2, <2>3 DEF TypeOK, Stores, Fetches, Listing, Paging
  <2>5. DoublesArePaged
    BY <2>1 DEF Listing, Doubles, DoublesArePaged
  <2>6. QED
    BY <2>4, <2>5 DEF ListInv
<1>2. QED
  BY <1>1, Invariance, PTL

(* What getPost shows is in the Realm copy, so it can be shown offline. *)
THEOREM OfflineHasRows == Spec => []OfflineKeepsRows
<1>1. IInv => OfflineKeepsRows
  BY DEF IInv, Listing, OfflineKeepsRows
<1>2. QED
  BY <1>1, Invariance, PTL

(* Overlapping fetches lose no car that was known before, in whatever order  *)
(* their answers come.                                                       *)
THEOREM NothingKnownIsLost == Spec => []SettledListIsComplete
<1>1. IInv => SettledListIsComplete
  BY DEF IInv, Listing, AllIdle, Quiet, SettledListIsComplete
<1>2. QED
  BY <1>1, Invariance, PTL

(* didSelectItemAt opens the car that was tapped, when no query was under    *)
(* way at that moment: a page that comes while its author is asked for sorts *)
(* all rows, and leaves this one where it is unless it is overtaken, i.e.    *)
(* rows around it were not in the order chosen, or a car of the page goes    *)
(* before it.                                                                *)
THEOREM TappedCarOpens == Spec => []CalmTapOpensItsCar
<1>1. IInv => CalmTapOpensItsCar
  BY DEF IInv, Opening
<1>2. QED
  BY <1>1, Invariance, PTL

(* The force unwraps of writeToRealm and the index of didSelectItemAt end    *)
(* the app in no other case than those named.                                *)
THEOREM StopsKnown == Spec => []StopsOnlyFor
<1>1. IInv => StopsOnlyFor
  BY DEF IInv
<1>2. QED
  BY <1>1, Invariance, PTL
=============================================================================
