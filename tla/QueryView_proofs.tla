-------------------------- MODULE QueryView_proofs --------------------------
(***************************************************************************)
(* The view equals its query, none of the assertions on the way fails, and *)
(* the chat list equals the view, for any finite set of keys, any ranks,   *)
(* any limit and events of any size.                                       *)
(***************************************************************************)
EXTENDS QueryView, FiniteSetTheorems, SequenceTheorems, WellFoundedInduction, TLAPS

(* Finitely many things with a key and a rank, one for each key. *)
Versions(S) ==
  /\ IsFiniteSet(S)
  /\ \A d \in S : d.key \in Nat /\ d.rank \in Nat
  /\ \A d, e \in S : d.key = e.key => d = e

Docs(S) == S \subseteq Doc /\ \A d, e \in S : d.key = e.key => d = e

Limited == limitType \in {"first", "last"}

(* d counts against the limit before e does. *)
Ahead(d, e) == IF limitType = "first" THEN Before(d, e) ELSE Before(e, d)

Crowd(S, x) == {e \in S : Ahead(e, x)}

Top(S) == S \ Excess(S)

-----------------------------------------------------------------------------
(* Orders *)

LEMMA UpTo == ASSUME NEW m \in Nat PROVE IsFiniteSet(1..m) /\ Cardinality(1..m) = m
<1>1. 1 \in Int /\ m \in Int
  OBVIOUS
<1>2. IsFiniteSet(1..m) /\ Cardinality(1..m) = IF 1 > m THEN 0 ELSE m - 1 + 1
  BY ONLY <1>1, FS_Interval
<1>3. QED
  BY <1>2

(* Lined enumerates a finite set along a strict total order. *)
LEMMA LinedUp ==
  ASSUME NEW D, IsFiniteSet(D), NEW R,
         \A i \in D : <<i, i>> \notin R,
         \A i, j, k \in D : <<i, j>> \in R /\ <<j, k>> \in R => <<i, k>> \in R,
         \A i, j \in D : i = j \/ <<i, j>> \in R \/ <<j, i>> \in R
  PROVE  LET n == Cardinality(D) L == Lined(D, R) IN
         /\ n \in Nat /\ L \in [1..n -> D]
         /\ \A j, k \in 1..n : L[j] = L[k] => j = k
         /\ \A i \in D : \E k \in 1..n : L[k] = i
         /\ \A j, k \in 1..n : j < k => <<L[j], L[k]>> \in R
         /\ \A k \in 1..n : Cardinality({j \in D : <<j, L[k]>> \in R}) = k - 1
<1> DEFINE n == Cardinality(D)
           L == Lined(D, R)
           ahead(i) == {j \in D : <<j, i>> \in R}
           rank == [i \in D |-> Cardinality(ahead(i)) + 1]
<1>1. n \in Nat
  BY FS_CardinalityType
<1>2. ASSUME NEW i \in D
      PROVE  IsFiniteSet(ahead(i)) /\ Cardinality(ahead(i)) \in 0..(n - 1)
  <2>1. ahead(i) \in SUBSET (D \ {i})
    OBVIOUS
  <2>2. IsFiniteSet(D \ {i}) /\ Cardinality(D \ {i}) = n - 1
    BY FS_RemoveElement
  <2> HIDE DEF ahead, n
  <2>3. IsFiniteSet(ahead(i)) /\ Cardinality(ahead(i)) <= n - 1 /\ Cardinality(ahead(i)) \in Nat
    BY <2>1, <2>2, FS_Subset, FS_CardinalityType
  <2>4. QED
    BY <1>1, <2>3
<1>3. ASSUME NEW i \in D, NEW j \in D, <<i, j>> \in R
      PROVE  Cardinality(ahead(i)) < Cardinality(ahead(j))
  <2>1. ahead(i) \in SUBSET ahead(j)
    BY <1>3
  <2>2. i \in ahead(j) /\ i \notin ahead(i)
    BY <1>3
  <2> HIDE DEF ahead
  <2>3. /\ Cardinality(ahead(i)) <= Cardinality(ahead(j))
        /\ Cardinality(ahead(i)) # Cardinality(ahead(j))
    BY <1>2, <2>1, <2>2, FS_Subset
  <2>4. Cardinality(ahead(i)) \in Int /\ Cardinality(ahead(j)) \in Int
    BY <1>2
  <2>5. QED
    BY <2>3, <2>4
<1> HIDE DEF ahead
<1>4. ASSUME NEW i \in D, NEW j \in D, Cardinality(ahead(i)) = Cardinality(ahead(j))
      PROVE  i = j
  <2>1. Cardinality(ahead(i)) \in Int /\ Cardinality(ahead(j)) \in Int
    BY <1>2
  <2>2. ~(Cardinality(ahead(i)) < Cardinality(ahead(j)))
        /\ ~(Cardinality(ahead(j)) < Cardinality(ahead(i)))
    BY <1>4, <2>1
  <2>3. <<i, j>> \notin R /\ <<j, i>> \notin R
    BY <1>3, <2>2
  <2>4. QED
    BY <2>3
<1>5. rank \in Injection(D, 1..n)
  <2>1. \A i \in D : rank[i] = Cardinality(ahead(i)) + 1 /\ rank[i] \in 1..n
    BY <1>1, <1>2
  <2>2. \A i, j \in D : rank[i] = rank[j] => i = j
    BY <1>2, <1>4, <2>1
  <2>3. QED
    BY <2>1, <2>2 DEF Injection, IsInjective
<1>6. rank \in Surjection(D, 1..n)
  <2>1. IsFiniteSet(1..n) /\ Cardinality(1..n) = n
    BY <1>1, UpTo
  <2> HIDE DEF rank
  <2>2. QED
    BY <1>5, <2>1, FS_Injection
<1>7. ASSUME NEW k \in 1..n
      PROVE  L[k] \in D /\ Cardinality(ahead(L[k])) = k - 1
  <2>1. \E i \in D : rank[i] = k
    BY <1>6 DEF Surjection
  <2>2. \E i \in D : Cardinality(ahead(i)) = k - 1
    BY <1>1, <1>2, <2>1
  <2>3. L[k] = CHOOSE i \in D : Cardinality(ahead(i)) = k - 1
    BY DEF Lined, ahead
  <2>4. QED
    BY <2>2, <2>3
<1>8. L \in [1..n -> D]
  <2> DEFINE pick(k) == CHOOSE i \in D : Cardinality(ahead(i)) = k - 1
  <2>1. L = [k \in 1..n |-> pick(k)]
    BY DEF Lined, ahead
  <2> HIDE DEF L, n, pick
  <2>2. \A k \in 1..n : pick(k) = L[k]
    BY <2>1
  <2>3. \A k \in 1..n : pick(k) \in D
    BY <1>7, <2>2
  <2>4. QED
    BY <2>1, <2>3
<1> HIDE DEF L, rank
<1>9. \A j, k \in 1..n : L[j] = L[k] => j = k
  <2> SUFFICES ASSUME NEW j \in 1..n, NEW k \in 1..n, L[j] = L[k] PROVE j = k
    OBVIOUS
  <2>1. j - 1 = k - 1
    BY <1>7
  <2>2. QED
    BY <1>1, <2>1
<1>10. \A i \in D : \E k \in 1..n : L[k] = i
  <2> SUFFICES ASSUME NEW i \in D PROVE \E k \in 1..n : L[k] = i
    OBVIOUS
  <2> DEFINE k == Cardinality(ahead(i)) + 1
  <2>1. k \in 1..n /\ k - 1 = Cardinality(ahead(i))
    BY <1>1, <1>2
  <2> HIDE DEF k
  <2>2. L[k] = i
    BY <1>4, <1>7, <2>1
  <2>3. QED
    BY <2>1, <2>2
<1>11. \A j, k \in 1..n : j < k => <<L[j], L[k]>> \in R
  <2> SUFFICES ASSUME NEW j \in 1..n, NEW k \in 1..n, j < k PROVE <<L[j], L[k]>> \in R
    OBVIOUS
  <2>1. L[j] \in D /\ L[k] \in D
    BY <1>7
  <2>2. Cardinality(ahead(L[j])) = j - 1 /\ Cardinality(ahead(L[k])) = k - 1
    BY <1>7
  <2>3. ~(Cardinality(ahead(L[k])) < Cardinality(ahead(L[j]))) /\ L[j] # L[k]
    BY <1>1, <2>2
  <2>4. QED
    BY <1>3, <2>1, <2>3
<1>12. QED
  BY <1>1, <1>7, <1>8, <1>9, <1>10, <1>11 DEF L, ahead

LEMMA FunctionIsSeq ==
  ASSUME NEW S, NEW n \in Nat, NEW f \in [1..n -> S]
  PROVE  f \in Seq(S) /\ Len(f) = n /\ DOMAIN f = 1..n
<1>1. f \in Seq(S)
  BY SeqDef
<1>2. DOMAIN f = 1..n /\ DOMAIN f = 1..Len(f) /\ Len(f) \in Nat
  BY <1>1, LenProperties
<1>3. QED
  BY <1>1, <1>2

LEMMA Least ==
  ASSUME NEW S, S \subseteq Nat, S # {}
  PROVE  \E m \in S : \A k \in S : m <= k
<1>1. IsWellFoundedOn(OpToRel(<, Nat), Nat)
  BY NatLessThanWellFounded
<1>2. PICK m \in S : \A k \in S : ~(<<k, m>> \in OpToRel(<, Nat))
  BY <1>1, WFMin
<1>3. \A k \in S : k \in Nat /\ m \in Nat /\ ~(k < m)
  BY <1>2 DEF OpToRel
<1>4. QED
  BY <1>3

-----------------------------------------------------------------------------
(* What a limit leaves *)

(* Ahead is a strict order, and total among the versions of documents. *)
LEMMA AheadIsOrder ==
  ASSUME NEW d, NEW e, NEW f,
         d.key \in Nat, d.rank \in Nat, e.key \in Nat, e.rank \in Nat, f.key \in Nat, f.rank \in Nat
  PROVE  /\ ~Ahead(d, d)
         /\ Ahead(d, e) /\ Ahead(e, f) => Ahead(d, f)
         /\ d.key = e.key \/ Ahead(d, e) \/ Ahead(e, d)
BY DEF Ahead, Before

LEMMA ExcessIs ==
  ASSUME limitType \in {"none", "first", "last"}, NEW S
  PROVE  /\ Excess(S) \subseteq S
         /\ ~Limited => Excess(S) = {}
         /\ Limited => Excess(S) = {d \in S : Cardinality(Crowd(S, d)) >= Limit}
BY DEF Excess, Limited, Crowd, Ahead

LEMMA CrowdFinite ==
  ASSUME NEW S, IsFiniteSet(S), NEW x
  PROVE  IsFiniteSet(Crowd(S, x)) /\ Cardinality(Crowd(S, x)) \in Nat
         /\ Cardinality(Crowd(S, x)) <= Cardinality(S)
<1>1. Crowd(S, x) \in SUBSET S
  BY DEF Crowd
<1>2. QED
  BY <1>1, FS_Subset, FS_CardinalityType

(* If many are ahead of x, many of those that a limit leaves are.           *)
LEMMA CrowdOfTop ==
  ASSUME NEW N, Versions(N), Limited, NEW x, x.key \in Nat, x.rank \in Nat,
         Cardinality(Crowd(N, x)) >= Limit
  PROVE  Cardinality(Crowd(Top(N), x)) >= Limit
<1> DEFINE P == Crowd(N, x)
           R == {r \in P \X P : Ahead(r[1], r[2])}
           n == Cardinality(P)
           L == Lined(P, R)
           F == {L[k] : k \in 1..Limit}
<1>1. IsFiniteSet(P) /\ n \in Nat /\ Limit \in Nat /\ Limit <= n
  BY CrowdFinite, QueryViewAssumption DEF Versions
<1>2. \A a, b \in P : <<a, b>> \in R <=> Ahead(a, b)
  OBVIOUS
<1>3. \A a \in P : a \in N /\ a.key \in Nat /\ a.rank \in Nat /\ Ahead(a, x)
  BY DEF Versions, Crowd
<1>4. \A a, b \in P : a.key = b.key => a = b
  BY <1>3 DEF Versions
<1> HIDE DEF P, R
<1>5. /\ L \in [1..n -> P]
      /\ \A j, k \in 1..n : L[j] = L[k] => j = k
      /\ \A k \in 1..n : Cardinality({j \in P : <<j, L[k]>> \in R}) = k - 1
  <2>1. \A i \in P : <<i, i>> \notin R
    BY <1>2, <1>3, AheadIsOrder
  <2>2. \A i, j, k \in P : <<i, j>> \in R /\ <<j, k>> \in R => <<i, k>> \in R
    BY <1>2, <1>3, AheadIsOrder
  <2>3. \A i, j \in P : i = j \/ <<i, j>> \in R \/ <<j, i>> \in R
    BY <1>2, <1>3, <1>4, AheadIsOrder
  <2>4. QED
    BY <1>1, <2>1, <2>2, <2>3, LinedUp
<1> HIDE DEF L, n
<1>6. ASSUME NEW k \in 1..Limit
      PROVE  L[k] \in Top(N) /\ L[k] \in P
  <2>1. k \in 1..n /\ L[k] \in P
    BY <1>1, <1>5
  <2>2. Crowd(N, L[k]) = {j \in P : <<j, L[k]>> \in R}
    <3>1. ASSUME NEW e \in N, Ahead(e, L[k]) PROVE e \in P
      BY <1>3, <2>1, <3>1, AheadIsOrder DEF P, Crowd, Versions
    <3>2. QED
      BY <1>2, <1>3, <2>1, <3>1 DEF Crowd
  <2>3. Cardinality(Crowd(N, L[k])) = k - 1
    BY <1>5, <2>1, <2>2
  <2>4. L[k] \notin Excess(N)
    BY <1>1, <2>3, ExcessIs DEF Limited
  <2>5. QED
    BY <1>3, <2>1, <2>4 DEF Top
<1>7. IsFiniteSet(F) /\ Cardinality(F) = Limit
  <2> DEFINE g == [k \in 1..Limit |-> L[k]]
  <2>1. g \in Bijection(1..Limit, F)
    BY <1>1, <1>5 DEF Bijection, Injection, Surjection, IsInjective
  <2>2. IsFiniteSet(1..Limit) /\ Cardinality(1..Limit) = Limit
    BY <1>1, UpTo
  <2> HIDE DEF g, F
  <2>3. QED
    BY <2>1, <2>2, FS_Bijection DEF ExistsBijection
<1>8. F \in SUBSET Crowd(Top(N), x)
  BY <1>3, <1>6 DEF Crowd
<1>9. IsFiniteSet(Crowd(Top(N), x))
  <2>1. Crowd(Top(N), x) \in SUBSET N
    BY DEF Crowd, Top
  <2>2. QED
    BY <2>1, FS_Subset DEF Versions
<1> HIDE DEF F
<1>10. QED
  BY <1>7, <1>8, <1>9, FS_Subset, FS_CardinalityType, QueryViewAssumption

(* What a limit leaves does not change when documents are added that have    *)
(* enough ahead of them, or some are taken away that were left out.          *)
LEMMA SameTop ==
  ASSUME limitType \in {"none", "first", "last"},
         NEW N, Versions(N), NEW K, Versions(K),
         N \ K \subseteq Excess(N),
         \A x \in K \ N : Limited /\ Cardinality(Crowd(N, x)) >= Limit
  PROVE  Top(K) = Top(N)
<1>1. CASE ~Limited
  BY <1>1, ExcessIs DEF Top
<1>2. CASE Limited
  <2>1. /\ Excess(N) = {d \in N : Cardinality(Crowd(N, d)) >= Limit}
        /\ Excess(K) = {d \in K : Cardinality(Crowd(K, d)) >= Limit}
    BY <1>2, ExcessIs
  <2>2. \A d \in N \cup K : d.key \in Nat /\ d.rank \in Nat
    BY DEF Versions
  <2>3. \A S, T, x : S \subseteq T /\ IsFiniteSet(T) =>
          /\ Cardinality(Crowd(S, x)) \in Nat /\ Cardinality(Crowd(T, x)) \in Nat
          /\ Cardinality(Crowd(S, x)) <= Cardinality(Crowd(T, x))
    <3> SUFFICES ASSUME NEW S, NEW T, NEW x, S \subseteq T, IsFiniteSet(T)
                 PROVE  /\ Cardinality(Crowd(S, x)) \in Nat /\ Cardinality(Crowd(T, x)) \in Nat
                        /\ Cardinality(Crowd(S, x)) <= Cardinality(Crowd(T, x))
      OBVIOUS
    <3>1. Crowd(S, x) \in SUBSET Crowd(T, x)
      BY DEF Crowd
    <3>2. IsFiniteSet(Crowd(T, x)) /\ IsFiniteSet(S)
      BY CrowdFinite, FS_Subset
    <3>3. QED
      BY <3>1, <3>2, CrowdFinite, FS_Subset
  <2>4. IsFiniteSet(N) /\ IsFiniteSet(K) /\ Limit \in Nat
    BY QueryViewAssumption DEF Versions
  <2>5. ASSUME NEW x \in Top(N) PROVE x \in Top(K)
    <3>1. x \in N /\ x \in K /\ ~(Cardinality(Crowd(N, x)) >= Limit)
      BY <2>1 DEF Top
    <3>2. Crowd(K, x) \subseteq Crowd(N, x)
      <4> SUFFICES ASSUME NEW y \in K, Ahead(y, x), y \notin N PROVE FALSE
        BY DEF Crowd
      <4>1. Cardinality(Crowd(N, y)) >= Limit
        OBVIOUS
      <4>2. Crowd(N, y) \in SUBSET Crowd(N, x)
        BY <2>2, <3>1, AheadIsOrder DEF Crowd
      <4>3. IsFiniteSet(Crowd(N, x))
        BY <2>4, CrowdFinite
      <4>4. Cardinality(Crowd(N, y)) <= Cardinality(Crowd(N, x))
        BY <4>2, <4>3, FS_Subset
      <4>5. QED
        BY <2>3, <2>4, <3>1, <4>1, <4>4
    <3>3. Cardinality(Crowd(K, x)) <= Cardinality(Crowd(N, x))
      BY <2>4, <3>2, CrowdFinite, FS_Subset
    <3>4. QED
      BY <2>1, <2>3, <2>4, <3>1, <3>3 DEF Top
  <2>6. ASSUME NEW x \in Top(K) PROVE x \in Top(N)
    <3>1. x \in K /\ ~(Cardinality(Crowd(K, x)) >= Limit)
      BY <2>1 DEF Top
    <3>2. Top(N) \subseteq K
      BY DEF Top
    <3>3. ASSUME Cardinality(Crowd(N, x)) >= Limit PROVE FALSE
      <4>1. Cardinality(Crowd(Top(N), x)) >= Limit
        BY <1>2, <2>2, <3>1, <3>3, CrowdOfTop
      <4>2. QED
        BY <2>3, <2>4, <3>1, <3>2, <4>1
    <3>4. x \in N
      BY <3>1, <3>3
    <3>5. QED
      BY <2>1, <3>3, <3>4 DEF Top
  <2>7. QED
    BY <2>5, <2>6
<1>3. QED
  BY <1>1, <1>2

(* No more than the limit are left. *)
LEMMA TopSize ==
  ASSUME NEW S, Versions(S), Limited
  PROVE  IsFiniteSet(Top(S)) /\ Cardinality(Top(S)) <= Limit
<1> DEFINE f == [d \in Top(S) |-> Cardinality(Crowd(S, d))]
<1>1. Limit \in Nat /\ Top(S) \subseteq S /\ \A d \in S : d.key \in Nat /\ d.rank \in Nat
  BY QueryViewAssumption DEF Top, Versions
<1>2. ASSUME NEW d \in Top(S) PROVE Cardinality(Crowd(S, d)) \in 0..(Limit - 1)
  <2>1. Cardinality(Crowd(S, d)) \in Nat /\ ~(Cardinality(Crowd(S, d)) >= Limit)
    BY CrowdFinite, ExcessIs DEF Top, Versions, Limited
  <2>2. QED
    BY <1>1, <2>1
<1>3. ASSUME NEW d \in Top(S), NEW e \in Top(S), Ahead(d, e)
      PROVE  Cardinality(Crowd(S, d)) # Cardinality(Crowd(S, e))
  <2>1. Crowd(S, d) \in SUBSET Crowd(S, e)
    BY <1>1, <1>3, AheadIsOrder DEF Crowd
  <2>2. d \in Crowd(S, e) /\ d \notin Crowd(S, d)
    BY <1>1, <1>3, AheadIsOrder DEF Crowd
  <2>3. IsFiniteSet(Crowd(S, e))
    BY CrowdFinite DEF Versions
  <2>4. QED
    BY <2>1, <2>2, <2>3, FS_Subset
<1>4. f \in Injection(Top(S), 0..(Limit - 1))
  <2>1. \A d, e \in Top(S) : f[d] = f[e] => d = e
    <3> SUFFICES ASSUME NEW d \in Top(S), NEW e \in Top(S), f[d] = f[e], d # e PROVE FALSE
      OBVIOUS
    <3>1. d.key # e.key
      BY <1>1 DEF Versions
    <3>2. Ahead(d, e) \/ Ahead(e, d)
      BY <1>1, <3>1, AheadIsOrder
    <3>3. QED
      BY <1>3, <3>2
  <2>2. QED
    BY <1>2, <2>1 DEF Injection, IsInjective
<1>5. IsFiniteSet(0..(Limit - 1)) /\ Cardinality(0..(Limit - 1)) = Limit
  BY <1>1, FS_Interval, QueryViewAssumption
<1> HIDE DEF f
<1>6. QED
  BY <1>4, <1>5, FS_Injection

-----------------------------------------------------------------------------
(* Documents and their rows *)

RowOf(d) == [key |-> d.key, rank |-> d.rank]

LEMMA DocsAreVersions ==
  ASSUME NEW S, Docs(S)
  PROVE  Versions(S) /\ Versions(Shown(S))
<1> DEFINE f == [d \in S |-> d.key]
           g == [d \in S |-> RowOf(d)]
<1>1. \A d \in S : d.key \in Key /\ d.rank \in Rank /\ d.key \in Nat /\ d.rank \in Nat
  BY QueryViewAssumption DEF Docs, Doc
<1>2. f \in Injection(S, Key)
  BY <1>1 DEF Docs, Injection, IsInjective
<1>3. IsFiniteSet(S)
  <2> HIDE DEF f
  <2>1. QED
    BY <1>2, FS_Injection, QueryViewAssumption
<1>4. g \in Surjection(S, Shown(S))
  BY DEF Surjection, Shown, RowOf
<1>5. IsFiniteSet(Shown(S))
  <2> HIDE DEF g
  <2>1. QED
    BY <1>3, <1>4, FS_Surjection
<1>6. /\ \A r \in Shown(S) : r.key \in Nat /\ r.rank \in Nat
      /\ \A q, r \in Shown(S) : q.key = r.key => q = r
  BY <1>1 DEF Shown, Docs
<1>7. QED
  BY <1>1, <1>3, <1>5, <1>6 DEF Versions, Docs

(* A limit leaves the same of the documents and of their rows. *)
LEMMA TopShown ==
  ASSUME limitType \in {"none", "first", "last"}, NEW S, Docs(S)
  PROVE  Shown(Top(S)) = Top(Shown(S))
<1>1. \A d \in S : RowOf(d) \in Shown(S)
  BY DEF Shown, RowOf
<1>2. \A r \in Shown(S) : \E d \in S : r = RowOf(d)
  BY DEF Shown, RowOf
<1>3. \A d, e \in S : RowOf(d) = RowOf(e) => d = e
  BY DEF Docs, RowOf
<1>4. \A d, e : Ahead(RowOf(d), RowOf(e)) <=> Ahead(d, e)
  BY DEF Ahead, Before, RowOf
<1>5. ASSUME NEW d \in S
      PROVE  Cardinality(Crowd(Shown(S), RowOf(d))) = Cardinality(Crowd(S, d))
  <2> DEFINE f == [e \in Crowd(S, d) |-> RowOf(e)]
  <2>1. \A e \in Crowd(S, d) : e \in S /\ RowOf(e) \in Crowd(Shown(S), RowOf(d))
    BY <1>1, <1>4 DEF Crowd
  <2>2. \A r \in Crowd(Shown(S), RowOf(d)) : \E e \in Crowd(S, d) : r = RowOf(e)
    BY <1>2, <1>4 DEF Crowd
  <2>3. f \in Bijection(Crowd(S, d), Crowd(Shown(S), RowOf(d)))
    BY <1>3, <2>1, <2>2 DEF Bijection, Injection, Surjection, IsInjective
  <2>4. IsFiniteSet(Crowd(S, d))
    BY DocsAreVersions, CrowdFinite DEF Versions
  <2> HIDE DEF f
  <2>5. QED
    BY <2>3, <2>4, FS_Bijection DEF ExistsBijection
<1>6. \A d \in S : d \in Excess(S) <=> RowOf(d) \in Excess(Shown(S))
  BY <1>1, <1>5, ExcessIs
<1>7. \A T \in SUBSET S : \A r : r \in Shown(T) <=> \E d \in T : r = RowOf(d)
  BY DEF Shown, RowOf
<1>8. Top(S) \in SUBSET S /\ Shown(S) = {r \in Shown(S) : TRUE}
  BY DEF Top
<1>9. \A r : r \in Shown(Top(S)) <=> r \in Shown(S) /\ r \notin Excess(Shown(S))
  <2> SUFFICES ASSUME NEW r PROVE r \in Shown(Top(S)) <=> r \in Shown(S) /\ r \notin Excess(Shown(S))
    OBVIOUS
  <2>1. r \in Shown(Top(S)) <=> \E d \in Top(S) : r = RowOf(d)
    BY <1>7, <1>8
  <2>2. r \in Shown(S) <=> \E d \in S : r = RowOf(d)
    BY <1>7
  <2>3. QED
    BY <1>6, <2>1, <2>2 DEF Top
<1>10. QED
  BY <1>9 DEF Top

LEMMA SubsetsAreDocs ==
  ASSUME NEW S, Docs(S), NEW T, T \subseteq S
  PROVE  Docs(T)
BY DEF Docs

-----------------------------------------------------------------------------
(* One pass of ComputeDocumentChanges *)

Touched(S) ==
  S \subseteq Doc \cup {Absent(k) : k \in Key} /\ \A d, e \in S : d.key = e.key => d = e

Applied(touched, docs) ==
  {c \in {[type |-> ChangeType(new, docs), doc |-> new] : new \in touched} : c.type # "none"}

Now(touched, docs) ==
  {d \in docs : \A c \in Applied(touched, docs) : c.doc.key # d.key}
    \cup {c.doc : c \in {a \in Applied(touched, docs) : a.type # "removed"}}

LEMMA AtIs ==
  ASSUME NEW S, Docs(S)
  PROVE  /\ \A d \in S : At(S, d.key) = d
         /\ \A k : k \notin KeysOf(S) => At(S, k) = Absent(k)
         /\ \A k : At(S, k) \in S <=> k \in KeysOf(S)
         /\ \A k : At(S, k).key = k
<1>1. ASSUME NEW d \in S PROVE At(S, d.key) = d
  <2>1. d.key \in KeysOf(S)
    BY DEF KeysOf
  <2>2. \A e \in S : e.key = d.key => e = d
    BY DEF Docs
  <2>3. QED
    BY <2>1, <2>2 DEF At
<1>2. \A k : k \notin KeysOf(S) => At(S, k) = Absent(k)
  BY DEF At
<1>3. \A k : Absent(k) \notin S /\ Absent(k).key = k
  BY DEF Absent, Docs, Doc
<1>4. \A k : k \in KeysOf(S) => \E d \in S : d.key = k
  BY DEF KeysOf
<1>5. QED
  BY <1>1, <1>2, <1>3, <1>4

(* What becomes of a document, by what the result holds of it. *)
LEMMA ChangeTypeIs ==
  ASSUME NEW docs, Docs(docs), NEW new \in Doc \cup {Absent(k) : k \in Key}
  PROVE  /\ new.key \notin KeysOf(docs) =>
              ChangeType(new, docs) = IF new.state = "absent" THEN "none" ELSE "added"
         /\ \A old \in docs : old.key = new.key =>
              /\ new.state = "absent" => ChangeType(new, docs) = "removed"
              /\ new.state # "absent" /\ old.rank # new.rank =>
                   ChangeType(new, docs) = IF ShouldWait(new, old) THEN "none" ELSE "modified"
              /\ new.state # "absent" /\ old.rank = new.rank =>
                   ChangeType(new, docs) \in {"none", "metadata"}
              /\ new.state # "absent" /\ old.rank = new.rank =>
                   (ChangeType(new, docs) = "none" <=>
                     ((new.key \in mutated) <=>
                      (new.state = "local" \/ (new.key \in mutated /\ new.state = "committed"))))
<1>1. ASSUME new.key \notin KeysOf(docs)
      PROVE  ChangeType(new, docs) = IF new.state = "absent" THEN "none" ELSE "added"
  <2>1. At(docs, new.key) \notin docs
    BY <1>1, AtIs
  <2>2. QED
    BY <2>1 DEF ChangeType
<1>2. ASSUME NEW old \in docs, old.key = new.key
      PROVE  /\ new.state = "absent" => ChangeType(new, docs) = "removed"
             /\ new.state # "absent" /\ old.rank # new.rank =>
                  ChangeType(new, docs) = IF ShouldWait(new, old) THEN "none" ELSE "modified"
             /\ new.state # "absent" /\ old.rank = new.rank =>
                  ChangeType(new, docs) \in {"none", "metadata"}
             /\ new.state # "absent" /\ old.rank = new.rank =>
                  (ChangeType(new, docs) = "none" <=>
                    ((new.key \in mutated) <=>
                     (new.state = "local" \/ (new.key \in mutated /\ new.state = "committed"))))
  <2>1. At(docs, new.key) = old
    BY <1>2, AtIs
  <2>2. QED
    BY <1>2, <2>1 DEF ChangeType
<1>3. QED
  BY <1>1, <1>2

LEMMA AppliedIs ==
  ASSUME NEW docs, NEW touched
  PROVE  /\ \A c \in Applied(touched, docs) :
              c.doc \in touched /\ c.type = ChangeType(c.doc, docs) /\ c.type # "none"
         /\ \A c \in Applied(touched, docs) : c = [type |-> c.type, doc |-> c.doc]
         /\ \A t \in touched : ChangeType(t, docs) # "none" =>
              [type |-> ChangeType(t, docs), doc |-> t] \in Applied(touched, docs)
BY DEF Applied

(* What a pass makes of the result before the limit. *)
LEMMA NowIs ==
  ASSUME NEW docs, Docs(docs), NEW touched, Touched(touched)
  PROVE  /\ Docs(Now(touched, docs))
         /\ \A d \in docs : d.key \notin KeysOf(touched) => d \in Now(touched, docs)
         /\ \A n \in Now(touched, docs) : n.key \notin KeysOf(touched) => n \in docs
         /\ \A t \in touched : t.state = "absent" => t.key \notin KeysOf(Now(touched, docs))
         /\ \A t \in touched : t.state # "absent" =>
              \E n \in Now(touched, docs) :
                 /\ n.key = t.key
                 /\ \/ n = t /\ ChangeType(t, docs) # "none"
                    \/ n \in docs /\ ChangeType(t, docs) = "none"

<1> DEFINE A == Applied(touched, docs)
           N == Now(touched, docs)
<1>1. \A c \in A : c.doc \in touched /\ c.type = ChangeType(c.doc, docs) /\ c.type # "none"
  BY AppliedIs
<1>2. \A n : n \in N <=> \/ n \in docs /\ \A c \in A : c.doc.key # n.key
                         \/ \E c \in A : c.type # "removed" /\ n = c.doc
  BY DEF Now
<1>3. \A t \in touched : ChangeType(t, docs) # "none" =>
        \E c \in A : c.doc = t /\ c.type = ChangeType(t, docs)
  <2> SUFFICES ASSUME NEW t \in touched, ChangeType(t, docs) # "none"
               PROVE  \E c \in A : c.doc = t /\ c.type = ChangeType(t, docs)
    OBVIOUS
  <2> DEFINE a == [type |-> ChangeType(t, docs), doc |-> t]
  <2>1. a \in A
    BY AppliedIs
  <2>2. a.doc = t /\ a.type = ChangeType(t, docs)
    OBVIOUS
  <2>3. QED
    BY <2>1, <2>2
<1>4. \A t \in touched : t.state = "absent" => ChangeType(t, docs) \in {"none", "removed"}
  <2> SUFFICES ASSUME NEW t \in touched, t.state = "absent"
               PROVE  ChangeType(t, docs) \in {"none", "removed"}
    OBVIOUS
  <2>1. t \in Doc \cup {Absent(k) : k \in Key}
    BY DEF Touched
  <2>2. CASE t.key \in KeysOf(docs)
    <3>1. PICK old \in docs : old.key = t.key
      BY <2>2 DEF KeysOf
    <3>2. QED
      BY <2>1, <3>1, ChangeTypeIs
  <2>3. CASE t.key \notin KeysOf(docs)
    BY <2>1, <2>3, ChangeTypeIs
  <2>4. QED
    BY <2>2, <2>3
<1>5. \A t \in touched : t.state # "absent" => t \in Doc
  BY DEF Touched, Absent
<1>6. \A t \in touched : t.state # "absent" => ChangeType(t, docs) # "removed"
  <2> SUFFICES ASSUME NEW t \in touched, t.state # "absent"
               PROVE  ChangeType(t, docs) # "removed"
    OBVIOUS
  <2>1. t \in Doc \cup {Absent(k) : k \in Key}
    BY DEF Touched
  <2>2. CASE t.key \in KeysOf(docs)
    <3>1. PICK old \in docs : old.key = t.key
      BY <2>2 DEF KeysOf
    <3>2. CASE old.rank = t.rank
      BY <2>1, <3>1, <3>2, ChangeTypeIs
    <3>3. CASE old.rank # t.rank
      BY <2>1, <3>1, <3>3, ChangeTypeIs
    <3>4. QED
      BY <3>2, <3>3
  <2>3. CASE t.key \notin KeysOf(docs)
    BY <2>1, <2>3, ChangeTypeIs
  <2>4. QED
    BY <2>2, <2>3
<1> HIDE DEF A, N
<1>7. \A c \in A : c.type # "removed" => c.doc \in Doc
  BY <1>1, <1>4, <1>5
<1>8. Docs(N)
  <2>1. N \subseteq Doc
    BY <1>2, <1>7 DEF Docs
  <2>2. \A d, e \in N : d.key = e.key => d = e
    BY <1>1, <1>2 DEF Docs, Touched
  <2>3. QED
    BY <2>1, <2>2 DEF Docs
<1>9. \A d \in docs : d.key \notin KeysOf(touched) => d \in N
  BY <1>1, <1>2 DEF KeysOf
<1>10. \A n \in N : n.key \notin KeysOf(touched) => n \in docs
  BY <1>1, <1>2 DEF KeysOf
<1>11. ASSUME NEW t \in touched, t.state = "absent", NEW n \in N, n.key = t.key PROVE FALSE
  <2>1. CASE n \in docs /\ \A c \in A : c.doc.key # n.key
    <3>1. ChangeType(t, docs) = "removed"
      BY <1>11, <2>1, ChangeTypeIs DEF Touched
    <3>2. QED
      BY <1>3, <1>11, <2>1, <3>1
  <2>2. CASE \E c \in A : c.type # "removed" /\ n = c.doc
    BY <1>1, <1>4, <1>11, <2>2 DEF Touched
  <2>3. QED
    BY <1>2, <2>1, <2>2
<1>12. ASSUME NEW t \in touched, t.state # "absent"
       PROVE  \E n \in N : /\ n.key = t.key
                           /\ \/ n = t /\ ChangeType(t, docs) # "none"
                              \/ n \in docs /\ ChangeType(t, docs) = "none"
  <2>1. CASE ChangeType(t, docs) # "none"
    BY <1>2, <1>3, <1>6, <1>12, <2>1
  <2>2. CASE ChangeType(t, docs) = "none"
    <3>1. t.key \in KeysOf(docs)
      BY <1>12, <2>2, ChangeTypeIs DEF Touched
    <3>2. PICK old \in docs : old.key = t.key
      BY <3>1 DEF KeysOf
    <3>3. \A c \in A : c.doc.key # old.key
      BY <1>1, <2>2, <3>2 DEF Touched
    <3>4. old \in N
      BY <1>2, <3>2, <3>3
    <3>5. QED
      BY <2>2, <3>2, <3>4
  <2>3. QED
    BY <2>1, <2>2
<1>13. QED
  BY <1>8, <1>9, <1>10, <1>11, <1>12 DEF N, KeysOf

-----------------------------------------------------------------------------
(* What changes say of two results *)

Change == [type : {"added", "removed", "modified", "metadata"}, doc : Doc]

Describes(changes, old, new) ==
  /\ changes \subseteq Change
  /\ \A c, d \in changes : c.doc.key = d.doc.key => c = d
  /\ \A c \in changes :
       /\ c.type = "added" <=> c.doc.key \notin KeysOf(old)
       /\ c.type = "removed" <=> c.doc.key \notin KeysOf(new)
       /\ c.type # "removed" => c.doc \in new
       /\ c.type = "metadata" => RowOf(c.doc) \in Shown(old)
  /\ \A d \in old : (\A c \in changes : c.doc.key # d.key) => d \in new
  /\ \A d \in new : (\A c \in changes : c.doc.key # d.key) => d \in old

LEMMA NoChanges == ASSUME NEW docs PROVE Describes({}, docs, docs)
BY DEF Describes

(* Two changes of a document that can follow each other have a meaning.      *)
LEMMA MergedIs ==
  ASSUME NEW o \in Change, NEW n \in Change, o.doc.key = n.doc.key,
         o.type = "removed" <=> n.type = "added"
  PROVE  /\ o.type = "metadata" => Merged(o, n) = {n}
         /\ o.type # "metadata" /\ o.type # "removed" /\ n.type # "removed" =>
              Merged(o, n) = {[type |-> o.type, doc |-> n.doc]}
         /\ o.type = "added" /\ n.type = "removed" => Merged(o, n) = {}
         /\ o.type = "modified" /\ n.type = "removed" =>
              Merged(o, n) = {[type |-> "removed", doc |-> o.doc]}
         /\ o.type = "removed" => Merged(o, n) = {[type |-> "modified", doc |-> n.doc]}
<1>1. /\ o = [type |-> o.type, doc |-> o.doc] /\ n = [type |-> n.type, doc |-> n.doc]
      /\ o.type \in {"added", "removed", "modified", "metadata"}
      /\ n.type \in {"added", "removed", "modified", "metadata"}
  BY DEF Change
<1>2. \A t : /\ [n EXCEPT !.type = t] = [type |-> t, doc |-> n.doc]
             /\ [o EXCEPT !.type = t] = [type |-> t, doc |-> o.doc]
  BY <1>1
<1>3. CASE o.type = "metadata"
  <2>1. CASE n.type = "metadata"
    <3>1. [n EXCEPT !.type = o.type] = n
      BY <1>1, <1>2, <1>3, <2>1
    <3>2. QED
      BY <1>3, <2>1, <3>1 DEF Merged
  <2>2. CASE n.type # "metadata"
    BY <1>3, <2>2 DEF Merged
  <2>3. QED
    BY <2>1, <2>2, <1>3
<1>4. CASE o.type = "removed"
  BY <1>2, <1>4 DEF Merged
<1>5. CASE o.type \in {"added", "modified"}
  BY <1>1, <1>2, <1>5 DEF Merged
<1>6. QED
  BY <1>1, <1>3, <1>4, <1>5

LEMMA AddChangesIs ==
  ASSUME NEW ch, NEW nw, NEW c
  PROVE  c \in AddChanges(ch, nw) <=>
           \/ c \in ch /\ \A n \in nw : n.doc.key # c.doc.key
           \/ c \in nw /\ \A o \in ch : o.doc.key # c.doc.key
           \/ \E o \in ch, n \in nw : o.doc.key = n.doc.key /\ c \in Merged(o, n)
<1> DEFINE same == {p \in ch \X nw : p[1].doc.key = p[2].doc.key}
<1>1. \A o \in ch, n \in nw : o.doc.key = n.doc.key =>
        <<o, n>> \in same /\ <<o, n>>[1] = o /\ <<o, n>>[2] = n
  OBVIOUS
<1>2. \A p \in same : p[1] \in ch /\ p[2] \in nw /\ p[1].doc.key = p[2].doc.key
  OBVIOUS
<1>3. AddChanges(ch, nw) = (ch \ {p[1] : p \in same}) \cup (nw \ {p[2] : p \in same})
                             \cup UNION {Merged(p[1], p[2]) : p \in same}
  BY DEF AddChanges
<1> HIDE DEF same
<1>4. c \in {p[1] : p \in same} <=> c \in ch /\ \E n \in nw : c.doc.key = n.doc.key
  <2>1. c \in {p[1] : p \in same} <=> \E p \in same : c = p[1]
    OBVIOUS
  <2>2. ASSUME NEW p \in same, c = p[1] PROVE c \in ch /\ \E n \in nw : c.doc.key = n.doc.key
    BY <1>2, <2>2
  <2>3. ASSUME c \in ch, NEW n \in nw, c.doc.key = n.doc.key PROVE \E p \in same : c = p[1]
    <3>1. <<c, n>> \in same /\ <<c, n>>[1] = c
      BY <1>1, <2>3
    <3>2. QED
      BY <3>1, Zenon
  <2>4. QED
    BY <2>1, <2>2, <2>3
<1>5. c \in {p[2] : p \in same} <=> c \in nw /\ \E o \in ch : c.doc.key = o.doc.key
  <2>1. c \in {p[2] : p \in same} <=> \E p \in same : c = p[2]
    OBVIOUS
  <2>2. ASSUME NEW p \in same, c = p[2] PROVE c \in nw /\ \E o \in ch : c.doc.key = o.doc.key
    BY <1>2, <2>2
  <2>3. ASSUME c \in nw, NEW o \in ch, c.doc.key = o.doc.key PROVE \E p \in same : c = p[2]
    <3>1. <<o, c>> \in same /\ <<o, c>>[2] = c
      BY <1>1, <2>3
    <3>2. QED
      BY <3>1, Zenon
  <2>4. QED
    BY <2>1, <2>2, <2>3
<1>6. c \in UNION {Merged(p[1], p[2]) : p \in same} <=>
        \E o \in ch, n \in nw : o.doc.key = n.doc.key /\ c \in Merged(o, n)
  <2>1. c \in UNION {Merged(p[1], p[2]) : p \in same} <=> \E p \in same : c \in Merged(p[1], p[2])
    OBVIOUS
  <2>2. ASSUME NEW p \in same, c \in Merged(p[1], p[2])
        PROVE  \E o \in ch, n \in nw : o.doc.key = n.doc.key /\ c \in Merged(o, n)
    BY <1>2, <2>2
  <2>3. ASSUME NEW o \in ch, NEW n \in nw, o.doc.key = n.doc.key, c \in Merged(o, n)
        PROVE  \E p \in same : c \in Merged(p[1], p[2])
    <3> DEFINE p == <<o, n>>
    <3>1. p \in same /\ p[1] = o /\ p[2] = n
      BY <1>1, <2>3
    <3> HIDE DEF p
    <3>2. QED
      BY <2>3, <3>1
  <2>4. QED
    BY <2>1, <2>2, <2>3
<1>7. QED
  BY <1>3, <1>4, <1>5, <1>6

(* Changes of changes describe both. *)
LEMMA ChangesCompose ==
  ASSUME NEW A, NEW B, Docs(B), NEW C, NEW ch, Describes(ch, A, B), NEW nw, Describes(nw, B, C),
         Docs(A), Docs(C)
  PROVE  Describes(AddChanges(ch, nw), A, C)
<1> DEFINE R == AddChanges(ch, nw)
<1>1. \A c : c \in R <=>
        \/ c \in ch /\ \A n \in nw : n.doc.key # c.doc.key
        \/ c \in nw /\ \A o \in ch : o.doc.key # c.doc.key
        \/ \E o \in ch, n \in nw : o.doc.key = n.doc.key /\ c \in Merged(o, n)
  BY AddChangesIs
<1>2. ASSUME NEW o \in ch, NEW n \in nw, o.doc.key = n.doc.key
      PROVE  /\ o \in Change /\ n \in Change
             /\ o.type = "removed" <=> n.type = "added"
  BY <1>2 DEF Describes
<1>3. ASSUME NEW o \in ch, NEW n \in nw, o.doc.key = n.doc.key, NEW c \in Merged(o, n)
      PROVE  /\ c \in Change /\ c.doc.key = o.doc.key /\ Merged(o, n) = {c}
             /\ c.type = "added" <=> c.doc.key \notin KeysOf(A)
             /\ c.type = "removed" <=> c.doc.key \notin KeysOf(C)
             /\ c.type # "removed" => c.doc \in C
             /\ c.type = "metadata" => RowOf(c.doc) \in Shown(A)
  <2>1. /\ o \in Change /\ n \in Change /\ (o.type = "removed" <=> n.type = "added")
        /\ o.type = "added" <=> o.doc.key \notin KeysOf(A)
        /\ o.type = "removed" <=> o.doc.key \notin KeysOf(B)
        /\ o.type # "removed" => o.doc \in B
        /\ o.type = "metadata" => RowOf(o.doc) \in Shown(A)
        /\ n.type = "added" <=> n.doc.key \notin KeysOf(B)
        /\ n.type = "removed" <=> n.doc.key \notin KeysOf(C)
        /\ n.type # "removed" => n.doc \in C
        /\ n.type = "metadata" => RowOf(n.doc) \in Shown(B)
    BY <1>2, <1>3 DEF Describes
  <2>2. \A e \in B : e.key = o.doc.key /\ o.type # "removed" => e = o.doc
    BY <2>1 DEF Docs
  <2>3. o.type # "removed" /\ RowOf(n.doc) \in Shown(B) => RowOf(n.doc) = RowOf(o.doc)
    BY <1>3, <2>2 DEF Shown, RowOf
  <2>4. \A t \in {"added", "removed", "modified", "metadata"}, d \in Doc :
          /\ [type |-> t, doc |-> d] \in Change
          /\ [type |-> t, doc |-> d].type = t /\ [type |-> t, doc |-> d].doc = d
    BY DEF Change
  <2>5. /\ o.doc \in Doc /\ n.doc \in Doc
        /\ o.type \in {"added", "removed", "modified", "metadata"}
        /\ n.type \in {"added", "removed", "modified", "metadata"}
    BY <2>1 DEF Change
  <2>6. CASE o.type = "metadata"
    <3>1. Merged(o, n) = {n} /\ c = n
      BY <1>3, <2>1, <2>6, MergedIs
    <3>2. QED
      BY <1>3, <2>1, <2>3, <2>6, <3>1
  <2>7. CASE o.type \in {"added", "modified"} /\ n.type # "removed"
    <3>1. Merged(o, n) = {[type |-> o.type, doc |-> n.doc]} /\ c = [type |-> o.type, doc |-> n.doc]
      BY <1>3, <2>1, <2>7, MergedIs
    <3>2. QED
      BY <1>3, <2>1, <2>4, <2>5, <2>7, <3>1
  <2>8. CASE o.type = "added" /\ n.type = "removed"
    BY <1>3, <2>1, <2>8, MergedIs
  <2>9. CASE o.type = "modified" /\ n.type = "removed"
    <3>1. Merged(o, n) = {[type |-> "removed", doc |-> o.doc]} /\ c = [type |-> "removed", doc |-> o.doc]
      BY <1>3, <2>1, <2>9, MergedIs
    <3>2. QED
      BY <1>3, <2>1, <2>4, <2>5, <2>9, <3>1
  <2>10. CASE o.type = "removed"
    <3>1. Merged(o, n) = {[type |-> "modified", doc |-> n.doc]} /\ c = [type |-> "modified", doc |-> n.doc]
      BY <1>3, <2>1, <2>10, MergedIs
    <3>2. QED
      BY <1>3, <2>1, <2>4, <2>5, <2>10, <3>1
  <2>11. QED
    BY <2>5, <2>6, <2>7, <2>8, <2>9, <2>10
<1>4. ASSUME NEW o \in ch, NEW n \in nw, o.doc.key = n.doc.key
      PROVE  Merged(o, n) = {} => o.doc.key \notin KeysOf(A) /\ o.doc.key \notin KeysOf(C)
  <2>1. o \in Change /\ n \in Change /\ (o.type = "removed" <=> n.type = "added")
    BY <1>2, <1>4
  <2>2. /\ o.type \in {"added", "removed", "modified", "metadata"}
        /\ n.type \in {"added", "removed", "modified", "metadata"}
    BY <2>1 DEF Change
  <2>3. Merged(o, n) = {} => o.type = "added" /\ n.type = "removed"
    <3> HAVE Merged(o, n) = {}
    <3> DEFINE M == Merged(o, n)
               kept == [type |-> o.type, doc |-> n.doc]
               left == [type |-> "removed", doc |-> o.doc]
               back == [type |-> "modified", doc |-> n.doc]
    <3>1. /\ o.type = "metadata" => M = {n}
          /\ o.type # "metadata" /\ o.type # "removed" /\ n.type # "removed" => M = {kept}
          /\ o.type = "modified" /\ n.type = "removed" => M = {left}
          /\ o.type = "removed" => M = {back}
      BY ONLY <1>4, <2>1, MergedIs
    <3>2. M = {}
      OBVIOUS
    <3> HIDE DEF M, kept, left, back
    <3>3. M # {n} /\ M # {kept} /\ M # {left} /\ M # {back}
      BY <3>2
    <3>4. QED
      BY ONLY <2>2, <3>1, <3>3
  <2>4. QED
    BY <1>4, <2>3 DEF Describes
<1> HIDE DEF R
<1>5. ASSUME NEW c \in ch, \A n \in nw : n.doc.key # c.doc.key
      PROVE  /\ c \in Change
             /\ c.type = "added" <=> c.doc.key \notin KeysOf(A)
             /\ c.type = "removed" <=> c.doc.key \notin KeysOf(C)
             /\ c.type # "removed" => c.doc \in C
             /\ c.type = "metadata" => RowOf(c.doc) \in Shown(A)
  <2>1. c.doc.key \in KeysOf(B) <=> c.doc.key \in KeysOf(C)
    BY <1>5 DEF Describes, KeysOf
  <2>2. QED
    BY <1>5, <2>1 DEF Describes
<1>6. ASSUME NEW c \in nw, \A o \in ch : o.doc.key # c.doc.key
      PROVE  /\ c \in Change
             /\ c.type = "added" <=> c.doc.key \notin KeysOf(A)
             /\ c.type = "removed" <=> c.doc.key \notin KeysOf(C)
             /\ c.type # "removed" => c.doc \in C
             /\ c.type = "metadata" => RowOf(c.doc) \in Shown(A)
  <2>1. c.doc.key \in KeysOf(B) <=> c.doc.key \in KeysOf(A)
    BY <1>6 DEF Describes, KeysOf
  <2>2. RowOf(c.doc) \in Shown(B) => RowOf(c.doc) \in Shown(A)
    <3> SUFFICES ASSUME RowOf(c.doc) \in Shown(B) PROVE RowOf(c.doc) \in Shown(A)
      OBVIOUS
    <3>1. PICK d \in B : RowOf(d) = RowOf(c.doc)
      BY DEF Shown, RowOf
    <3>2. d.key = c.doc.key
      BY <3>1 DEF RowOf
    <3>3. d \in A
      BY <1>6, <3>2 DEF Describes
    <3>4. QED
      BY <3>1, <3>3 DEF Shown, RowOf
  <2>3. QED
    BY <1>6, <2>1, <2>2 DEF Describes
<1>7. \A c \in R : /\ c \in Change
                   /\ c.type = "added" <=> c.doc.key \notin KeysOf(A)
                   /\ c.type = "removed" <=> c.doc.key \notin KeysOf(C)
                   /\ c.type # "removed" => c.doc \in C
                   /\ c.type = "metadata" => RowOf(c.doc) \in Shown(A)
  BY <1>1, <1>3, <1>5, <1>6 DEF R
<1>8. /\ \A o, p \in ch : o.doc.key = p.doc.key => o = p
      /\ \A o, p \in nw : o.doc.key = p.doc.key => o = p
  BY DEF Describes
<1>9. \A c \in R : \/ c \in ch /\ \A n \in nw : n.doc.key # c.doc.key
                   \/ c \in nw /\ \A o \in ch : o.doc.key # c.doc.key
                   \/ \E o \in ch, n \in nw : /\ o.doc.key = n.doc.key /\ c.doc.key = o.doc.key
                                              /\ Merged(o, n) = {c}
  BY <1>1, <1>3 DEF R
<1>10. \A c, d \in R : c.doc.key = d.doc.key => c = d
  <2> SUFFICES ASSUME NEW c \in R, NEW d \in R, c.doc.key = d.doc.key PROVE c = d
    OBVIOUS
  <2>1. CASE c \in ch /\ \A n \in nw : n.doc.key # c.doc.key
    BY <1>8, <1>9, <2>1
  <2>2. CASE c \in nw /\ \A o \in ch : o.doc.key # c.doc.key
    BY <1>8, <1>9, <2>2
  <2>3. CASE \E o \in ch, n \in nw : /\ o.doc.key = n.doc.key /\ c.doc.key = o.doc.key
                                     /\ Merged(o, n) = {c}
    <3>1. PICK o \in ch, n \in nw : /\ o.doc.key = n.doc.key /\ c.doc.key = o.doc.key
                                    /\ Merged(o, n) = {c}
      BY <2>3
    <3>2. PICK p \in ch, m \in nw : /\ p.doc.key = m.doc.key /\ d.doc.key = p.doc.key
                                    /\ Merged(p, m) = {d}
      BY <1>9, <3>1
    <3>3. p = o /\ m = n
      <4>1. p.doc.key = o.doc.key /\ m.doc.key = n.doc.key
        BY <3>1, <3>2
      <4>2. p = o
        BY <1>8, <4>1
      <4>3. m = n
        BY <1>8, <4>1
      <4>4. QED
        BY <4>2, <4>3
    <3>4. Merged(o, n) = {d}
      BY <3>2, <3>3
    <3>5. c \in Merged(o, n)
      BY <3>1
    <3>6. c = d
      BY <3>4, <3>5
    <3>7. QED
      BY <3>6
  <2>4. QED
    BY <1>9, <2>1, <2>2, <2>3
<1>11. ASSUME NEW k, \A c \in R : c.doc.key # k
       PROVE  \/ (\A o \in ch : o.doc.key # k) /\ (\A n \in nw : n.doc.key # k)
              \/ k \notin KeysOf(A) /\ k \notin KeysOf(C)
  <2>1. CASE \E o \in ch : o.doc.key = k
    <3>1. PICK o \in ch : o.doc.key = k
      BY <2>1
    <3>2. PICK n \in nw : n.doc.key = k
      BY <1>1, <1>11, <3>1 DEF R
    <3>3. Merged(o, n) = {}
      BY <1>1, <1>3, <1>11, <3>1, <3>2 DEF R
    <3>4. QED
      BY <1>4, <3>1, <3>2, <3>3
  <2>2. CASE \A o \in ch : o.doc.key # k
    BY <1>1, <1>11, <2>2 DEF R
  <2>3. QED
    BY <2>1, <2>2
<1>12. \A d \in A : (\A c \in R : c.doc.key # d.key) => d \in C
  BY <1>11 DEF Describes, KeysOf
<1>13. \A d \in C : (\A c \in R : c.doc.key # d.key) => d \in A
  BY <1>11 DEF Describes, KeysOf
<1>14. QED
  BY <1>7, <1>10, <1>12, <1>13 DEF Describes, R

-----------------------------------------------------------------------------
(* A pass as a whole *)

Main(touched, docs) ==
  {c \in Applied(touched, docs) : c.type # "removed"}
    \cup {[c EXCEPT !.doc = At(docs, c.doc.key)] : c \in {a \in Applied(touched, docs) : a.type = "removed"}}

Cut(docs) == {[type |-> "removed", doc |-> d] : d \in Excess(docs)}

LEMMA ComputeIs ==
  ASSUME NEW touched, NEW docs, NEW mk, NEW ch
  PROVE  LET c == Compute(touched, docs, mk, ch)
             A == Applied(touched, docs)
             N == Now(touched, docs)
         IN /\ c.docs = Top(N)
            /\ c.mutated = ((mk \ {a.doc.key : a \in A})
                             \cup {a.doc.key : a \in {b \in A : b.doc.state = "local"}})
                             \ KeysOf(Excess(N))
            /\ c.changes = AddChanges(AddChanges(ch, Main(touched, docs)), Cut(N))
            /\ c.refill <=> /\ Full(docs)
                            /\ \E a \in A : \/ a.type = "removed"
                                            \/ a.type = "modified" /\ Outside(a.doc, docs)
<1> DEFINE A == Applied(touched, docs)
           N == Now(touched, docs)
           removed == {c \in A : c.type = "removed"}
<1>1. A \ removed = {c \in A : c.type # "removed"}
  OBVIOUS
<1>2. Now(touched, docs) = {d \in docs : \A c \in A : c.doc.key # d.key} \cup {c.doc : c \in A \ removed}
  BY <1>1 DEF Now
<1>3. Main(touched, docs) = (A \ removed) \cup {[c EXCEPT !.doc = At(docs, c.doc.key)] : c \in removed}
  BY <1>1 DEF Main
<1> HIDE DEF removed
<1>4. QED
  BY <1>2, <1>3 DEF Compute, Applied, Top, Cut, removed

(* The changes of a pass, before the limit, and those of the limit.          *)
LEMMA MainDescribes ==
  ASSUME NEW docs, Docs(docs), NEW touched, Touched(touched)
  PROVE  Describes(Main(touched, docs), docs, Now(touched, docs))
<1> DEFINE A == Applied(touched, docs)
           N == Now(touched, docs)
           M == Main(touched, docs)
<1>1. \A c \in A : /\ c.doc \in touched /\ c.type = ChangeType(c.doc, docs) /\ c.type # "none"
                   /\ c = [type |-> c.type, doc |-> c.doc]
  BY AppliedIs
<1>2. /\ Docs(N)
      /\ \A d \in docs : d.key \notin KeysOf(touched) => d \in N
      /\ \A n \in N : n.key \notin KeysOf(touched) => n \in docs
      /\ \A t \in touched : t.state = "absent" => t.key \notin KeysOf(N)
      /\ \A t \in touched : t.state # "absent" =>
           \E n \in N : /\ n.key = t.key
                        /\ \/ n = t /\ ChangeType(t, docs) # "none"
                           \/ n \in docs /\ ChangeType(t, docs) = "none"
  BY NowIs
<1>3. ASSUME NEW t \in touched
      PROVE  /\ t.state = "absent" <=> t \notin Doc
             /\ t.key \notin KeysOf(docs) =>
                  ChangeType(t, docs) = IF t.state = "absent" THEN "none" ELSE "added"
             /\ t.key \in KeysOf(docs) /\ t.state = "absent" => ChangeType(t, docs) = "removed"
             /\ t.key \in KeysOf(docs) /\ t.state # "absent" =>
                  ChangeType(t, docs) \in {"none", "modified", "metadata"}
             /\ ChangeType(t, docs) = "metadata" => RowOf(t) \in Shown(docs)
  <2>1. t \in Doc \cup {Absent(k) : k \in Key}
    BY DEF Touched
  <2>2. t.state = "absent" <=> t \notin Doc
    BY <2>1 DEF Absent, Doc
  <2>3. CASE t.key \notin KeysOf(docs)
    BY <2>1, <2>2, <2>3, ChangeTypeIs
  <2>4. CASE t.key \in KeysOf(docs)
    <3>1. PICK old \in docs : old.key = t.key
      BY <2>4 DEF KeysOf
    <3>2. /\ t.state = "absent" => ChangeType(t, docs) = "removed"
          /\ t.state # "absent" /\ old.rank # t.rank =>
               ChangeType(t, docs) \in {"none", "modified"}
          /\ t.state # "absent" /\ old.rank = t.rank =>
               ChangeType(t, docs) \in {"none", "metadata"}
      BY <2>1, <3>1, ChangeTypeIs
    <3>3. old.rank = t.rank => RowOf(t) \in Shown(docs)
      BY <3>1 DEF RowOf, Shown
    <3>4. QED
      BY <2>2, <2>4, <3>2, <3>3
  <2>5. QED
    BY <2>3, <2>4
<1>4. \A c : c \in M <=>
        \/ c \in A /\ c.type # "removed"
        \/ \E a \in A : a.type = "removed" /\ c = [type |-> "removed", doc |-> At(docs, a.doc.key)]
  <2>1. \A c : c \in M <=>
          \/ c \in A /\ c.type # "removed"
          \/ \E a \in A : a.type = "removed" /\ c = [a EXCEPT !.doc = At(docs, a.doc.key)]
    BY DEF Main
  <2>2. \A a \in A : a.type = "removed" =>
          [a EXCEPT !.doc = At(docs, a.doc.key)] = [type |-> "removed", doc |-> At(docs, a.doc.key)]
    BY <1>1
  <2> HIDE DEF A, M
  <2> SUFFICES ASSUME NEW c
               PROVE  c \in M <=>
                 \/ c \in A /\ c.type # "removed"
                 \/ \E a \in A : a.type = "removed" /\ c = [type |-> "removed", doc |-> At(docs, a.doc.key)]
    OBVIOUS
  <2>3. ASSUME NEW a \in A, a.type = "removed"
        PROVE  c = [a EXCEPT !.doc = At(docs, a.doc.key)]
                 <=> c = [type |-> "removed", doc |-> At(docs, a.doc.key)]
    BY <2>2, <2>3, Zenon
  <2>4. (\E a \in A : a.type = "removed" /\ c = [a EXCEPT !.doc = At(docs, a.doc.key)])
          <=> \E a \in A : a.type = "removed" /\ c = [type |-> "removed", doc |-> At(docs, a.doc.key)]
    BY <2>3, Zenon
  <2>5. QED
    BY <2>1, <2>4, Zenon
<1> HIDE DEF A, N, M
<1>5. ASSUME NEW c \in M
      PROVE  /\ c \in Change
             /\ c.type = "added" <=> c.doc.key \notin KeysOf(docs)
             /\ c.type = "removed" <=> c.doc.key \notin KeysOf(N)
             /\ c.type # "removed" => c.doc \in N
             /\ c.type = "metadata" => RowOf(c.doc) \in Shown(docs)
             /\ \E t \in touched : t.key = c.doc.key
                                   /\ IF c.type = "removed" THEN t.state = "absent" ELSE t = c.doc
  <2>1. CASE c \in A /\ c.type # "removed"
    <3>1. c.doc \in touched /\ c.type = ChangeType(c.doc, docs) /\ c.type # "none"
          /\ c = [type |-> c.type, doc |-> c.doc]
      BY <1>1, <2>1
    <3>2. c.doc.state # "absent" /\ c.doc \in Doc
      BY <1>3, <2>1, <3>1
    <3>3. c.doc \in N
      BY <1>2, <3>1, <3>2
    <3>4. c.doc.key \in KeysOf(N)
      BY <3>3 DEF KeysOf
    <3>5. c.type \in {"added", "modified", "metadata"}
      BY <1>3, <3>1, <3>2
    <3>6. c \in Change
      BY <3>1, <3>2, <3>5 DEF Change
    <3>7. c.type = "added" <=> c.doc.key \notin KeysOf(docs)
      BY <1>3, <3>1, <3>2, <3>5
    <3>8. c.type = "metadata" => RowOf(c.doc) \in Shown(docs)
      BY <1>3, <3>1
    <3>9. QED
      BY <2>1, <3>1, <3>3, <3>4, <3>6, <3>7, <3>8
  <2>2. CASE \E a \in A : a.type = "removed" /\ c = [type |-> "removed", doc |-> At(docs, a.doc.key)]
    <3>1. PICK a \in A : a.type = "removed" /\ c = [type |-> "removed", doc |-> At(docs, a.doc.key)]
      BY <2>2
    <3>2. a.doc \in touched /\ ChangeType(a.doc, docs) = "removed"
      BY <1>1, <3>1
    <3>3. a.doc.key \in KeysOf(docs) /\ a.doc.state = "absent"
      BY <1>3, <3>2
    <3>4. At(docs, a.doc.key) \in docs /\ At(docs, a.doc.key).key = a.doc.key
      BY <3>3, AtIs
    <3>5. a.doc.key \notin KeysOf(N)
      BY <1>2, <3>2, <3>3
    <3>6. c.type = "removed" /\ c.doc = At(docs, a.doc.key)
      BY <3>1
    <3>7. c.doc \in Doc
      BY <3>4, <3>6 DEF Docs
    <3>8. c \in Change
      BY <3>1, <3>6, <3>7 DEF Change
    <3>9. QED
      BY <3>2, <3>3, <3>4, <3>5, <3>6, <3>8
  <2>3. QED
    BY <1>4, <2>1, <2>2
<1>6. \A c, d \in M : c.doc.key = d.doc.key => c = d
  <2> SUFFICES ASSUME NEW c \in M, NEW d \in M, c.doc.key = d.doc.key PROVE c = d
    OBVIOUS
  <2>1. PICK t \in touched : t.key = c.doc.key
                             /\ IF c.type = "removed" THEN t.state = "absent" ELSE t = c.doc
    BY <1>5
  <2>2. PICK u \in touched : u.key = d.doc.key
                             /\ IF d.type = "removed" THEN u.state = "absent" ELSE u = d.doc
    BY <1>5
  <2>3. t = u
    <3>1. t.key = u.key
      BY <2>1, <2>2
    <3>2. QED
      BY <3>1 DEF Touched
  <2>4. c.type = "removed" <=> d.type = "removed"
    BY <1>5
  <2>5. CASE c.type = "removed"
    <3>1. PICK a \in A : a.type = "removed" /\ c = [type |-> "removed", doc |-> At(docs, a.doc.key)]
      BY <1>4, <2>5
    <3>2. PICK b \in A : b.type = "removed" /\ d = [type |-> "removed", doc |-> At(docs, b.doc.key)]
      BY <1>4, <2>4, <2>5
    <3>3. c.doc = At(docs, a.doc.key) /\ d.doc = At(docs, b.doc.key)
      BY <3>1, <3>2
    <3>4. c.doc.key = a.doc.key /\ d.doc.key = b.doc.key
      BY <3>3, AtIs
    <3>5. QED
      BY <3>1, <3>2, <3>4
  <2>6. CASE c.type # "removed"
    <3>1. c \in A /\ d \in A
      BY <1>4, <2>4, <2>6
    <3>2. c.doc = d.doc
      BY <2>1, <2>2, <2>3, <2>4, <2>6
    <3>3. c.type = d.type
      BY <1>1, <3>1, <3>2
    <3>4. QED
      BY <1>1, <3>1, <3>2, <3>3
  <2>7. QED
    BY <2>5, <2>6
<1>7. ASSUME NEW k, \A c \in M : c.doc.key # k, NEW t \in touched, t.key = k
      PROVE  ChangeType(t, docs) = "none"
  <2> SUFFICES ASSUME ChangeType(t, docs) # "none" PROVE FALSE
    OBVIOUS
  <2> DEFINE a == [type |-> ChangeType(t, docs), doc |-> t]
  <2>1. a \in A /\ a.type = ChangeType(t, docs) /\ a.doc = t
    BY AppliedIs DEF A
  <2> HIDE DEF a
  <2>2. CASE a.type # "removed"
    BY <1>4, <1>7, <2>1, <2>2
  <2>3. CASE a.type = "removed"
    <3> DEFINE c == [type |-> "removed", doc |-> At(docs, a.doc.key)]
    <3>1. c \in M
      BY <1>4, <2>1, <2>3
    <3>2. c.doc.key = k
      BY <1>7, <2>1, AtIs
    <3>3. QED
      BY <1>7, <3>1, <3>2
  <2>4. QED
    BY <2>2, <2>3
<1>8. ASSUME NEW d \in docs, \A c \in M : c.doc.key # d.key PROVE d \in N
  <2>1. CASE d.key \notin KeysOf(touched)
    BY <1>2, <2>1
  <2>2. CASE d.key \in KeysOf(touched)
    <3>1. PICK t \in touched : t.key = d.key
      BY <2>2 DEF KeysOf
    <3>2. ChangeType(t, docs) = "none"
      BY <1>7, <1>8, <3>1
    <3>3. d.key \in KeysOf(docs)
      BY DEF KeysOf
    <3>4. t.state # "absent"
      BY <1>3, <3>1, <3>2, <3>3
    <3>5. PICK n \in N : n.key = t.key /\ n \in docs
      BY <1>2, <3>2, <3>4
    <3>6. n = d
      BY <3>1, <3>5 DEF Docs
    <3>7. QED
      BY <3>5, <3>6
  <2>3. QED
    BY <2>1, <2>2
<1>9. ASSUME NEW d \in N, \A c \in M : c.doc.key # d.key PROVE d \in docs
  <2>1. CASE d.key \notin KeysOf(touched)
    BY <1>2, <2>1
  <2>2. CASE d.key \in KeysOf(touched)
    <3>1. PICK t \in touched : t.key = d.key
      BY <2>2 DEF KeysOf
    <3>2. ChangeType(t, docs) = "none"
      BY <1>7, <1>9, <3>1
    <3>3. d.key \in KeysOf(N)
      BY DEF KeysOf
    <3>4. t.state # "absent"
      BY <1>2, <3>1, <3>3
    <3>5. PICK n \in N : n.key = t.key /\ n \in docs
      BY <1>2, <3>2, <3>4
    <3>6. n = d
      BY <1>2, <3>1, <3>5 DEF Docs
    <3>7. QED
      BY <3>5, <3>6
  <2>3. QED
    BY <2>1, <2>2
<1>10. QED
  BY <1>5, <1>6, <1>8, <1>9 DEF Describes, M, N

LEMMA CutDescribes ==
  ASSUME limitType \in {"none", "first", "last"}, NEW docs, Docs(docs)
  PROVE  Describes(Cut(docs), docs, Top(docs))
<1>1. Excess(docs) \subseteq docs
  BY ExcessIs
<1>2. \A c : c \in Cut(docs) <=> \E d \in Excess(docs) : c = [type |-> "removed", doc |-> d]
  BY DEF Cut
<1>3. ASSUME NEW c \in Cut(docs)
      PROVE  c.type = "removed" /\ c.doc \in Excess(docs) /\ c.doc \in docs
             /\ c = [type |-> "removed", doc |-> c.doc]
  BY <1>1, <1>2
<1>4. Cut(docs) \subseteq Change
  BY <1>3 DEF Change, Docs
<1>5. \A c, d \in Cut(docs) : c.doc.key = d.doc.key => c = d
  <2> SUFFICES ASSUME NEW c \in Cut(docs), NEW d \in Cut(docs), c.doc.key = d.doc.key PROVE c = d
    OBVIOUS
  <2>1. c.doc = d.doc
    BY <1>3 DEF Docs
  <2>2. QED
    BY <1>3, <2>1
<1>6. \A c \in Cut(docs) : c.doc.key \in KeysOf(docs) /\ c.doc.key \notin KeysOf(Top(docs))
  BY <1>3 DEF KeysOf, Top, Docs
<1>7. \A d \in docs : d \in Excess(docs) => \E c \in Cut(docs) : c.doc.key = d.key
  <2> SUFFICES ASSUME NEW d \in docs, d \in Excess(docs) PROVE \E c \in Cut(docs) : c.doc.key = d.key
    OBVIOUS
  <2> DEFINE c == [type |-> "removed", doc |-> d]
  <2>1. c \in Cut(docs) /\ c.doc = d
    BY <1>2
  <2>2. QED
    BY <2>1
<1>8. QED
  BY <1>3, <1>4, <1>5, <1>6, <1>7 DEF Describes, Top

(* Changes so far and those of a pass describe the whole. *)
LEMMA PassDescribes ==
  ASSUME limitType \in {"none", "first", "last"},
         NEW base, Docs(base), NEW docs, Docs(docs), NEW touched, Touched(touched), NEW mk,
         NEW ch, Describes(ch, base, docs)
  PROVE  LET c == Compute(touched, docs, mk, ch) IN
         Docs(c.docs) /\ Describes(c.changes, base, c.docs)
<1> DEFINE N == Now(touched, docs)
<1>1. Docs(N) /\ Docs(Top(N))
  BY NowIs, SubsetsAreDocs DEF Top
<1>2. Describes(AddChanges(ch, Main(touched, docs)), base, N)
  BY <1>1, MainDescribes, ChangesCompose
<1>3. Describes(AddChanges(AddChanges(ch, Main(touched, docs)), Cut(N)), base, Top(N))
  BY <1>1, <1>2, CutDescribes, ChangesCompose
<1>4. QED
  BY <1>1, <1>3, ComputeIs

Locals(docs) == {d.key : d \in {e \in docs : e.state = "local"}}

(* The mutated keys of a pass are those of its local documents. *)
LEMMA PassMutated ==
  ASSUME limitType \in {"none", "first", "last"},
         NEW docs, Docs(docs), NEW touched, Touched(touched), NEW ch
  PROVE  LET c == Compute(touched, docs, Locals(docs), ch) IN c.mutated = Locals(c.docs)
<1> DEFINE A == Applied(touched, docs)
           N == Now(touched, docs)
<1>1. \A k : k \in Locals(docs) <=> \E d \in docs : d.state = "local" /\ d.key = k
  BY DEF Locals
<1>2. \A n : n \in N <=> \/ n \in docs /\ \A c \in A : c.doc.key # n.key
                         \/ \E c \in A : c.type # "removed" /\ n = c.doc
  BY DEF Now
<1>3. \A c \in A : c.type = "removed" => c.doc.state # "local"
  <2> SUFFICES ASSUME NEW c \in A, c.type = "removed", c.doc.state = "local" PROVE FALSE
    OBVIOUS
  <2>1. c.doc \in touched /\ ChangeType(c.doc, docs) = "removed"
    BY AppliedIs
  <2>2. c.doc \in Doc \cup {Absent(k) : k \in Key}
    BY <2>1 DEF Touched
  <2>3. CASE c.doc.key \notin KeysOf(docs)
    BY <2>1, <2>2, <2>3, ChangeTypeIs
  <2>4. CASE c.doc.key \in KeysOf(docs)
    <3>1. PICK old \in docs : old.key = c.doc.key
      BY <2>4 DEF KeysOf
    <3>2. CASE old.rank = c.doc.rank
      BY <2>1, <2>2, <3>1, <3>2, ChangeTypeIs
    <3>3. CASE old.rank # c.doc.rank
      BY <2>1, <2>2, <3>1, <3>3, ChangeTypeIs
    <3>4. QED
      BY <3>2, <3>3
  <2>5. QED
    BY <2>3, <2>4
<1>4. Docs(N) /\ Excess(N) \subseteq N
  BY NowIs, ExcessIs
<1> HIDE DEF A, N
<1>5. \A k : k \in Locals(Top(N)) <=> \E n \in N : n.state = "local" /\ n.key = k /\ n \notin Excess(N)
  BY DEF Locals, Top
<1>6. \A k : k \in KeysOf(Excess(N)) <=> \E n \in N : n.key = k /\ n \in Excess(N)
  BY <1>4 DEF KeysOf
<1>7. \A k, n : n \in N /\ n.key = k => (k \in KeysOf(Excess(N)) <=> n \in Excess(N))
  BY <1>4, <1>6 DEF Docs
<1> DEFINE mut == ((Locals(docs) \ {a.doc.key : a \in A})
                             \cup {a.doc.key : a \in {b \in A : b.doc.state = "local"}})
                             \ KeysOf(Excess(N))
<1>8. \A k : k \in mut <=>
        /\ \/ (\E d \in docs : d.state = "local" /\ d.key = k) /\ \A a \in A : a.doc.key # k
           \/ \E a \in A : a.doc.state = "local" /\ a.doc.key = k
        /\ k \notin KeysOf(Excess(N))
  BY <1>1
<1> HIDE DEF mut
<1>9. \A k : k \in mut <=> k \in Locals(Top(N))
  <2> SUFFICES ASSUME NEW k PROVE k \in mut <=> k \in Locals(Top(N))
    OBVIOUS
  <2>1. ASSUME k \in mut PROVE k \in Locals(Top(N))
    <3>1. PICK n \in N : n.state = "local" /\ n.key = k
      BY <1>2, <1>3, <1>8, <2>1
    <3>2. QED
      BY <1>5, <1>7, <1>8, <2>1, <3>1
  <2>2. ASSUME k \in Locals(Top(N)) PROVE k \in mut
    <3>1. PICK n \in N : n.state = "local" /\ n.key = k /\ n \notin Excess(N)
      BY <1>5, <2>2
    <3>2. k \notin KeysOf(Excess(N))
      BY <1>7, <3>1
    <3>3. QED
      BY <1>2, <1>8, <3>1, <3>2
  <2>3. QED
    BY <2>1, <2>2
<1>10. mut = Locals(Top(N))
  BY <1>9
<1>11. QED
  <2>1. /\ Compute(touched, docs, Locals(docs), ch).mutated = mut
        /\ Compute(touched, docs, Locals(docs), ch).docs = Top(N)
    BY ComputeIs DEF mut, A, N
  <2>2. QED
    BY <1>10, <2>1

-----------------------------------------------------------------------------
(* The result and what the view knows of the cache *)

PutIn(C, touched) ==
  {d \in C : d.key \notin KeysOf(touched)} \cup {d \in touched : d.state # "absent"}

KnownOf(C, docs) ==
  Shown({d \in C : d.state # "committed"})
    \cup Shown({d \in docs : At(C, d.key).state = "committed"})

Waits(docs, C) ==
  \A d \in docs, e \in C :
    d.key = e.key /\ d.rank # e.rank => d.state = "local" /\ e.state = "committed"

LEMMA ShownIs ==
  ASSUME NEW S
  PROVE  /\ \A d \in S : RowOf(d) \in Shown(S)
         /\ \A r \in Shown(S) : \E d \in S : r = RowOf(d)
         /\ \A d : RowOf(d).key = d.key /\ RowOf(d).rank = d.rank
         /\ \A d, e : RowOf(d) = RowOf(e) <=> d.key = e.key /\ d.rank = e.rank
         /\ \A d, e : Ahead(RowOf(d), RowOf(e)) <=> Ahead(d, e)
<1>1. \A d \in S : RowOf(d) \in Shown(S)
  BY DEF Shown, RowOf
<1>2. \A r \in Shown(S) : \E d \in S : r = RowOf(d)
  BY DEF Shown, RowOf
<1>3. \A d : RowOf(d).key = d.key /\ RowOf(d).rank = d.rank
  BY DEF RowOf
<1>4. \A d, e : RowOf(d) = RowOf(e) <=> d.key = e.key /\ d.rank = e.rank
  BY DEF RowOf
<1>5. \A d, e : Ahead(RowOf(d), RowOf(e)) <=> Ahead(d, e)
  BY DEF Ahead, Before, RowOf
<1>6. QED
  BY <1>1, <1>2, <1>3, <1>4, <1>5

LEMMA KnownIs ==
  ASSUME NEW C, Docs(C), NEW docs, Docs(docs)
  PROVE  /\ Versions(KnownOf(C, docs))
         /\ \A e \in C : e.state # "committed" => RowOf(e) \in KnownOf(C, docs)
         /\ \A d \in docs, e \in C : d.key = e.key /\ e.state = "committed" =>
              RowOf(d) \in KnownOf(C, docs)
         /\ \A r \in KnownOf(C, docs) :
              \/ \E e \in C : e.state # "committed" /\ r = RowOf(e)
              \/ \E d \in docs, e \in C : d.key = e.key /\ e.state = "committed" /\ r = RowOf(d)
<1> DEFINE P == {d \in C : d.state # "committed"}
           Q == {d \in docs : At(C, d.key).state = "committed"}
<1>1. KnownOf(C, docs) = Shown(P) \cup Shown(Q) /\ Docs(P) /\ Docs(Q)
  BY DEF KnownOf, Docs
<1>2. \A d : At(C, d.key).state = "committed" <=> \E e \in C : d.key = e.key /\ e.state = "committed"
  <2> SUFFICES ASSUME NEW d
               PROVE  At(C, d.key).state = "committed"
                        <=> \E e \in C : d.key = e.key /\ e.state = "committed"
    OBVIOUS
  <2>1. CASE d.key \in KeysOf(C)
    <3>1. PICK e \in C : e.key = d.key
      BY <2>1 DEF KeysOf
    <3>2. At(C, d.key) = e
      BY <3>1, AtIs
    <3>3. \A f \in C : f.key = d.key => f = e
      BY <3>1 DEF Docs
    <3>4. QED
      BY <3>1, <3>2, <3>3
  <2>2. CASE d.key \notin KeysOf(C)
    <3>1. At(C, d.key).state = "absent"
      BY <2>2, AtIs DEF Absent
    <3>2. QED
      BY <2>2, <3>1 DEF KeysOf
  <2>3. QED
    BY <2>1, <2>2
<1>3. /\ \A e : e \in P <=> e \in C /\ e.state # "committed"
      /\ \A d : d \in Q <=> d \in docs /\ \E e \in C : d.key = e.key /\ e.state = "committed"
  BY <1>2
<1> HIDE DEF P, Q
<1>4. \A r \in Shown(P), s \in Shown(Q) : r.key # s.key
  <2> SUFFICES ASSUME NEW r \in Shown(P), NEW s \in Shown(Q), r.key = s.key PROVE FALSE
    OBVIOUS
  <2>1. PICK p \in P : r = RowOf(p)
    BY ShownIs
  <2>2. PICK q \in Q : s = RowOf(q)
    BY ShownIs
  <2>3. p.key = q.key
    BY <2>1, <2>2, ShownIs
  <2>4. QED
    BY <1>3, <2>3 DEF Docs
<1>5. Versions(Shown(P)) /\ Versions(Shown(Q))
  BY <1>1, DocsAreVersions
<1>6. Versions(KnownOf(C, docs))
  <2>1. IsFiniteSet(Shown(P) \cup Shown(Q))
    BY <1>5, FS_Union DEF Versions
  <2>2. QED
    BY <1>1, <1>4, <1>5, <2>1 DEF Versions
<1>7. /\ \A e \in P : RowOf(e) \in Shown(P)
      /\ \A e \in Q : RowOf(e) \in Shown(Q)
      /\ \A r \in Shown(P) : \E e \in P : r = RowOf(e)
      /\ \A r \in Shown(Q) : \E e \in Q : r = RowOf(e)
  BY ShownIs
<1>8. ASSUME NEW r \in KnownOf(C, docs)
      PROVE  \/ \E e \in C : e.state # "committed" /\ r = RowOf(e)
             \/ \E d \in docs, e \in C : d.key = e.key /\ e.state = "committed" /\ r = RowOf(d)
  <2>1. r \in Shown(P) \/ r \in Shown(Q)
    BY <1>1
  <2>2. QED
    BY <1>3, <1>7, <2>1
<1>9. QED
  BY <1>1, <1>3, <1>6, <1>7, <1>8

(* After a pass a document differs from the cached one only if it waits, and *)
(* a touched document that is not committed is in the result.                *)
LEMMA PassWaits ==
  ASSUME NEW docs, Docs(docs), NEW C, Docs(C), NEW touched, Touched(touched),
         Waits(docs, C), KeysOf(docs) \subseteq KeysOf(C)
  PROVE  LET N == Now(touched, docs) E == PutIn(C, touched) IN
         /\ Docs(E) /\ Docs(N) /\ Waits(N, E) /\ KeysOf(N) \subseteq KeysOf(E)
         /\ \A e \in touched : e.state \notin {"absent", "committed"} => RowOf(e) \in Shown(N)
<1> DEFINE N == Now(touched, docs)
           E == PutIn(C, touched)
<1>1. \A e : e \in E <=> \/ e \in C /\ e.key \notin KeysOf(touched)
                         \/ e \in touched /\ e.state # "absent"
  BY DEF PutIn
<1>2. \A t \in touched : t.key \in KeysOf(touched) /\ (t.state # "absent" => t \in Doc)
  BY DEF KeysOf, Touched, Absent
<1>3. Docs(E)
  <2>1. \A d, e \in E : d.key = e.key => d = e
    BY <1>1, <1>2 DEF Docs, Touched
  <2>2. QED
    BY <1>1, <1>2, <2>1 DEF Docs
<1>4. /\ Docs(N)
      /\ \A n \in N : n.key \notin KeysOf(touched) => n \in docs
      /\ \A t \in touched : t.state = "absent" => t.key \notin KeysOf(N)
      /\ \A t \in touched : t.state # "absent" =>
           \E n \in N : /\ n.key = t.key
                        /\ \/ n = t /\ ChangeType(t, docs) # "none"
                           \/ n \in docs /\ ChangeType(t, docs) = "none"
  BY NowIs
<1> HIDE DEF N, E
<1>5. ASSUME NEW t \in touched, t.state # "absent", NEW n \in N, n.key = t.key
      PROVE  n.rank # t.rank => n.state = "local" /\ t.state = "committed"
  <2>1. PICK m \in N : /\ m.key = t.key
                       /\ \/ m = t /\ ChangeType(t, docs) # "none"
                          \/ m \in docs /\ ChangeType(t, docs) = "none"
    BY <1>4, <1>5
  <2>2. m = n
    BY <1>4, <1>5, <2>1 DEF Docs
  <2>3. CASE n \in docs /\ ChangeType(t, docs) = "none"
    <3>1. t \in Doc \cup {Absent(k) : k \in Key}
      BY DEF Touched
    <3>2. n.rank # t.rank =>
            ChangeType(t, docs) = IF ShouldWait(t, n) THEN "none" ELSE "modified"
      BY <1>5, <2>3, <3>1, ChangeTypeIs
    <3>3. QED
      BY <2>3, <3>2 DEF ShouldWait
  <2>4. QED
    BY <2>1, <2>2, <2>3
<1>6. Waits(N, E)
  <2> SUFFICES ASSUME NEW d \in N, NEW e \in E, d.key = e.key, d.rank # e.rank
               PROVE  d.state = "local" /\ e.state = "committed"
    BY DEF Waits
  <2>1. CASE e \in C /\ e.key \notin KeysOf(touched)
    BY <1>4, <2>1 DEF Waits
  <2>2. CASE e \in touched /\ e.state # "absent"
    BY <1>5, <2>2
  <2>3. QED
    BY <1>1, <2>1, <2>2
<1>7. ASSUME NEW n \in N PROVE n.key \in KeysOf(E)
  <2>1. CASE n.key \in KeysOf(touched)
    <3>1. PICK t \in touched : t.key = n.key
      BY <2>1 DEF KeysOf
    <3>2. t.state # "absent"
      BY <1>4, <3>1 DEF KeysOf
    <3>3. t \in E
      BY <1>1, <3>2
    <3>4. QED
      BY <3>1, <3>3 DEF KeysOf
  <2>2. CASE n.key \notin KeysOf(touched)
    <3>1. n.key \in KeysOf(docs)
      BY <1>4, <2>2 DEF KeysOf
    <3>2. PICK e \in C : e.key = n.key
      BY <3>1 DEF KeysOf
    <3>3. e \in E
      BY <1>1, <2>2, <3>2
    <3>4. QED
      BY <3>2, <3>3 DEF KeysOf
  <2>3. QED
    BY <2>1, <2>2
<1>8. KeysOf(N) \subseteq KeysOf(E)
  BY <1>7 DEF KeysOf
<1>9. ASSUME NEW e \in touched, e.state \notin {"absent", "committed"}
      PROVE  RowOf(e) \in Shown(N)
  <2>1. PICK n \in N : n.key = e.key
    BY <1>4, <1>9
  <2>2. n.rank = e.rank
    BY <1>5, <1>9, <2>1
  <2>3. RowOf(n) = RowOf(e) /\ RowOf(n) \in Shown(N)
    BY <2>1, <2>2, ShownIs
  <2>4. QED
    BY <2>3
<1>10. QED
  BY <1>3, <1>4, <1>6, <1>8, <1>9 DEF N, E

(* The limit's documents of a result are those of what the view knows, if    *)
(* what is missing has enough ahead of it.                                   *)
LEMMA TopIsKnown ==
  ASSUME limitType \in {"none", "first", "last"},
         NEW N, Docs(N), NEW C, Docs(C), Waits(N, C), KeysOf(N) \subseteq KeysOf(C),
         \A e \in C : e.state # "committed" /\ RowOf(e) \notin Shown(N) =>
           Limited /\ Cardinality(Crowd(Shown(N), RowOf(e))) >= Limit
  PROVE  Shown(Top(N)) = Top(KnownOf(C, Top(N)))
<1> DEFINE K == KnownOf(C, Top(N))
<1>1. Docs(Top(N)) /\ Top(N) \subseteq N
  BY SubsetsAreDocs DEF Top
<1>2. /\ Versions(K)
      /\ \A e \in C : e.state # "committed" => RowOf(e) \in K
      /\ \A d \in Top(N), e \in C : d.key = e.key /\ e.state = "committed" => RowOf(d) \in K
      /\ \A r \in K : \/ \E e \in C : e.state # "committed" /\ r = RowOf(e)
                      \/ \E d \in Top(N) : r = RowOf(d)
  BY <1>1, KnownIs
<1>3. Versions(Shown(N)) /\ Shown(Top(N)) = Top(Shown(N))
  BY DocsAreVersions, TopShown
<1> HIDE DEF K
<1>4. ASSUME NEW d \in Top(N) PROVE RowOf(d) \in K
  <2>0. d.key \in KeysOf(C)
    BY <1>1 DEF KeysOf
  <2>1. PICK e \in C : e.key = d.key
    BY <2>0 DEF KeysOf
  <2>2. CASE e.state = "committed"
    BY <1>2, <2>1, <2>2
  <2>3. CASE e.state # "committed"
    <3>1. RowOf(e) = RowOf(d)
      BY <1>1, <2>1, <2>3, ShownIs DEF Waits
    <3>2. QED
      BY <1>2, <2>3, <3>1
  <2>4. QED
    BY <2>2, <2>3
<1>5. Shown(N) \ K \subseteq Excess(Shown(N))
  <2> SUFFICES ASSUME NEW r \in Shown(N), r \notin K, r \notin Excess(Shown(N)) PROVE FALSE
    OBVIOUS
  <2>1. r \in Shown(Top(N))
    BY <1>3 DEF Top
  <2>2. PICK d \in Top(N) : r = RowOf(d)
    BY <2>1, ShownIs
  <2>3. QED
    BY <1>4, <2>2
<1>6. \A x \in K \ Shown(N) : Limited /\ Cardinality(Crowd(Shown(N), x)) >= Limit
  <2> SUFFICES ASSUME NEW x \in K, x \notin Shown(N)
               PROVE  Limited /\ Cardinality(Crowd(Shown(N), x)) >= Limit
    OBVIOUS
  <2>1. \A d \in Top(N) : x # RowOf(d)
    BY <1>1, ShownIs
  <2>2. PICK e \in C : e.state # "committed" /\ x = RowOf(e)
    BY <1>2, <2>1
  <2>3. QED
    BY <2>2
<1>7. Top(K) = Top(Shown(N))
  BY <1>2, <1>3, <1>5, <1>6, SameTop
<1>8. QED
  BY <1>3, <1>7 DEF K

(* A document left a full limit.                                             *)
Refills(touched, docs) ==
  /\ Full(docs)
  /\ \E a \in Applied(touched, docs) : \/ a.type = "removed"
                                       \/ a.type = "modified" /\ Outside(a.doc, docs)

LEMMA RefillIs ==
  ASSUME NEW touched, NEW docs, NEW mk, NEW ch
  PROVE  Compute(touched, docs, mk, ch).refill <=> Refills(touched, docs)
BY DEF Compute, Applied, Refills

(* A document that the limit left out still is, unless one before it left or *)
(* moved beyond the others.                                                  *)
LEMMA StillLeftOut ==
  ASSUME limitType \in {"none", "first", "last"},
         NEW docs, Docs(docs), NEW C, Docs(C), NEW touched, Touched(touched),
         Shown(docs) = Top(KnownOf(C, docs)),
         limitType # "none" => Cardinality(docs) <= Limit,
         ~Refills(touched, docs),
         NEW e \in C, e.state # "committed", e.key \notin KeysOf(touched),
         RowOf(e) \notin Shown(Now(touched, docs))
  PROVE  Limited /\ Cardinality(Crowd(Shown(Now(touched, docs)), RowOf(e))) >= Limit
<1> DEFINE N == Now(touched, docs)
           K == KnownOf(C, docs)
           x == RowOf(e)
<1>1. /\ Docs(N)
      /\ \A d \in docs : d.key \notin KeysOf(touched) => d \in N
      /\ \A n \in N : n.key \notin KeysOf(touched) => n \in docs
      /\ \A t \in touched : t.state # "absent" =>
           \E n \in N : /\ n.key = t.key
                        /\ \/ n = t /\ ChangeType(t, docs) # "none"
                           \/ n \in docs /\ ChangeType(t, docs) = "none"
  BY NowIs
<1>2. x \in K /\ Versions(K) /\ x.key = e.key /\ x.key \in Nat /\ x.rank \in Nat
  <2>1. x \in K /\ Versions(K)
    BY KnownIs
  <2>2. QED
    BY <2>1, ShownIs DEF Versions
<1> HIDE DEF N, K
<1>3. x \notin Shown(docs)
  <2> SUFFICES ASSUME x \in Shown(docs) PROVE FALSE
    OBVIOUS
  <2>1. PICK d \in docs : x = RowOf(d)
    BY ShownIs
  <2>2. d.key = e.key
    BY <2>1, ShownIs
  <2>3. d \in N
    BY <1>1, <2>2
  <2>4. QED
    BY <2>1, <2>3, ShownIs DEF N
<1>4. Limited /\ Cardinality(Crowd(K, x)) >= Limit
  <2>1. x \in Excess(K)
    BY <1>2, <1>3 DEF Top, K
  <2>2. QED
    BY <2>1, ExcessIs
<1> HIDE DEF x
<1>5. Cardinality(Crowd(Shown(docs), x)) >= Limit
  <2>1. Cardinality(Crowd(Top(K), x)) >= Limit
    BY <1>2, <1>4, CrowdOfTop
  <2>2. QED
    BY <2>1 DEF K
<1>6. /\ IsFiniteSet(docs) /\ Cardinality(docs) = Limit
      /\ \A d \in docs : Ahead(RowOf(d), x)
  <2> DEFINE f == [d \in docs |-> RowOf(d)]
  <2>1. IsFiniteSet(docs) /\ IsFiniteSet(Shown(docs))
    BY DocsAreVersions DEF Versions
  <2>2. f \in Bijection(docs, Shown(docs))
    BY ShownIs DEF Bijection, Injection, Surjection, IsInjective, Docs
  <2> HIDE DEF f
  <2>3. Cardinality(docs) = Cardinality(Shown(docs)) /\ Cardinality(docs) \in Nat
    BY <2>1, <2>2, FS_Bijection, FS_CardinalityType DEF ExistsBijection
  <2>4. Cardinality(docs) <= Limit /\ Limit \in Nat
    BY <1>4, QueryViewAssumption DEF Limited
  <2>5. Crowd(Shown(docs), x) \in SUBSET Shown(docs)
    BY DEF Crowd
  <2>6. /\ Cardinality(Crowd(Shown(docs), x)) <= Cardinality(Shown(docs))
        /\ Cardinality(Crowd(Shown(docs), x)) \in Nat
    BY <2>1, CrowdFinite
  <2>7. Cardinality(Crowd(Shown(docs), x)) = Cardinality(Shown(docs)) /\ Cardinality(docs) = Limit
    BY <1>5, <2>3, <2>4, <2>6
  <2>8. Crowd(Shown(docs), x) = Shown(docs)
    BY <2>1, <2>5, <2>7, FS_Subset
  <2>9. \A d \in docs : RowOf(d) \in Crowd(Shown(docs), x)
    BY <2>8, ShownIs
  <2>10. QED
    BY <2>1, <2>7, <2>9 DEF Crowd
<1>7. Full(docs)
  BY <1>4, <1>6 DEF Full, Limited
<1>8. \A t \in touched : ChangeType(t, docs) # "none" =>
        \E a \in Applied(touched, docs) : a.doc = t /\ a.type = ChangeType(t, docs)
  <2> SUFFICES ASSUME NEW t \in touched, ChangeType(t, docs) # "none"
               PROVE  \E a \in Applied(touched, docs) : a.doc = t /\ a.type = ChangeType(t, docs)
    OBVIOUS
  <2> DEFINE a == [type |-> ChangeType(t, docs), doc |-> t]
  <2>1. a \in Applied(touched, docs)
    BY AppliedIs
  <2>2. a.doc = t /\ a.type = ChangeType(t, docs)
    OBVIOUS
  <2>3. QED
    BY <2>1, <2>2
<1>9. ASSUME NEW d \in docs PROVE \E n \in N : n.key = d.key /\ Ahead(RowOf(n), x)
  <2>1. CASE d.key \notin KeysOf(touched)
    BY <1>1, <1>6, <2>1
  <2>2. CASE d.key \in KeysOf(touched)
    <3>1. PICK t \in touched : t.key = d.key
      BY <2>2 DEF KeysOf
    <3>2. t \in Doc \cup {Absent(k) : k \in Key}
      BY DEF Touched
    <3>3. /\ t.state = "absent" => ChangeType(t, docs) = "removed"
          /\ t.state # "absent" /\ d.rank = t.rank => ChangeType(t, docs) \in {"none", "metadata"}
          /\ t.state # "absent" /\ d.rank # t.rank => ChangeType(t, docs) \in {"none", "modified"}
      BY <3>1, <3>2, ChangeTypeIs
    <3>4. ChangeType(t, docs) # "removed"
      BY <1>7, <1>8 DEF Refills
    <3>5. PICK n \in N : /\ n.key = t.key
                         /\ \/ n = t /\ ChangeType(t, docs) # "none"
                            \/ n \in docs /\ ChangeType(t, docs) = "none"
      BY <1>1, <3>3, <3>4
    <3>6. CASE n \in docs
      BY <1>6, <3>1, <3>5, <3>6
    <3>7. CASE n = t /\ d.rank = t.rank
      <4>1. RowOf(n) = RowOf(d)
        BY <3>1, <3>7, ShownIs
      <4>2. QED
        BY <1>6, <3>1, <3>7, <4>1
    <3>8. CASE n = t /\ d.rank # t.rank /\ ChangeType(t, docs) # "none"
      <4>1. ChangeType(t, docs) = "modified"
        BY <3>3, <3>4, <3>8
      <4>2. ~Outside(t, docs)
        BY <1>7, <1>8, <4>1 DEF Refills
      <4>3. PICK g \in docs : ~Ahead(g, t)
        BY <1>4, <4>2 DEF Outside, Ahead, Limited
      <4>4. t \in Doc
        BY <3>3, <3>4, <3>8, <3>2 DEF Absent
      <4>5. /\ t.key \in Nat /\ t.rank \in Nat /\ g.key \in Nat /\ g.rank \in Nat
            /\ d.key \in Nat /\ d.rank \in Nat
        BY <4>4, QueryViewAssumption DEF Docs, Doc
      <4>6. g.key # t.key => Ahead(t, g)
        BY <4>3, <4>5, AheadIsOrder
      <4>7. g.key = t.key => g = d
        BY <3>1 DEF Docs
      <4>8. g = d => Ahead(t, g)
        BY <3>8, <4>3, <4>5 DEF Ahead, Before
      <4>9. Ahead(RowOf(t), RowOf(g)) /\ Ahead(RowOf(g), x)
        BY <1>6, <4>6, <4>7, <4>8, ShownIs
      <4>10. /\ RowOf(t).key \in Nat /\ RowOf(t).rank \in Nat
             /\ RowOf(g).key \in Nat /\ RowOf(g).rank \in Nat
        BY <4>5, ShownIs
      <4>11. Ahead(RowOf(t), x)
        BY <1>2, <4>9, <4>10, AheadIsOrder
      <4>12. QED
        BY <3>1, <3>8, <4>11
    <3>9. QED
      BY <3>5, <3>6, <3>7, <3>8
  <2>3. QED
    BY <2>1, <2>2
<1>10. Cardinality(docs) <= Cardinality(Crowd(Shown(N), x))
  <2> DEFINE near(d) == CHOOSE n \in N : n.key = d.key /\ Ahead(RowOf(n), x)
             f == [d \in docs |-> RowOf(near(d))]
             P == Crowd(Shown(N), x)
  <2>1. \A d \in docs : near(d) \in N /\ near(d).key = d.key /\ Ahead(RowOf(near(d)), x)
    BY <1>9
  <2> HIDE DEF near
  <2>2. \A d \in docs : RowOf(near(d)) \in P /\ RowOf(near(d)).key = d.key
    BY <2>1, ShownIs DEF Crowd
  <2>3. IsFiniteSet(P)
    BY <1>1, DocsAreVersions, CrowdFinite DEF Versions
  <2>4. f \in Injection(docs, P)
    <3>1. \A d, g \in docs : f[d] = f[g] => d = g
      BY <2>2 DEF Docs
    <3>2. QED
      BY <2>2, <3>1 DEF Injection, IsInjective
  <2> HIDE DEF f, P
  <2>5. Cardinality(docs) <= Cardinality(P)
    BY <2>3, <2>4, FS_Injection
  <2>6. QED
    BY <2>5 DEF P
<1>11. QED
  <2>1. Limit \in Nat /\ Cardinality(Crowd(Shown(N), x)) \in Nat
    BY <1>1, DocsAreVersions, CrowdFinite, QueryViewAssumption DEF Versions
  <2>2. QED
    BY <1>4, <1>6, <1>10, <2>1 DEF x, N

LEMMA TopKeepsWaiting ==
  ASSUME NEW N, Docs(N), NEW C, Waits(N, C), KeysOf(N) \subseteq KeysOf(C)
  PROVE  /\ Docs(Top(N)) /\ Waits(Top(N), C) /\ KeysOf(Top(N)) \subseteq KeysOf(C)
         /\ Limited => Cardinality(Top(N)) <= Limit
<1>1. Top(N) \subseteq N
  BY DEF Top
<1>2. Docs(Top(N)) /\ Waits(Top(N), C)
  BY <1>1, SubsetsAreDocs DEF Waits
<1>3. KeysOf(Top(N)) \subseteq KeysOf(C)
  BY <1>1 DEF KeysOf
<1>4. Limited => Cardinality(Top(N)) <= Limit
  BY DocsAreVersions, TopSize
<1>5. QED
  BY <1>2, <1>3, <1>4

(* The first pass: unless it needs a refill the result is that of the query. *)
LEMMA FirstPass ==
  ASSUME limitType \in {"none", "first", "last"},
         NEW docs, Docs(docs), NEW C, Docs(C), NEW touched, Touched(touched),
         Waits(docs, C), KeysOf(docs) \subseteq KeysOf(C),
         Shown(docs) = Top(KnownOf(C, docs)),
         limitType # "none" => Cardinality(docs) <= Limit
  PROVE  LET o == Compute(touched, docs, Locals(docs), {}) E == PutIn(C, touched) IN
         /\ Docs(E) /\ Docs(o.docs) /\ Waits(o.docs, E) /\ KeysOf(o.docs) \subseteq KeysOf(E)
         /\ Describes(o.changes, docs, o.docs) /\ o.mutated = Locals(o.docs)
         /\ Limited => Cardinality(o.docs) <= Limit
         /\ ~o.refill => Shown(o.docs) = Top(KnownOf(E, o.docs))
<1> DEFINE o == Compute(touched, docs, Locals(docs), {})
           E == PutIn(C, touched)
           N == Now(touched, docs)
<1>1. /\ o.docs = Top(N)
      /\ o.refill <=> Refills(touched, docs)
  BY ComputeIs, RefillIs
<1>2. /\ Docs(E) /\ Docs(N) /\ Waits(N, E) /\ KeysOf(N) \subseteq KeysOf(E)
      /\ \A e \in touched : e.state \notin {"absent", "committed"} => RowOf(e) \in Shown(N)
  BY PassWaits
<1>3. /\ Describes(o.changes, docs, o.docs)
      /\ o.mutated = Locals(o.docs)
  <2>1. Describes({}, docs, docs)
    BY NoChanges
  <2>2. Describes(o.changes, docs, o.docs)
    BY <2>1, PassDescribes
  <2>3. o.mutated = Locals(o.docs)
    BY PassMutated
  <2>4. QED
    BY <2>2, <2>3
<1>4. ASSUME ~o.refill PROVE Shown(Top(N)) = Top(KnownOf(E, Top(N)))
  <2>1. ASSUME NEW e \in E, e.state # "committed", RowOf(e) \notin Shown(N)
        PROVE  Limited /\ Cardinality(Crowd(Shown(N), RowOf(e))) >= Limit
    <3>1. e \notin touched
      BY <1>2, <2>1 DEF Docs, Doc
    <3>2. e \in C /\ e.key \notin KeysOf(touched)
      BY <2>1, <3>1 DEF PutIn
    <3>3. ~Refills(touched, docs)
      BY <1>1, <1>4
    <3>4. QED
      BY <2>1, <3>2, <3>3, StillLeftOut
  <2> HIDE DEF N, E, o
  <2>2. QED
    BY <1>2, <2>1, TopIsKnown
<1> HIDE DEF o, E, N
<1>5. QED
  BY <1>1, <1>2, <1>3, <1>4, TopKeepsWaiting DEF o, E

(* A refill: the result is that of the query, and it needs no other refill.  *)
LEMMA RefillPass ==
  ASSUME limitType \in {"none", "first", "last"},
         NEW base, Docs(base), NEW docs, Docs(docs), NEW C, Docs(C),
         Waits(docs, C), KeysOf(docs) \subseteq KeysOf(C), NEW ch, Describes(ch, base, docs)
  PROVE  LET o == Compute(C, docs, Locals(docs), ch) IN
         /\ Docs(o.docs) /\ Waits(o.docs, C)
         /\ Describes(o.changes, base, o.docs) /\ o.mutated = Locals(o.docs)
         /\ Limited => Cardinality(o.docs) <= Limit
         /\ Shown(o.docs) = Top(KnownOf(C, o.docs)) /\ ~o.refill
<1> DEFINE o == Compute(C, docs, Locals(docs), ch)
           N == Now(C, docs)
<1>1. /\ o.docs = Top(N)
      /\ o.refill <=> Refills(C, docs)
  BY ComputeIs, RefillIs
<1>2. Touched(C) /\ PutIn(C, C) = C /\ \A e \in C : e.state # "absent" /\ e \in Doc
  BY DEF Touched, Docs, PutIn, KeysOf, Doc
<1>3. /\ Docs(N) /\ Waits(N, C) /\ KeysOf(N) \subseteq KeysOf(C)
      /\ \A e \in C : e.state \notin {"absent", "committed"} => RowOf(e) \in Shown(N)
  BY <1>2, PassWaits
<1>4. Describes(o.changes, base, o.docs) /\ o.mutated = Locals(o.docs)
  BY <1>2, PassDescribes, PassMutated
<1>5. \A a \in Applied(C, docs) : a.type # "removed" /\ a.type # "modified"
  <2> SUFFICES ASSUME NEW a \in Applied(C, docs) PROVE a.type # "removed" /\ a.type # "modified"
    OBVIOUS
  <2>1. a.doc \in C /\ a.type = ChangeType(a.doc, docs)
    BY AppliedIs
  <2>2. a.doc \in Doc \cup {Absent(k) : k \in Key} /\ a.doc.state # "absent"
    BY <1>2, <2>1
  <2>3. CASE a.doc.key \notin KeysOf(docs)
    BY <2>1, <2>2, <2>3, ChangeTypeIs
  <2>4. CASE a.doc.key \in KeysOf(docs)
    <3>1. PICK old \in docs : old.key = a.doc.key
      BY <2>4 DEF KeysOf
    <3>2. CASE old.rank = a.doc.rank
      BY <2>1, <2>2, <3>1, <3>2, ChangeTypeIs
    <3>3. CASE old.rank # a.doc.rank
      <4>1. ShouldWait(a.doc, old)
        BY <2>1, <3>1, <3>3 DEF Waits, ShouldWait
      <4>2. QED
        BY <2>1, <2>2, <3>1, <3>3, <4>1, ChangeTypeIs
    <3>4. QED
      BY <3>2, <3>3
  <2>5. QED
    BY <2>3, <2>4
<1> HIDE DEF o, N
<1>6. Shown(Top(N)) = Top(KnownOf(C, Top(N)))
  BY <1>2, <1>3, TopIsKnown
<1>7. QED
  BY <1>1, <1>3, <1>4, <1>5, <1>6, TopKeepsWaiting DEF o, Refills

-----------------------------------------------------------------------------
(* A step of the view *)

Good ==
  /\ limitType \in {"none", "first", "last"}
  /\ Docs(cache) /\ Docs(documents)
  /\ Waits(documents, cache) /\ KeysOf(documents) \subseteq KeysOf(cache)
  /\ Shown(documents) = Top(KnownOf(cache, documents))
  /\ mutated = Locals(documents)
  /\ limitType # "none" => Cardinality(documents) <= Limit

(* What changes the cache leaves a good view, and the snapshot is given      *)
(* changes that describe what has become of it.                              *)
LEMMA EmitIsGood ==
  ASSUME Good, NEW touched, Touched(touched), NEW synced,
         Put(touched), EmitNewSnapshots(touched, synced)
  PROVE  /\ limitType' = limitType /\ offline' = offline /\ Good'
         /\ \E ch : Describes(ch, documents, documents') /\ Snapshot(ch, synced)
<1> DEFINE once == Compute(touched, documents, mutated, {})
           E == PutIn(cache, touched)
           refilled == Compute(E, once.docs, once.mutated, once.changes)
<1>1. cache' = E
  BY DEF Put, PutIn
<1>2. /\ Docs(E) /\ Docs(once.docs) /\ Waits(once.docs, E) /\ KeysOf(once.docs) \subseteq KeysOf(E)
      /\ Describes(once.changes, documents, once.docs) /\ once.mutated = Locals(once.docs)
      /\ Limited => Cardinality(once.docs) <= Limit
      /\ ~once.refill => Shown(once.docs) = Top(KnownOf(E, once.docs))
  BY FirstPass DEF Good
<1>3. /\ Docs(refilled.docs) /\ Waits(refilled.docs, E)
      /\ Describes(refilled.changes, documents, refilled.docs)
      /\ refilled.mutated = Locals(refilled.docs)
      /\ Limited => Cardinality(refilled.docs) <= Limit
      /\ Shown(refilled.docs) = Top(KnownOf(E, refilled.docs)) /\ ~refilled.refill
  <2> HIDE DEF once, E
  <2>1. QED
    BY <1>2, RefillPass DEF Good
<1> DEFINE final == IF once.refill THEN refilled ELSE once
<1>4. /\ documents' = final.docs /\ mutated' = final.mutated
      /\ limitType' = limitType /\ offline' = offline
      /\ IF once.refill /\ final.refill
           THEN failed' = TRUE /\ UNCHANGED <<raised, list, appended>>
           ELSE Snapshot(final.changes, synced)
  BY <1>1 DEF EmitNewSnapshots
<1> HIDE DEF once, refilled, E
<1>5. PICK p \in {once, refilled} :
        /\ documents' = p.docs /\ mutated' = p.mutated
        /\ Snapshot(p.changes, synced)
        /\ Docs(p.docs) /\ Waits(p.docs, E)
        /\ Describes(p.changes, documents, p.docs)
        /\ p.mutated = Locals(p.docs)
        /\ Limited => Cardinality(p.docs) <= Limit
        /\ Shown(p.docs) = Top(KnownOf(E, p.docs))
  <2>1. CASE once.refill
    BY <1>3, <1>4, <2>1
  <2>2. CASE ~once.refill
    BY <1>2, <1>4, <2>2
  <2>3. QED
    BY <2>1, <2>2
<1>6. KeysOf(documents') \subseteq KeysOf(cache')
  <2>1. \A d \in documents' : \E e \in E : e.key = d.key
    <3> SUFFICES ASSUME NEW d \in documents' PROVE \E e \in E : e.key = d.key
      OBVIOUS
    <3>1. RowOf(d) \in KnownOf(E, p.docs)
      BY <1>5, ShownIs DEF Top
    <3>2. \/ \E e \in E : e.state # "committed" /\ RowOf(d) = RowOf(e)
          \/ \E g \in p.docs, e \in E : g.key = e.key /\ e.state = "committed" /\ RowOf(d) = RowOf(g)
      BY <1>2, <1>5, <3>1, KnownIs
    <3>3. QED
      BY <3>2, ShownIs
  <2>2. QED
    BY <1>1, <2>1 DEF KeysOf
<1>7. limitType' \in {"none", "first", "last"} /\ (limitType' # "none" => Cardinality(documents') <= Limit)
  BY <1>4, <1>5 DEF Good, Limited
<1>8. (Shown(documents) = Top(KnownOf(cache, documents)))'
  <2>1. Top(KnownOf(cache, documents))' = Top(KnownOf(cache', documents'))
    BY <1>4 DEF Top, Excess, KnownOf, Shown, At, KeysOf
  <2>2. QED
    BY <1>1, <1>5, <2>1 DEF Shown
<1>9. Docs(cache') /\ Docs(documents') /\ Waits(documents', cache') /\ mutated' = Locals(documents')
  BY <1>1, <1>2, <1>5
<1>10. Good'
  BY <1>6, <1>7, <1>8, <1>9 DEF Good, Docs, Waits, KeysOf, Locals
<1>11. QED
  BY <1>4, <1>5, <1>10

-----------------------------------------------------------------------------
(* The rows *)

Rows == [key : Key, rank : Rank]

Distinct(rows) == \A i, j \in DOMAIN rows : rows[i].key = rows[j].key => i = j

Ordered(rows) == \A i, j \in DOMAIN rows : i < j => rows[i].rank <= rows[j].rank

LEMMA SeqIs ==
  ASSUME NEW S, NEW s \in Seq(S)
  PROVE  /\ Len(s) \in Nat /\ DOMAIN s = 1..Len(s) /\ s \in [1..Len(s) -> S]
         /\ \A x : x \in Range(s) <=> \E i \in 1..Len(s) : s[i] = x
<1>1. Len(s) \in Nat /\ DOMAIN s = 1..Len(s) /\ s \in [1..Len(s) -> S]
  BY LenProperties
<1>2. \A x : x \in Range(s) <=> \E i \in DOMAIN s : s[i] = x
  BY DEF Range
<1>3. QED
  BY <1>1, <1>2

LEMMA ByTimeIs ==
  ASSUME NEW L \in Seq(Rows)
  PROVE  /\ ByTime(L) \in Seq(Rows) /\ Len(ByTime(L)) = Len(L)
         /\ Range(ByTime(L)) = Range(L) /\ Ordered(ByTime(L))
         /\ Distinct(L) => Distinct(ByTime(L))
<1> DEFINE D == DOMAIN L
           n == Len(L)
           R == {p \in D \X D : LET r == L[p[1]] s == L[p[2]] IN
                                r.rank < s.rank \/ (r.rank = s.rank /\ p[1] < p[2])}
           p == Lined(D, R)
           B == ByTime(L)
<1>1. n \in Nat /\ D = 1..n /\ \A i \in D : L[i] \in Rows /\ L[i].rank \in Nat /\ L[i].key \in Key
  <2>1. n \in Nat /\ D = 1..n /\ \A i \in D : L[i] \in Rows
    BY SeqIs
  <2>2. \A r \in Rows : r.rank \in Nat /\ r.key \in Key
    BY QueryViewAssumption DEF Rows
  <2>3. QED
    BY <2>1, <2>2
<1>2. \A i, j \in D : <<i, j>> \in R <=>
        L[i].rank < L[j].rank \/ (L[i].rank = L[j].rank /\ i < j)
  OBVIOUS
<1>3. B = [k \in D |-> L[p[k]]]
  BY DEF ByTime, Arranged
<1>4. IsFiniteSet(D) /\ Cardinality(D) = n
  BY <1>1, UpTo
<1> HIDE DEF R, D, B, n
<1>5. /\ p \in [1..n -> D]
      /\ \A j, k \in 1..n : p[j] = p[k] => j = k
      /\ \A i \in D : \E k \in 1..n : p[k] = i
      /\ \A j, k \in 1..n : j < k => <<p[j], p[k]>> \in R
  <2>1. \A i \in D : <<i, i>> \notin R
    BY <1>1, <1>2
  <2>2. \A i, j, k \in D : <<i, j>> \in R /\ <<j, k>> \in R => <<i, k>> \in R
    BY <1>1, <1>2, SMTT(30)
  <2>3. ASSUME NEW i \in D, NEW j \in D PROVE i = j \/ <<i, j>> \in R \/ <<j, i>> \in R
    <3>1. L[i].rank \in Nat /\ L[j].rank \in Nat /\ i \in Nat /\ j \in Nat
      BY <1>1
    <3>2. <<i, j>> \in R <=> L[i].rank < L[j].rank \/ (L[i].rank = L[j].rank /\ i < j)
      BY <1>2
    <3>3. <<j, i>> \in R <=> L[j].rank < L[i].rank \/ (L[j].rank = L[i].rank /\ j < i)
      BY <1>2
    <3>4. QED
      BY <3>1, <3>2, <3>3
  <2>4. QED
    BY <1>4, <2>1, <2>2, <2>3, LinedUp
<1> HIDE DEF p
<1>6. B \in [1..n -> Rows] /\ \A k \in 1..n : B[k] = L[p[k]] /\ p[k] \in D
  BY <1>1, <1>3, <1>5
<1>7. B \in Seq(Rows) /\ Len(B) = n /\ DOMAIN B = 1..n
  BY <1>1, <1>6, FunctionIsSeq
<1>8. \A x : x \in Range(B) <=> x \in Range(L)
  <2>1. \A x : x \in Range(B) <=> \E i \in 1..n : B[i] = x
    BY <1>7, SeqIs
  <2>2. \A x : x \in Range(L) <=> \E i \in D : L[i] = x
    BY <1>1, SeqIs DEF n
  <2>3. ASSUME NEW x, x \in Range(B) PROVE x \in Range(L)
    BY <1>6, <2>1, <2>2, <2>3
  <2>4. ASSUME NEW x, x \in Range(L) PROVE x \in Range(B)
    <3>1. PICK i \in D : L[i] = x
      BY <2>2, <2>4
    <3>2. PICK k \in 1..n : p[k] = i
      BY <1>5
    <3>3. B[k] = x
      BY <1>6, <3>1, <3>2
    <3>4. QED
      BY <2>1, <3>3
  <2>5. QED
    BY <2>3, <2>4
<1>9. Ordered(B)
  <2> SUFFICES ASSUME NEW i \in 1..n, NEW j \in 1..n, i < j PROVE B[i].rank <= B[j].rank
    BY <1>7 DEF Ordered
  <2>1. <<p[i], p[j]>> \in R /\ p[i] \in D /\ p[j] \in D
    BY <1>5, <1>6
  <2>2. L[p[i]].rank < L[p[j]].rank \/ L[p[i]].rank = L[p[j]].rank
    BY <1>2, <2>1
  <2>3. L[p[i]].rank \in Nat /\ L[p[j]].rank \in Nat /\ B[i] = L[p[i]] /\ B[j] = L[p[j]]
    BY <1>1, <1>6, <2>1
  <2>4. QED
    BY <2>2, <2>3
<1>10. Distinct(L) => Distinct(B)
  BY <1>5, <1>6, <1>7 DEF Distinct, D
<1>11. QED
  BY <1>7, <1>8, <1>9, <1>10 DEF B, n

LEMMA RemoveAtIs ==
  ASSUME NEW S, NEW s \in Seq(S), NEW i \in 1..Len(s)
  PROVE  LET r == RemoveAt(s, i) IN
         /\ r \in Seq(S) /\ Len(r) = Len(s) - 1
         /\ \A k \in 1..(Len(s) - 1) : r[k] = IF k < i THEN s[k] ELSE s[k + 1]
<1> DEFINE a == SubSeq(s, 1, i - 1)
           b == SubSeq(s, i + 1, Len(s))
<1>1. Len(s) \in Nat /\ i \in Nat /\ i >= 1 /\ i <= Len(s)
  BY SeqIs
<1>2. /\ a \in Seq(S) /\ Len(a) = i - 1
      /\ \A k \in 1..(i - 1) : a[k] = s[k]
  BY <1>1
<1>3. /\ b \in Seq(S) /\ Len(b) = Len(s) - i
      /\ \A k \in 1..(Len(s) - i) : b[k] = s[i + k]
  BY <1>1
<1> HIDE DEF a, b
<1>4. /\ a \o b \in Seq(S) /\ Len(a \o b) = Len(s) - 1
      /\ \A k \in 1..(Len(s) - 1) : (a \o b)[k] = IF k <= i - 1 THEN a[k] ELSE b[k - (i - 1)]
  <2>1. /\ a \o b \in Seq(S) /\ Len(a \o b) = Len(a) + Len(b)
        /\ \A k \in 1..(Len(a) + Len(b)) : (a \o b)[k] = IF k <= Len(a) THEN a[k] ELSE b[k - Len(a)]
    BY <1>2, <1>3, ConcatProperties
  <2>2. Len(a) + Len(b) = Len(s) - 1
    BY <1>1, <1>2, <1>3
  <2>3. QED
    BY <1>2, <2>1, <2>2
<1>5. \A k \in 1..(Len(s) - 1) : (a \o b)[k] = IF k < i THEN s[k] ELSE s[k + 1]
  <2> SUFFICES ASSUME NEW k \in 1..(Len(s) - 1)
               PROVE  (a \o b)[k] = IF k < i THEN s[k] ELSE s[k + 1]
    OBVIOUS
  <2>1. CASE k < i
    BY <1>1, <1>2, <1>4, <2>1
  <2>2. CASE ~(k < i)
    <3>1. k - (i - 1) \in 1..(Len(s) - i) /\ i + (k - (i - 1)) = k + 1 /\ ~(k <= i - 1)
      BY <1>1, <2>2
    <3>2. QED
      BY <1>3, <1>4, <2>2, <3>1
  <2>3. QED
    BY <2>1, <2>2
<1>6. QED
  BY <1>4, <1>5 DEF RemoveAt, a, b

(* What one change makes of the rows, when it fits them.                     *)
LEMMA HandleChangeIs ==
  ASSUME NEW L \in Seq(Rows), Distinct(L), NEW c \in Change, c.type # "metadata",
         c.type = "added" <=> c.doc.key \notin Keys(L)
  PROVE  LET M == HandleChange(L, c) IN
         /\ M \in Seq(Rows) /\ Distinct(M)
         /\ \A x : x \in Range(M) <=> \/ x \in Range(L) /\ x.key # c.doc.key
                                      \/ c.type # "removed" /\ x = RowOf(c.doc)
         /\ c.type = "modified" => Ordered(M)
         /\ c.type = "removed" /\ Ordered(L) => Ordered(M)
         /\ c.type = "added" /\ Ordered(L) /\ (\A r \in Range(L) : r.rank <= c.doc.rank) =>
              Ordered(M)
<1> DEFINE n == Len(L)
           row == RowOf(c.doc)
           M == HandleChange(L, c)
<1>1. /\ c.doc \in Doc /\ c.type \in {"added", "removed", "modified"}
      /\ row \in Rows /\ Row(c) = row /\ row.key = c.doc.key /\ row.rank = c.doc.rank
  BY DEF Change, Rows, Row, RowOf, Doc
<1>2. /\ n \in Nat /\ DOMAIN L = 1..n /\ L \in [1..n -> Rows]
      /\ \A x : x \in Range(L) <=> \E i \in 1..n : L[i] = x
  BY SeqIs
<1>3. \A k : k \in Keys(L) <=> \E i \in 1..n : L[i].key = k
  BY <1>2 DEF Keys
<1>4. \A i, j \in 1..n : L[i].key = L[j].key => i = j
  BY <1>2 DEF Distinct
<1>5. \A i \in 1..n : L[i].rank \in Nat
  BY <1>2, QueryViewAssumption DEF Rows
<1> HIDE DEF n, row
<1>6. CASE c.type = "added"
  <2>1. M = Append(L, row)
    BY <1>1, <1>6 DEF HandleChange
  <2> HIDE DEF M
  <2>2. /\ M \in Seq(Rows) /\ Len(M) = n + 1 /\ M[n + 1] = row
        /\ \A i \in 1..n : M[i] = L[i]
    BY <1>1, <2>1, AppendProperties DEF n
  <2>3. /\ DOMAIN M = 1..(n + 1)
        /\ \A x : x \in Range(M) <=> \E i \in 1..(n + 1) : M[i] = x
    BY <2>2, SeqIs
  <2>4. \A i \in 1..(n + 1) : i \in 1..n \/ i = n + 1
    BY <1>2
  <2>5. \A i \in 1..n : L[i].key # row.key /\ i \in 1..(n + 1)
    BY <1>1, <1>2, <1>3, <1>6
  <2>6. Distinct(M)
    <3> SUFFICES ASSUME NEW i \in 1..(n + 1), NEW j \in 1..(n + 1), M[i].key = M[j].key PROVE i = j
      BY <2>3 DEF Distinct
    <3>1. QED
      BY <1>4, <2>2, <2>4, <2>5
  <2>7. ASSUME NEW x
        PROVE  x \in Range(M) <=> \/ x \in Range(L) /\ x.key # c.doc.key
                                  \/ c.type # "removed" /\ x = row
    <3>1. n + 1 \in 1..(n + 1)
      BY <1>2
    <3>2. ASSUME x \in Range(M) PROVE (x \in Range(L) /\ x.key # c.doc.key) \/ x = row
      BY <1>1, <1>2, <2>2, <2>3, <2>4, <2>5, <3>2
    <3>3. ASSUME x \in Range(L) \/ x = row PROVE x \in Range(M)
      BY <1>2, <2>2, <2>3, <2>5, <3>1, <3>3
    <3>4. QED
      BY <1>6, <3>2, <3>3
  <2>8. ASSUME Ordered(L), \A r \in Range(L) : r.rank <= c.doc.rank PROVE Ordered(M)
    <3> SUFFICES ASSUME NEW i \in 1..(n + 1), NEW j \in 1..(n + 1), i < j
                 PROVE  M[i].rank <= M[j].rank
      BY <2>3 DEF Ordered
    <3>1. i \in 1..n
      BY <1>2
    <3>2. L[i] \in Range(L)
      BY <1>2, <3>1
    <3>3. CASE j = n + 1
      BY <1>1, <2>2, <2>8, <3>1, <3>2, <3>3
    <3>4. CASE j \in 1..n
      BY <1>2, <2>2, <2>8, <3>1, <3>4 DEF Ordered
    <3>5. QED
      BY <2>4, <3>3, <3>4
  <2>9. QED
    BY <1>6, <2>2, <2>6, <2>7, <2>8 DEF M, row
<1>7. CASE c.type = "modified"
  <2> DEFINE H == [i \in DOMAIN L |-> IF L[i].key = c.doc.key THEN row ELSE L[i]]
  <2>1. M = ByTime(H)
    BY <1>1, <1>7 DEF HandleChange
  <2>2. H \in [1..n -> Rows] /\ \A i \in 1..n : H[i] = IF L[i].key = c.doc.key THEN row ELSE L[i]
    BY <1>1, <1>2
  <2> HIDE DEF H, M
  <2>3. H \in Seq(Rows) /\ Len(H) = n /\ DOMAIN H = 1..n
    BY <1>2, <2>2, FunctionIsSeq
  <2>4. Distinct(H)
    <3> SUFFICES ASSUME NEW i \in 1..n, NEW j \in 1..n, H[i].key = H[j].key PROVE i = j
      BY <2>3 DEF Distinct
    <3>1. L[i].key = L[j].key
      BY <1>1, <2>2
    <3>2. QED
      BY <1>4, <3>1
  <2>5. PICK k \in 1..n : L[k].key = c.doc.key
    BY <1>3, <1>7
  <2>6. ASSUME NEW x
        PROVE  x \in Range(H) <=> \/ x \in Range(L) /\ x.key # c.doc.key
                                  \/ c.type # "removed" /\ x = row
    <3>1. x \in Range(H) <=> \E i \in 1..n : H[i] = x
      BY <2>3, SeqIs
    <3>2. ASSUME x \in Range(H) PROVE (x \in Range(L) /\ x.key # c.doc.key) \/ x = row
      BY <1>2, <2>2, <3>1, <3>2
    <3>3. ASSUME x \in Range(L), x.key # c.doc.key PROVE x \in Range(H)
      BY <1>2, <2>2, <3>1, <3>3
    <3>4. H[k] = row
      BY <2>2, <2>5
    <3>5. QED
      BY <1>7, <3>1, <3>2, <3>3, <3>4
  <2>7. /\ M \in Seq(Rows) /\ Range(M) = Range(H) /\ Ordered(M) /\ Distinct(M)
    BY <2>1, <2>3, <2>4, ByTimeIs
  <2>8. QED
    BY <1>7, <2>6, <2>7 DEF M, row
<1>8. CASE c.type = "removed"
  <2> DEFINE first(i) == /\ L[i].key = c.doc.key
                         /\ \A j \in 1..(i - 1) : L[j].key # c.doc.key
             k == CHOOSE i \in DOMAIN L : first(i)
  <2>1. M = RemoveAt(L, k)
    BY <1>3, <1>8 DEF HandleChange
  <2>2. k \in 1..n /\ L[k].key = c.doc.key
    <3>1. PICK i \in 1..n : L[i].key = c.doc.key
      BY <1>3, <1>8
    <3>2. \A j \in 1..(i - 1) : j \in 1..n /\ j # i
      BY <1>2
    <3>3. first(i)
      BY <1>4, <3>1, <3>2
    <3>4. \E h \in DOMAIN L : first(h)
      BY <1>2, <3>3
    <3>5. k \in DOMAIN L /\ first(k)
      BY <3>4
    <3>6. QED
      BY <1>2, <3>5
  <2> HIDE DEF k, M, first
  <2>3. /\ M \in Seq(Rows) /\ Len(M) = n - 1
        /\ \A h \in 1..(n - 1) : M[h] = IF h < k THEN L[h] ELSE L[h + 1]
    BY <2>1, <2>2, RemoveAtIs DEF n
  <2>4. DOMAIN M = 1..(n - 1) /\ \A x : x \in Range(M) <=> \E i \in 1..(n - 1) : M[i] = x
    BY <2>3, SeqIs
  <2> DEFINE old(h) == IF h < k THEN h ELSE h + 1
  <2>5. ASSUME NEW h \in 1..(n - 1) PROVE old(h) \in 1..n /\ old(h) # k /\ M[h] = L[old(h)]
    BY <1>2, <2>2, <2>3
  <2>6. ASSUME NEW g \in 1..(n - 1), NEW h \in 1..(n - 1)
        PROVE  (g < h => old(g) < old(h)) /\ (old(g) = old(h) => g = h)
    BY <1>2, <2>2
  <2>7. ASSUME NEW i \in 1..n, i # k PROVE \E h \in 1..(n - 1) : old(h) = i
    <3>1. CASE i < k
      <4>1. i \in 1..(n - 1) /\ old(i) = i
        BY <1>2, <2>2, <3>1
      <4>2. QED
        BY <4>1
    <3>2. CASE i > k
      <4>1. i - 1 \in 1..(n - 1) /\ old(i - 1) = i
        BY <1>2, <2>2, <3>2
      <4>2. QED
        BY <4>1
    <3>3. QED
      BY <1>2, <2>2, <2>7, <3>1, <3>2
  <2> HIDE DEF old
  <2>8. Distinct(M)
    <3> SUFFICES ASSUME NEW g \in 1..(n - 1), NEW h \in 1..(n - 1), M[g].key = M[h].key PROVE g = h
      BY <2>4 DEF Distinct
    <3>1. QED
      BY <1>4, <2>5, <2>6
  <2>9. ASSUME NEW x
        PROVE  x \in Range(M) <=> \/ x \in Range(L) /\ x.key # c.doc.key
                                  \/ c.type # "removed" /\ x = row
    <3>1. ASSUME x \in Range(M) PROVE x \in Range(L) /\ x.key # c.doc.key
      <4>1. PICK h \in 1..(n - 1) : M[h] = x
        BY <2>4, <3>1
      <4>2. old(h) \in 1..n /\ old(h) # k /\ x = L[old(h)]
        BY <2>5, <4>1
      <4>3. QED
        BY <1>2, <1>4, <2>2, <4>2
    <3>2. ASSUME x \in Range(L), x.key # c.doc.key PROVE x \in Range(M)
      <4>1. PICK i \in 1..n : L[i] = x
        BY <1>2, <3>2
      <4>2. PICK h \in 1..(n - 1) : old(h) = i
        BY <2>2, <2>7, <3>2, <4>1
      <4>3. QED
        BY <2>4, <2>5, <4>1, <4>2
    <3>3. QED
      BY <1>8, <3>1, <3>2
  <2>10. ASSUME Ordered(L) PROVE Ordered(M)
    <3> SUFFICES ASSUME NEW g \in 1..(n - 1), NEW h \in 1..(n - 1), g < h
                 PROVE  M[g].rank <= M[h].rank
      BY <2>4 DEF Ordered
    <3>1. old(g) \in 1..n /\ old(h) \in 1..n /\ old(g) < old(h) /\ M[g] = L[old(g)] /\ M[h] = L[old(h)]
      BY <2>5, <2>6
    <3>2. QED
      BY <1>2, <2>10, <3>1 DEF Ordered
  <2>11. QED
    BY <1>8, <2>3, <2>8, <2>9, <2>10 DEF M, row
<1>9. QED
  BY <1>1, <1>6, <1>7, <1>8

(* The handler's loop: the rows after each change of an event.               *)
LEMMA HandleSteps ==
  ASSUME NEW L, NEW event, Len(event) \in Nat
  PROVE  \E after : /\ after[0] = L /\ Handle(L, event) = after[Len(event)]
                    /\ \A n \in 1..Len(event) : after[n] = HandleChange(after[n - 1], event[n])
<1> DEFINE Loop(f, m) == f = [n \in 0..m |-> IF n = 0 THEN L ELSE HandleChange(f[n - 1], event[n])]
           Bad == {m \in Nat : ~\E f : Loop(f, m)}
<1>1. ASSUME Bad # {} PROVE FALSE
  <2>1. PICK m \in Bad : \A k \in Bad : m <= k
    BY <1>1, Least
  <2>2. CASE m = 0
    <3> DEFINE f == [n \in 0..0 |-> L]
    <3>1. Loop(f, 0)
      OBVIOUS
    <3>2. QED
      BY <3>1, <2>1, <2>2
  <2>3. CASE m # 0
    <3>1. m \in Nat /\ m - 1 \in Nat /\ ~(m <= m - 1)
      <4>1. m \in Nat
        BY <2>1
      <4>2. QED
        BY <2>3, <4>1
    <3>2. PICK f : Loop(f, m - 1)
      <4>1. m - 1 \notin Bad
        BY <2>1, <3>1
      <4>2. QED
        BY <3>1, <4>1
    <3> DEFINE g == [n \in 0..m |-> IF n = m THEN HandleChange(f[m - 1], event[m]) ELSE f[n]]
    <3>3. ASSUME NEW n \in 0..m
          PROVE  g[n] = IF n = 0 THEN L ELSE HandleChange(g[n - 1], event[n])
      <4>1. CASE n = m
        <5>1. n # 0 /\ n - 1 \in 0..m /\ n - 1 # m
          BY <2>3, <3>1, <4>1
        <5>2. QED
          BY <4>1, <5>1
      <4>2. CASE n # m
        <5>1. n \in 0..(m - 1)
          BY <3>1, <4>2
        <5>2. f[n] = IF n = 0 THEN L ELSE HandleChange(f[n - 1], event[n])
          BY <3>2, <5>1
        <5>3. n # 0 => n - 1 \in 0..m /\ n - 1 # m
          BY <3>1, <5>1
        <5>4. QED
          BY <4>2, <5>2, <5>3
      <4>3. QED
        BY <4>1, <4>2
    <3>4. Loop(g, m)
      <4> HIDE DEF g
      <4>1. g = [n \in 0..m |-> g[n]]
        BY DEF g
      <4>2. QED
        BY <3>3, <4>1
    <3>5. QED
      BY <2>1, <3>4
  <2>4. QED
    BY <2>2, <2>3
<1>2. \E f : Loop(f, Len(event))
  BY <1>1
<1> DEFINE after == CHOOSE f : Loop(f, Len(event))
<1>3. Loop(after, Len(event)) /\ Handle(L, event) = after[Len(event)]
  BY <1>2 DEF Handle
<1> HIDE DEF after
<1>4. /\ after[0] = L
      /\ \A n \in 1..Len(event) : after[n] = HandleChange(after[n - 1], event[n])
  BY <1>3
<1>5. QED
  BY <1>3, <1>4

(* An event that the rows L can be told: each change is of another row, and  *)
(* they come in the order of the snapshot.                                   *)
Fits(event, L) ==
  /\ event \in Seq(Change)
  /\ \A i, j \in 1..Len(event) : event[i].doc.key = event[j].doc.key => i = j
  /\ \A i \in 1..Len(event) :
       event[i].type # "metadata" /\ (event[i].type = "added" <=> event[i].doc.key \notin Keys(L))
  /\ \A i, j \in 1..Len(event) : i < j =>
       \/ Position(event[i].type) < Position(event[j].type)
       \/ Position(event[i].type) = Position(event[j].type) /\ Before(event[i].doc, event[j].doc)

LEMMA KeysAre ==
  ASSUME NEW L \in Seq(Rows)
  PROVE  \A k : k \in Keys(L) <=> \E r \in Range(L) : r.key = k
BY SeqIs DEF Keys

(* What a whole event makes of the rows.                                     *)
LEMMA HandleIs ==
  ASSUME NEW L \in Seq(Rows), Distinct(L), NEW event, Fits(event, L)
  PROVE  LET M == Handle(L, event) IN
         /\ M \in Seq(Rows) /\ Distinct(M)
         /\ \A x : x \in Range(M) <=>
              \/ x \in Range(L) /\ \A i \in 1..Len(event) : event[i].doc.key # x.key
              \/ \E i \in 1..Len(event) : event[i].type # "removed" /\ x = RowOf(event[i].doc)
         /\ (\E i \in 1..Len(event) : event[i].type = "modified") => Ordered(M)
         /\ Ordered(L) /\ (L = <<>> \/ \A i \in 1..Len(event) : event[i].type # "added") => Ordered(M)
<1> DEFINE m == Len(event)
           M == Handle(L, event)
           new == L # <<>> /\ \E i \in 1..m : event[i].type = "added"
<1>1. /\ m \in Nat
      /\ \A i, j \in 1..m : event[i].doc.key = event[j].doc.key => i = j
      /\ \A i \in 1..m :
           /\ event[i] \in Change /\ event[i].type # "metadata"
           /\ event[i].type = "added" <=> event[i].doc.key \notin Keys(L)
      /\ \A i, j \in 1..m : i < j =>
           \/ Position(event[i].type) < Position(event[j].type)
           \/ Position(event[i].type) = Position(event[j].type) /\ Before(event[i].doc, event[j].doc)
  BY SeqIs DEF Fits
<1>2. PICK after : /\ after[0] = L /\ M = after[m]
                   /\ \A n \in 1..m : after[n] = HandleChange(after[n - 1], event[n])
  BY <1>1, HandleSteps
<1>3. \A i \in 1..m : event[i].type \in {"added", "removed", "modified"} /\ event[i].doc \in Doc
  BY <1>1 DEF Change
<1> HIDE DEF m, M
<1> DEFINE Rest(n, x) == \/ x \in Range(L) /\ \A i \in 1..n : event[i].doc.key # x.key
                         \/ \E i \in 1..n : event[i].type # "removed" /\ x = RowOf(event[i].doc)
           P(n) == /\ after[n] \in Seq(Rows) /\ Distinct(after[n])
                   /\ \A x : x \in Range(after[n]) <=> Rest(n, x)
                   /\ n # 0 /\ event[n].type = "modified" => Ordered(after[n])
                   /\ Ordered(L) /\ ~new => Ordered(after[n])
<1>4. P(0)
  BY <1>2
<1>5. ASSUME NEW n \in 1..m, P(n - 1) PROVE P(n)
  <2> DEFINE c == event[n]
             B == after[n - 1]
             A == after[n]
  <2>1. n \in Nat /\ \A i : i \in 1..n <=> i \in 1..(n - 1) \/ i = n
    BY <1>1
  <2>2. \A i \in 1..n : i \in 1..m
    BY <1>1
  <2>3. /\ B \in Seq(Rows) /\ Distinct(B) /\ c \in Change /\ c.type # "metadata"
        /\ c.type \in {"added", "removed", "modified"} /\ c.doc \in Doc
        /\ A = HandleChange(B, c)
    BY <1>1, <1>2, <1>3, <1>5
  <2>4. \A i \in 1..(n - 1) : event[i].doc.key # c.doc.key
    BY <1>1, <2>1, <2>2
  <2>5. c.doc.key \in Keys(B) <=> c.doc.key \in Keys(L)
    <3>1. c.doc.key \in Keys(B) <=> \E r \in Range(B) : r.key = c.doc.key
      BY <2>3, KeysAre
    <3>2. c.doc.key \in Keys(L) <=> \E r \in Range(L) : r.key = c.doc.key
      BY KeysAre
    <3>3. \A d : RowOf(d).key = d.key
      BY DEF RowOf
    <3>4. ASSUME NEW r \in Range(B), r.key = c.doc.key PROVE r \in Range(L)
      <4>1. Rest(n - 1, r)
        BY <1>5, <3>4
      <4>2. QED
        BY <2>4, <3>3, <3>4, <4>1
    <3>5. ASSUME NEW r \in Range(L), r.key = c.doc.key PROVE r \in Range(B)
      <4>1. Rest(n - 1, r)
        BY <2>4, <3>5
      <4>2. QED
        BY <1>5, <4>1
    <3>6. QED
      BY <3>1, <3>2, <3>4, <3>5
  <2>6. c.type = "added" <=> c.doc.key \notin Keys(B)
    BY <1>1, <2>5
  <2>7. /\ A \in Seq(Rows) /\ Distinct(A)
        /\ \A x : x \in Range(A) <=> \/ x \in Range(B) /\ x.key # c.doc.key
                                     \/ c.type # "removed" /\ x = RowOf(c.doc)
        /\ c.type = "modified" => Ordered(A)
        /\ c.type = "removed" /\ Ordered(B) => Ordered(A)
        /\ c.type = "added" /\ Ordered(B) /\ (\A r \in Range(B) : r.rank <= c.doc.rank) =>
             Ordered(A)
    <3> HIDE DEF A, B, c
    <3>1. QED
      BY <2>3, <2>6, HandleChangeIs
  <2>8. ASSUME NEW x PROVE x \in Range(A) <=> Rest(n, x)
    <3>1. x \in Range(B) <=> Rest(n - 1, x)
      BY <1>5
    <3>2. ASSUME NEW i \in 1..(n - 1), x = RowOf(event[i].doc) PROVE x.key # c.doc.key
      BY <2>4, <3>2 DEF RowOf
    <3>3. x \in Range(A) <=> \/ x \in Range(B) /\ x.key # c.doc.key
                             \/ c.type # "removed" /\ x = RowOf(c.doc)
      BY <2>7
    <3>4. Rest(n, x) <=> \/ x \in Range(L) /\ x.key # c.doc.key
                            /\ \A i \in 1..(n - 1) : event[i].doc.key # x.key
                         \/ \E i \in 1..(n - 1) : event[i].type # "removed" /\ x = RowOf(event[i].doc)
                         \/ c.type # "removed" /\ x = RowOf(c.doc)
      BY <2>1
    <3> HIDE DEF A, B, c
    <3>5. QED
      BY <3>1, <3>2, <3>3, <3>4
  <2>9. ASSUME Ordered(L), ~new PROVE Ordered(A)
    <3>1. Ordered(B)
      BY <1>5, <2>9
    <3>2. CASE c.type \in {"modified", "removed"}
      BY <2>7, <3>1, <3>2
    <3>3. CASE c.type = "added"
      <4>1. L = <<>>
        BY <2>9, <3>3
      <4>2. Range(L) = {} /\ Keys(L) = {}
        BY <4>1 DEF Range, Keys
      <4>3. ASSUME NEW r \in Range(B) PROVE r.rank <= c.doc.rank
        <5>1. PICK i \in 1..(n - 1) : r = RowOf(event[i].doc)
          BY <1>5, <4>2
        <5>2. i \in 1..m /\ i < n
          BY <1>1, <2>1, <2>2
        <5>3. event[i].type = "added"
          BY <1>1, <4>2, <5>2
        <5>4. Before(event[i].doc, c.doc)
          <6>1. Position(event[i].type) = 1 /\ Position(c.type) = 1
            BY <3>3, <5>3 DEF Position
          <6>2. QED
            BY <1>1, <5>2, <6>1
        <5>5. event[i].doc.rank \in Nat /\ c.doc.rank \in Nat /\ r.rank = event[i].doc.rank
          BY <1>3, <2>3, <5>1, <5>2, QueryViewAssumption DEF Doc, RowOf
        <5>6. QED
          BY <5>4, <5>5 DEF Before
      <4>4. QED
        BY <2>7, <3>1, <3>3, <4>3
    <3>4. QED
      BY <2>3, <3>2, <3>3
  <2> HIDE DEF new, Rest
  <2>10. QED
    BY <2>7, <2>8, <2>9
<1>6. P(m)
  <2> DEFINE Bad == {n \in 0..m : ~P(n)}
  <2> HIDE DEF P
  <2>1. ASSUME Bad # {} PROVE FALSE
    <3>1. Bad \subseteq Nat
      BY <1>1
    <3>2. PICK n \in Bad : \A k \in Bad : n <= k
      BY <2>1, <3>1, Least
    <3>3. n # 0
      BY <1>4, <3>2
    <3>4. n \in 1..m /\ n - 1 \in 0..m /\ ~(n <= n - 1)
      BY <1>1, <3>2, <3>3
    <3>5. P(n - 1)
      BY <3>2, <3>4
    <3>6. QED
      BY <1>5, <3>2, <3>4, <3>5
  <2>2. m \in 0..m
    BY <1>1
  <2>3. QED
    BY <2>1, <2>2
<1>7. ASSUME NEW i \in 1..m, event[i].type = "modified" PROVE m # 0 /\ event[m].type = "modified"
  <2>1. m \in 1..m /\ (i = m \/ i < m)
    BY <1>1
  <2>2. Position(event[i].type) = 2
    BY <1>7 DEF Position
  <2>3. event[m].type # "modified" => Position(event[m].type) \in {0, 1}
    BY <1>3, <2>1 DEF Position
  <2>4. i < m => Position(event[i].type) <= Position(event[m].type)
    <3> HAVE i < m
    <3>1. \/ Position(event[i].type) < Position(event[m].type)
          \/ Position(event[i].type) = Position(event[m].type)
      BY <1>1, <2>1
    <3>2. Position(event[m].type) \in {0, 1, 2}
      BY DEF Position
    <3>3. QED
      BY <2>2, <3>1, <3>2
  <2>5. QED
    BY <1>7, <2>1, <2>2, <2>3, <2>4
<1>8. QED
  BY <1>2, <1>6, <1>7 DEF m, M

-----------------------------------------------------------------------------
(* What the listener is told *)

(* Changes without those of the metadata: what becomes of the rows.          *)
Becoming(changes, old, new) ==
  /\ changes \subseteq Change
  /\ \A c, d \in changes : c.doc.key = d.doc.key => c = d
  /\ \A c \in changes :
       /\ c.type # "metadata"
       /\ c.type = "added" <=> c.doc.key \notin KeysOf(old)
       /\ c.type = "removed" <=> c.doc.key \notin KeysOf(new)
       /\ c.type # "removed" => c.doc \in new
  /\ \A r \in Shown(old) : (\A c \in changes : c.doc.key # r.key) => r \in Shown(new)
  /\ \A r \in Shown(new) : (\A c \in changes : c.doc.key # r.key) => r \in Shown(old)

LEMMA VisibleIs ==
  ASSUME NEW old, Docs(old), NEW new, Docs(new), NEW changes, Describes(changes, old, new)
  PROVE  Becoming({c \in changes : c.type # "metadata"}, old, new)
<1> DEFINE V == {c \in changes : c.type # "metadata"}
<1>1. /\ V \subseteq Change
      /\ \A c, d \in V : c.doc.key = d.doc.key => c = d
      /\ \A c \in V :
           /\ c.type # "metadata"
           /\ c.type = "added" <=> c.doc.key \notin KeysOf(old)
           /\ c.type = "removed" <=> c.doc.key \notin KeysOf(new)
           /\ c.type # "removed" => c.doc \in new
  BY DEF Describes
<1>2. ASSUME NEW c \in changes, c.type = "metadata"
      PROVE  /\ \A d \in old : d.key = c.doc.key => RowOf(d) = RowOf(c.doc)
             /\ \A d \in new : d.key = c.doc.key => RowOf(d) = RowOf(c.doc)
             /\ RowOf(c.doc) \in Shown(old) /\ RowOf(c.doc) \in Shown(new)
  <2>1. RowOf(c.doc) \in Shown(old) /\ c.doc \in new
    BY <1>2 DEF Describes
  <2>2. PICK g \in old : RowOf(g) = RowOf(c.doc)
    BY <2>1, ShownIs
  <2>3. g.key = c.doc.key
    BY <2>2, ShownIs
  <2>4. \A d \in old : d.key = c.doc.key => d = g
    BY <2>3 DEF Docs
  <2>5. \A d \in new : d.key = c.doc.key => d = c.doc
    BY <2>1 DEF Docs
  <2>6. QED
    BY <2>1, <2>2, <2>4, <2>5, ShownIs
<1>3. ASSUME NEW r \in Shown(old), \A c \in V : c.doc.key # r.key PROVE r \in Shown(new)
  <2>1. PICK d \in old : r = RowOf(d)
    BY ShownIs
  <2>2. d.key = r.key
    BY <2>1, ShownIs
  <2>3. CASE \E c \in changes : c.doc.key = r.key
    <3>1. PICK c \in changes : c.doc.key = r.key
      BY <2>3
    <3>2. c.type = "metadata"
      BY <1>3, <3>1
    <3>3. QED
      BY <1>2, <2>1, <2>2, <3>1, <3>2
  <2>4. CASE \A c \in changes : c.doc.key # r.key
    <3>1. d \in new
      BY <2>2, <2>4 DEF Describes
    <3>2. QED
      BY <2>1, <3>1, ShownIs
  <2>5. QED
    BY <2>3, <2>4
<1>4. ASSUME NEW r \in Shown(new), \A c \in V : c.doc.key # r.key PROVE r \in Shown(old)
  <2>1. PICK d \in new : r = RowOf(d)
    BY ShownIs
  <2>2. d.key = r.key
    BY <2>1, ShownIs
  <2>3. CASE \E c \in changes : c.doc.key = r.key
    <3>1. PICK c \in changes : c.doc.key = r.key
      BY <2>3
    <3>2. c.type = "metadata"
      BY <1>4, <3>1
    <3>3. QED
      BY <1>2, <2>1, <2>2, <3>1, <3>2
  <2>4. CASE \A c \in changes : c.doc.key # r.key
    <3>1. d \in old
      BY <2>2, <2>4 DEF Describes
    <3>2. QED
      BY <2>1, <3>1, ShownIs
  <2>5. QED
    BY <2>3, <2>4
<1>5. QED
  BY <1>1, <1>3, <1>4 DEF Becoming

LEMMA InitiallyIs ==
  ASSUME NEW docs, Docs(docs)
  PROVE  Becoming(Initially(docs), {}, docs)
<1>1. \A c : c \in Initially(docs) <=> \E d \in docs : c = [type |-> "added", doc |-> d]
  BY DEF Initially
<1>2. ASSUME NEW c \in Initially(docs)
      PROVE  c \in Change /\ c.type = "added" /\ c.doc \in docs /\ c = [type |-> "added", doc |-> c.doc]
  <2>1. PICK d \in docs : c = [type |-> "added", doc |-> d]
    BY <1>1
  <2>2. QED
    BY <2>1 DEF Change, Docs
<1>3. \A c, d \in Initially(docs) : c.doc.key = d.doc.key => c = d
  <2> SUFFICES ASSUME NEW c \in Initially(docs), NEW d \in Initially(docs), c.doc.key = d.doc.key
               PROVE  c = d
    OBVIOUS
  <2>1. c.doc = d.doc
    BY <1>2 DEF Docs
  <2>2. QED
    BY <1>2, <2>1
<1>4. Shown({}) = {} /\ KeysOf({}) = {}
  BY DEF Shown, KeysOf
<1>5. \A c \in Initially(docs) : c.doc.key \in KeysOf(docs)
  BY <1>2 DEF KeysOf
<1>6. \A r \in Shown(docs) : \E c \in Initially(docs) : c.doc.key = r.key
  <2> SUFFICES ASSUME NEW r \in Shown(docs) PROVE \E c \in Initially(docs) : c.doc.key = r.key
    OBVIOUS
  <2>1. PICK d \in docs : r = RowOf(d)
    BY ShownIs
  <2> DEFINE c == [type |-> "added", doc |-> d]
  <2>2. c \in Initially(docs) /\ c.doc.key = r.key
    BY <1>1, <2>1, ShownIs
  <2>3. QED
    BY <2>2
<1>7. QED
  BY <1>2, <1>3, <1>4, <1>5, <1>6 DEF Becoming

(* The changes in the order in which they are told are an event that fits    *)
(* the rows of the old result, and every change of it has its index.         *)
LEMMA ToldFits ==
  ASSUME NEW old, Docs(old), NEW new, Docs(new), NEW changes, Becoming(changes, old, new),
         NEW L \in Seq(Rows), Range(L) = Shown(old)
  PROVE  LET event == Told(changes) IN
         /\ Fits(event, L) /\ Indexable(event, KeysOf(old))
         /\ DOMAIN event = 1..Len(event)
         /\ \A c : c \in changes <=> \E i \in 1..Len(event) : event[i] = c
<1> DEFINE R == {p \in changes \X changes :
                   \/ Position(p[1].type) < Position(p[2].type)
                   \/ Position(p[1].type) = Position(p[2].type) /\ Before(p[1].doc, p[2].doc)}
           n == Cardinality(changes)
           event == Told(changes)
<1>1. \A c, d \in changes : <<c, d>> \in R <=>
        \/ Position(c.type) < Position(d.type)
        \/ Position(c.type) = Position(d.type) /\ Before(c.doc, d.doc)
  OBVIOUS
<1>2. event = Lined(changes, R)
  BY DEF Told
<1> HIDE DEF R
<1>3. /\ changes \subseteq Change
      /\ \A c, d \in changes : c.doc.key = d.doc.key => c = d
      /\ \A c \in changes :
           /\ c.type # "metadata"
           /\ c.type = "added" <=> c.doc.key \notin KeysOf(old)
  BY DEF Becoming
<1>4. \A c \in changes : /\ c.doc \in Doc /\ c.doc.key \in Key /\ c.doc.key \in Nat /\ c.doc.rank \in Nat
                         /\ c.type \in {"added", "removed", "modified"} /\ Position(c.type) \in 0..2
  BY <1>3, QueryViewAssumption DEF Change, Doc, Position
<1>5. IsFiniteSet(changes)
  <2> DEFINE f == [c \in changes |-> c.doc.key]
  <2>1. f \in Injection(changes, Key)
    BY <1>3, <1>4 DEF Injection, IsInjective
  <2> HIDE DEF f
  <2>2. QED
    BY <2>1, FS_Injection, QueryViewAssumption
<1>6. /\ n \in Nat /\ event \in [1..n -> changes]
      /\ \A j, k \in 1..n : event[j] = event[k] => j = k
      /\ \A c \in changes : \E k \in 1..n : event[k] = c
      /\ \A j, k \in 1..n : j < k => <<event[j], event[k]>> \in R
  <2>1. \A c \in changes : <<c, c>> \notin R
    BY <1>1, <1>4 DEF Before
  <2>2. \A c, d, e \in changes : <<c, d>> \in R /\ <<d, e>> \in R => <<c, e>> \in R
    BY <1>1, <1>4, SMTT(30) DEF Before
  <2>3. ASSUME NEW c \in changes, NEW d \in changes
        PROVE  c = d \/ <<c, d>> \in R \/ <<d, c>> \in R
    <3>1. Position(c.type) \in 0..2 /\ Position(d.type) \in 0..2
      BY <1>4
    <3>2. Before(c.doc, d.doc) \/ Before(d.doc, c.doc) \/ c.doc.key = d.doc.key
      BY <1>4 DEF Before
    <3>3. c.doc.key = d.doc.key => c = d
      BY <1>3
    <3>4. QED
      BY <1>1, <3>1, <3>2, <3>3
  <2>4. QED
    BY <1>2, <1>5, <2>1, <2>2, <2>3, LinedUp
<1> HIDE DEF n, event
<1>7. event \in Seq(changes) /\ event \in Seq(Change) /\ Len(event) = n /\ DOMAIN event = 1..n
  <2>1. event \in [1..n -> Change]
    BY <1>3, <1>6
  <2>2. QED
    BY <1>6, <2>1, FunctionIsSeq
<1>8. \A i \in 1..n : event[i] \in changes
  BY <1>6
<1>9. \A k : k \in Keys(L) <=> k \in KeysOf(old)
  <2>1. \A k : k \in Keys(L) <=> \E r \in Shown(old) : r.key = k
    BY KeysAre
  <2>2. \A k : k \in KeysOf(old) <=> \E r \in Shown(old) : r.key = k
    <3>1. \A k : k \in KeysOf(old) <=> \E d \in old : d.key = k
      BY DEF KeysOf
    <3>2. QED
      BY <3>1, ShownIs
  <2>3. QED
    BY <2>1, <2>2
<1>10. \A i, j \in 1..n : event[i].doc.key = event[j].doc.key => i = j
  BY <1>3, <1>6, <1>8
<1>11. \A i, j \in 1..n : i < j =>
         \/ Position(event[i].type) < Position(event[j].type)
         \/ Position(event[i].type) = Position(event[j].type) /\ Before(event[i].doc, event[j].doc)
  BY <1>1, <1>6, <1>8
<1>12. Fits(event, L)
  BY <1>3, <1>7, <1>8, <1>9, <1>10, <1>11 DEF Fits
<1>13. Indexable(event, KeysOf(old))
  <2> SUFFICES ASSUME NEW i \in 1..n
               PROVE  /\ event[i].type # "unsupported"
                      /\ event[i].type # "added" =>
                           /\ KeysOf(old) # {}
                           /\ event[i].doc.key \in
                                (KeysOf(old) \cup {event[j].doc.key : j \in 1..(i - 1)})
                                  \ {event[j].doc.key : j \in {h \in 1..(i - 1) : event[h].type = "removed"}}
    BY <1>7 DEF Indexable
  <2>1. event[i].type \in {"added", "removed", "modified"}
    BY <1>4, <1>8
  <2>2. event[i].type # "added" => event[i].doc.key \in KeysOf(old)
    BY <1>3, <1>8
  <2>3. \A j \in 1..(i - 1) : event[j].doc.key # event[i].doc.key
    <3>1. \A j \in 1..(i - 1) : j \in 1..n /\ j # i
      BY <1>6
    <3>2. QED
      BY <1>10, <3>1
  <2>4. QED
    BY <2>1, <2>2, <2>3
<1>14. QED
  BY <1>6, <1>7, <1>8, <1>12, <1>13 DEF event

(* The rows are those of the result, and sorted unless one was added.        *)
Listed(rows, more, docs) ==
  /\ rows \in Seq(Rows) /\ Distinct(rows) /\ Range(rows) = Shown(docs)
  /\ more \in BOOLEAN /\ (~more => Ordered(rows))

(* The rows become those of the new result.                                  *)
LEMMA HandleTold ==
  ASSUME NEW old, Docs(old), NEW new, Docs(new), NEW changes, Becoming(changes, old, new),
         NEW L \in Seq(Rows), Distinct(L), Range(L) = Shown(old)
  PROVE  LET event == Told(changes) M == Handle(L, event) IN
         /\ M \in Seq(Rows) /\ Distinct(M) /\ Range(M) = Shown(new)
         /\ (\E i \in DOMAIN event : event[i].type = "modified") => Ordered(M)
         /\ Ordered(L) /\ (L = <<>> \/ \A i \in DOMAIN event : event[i].type # "added") => Ordered(M)
<1> DEFINE event == Told(changes)
           M == Handle(L, event)
<1>1. /\ Fits(event, L) /\ DOMAIN event = 1..Len(event)
      /\ \A c : c \in changes <=> \E i \in 1..Len(event) : event[i] = c
  BY ToldFits
<1> HIDE DEF event
<1>2. /\ M \in Seq(Rows) /\ Distinct(M)
      /\ \A x : x \in Range(M) <=>
           \/ x \in Range(L) /\ \A i \in 1..Len(event) : event[i].doc.key # x.key
           \/ \E i \in 1..Len(event) : event[i].type # "removed" /\ x = RowOf(event[i].doc)
      /\ (\E i \in 1..Len(event) : event[i].type = "modified") => Ordered(M)
      /\ Ordered(L) /\ (L = <<>> \/ \A i \in 1..Len(event) : event[i].type # "added") => Ordered(M)
  BY <1>1, HandleIs
<1> HIDE DEF M
<1>3. \A x : x \in Range(M) <=>
        \/ x \in Shown(old) /\ \A c \in changes : c.doc.key # x.key
        \/ \E c \in changes : c.type # "removed" /\ x = RowOf(c.doc)
  <2> SUFFICES ASSUME NEW x
               PROVE  x \in Range(M) <=>
                        \/ x \in Shown(old) /\ \A c \in changes : c.doc.key # x.key
                        \/ \E c \in changes : c.type # "removed" /\ x = RowOf(c.doc)
    OBVIOUS
  <2>1. (\A i \in 1..Len(event) : event[i].doc.key # x.key) <=> \A c \in changes : c.doc.key # x.key
    BY <1>1
  <2>2. (\E i \in 1..Len(event) : event[i].type # "removed" /\ x = RowOf(event[i].doc))
          <=> \E c \in changes : c.type # "removed" /\ x = RowOf(c.doc)
    BY <1>1
  <2>3. QED
    BY <1>2, <2>1, <2>2
<1>4. ASSUME NEW x, x \in Range(M) PROVE x \in Shown(new)
  <2>1. CASE x \in Shown(old) /\ \A c \in changes : c.doc.key # x.key
    BY <2>1 DEF Becoming
  <2>2. CASE \E c \in changes : c.type # "removed" /\ x = RowOf(c.doc)
    <3>1. PICK c \in changes : c.type # "removed" /\ x = RowOf(c.doc)
      BY <2>2
    <3>2. c.doc \in new
      BY <3>1 DEF Becoming
    <3>3. QED
      BY <3>1, <3>2, ShownIs
  <2>3. QED
    BY <1>3, <1>4, <2>1, <2>2
<1>5. ASSUME NEW x \in Shown(new) PROVE x \in Range(M)
  <2>1. CASE \A c \in changes : c.doc.key # x.key
    BY <1>3, <2>1 DEF Becoming
  <2>2. CASE \E c \in changes : c.doc.key = x.key
    <3>1. PICK c \in changes : c.doc.key = x.key
      BY <2>2
    <3>2. PICK d \in new : x = RowOf(d)
      BY ShownIs
    <3>3. d.key = c.doc.key
      BY <3>1, <3>2, ShownIs
    <3>4. c.type # "removed" /\ c.doc \in new
      BY <3>3 DEF Becoming, KeysOf
    <3>5. d = c.doc
      BY <3>3, <3>4 DEF Docs
    <3>6. QED
      BY <1>3, <3>2, <3>4, <3>5
  <2>3. QED
    BY <2>1, <2>2
<1>6. Range(M) = Shown(new)
  BY <1>4, <1>5
<1>7. QED
  BY <1>1, <1>2, <1>6 DEF event, M

LEMMA TellIs ==
  ASSUME NEW old, Docs(old), NEW new, Docs(new), NEW changes, Becoming(changes, old, new),
         Listed(list, appended, old), ~failed, Tell(Told(changes), KeysOf(old))
  PROVE  Listed(list', appended', new) /\ failed' = FALSE
<1> DEFINE event == Told(changes)
<1>1. Indexable(event, KeysOf(old))
  BY ToldFits DEF Listed
<1>2. /\ list' = Handle(list, event)
      /\ appended' = IF \E i \in DOMAIN event : event[i].type = "modified" THEN FALSE
                     ELSE appended \/ (list # <<>> /\ \E i \in DOMAIN event : event[i].type = "added")
      /\ failed' = (failed \/ ~Indexable(event, KeysOf(old)))
  BY DEF Tell
<1>3. /\ list' \in Seq(Rows) /\ Distinct(list') /\ Range(list') = Shown(new)
      /\ (\E i \in DOMAIN event : event[i].type = "modified") => Ordered(list')
      /\ Ordered(list) /\ (list = <<>> \/ \A i \in DOMAIN event : event[i].type # "added") =>
           Ordered(list')
  BY <1>2, HandleTold DEF Listed
<1> HIDE DEF event
<1>4. ~appended => Ordered(list)
  BY DEF Listed
<1>5. appended' \in BOOLEAN /\ (~appended' => Ordered(list'))
  <2>1. CASE \E i \in DOMAIN event : event[i].type = "modified"
    BY <1>2, <1>3, <2>1
  <2>2. CASE ~\E i \in DOMAIN event : event[i].type = "modified"
    <3>1. appended' = (appended \/ (list # <<>> /\ \E i \in DOMAIN event : event[i].type = "added"))
      BY <1>2, <2>2
    <3>2. ~appended' => ~appended /\ (list = <<>> \/ \A i \in DOMAIN event : event[i].type # "added")
      BY <3>1
    <3>3. QED
      BY <1>3, <1>4, <3>1, <3>2
  <2>3. QED
    BY <2>1, <2>2
<1>6. failed' = FALSE
  BY <1>1, <1>2
<1>7. QED
  BY <1>3, <1>5, <1>6 DEF Listed

-----------------------------------------------------------------------------
(* The inductive invariant *)

Telling ==
  /\ Listed(list, appended, documents) /\ failed = FALSE
  /\ raised \in BOOLEAN /\ offline \in BOOLEAN
  /\ ~raised => documents = {} /\ list = <<>>

IInv == Good /\ Telling

LEMMA SnapshotIsTold ==
  ASSUME Good, Good', Telling, offline' = offline,
         NEW changes, Describes(changes, documents, documents'), NEW synced, Snapshot(changes, synced)
  PROVE  Telling'
<1> DEFINE visible == {c \in changes : c.type # "metadata"}
<1>1. Docs(documents) /\ Docs(documents')
  BY DEF Good, Docs
<1>2. /\ Listed(list, appended, documents) /\ failed = FALSE /\ raised \in BOOLEAN
      /\ ~raised => documents = {} /\ list = <<>>
  BY DEF Telling
<1>3. Becoming(visible, documents, documents')
  BY <1>1, VisibleIs
<1> HIDE DEF visible
<1>4. ASSUME NEW docs, Listed(list', appended', docs), docs = documents', failed' = FALSE,
             raised' \in BOOLEAN, ~raised' => documents' = {} /\ list' = <<>>
      PROVE  Telling'
  <2>1. Listed(list, appended, documents)'
    BY <1>4 DEF Listed, Rows, Distinct, Ordered, Range, Shown
  <2>2. offline' \in BOOLEAN
    BY DEF Telling
  <2>3. QED
    BY <1>4, <2>1, <2>2 DEF Telling
<1>5. CASE ~raised /\ (synced \/ documents' # {})
  <2>1. raised' = TRUE /\ Tell(Told(Initially(documents')), {})
    BY <1>5 DEF Snapshot
  <2>2. Becoming(Initially(documents'), {}, documents')
    BY <1>1, InitiallyIs
  <2>3. KeysOf({}) = {} /\ documents = {} /\ Docs({})
    BY <1>2, <1>5 DEF KeysOf, Docs
  <2>4. Listed(list', appended', documents') /\ failed' = FALSE
    BY <1>1, <1>2, <2>1, <2>2, <2>3, TellIs
  <2>5. QED
    BY <1>4, <2>1, <2>4
<1>6. CASE raised /\ visible # {}
  <2>1. raised' = raised /\ Tell(Told(visible), KeysOf(documents))
    BY <1>6 DEF Snapshot, visible
  <2>2. Listed(list', appended', documents') /\ failed' = FALSE
    BY <1>1, <1>2, <1>3, <2>1, TellIs
  <2>3. QED
    BY <1>4, <1>6, <2>1, <2>2
<1>7. CASE raised /\ visible = {}
  <2>1. raised' = raised /\ list' = list /\ appended' = appended /\ failed' = failed
    BY <1>7 DEF Snapshot, visible
  <2>2. Shown(documents) = Shown(documents')
    BY <1>3, <1>7 DEF Becoming
  <2>3. Listed(list', appended', documents')
    BY <1>2, <2>1, <2>2 DEF Listed
  <2>4. QED
    BY <1>2, <1>4, <1>7, <2>1, <2>3
<1>8. CASE ~raised /\ ~(synced \/ documents' # {})
  <2>1. raised' = raised /\ list' = list /\ appended' = appended /\ failed' = failed
    BY <1>8 DEF Snapshot
  <2>2. documents' = {} /\ documents = {} /\ list = <<>>
    BY <1>2, <1>8
  <2>3. Listed(list', appended', documents')
    BY <1>2, <2>1, <2>2 DEF Listed
  <2>4. QED
    BY <1>2, <1>4, <2>1, <2>2, <2>3
<1>9. QED
  BY <1>2, <1>5, <1>6, <1>7, <1>8

LEMMA EmitStep ==
  ASSUME IInv, NEW touched, Touched(touched), NEW synced, Put(touched), EmitNewSnapshots(touched, synced)
  PROVE  IInv'
<1>1. /\ offline' = offline /\ Good'
      /\ \E ch : Describes(ch, documents, documents') /\ Snapshot(ch, synced)
  BY EmitIsGood DEF IInv
<1>2. PICK ch : Describes(ch, documents, documents') /\ Snapshot(ch, synced)
  BY <1>1
<1>3. Telling'
  BY <1>1, <1>2, SnapshotIsTold DEF IInv
<1>4. QED
  BY <1>1, <1>3 DEF IInv

LEMMA RemoteEventStep ==
  ASSUME IInv, NEW S \in SUBSET Key, NEW gone \in SUBSET S, NEW current,
         RemoteEvent(S, gone, current)
  PROVE  IInv'
<1>1. PICK rank \in [S \ gone -> Rank] :
        LET touched == {Absent(k) : k \in gone} \cup
              {[key |-> k, rank |-> rank[k],
                state |-> IF At(cache, k).state = "local" THEN "local" ELSE "synced"]
                 : k \in S \ gone}
        IN Put(touched) /\ EmitNewSnapshots(touched, current)
  BY DEF RemoteEvent
<1> DEFINE sent(k) == [key |-> k, rank |-> rank[k],
                       state |-> IF At(cache, k).state = "local" THEN "local" ELSE "synced"]
           touched == {Absent(k) : k \in gone} \cup {sent(k) : k \in S \ gone}
<1>2. Put(touched) /\ EmitNewSnapshots(touched, current)
  BY <1>1
<1>3. \A k \in S \ gone : sent(k) \in Doc /\ sent(k).key = k
  BY DEF Doc
<1>4. \A k : Absent(k).key = k
  BY DEF Absent
<1> HIDE DEF sent
<1>5. \A t \in touched : \/ t.key \in gone /\ t = Absent(t.key)
                         \/ t.key \in S \ gone /\ t = sent(t.key)
  BY <1>3, <1>4
<1>6. Touched(touched)
  <2>1. \A t \in touched : t \in Doc \cup {Absent(k) : k \in Key}
    BY <1>3, <1>5
  <2>2. \A d, e \in touched : d.key = e.key => d = e
    BY <1>5
  <2> HIDE DEF touched
  <2>3. QED
    BY <2>1, <2>2 DEF Touched
<1> HIDE DEF touched
<1>7. QED
  BY <1>2, <1>6, EmitStep

LEMMA BecomesStep ==
  ASSUME IInv, NEW doc \in Doc \cup {Absent(k) : k \in Key}, Becomes(doc)
  PROVE  IInv'
<1>1. Touched({doc})
  BY DEF Touched
<1>2. QED
  BY <1>1, EmitStep DEF Becomes

LEMMA OnlineStep == ASSUME IInv, OnlineStateChange PROVE IInv'
<1>1. limitType' = limitType /\ cache' = cache /\ documents' = documents /\ mutated' = mutated
  BY DEF OnlineStateChange
<1>2. Good'
  <2>1. (Top(KnownOf(cache, documents)))' = Top(KnownOf(cache, documents))
    BY <1>1 DEF Top, Excess, KnownOf, Shown, At, KeysOf
  <2>2. (Shown(documents) = Top(KnownOf(cache, documents)))'
    BY <1>1, <2>1 DEF IInv, Good, Shown
  <2>3. QED
    BY <1>1, <2>2 DEF IInv, Good, Docs, Waits, KeysOf, Locals
<1>3. /\ Listed(list, appended, documents) /\ ~failed /\ raised \in BOOLEAN
      /\ ~raised => documents = {} /\ list = <<>>
      /\ offline' \in BOOLEAN /\ Docs(documents)
  BY DEF IInv, Telling, OnlineStateChange, Good
<1>4. Listed(list', appended', documents) /\ failed' = FALSE /\ raised' \in BOOLEAN
      /\ (~raised' => documents = {} /\ list' = <<>>)
  <2>1. CASE ~raised /\ offline'
    <3>1. raised' = TRUE /\ Tell(Told(Initially(documents)), {})
      BY <2>1 DEF OnlineStateChange
    <3>2. Becoming(Initially(documents), {}, documents)
      BY <1>3, InitiallyIs
    <3>3. KeysOf({}) = {} /\ documents = {} /\ Docs({})
      BY <1>3, <2>1 DEF KeysOf, Docs
    <3>4. Listed(list', appended', documents) /\ failed' = FALSE
      BY <1>3, <3>1, <3>2, <3>3, TellIs
    <3>5. QED
      BY <3>1, <3>4
  <2>2. CASE ~(~raised /\ offline')
    <3>1. raised' = raised /\ list' = list /\ appended' = appended /\ failed' = failed
      BY <2>2 DEF OnlineStateChange
    <3>2. QED
      BY <1>3, <3>1 DEF IInv, Telling
  <2>3. QED
    BY <2>1, <2>2
<1>5. Listed(list, appended, documents)'
  BY <1>1, <1>4 DEF Listed, Rows, Distinct, Ordered, Range, Shown
<1>6. Telling'
  BY <1>1, <1>3, <1>4, <1>5 DEF Telling
<1>7. QED
  BY <1>2, <1>6 DEF IInv

LEMMA ShownSize ==
  ASSUME NEW docs, Docs(docs)
  PROVE  /\ IsFiniteSet(docs) /\ IsFiniteSet(Shown(docs))
         /\ Cardinality(docs) = Cardinality(Shown(docs))
<1> DEFINE f == [d \in docs |-> RowOf(d)]
<1>1. IsFiniteSet(docs) /\ IsFiniteSet(Shown(docs))
  BY DocsAreVersions DEF Versions
<1>2. f \in Bijection(docs, Shown(docs))
  BY ShownIs DEF Bijection, Injection, Surjection, IsInjective, Docs
<1> HIDE DEF f
<1>3. QED
  BY <1>1, <1>2, FS_Bijection DEF ExistsBijection

LEMMA InitIInv == Init => IInv
<1> SUFFICES ASSUME Init PROVE IInv
  OBVIOUS
<1>1. PICK S \in SUBSET Key, rank \in [Key -> Rank] :
        cache = {[key |-> k, rank |-> rank[k], state |-> "synced"] : k \in S}
  BY DEF Init
<1>2. /\ limitType \in {"none", "first", "last"} /\ documents = Top(cache) /\ mutated = {}
      /\ offline = FALSE /\ raised = (documents # {}) /\ appended = FALSE /\ failed = FALSE
      /\ list = Handle(<<>>, Told(Initially(documents)))
  BY DEF Init, Top
<1>3. \A d \in cache : d.key \in S /\ d.state = "synced" /\ d.rank = rank[d.key] /\ d \in Doc
                       /\ d = [key |-> d.key, rank |-> rank[d.key], state |-> "synced"]
  BY <1>1 DEF Doc
<1>4. Docs(cache)
  BY <1>3 DEF Docs
<1>5. documents \subseteq cache /\ Docs(documents)
  BY <1>2, <1>4, SubsetsAreDocs DEF Top
<1>6. Waits(documents, cache)
  BY <1>4, <1>5 DEF Waits, Docs
<1>7. KeysOf(documents) \subseteq KeysOf(cache)
  BY <1>5 DEF KeysOf
<1>8. KnownOf(cache, documents) = Shown(cache)
  <2>1. {d \in cache : d.state # "committed"} = cache
    BY <1>3
  <2>2. \A d \in documents : At(cache, d.key) = d
    BY <1>4, <1>5, AtIs
  <2>3. {d \in documents : At(cache, d.key).state = "committed"} = {}
    BY <1>3, <1>5, <2>2
  <2>4. QED
    BY <2>1, <2>3 DEF KnownOf, Shown
<1>9. Shown(documents) = Top(KnownOf(cache, documents))
  BY <1>2, <1>4, <1>8, TopShown
<1>10. mutated = Locals(documents)
  BY <1>2, <1>3, <1>5 DEF Locals
<1>11. limitType # "none" => Cardinality(documents) <= Limit
  BY <1>2, <1>4, DocsAreVersions, TopSize DEF Limited
<1>12. Good
  BY <1>2, <1>4, <1>5, <1>6, <1>7, <1>9, <1>10, <1>11 DEF Good
<1>13. Listed(list, appended, documents)
  <2>1. /\ <<>> \in Seq(Rows) /\ Distinct(<<>>) /\ Ordered(<<>>) /\ Range(<<>>) = {}
        /\ Shown({}) = {} /\ Docs({})
    BY DEF Distinct, Ordered, Range, Shown, Docs
  <2>2. Becoming(Initially(documents), {}, documents)
    BY <1>5, InitiallyIs
  <2>3. /\ list \in Seq(Rows) /\ Distinct(list) /\ Range(list) = Shown(documents)
        /\ Ordered(list)
    <3> DEFINE L == <<>>
    <3>1. /\ L \in Seq(Rows) /\ Distinct(L) /\ Ordered(L) /\ Range(L) = Shown({}) /\ L = <<>>
          /\ list = Handle(L, Told(Initially(documents)))
      BY <1>2, <2>1
    <3> DEFINE old == {}
               changes == Initially(documents)
    <3>2. Docs(old) /\ Becoming(changes, old, documents) /\ Range(L) = Shown(old)
      BY <2>1, <2>2, <3>1
    <3> HIDE DEF L, old, changes
    <3>3. /\ Handle(L, Told(changes)) \in Seq(Rows) /\ Distinct(Handle(L, Told(changes)))
          /\ Range(Handle(L, Told(changes))) = Shown(documents)
          /\ Ordered(L) /\ L = <<>> => Ordered(Handle(L, Told(changes)))
      <4> DEFINE event == Told(changes)
                 M == Handle(L, event)
      <4>1. Docs(documents) /\ L \in Seq(Rows) /\ Distinct(L)
        BY <1>5, <3>1
      <4>2. /\ M \in Seq(Rows) /\ Distinct(M) /\ Range(M) = Shown(documents)
            /\ Ordered(L) /\ (L = <<>> \/ \A i \in DOMAIN event : event[i].type # "added") => Ordered(M)
        BY ONLY <3>2, <4>1, HandleTold
      <4>3. QED
        BY <4>2
    <3>4. QED
      BY <3>1, <3>3 DEF changes
  <2>4. QED
    BY <1>2, <2>3 DEF Listed
<1>14. documents = {} => list = <<>>
  <2> HAVE documents = {}
  <2>1. Range(list) = {} /\ list \in Seq(Rows)
    BY <1>13 DEF Listed, Shown
  <2>2. Len(list) \in Nat /\ \A i \in 1..Len(list) : list[i] \in Range(list)
    BY <2>1, SeqIs
  <2>3. Len(list) = 0
    BY <2>1, <2>2
  <2>4. QED
    BY <2>1, <2>3, EmptySeq
<1>15. QED
  BY <1>2, <1>12, <1>13, <1>14 DEF IInv, Telling

LEMMA NextIInv == IInv /\ [Next]_vars => IInv'
<1> SUFFICES ASSUME IInv, [Next]_vars PROVE IInv'
  OBVIOUS
<1>1. ASSUME NEW S \in SUBSET Key, NEW current \in {raised, TRUE}, NEW gone \in SUBSET S,
             RemoteEvent(S, gone, current)
      PROVE  IInv'
  BY <1>1, RemoteEventStep
<1>2. ASSUME NEW k \in Key, LocalWrite(k) PROVE IInv'
  <2>1. PICK doc \in With(k, "local") \cup (IF k \in KeysOf(cache) THEN {Absent(k)} ELSE {}) :
          Becomes(doc)
    BY <1>2 DEF LocalWrite
  <2>2. doc \in Doc \cup {Absent(h) : h \in Key}
    BY <2>1 DEF With, Doc
  <2>3. QED
    BY <2>1, <2>2, BecomesStep
<1>3. ASSUME NEW k \in Key, Acknowledged(k) PROVE IInv'
  <2>0. PICK state \in {"committed", "synced", "local"} : \E doc \in With(k, state) : Becomes(doc)
    BY <1>3 DEF Acknowledged
  <2>1. PICK doc \in With(k, state) : Becomes(doc)
    BY <2>0
  <2>2. doc \in Doc \cup {Absent(h) : h \in Key}
    BY <2>1 DEF With, Doc
  <2>3. QED
    BY <2>1, <2>2, BecomesStep
<1>4. ASSUME NEW k \in Key, Rejected(k) PROVE IInv'
  <2>1. PICK doc \in With(k, "synced") \cup With(k, "local") \cup {Absent(k)} : Becomes(doc)
    BY <1>4 DEF Rejected
  <2>2. doc \in Doc \cup {Absent(h) : h \in Key}
    BY <2>1 DEF With, Doc
  <2>3. QED
    BY <2>1, <2>2, BecomesStep
<1>5. CASE OnlineStateChange
  BY <1>5, OnlineStep
<1>6. CASE UNCHANGED vars
  <2>1. /\ limitType' = limitType /\ cache' = cache /\ documents' = documents /\ mutated' = mutated
        /\ offline' = offline /\ raised' = raised /\ list' = list /\ appended' = appended
        /\ failed' = failed
    BY <1>6 DEF vars
  <2>2. (Top(KnownOf(cache, documents)))' = Top(KnownOf(cache, documents))
    BY <2>1 DEF Top, Excess, KnownOf, Shown, At, KeysOf
  <2>3. (Shown(documents) = Top(KnownOf(cache, documents)))'
    BY <2>1, <2>2 DEF IInv, Good, Shown
  <2>4. Good'
    BY <2>1, <2>3 DEF IInv, Good, Docs, Waits, KeysOf, Locals
  <2>5. Listed(list, appended, documents)'
    BY <2>1 DEF IInv, Telling, Listed, Rows, Distinct, Ordered, Range, Shown
  <2>6. Telling'
    BY <2>1, <2>5 DEF IInv, Telling
  <2>7. QED
    BY <2>4, <2>6 DEF IInv
<1>7. QED
  BY <1>1, <1>2, <1>3, <1>4, <1>5, <1>6 DEF Next

(* The invariant holds: the result is that of the query on what the view     *)
(* knows, its snapshots tell of every change, and the rows follow them.      *)
THEOREM Invariance == Spec => []IInv
BY InitIInv, NextIInv, PTL DEF Spec

-----------------------------------------------------------------------------
(* What ComputeDocumentChanges keeps up to date is, after any changes of the *)
(* cache in any order, the result of the query on what the view knows; the   *)
(* refill never needs another, and neither AddChange nor ForEachChange fails *)
(* an assertion.                                                             *)
THEOREM ViewFollowsCache == Spec => []ViewInv
<1>1. IInv => ViewInv
  <2> SUFFICES ASSUME IInv PROVE ViewInv
    OBVIOUS
  <2>1. Good /\ Telling
    BY DEF IInv
  <2>2. /\ list \in Seq(Rows) /\ DOMAIN list = 1..Len(list) /\ \A i \in 1..Len(list) : list[i] \in Rows
        /\ {offline, raised, appended, failed} \subseteq BOOLEAN
    BY <2>1, SeqIs DEF Telling, Listed
  <2>3. TypeOK
    BY <2>1, <2>2 DEF Good, Docs, Locals, Rows, TypeOK
  <2>4. FollowsKnown
    BY <2>1 DEF Good, Waits, Top, KnownOf, Known, FollowsKnown
  <2>5. NothingUntold /\ NoAssertionFails
    BY <2>1 DEF Telling, NothingUntold, NoAssertionFails
  <2>6. QED
    BY <2>3, <2>4, <2>5 DEF ViewInv
<1>2. QED
  BY <1>1, Invariance, PTL

(* When no document waits for the server to send what was acknowledged, the  *)
(* incremental result of View is the one its query has on the cache.         *)
THEOREM ViewIsItsQuery == Spec => []ViewIsQuery
<1>1. IInv => ViewIsQuery
  <2> SUFFICES ASSUME IInv, \A d \in cache : d.state # "committed"
               PROVE  Shown(documents) = Shown(cache \ Excess(cache))
    BY DEF ViewIsQuery
  <2>1. Good
    BY DEF IInv
  <2>2. KnownOf(cache, documents) = Shown(cache)
    <3>1. {d \in cache : d.state # "committed"} = cache
      OBVIOUS
    <3>2. \A k : At(cache, k) \in cache \/ At(cache, k) = Absent(k)
      BY <2>1, AtIs DEF Good
    <3>3. {d \in documents : At(cache, d.key).state = "committed"} = {}
      BY <3>2 DEF Absent
    <3>4. QED
      BY <3>1, <3>3 DEF KnownOf, Shown
  <2>3. Shown(documents) = Top(Shown(cache))
    BY <2>1, <2>2 DEF Good
  <2>4. QED
    BY <2>1, <2>3, TopShown DEF Good, Top
<1>2. QED
  BY <1>1, Invariance, PTL

(* The array behind the chat list has one row for each document of the       *)
(* result, with its data, whatever events its handler was given.             *)
THEOREM RowsAreTheResult == Spec => []OneRowEach
<1>1. IInv => OneRowEach
  <2> SUFFICES ASSUME IInv
               PROVE  Range(list) = Shown(documents) /\ Len(list) = Cardinality(documents)
    BY DEF OneRowEach
  <2>1. /\ list \in Seq(Rows) /\ Distinct(list) /\ Range(list) = Shown(documents) /\ Docs(documents)
    BY DEF IInv, Telling, Listed, Good
  <2>2. /\ Len(list) \in Nat /\ DOMAIN list = 1..Len(list) /\ list \in [1..Len(list) -> Rows]
        /\ \A x : x \in Range(list) <=> \E i \in 1..Len(list) : list[i] = x
    BY <2>1, SeqIs
  <2>3. list \in Bijection(1..Len(list), Range(list))
    <3>1. \A i, j \in 1..Len(list) : list[i] = list[j] => i = j
      BY <2>1, <2>2 DEF Distinct
    <3>2. list \in [1..Len(list) -> Range(list)]
      BY <2>2
    <3>3. QED
      BY <2>2, <3>1, <3>2 DEF Bijection, Injection, Surjection, IsInjective
  <2>4. IsFiniteSet(1..Len(list)) /\ Cardinality(1..Len(list)) = Len(list)
    BY <2>2, UpTo
  <2>5. Cardinality(Range(list)) = Len(list)
    BY <2>3, <2>4, FS_Bijection DEF ExistsBijection
  <2>6. QED
    BY <2>1, <2>5, ShownSize
<1>2. QED
  BY <1>1, Invariance, PTL

(* The rows are sorted by time as long as no conversation was added after    *)
(* others since the handler sorted them last.                                *)
THEOREM RowsSorted == Spec => []SortedUnlessAdded
<1>1. IInv => SortedUnlessAdded
  BY DEF IInv, Telling, Listed, Ordered, SortedUnlessAdded
<1>2. QED
  BY <1>1, Invariance, PTL
=============================================================================
