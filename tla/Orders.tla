------------------------------- MODULE Orders -------------------------------
(***************************************************************************)
(* Sets and sequences put in order, without recursion.                     *)
(***************************************************************************)
EXTENDS Naturals, Sequences, FiniteSets

(* D in the order of the pairs in R: so many come before each. *)
Lined(D, R) ==
  [k \in 1..Cardinality(D) |-> CHOOSE i \in D : Cardinality({j \in D : <<j, i>> \in R}) = k - 1]

(* s with its indexes in the order of the pairs in R. *)
Arranged(s, R) == LET first == Lined(DOMAIN s, R) IN [k \in DOMAIN s |-> s[first[k]]]
=============================================================================
