--------------------------- MODULE AtomicPublish ---------------------------
(***************************************************************************)
(* What publishing a car promises: the pictures chosen for one tap on the  *)
(* Post button appear in the feed in a single step, every one of them      *)
(* exactly once, in some order; or they never appear.                      *)
(***************************************************************************)
EXTENDS Naturals

CONSTANTS Attempt,    \* taps on the Post button
          MaxImages   \* the most pictures a form may hold

VARIABLES chosen,     \* chosen[a]: how many pictures tap a took, 0 before it
          feed        \* feed[a]: the published list of tap a, <<>> before it

vars == <<chosen, feed>>

(* The orders in which n uploaded pictures can be listed. *)
Orders(n) == {order \in [1..n -> 1..n] :
                /\ \A j, k \in 1..n : order[j] = order[k] => j = k
                /\ \A i \in 1..n : \E k \in 1..n : order[k] = i}

Init == /\ chosen = [a \in Attempt |-> 0]
        /\ feed = [a \in Attempt |-> <<>>]

Choose(a) == /\ chosen[a] = 0
             /\ \E n \in 1..MaxImages : chosen' = [chosen EXCEPT ![a] = n]
             /\ UNCHANGED feed

Publish(a) == /\ chosen[a] > 0
              /\ feed[a] = <<>>
              /\ \E order \in Orders(chosen[a]) : feed' = [feed EXCEPT ![a] = order]
              /\ UNCHANGED chosen

Next == \E a \in Attempt : Choose(a) \/ Publish(a)

Spec == Init /\ [][Next]_vars
=============================================================================
