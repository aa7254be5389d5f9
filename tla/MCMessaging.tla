---------------------------- MODULE MCMessaging ----------------------------
(* Two users who may write to each other. *)
EXTENDS Messaging, TLC

Symmetry == Permutations(User)
=============================================================================
