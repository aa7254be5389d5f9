-------------------------- MODULE MCWritePipeline --------------------------
(* Two users of one device. *)
EXTENDS WritePipeline, TLC
=============================================================================
