---------------------------- MODULE MCLoopTimer ----------------------------
(* Instances of LoopTimer for TLC. *)
EXTENDS LoopTimer
=============================================================================
