---------------------------- MODULE MCWinObjects ----------------------------
(* Instances of WinObjects for TLC. *)
EXTENDS WinObjects
=============================================================================
