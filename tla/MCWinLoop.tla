------------------------------ MODULE MCWinLoop ------------------------------
(* Instances of WinLoop for TLC. *)
EXTENDS WinLoop
=============================================================================
