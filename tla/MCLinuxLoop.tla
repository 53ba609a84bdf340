----------------------------- MODULE MCLinuxLoop -----------------------------
(* Instances of LinuxLoop for TLC. *)
EXTENDS LinuxLoop
=============================================================================
