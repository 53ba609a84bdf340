--------------------------- MODULE MCLinuxObjects ---------------------------
(* Instances of LinuxObjects for TLC. *)
EXTENDS LinuxObjects
=============================================================================
