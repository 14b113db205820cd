---------------------------- MODULE MCSystemTask ----------------------------
(* Instance of SystemTask for TLC. *)
EXTENDS SystemTask
=============================================================================
