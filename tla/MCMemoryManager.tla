--------------------------- MODULE MCMemoryManager ---------------------------
(***************************************************************************)
(* A small machine for MemoryManager.                                      *)
(***************************************************************************)
EXTENDS MemoryManager
=============================================================================
