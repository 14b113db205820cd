---------------------------- MODULE MCVirtualDisc ----------------------------
(***************************************************************************)
(* Small discs for VirtualDisc.                                            *)
(***************************************************************************)
EXTENDS VirtualDisc

CONSTANTS f, g
=============================================================================
