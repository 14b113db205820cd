--------------------------- MODULE MCSemProdCons ----------------------------
(***************************************************************************)
(* The instance of SemProdCons for TLC.  Threads are named after the       *)
(* function they run.                                                      *)
(***************************************************************************)
EXTENDS SemProdCons

\* Scenario 7: one thread of each kind.
OnePerKind == {"a1", "a2", "b1", "b2"}
KindOfOnePerKind == [a1 |-> "A1", a2 |-> "A2", b1 |-> "B1", b2 |-> "B2"]
=============================================================================
