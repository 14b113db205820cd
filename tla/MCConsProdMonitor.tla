-------------------------- MODULE MCConsProdMonitor --------------------------
(***************************************************************************)
(* Scenario 5 of main(): two producers.                                    *)
(***************************************************************************)
EXTENDS ConsProdMonitor

Scenario5 == {"a1", "a2"}
KindOfScenario5 == [a1 |-> "A1", a2 |-> "A2"]
=============================================================================
