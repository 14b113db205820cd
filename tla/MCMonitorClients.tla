-------------------------- MODULE MCMonitorClients --------------------------
(***************************************************************************)
(* Four interchangeable threads and two interchangeable conditions.        *)
(***************************************************************************)
EXTENDS MonitorClients, TLC

CONSTANTS t1, t2, t3, t4, c1, c2

Symmetries == Permutations(Threads) \cup Permutations(Conditions)
=============================================================================
