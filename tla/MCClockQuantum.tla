--------------------------- MODULE MCClockQuantum ---------------------------
(* Instance of ClockQuantum for TLC. *)
EXTENDS ClockQuantum
=============================================================================
