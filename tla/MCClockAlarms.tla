--------------------------- MODULE MCClockAlarms ----------------------------
(* Instance of ClockAlarms for TLC. *)
EXTENDS ClockAlarms
=============================================================================
