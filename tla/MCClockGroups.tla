--------------------------- MODULE MCClockGroups ----------------------------
(* Instance of ClockGroups for TLC. *)
EXTENDS ClockGroups
=============================================================================
