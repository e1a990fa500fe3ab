------------------------- MODULE MCAttendanceSheet -------------------------
(* Two tickets of one event, alike. *)
EXTENDS AttendanceSheet, TLC

CONSTANTS t1, t2

MCSymmetry == Permutations(Tickets)
=============================================================================
