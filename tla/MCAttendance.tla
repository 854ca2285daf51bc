---------------------------- MODULE MCAttendance ----------------------------
(* Attendance, and the pages that report it, on small instances.  At most   *)
(* two requests of a side are in flight and one of the runs is a liveness   *)
(* run, so no symmetry is declared.                                         *)
EXTENDS Oversight

=============================================================================
