-------------------------- MODULE MCStudentRecord ---------------------------
(* StudentRecord with the two courses of courses.ts, in hours cut down, and *)
(* an old one.                                                              *)
EXTENDS StudentRecord

CONSTANTS act, bsit

MCHoursOf == [c \in {act, bsit} |-> IF c = act THEN 3 ELSE 5]

=============================================================================
