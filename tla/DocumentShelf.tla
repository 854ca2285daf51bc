--------------------------- MODULE DocumentShelf ----------------------------
(***************************************************************************)
(* What the documents of a student promise: a shelf with at most one file  *)
(* for each requirement, where every file can be opened, a file that was   *)
(* destroyed never comes back, and the shelf is emptied for good with the  *)
(* student.  (student.service.ts, uploadDocument and deleteDocument)       *)
(***************************************************************************)
EXTENDS Functions

CONSTANTS Requirements, Files, NoFile

VARIABLES
  shelf,      \* the file of each requirement, or NoFile
  destroyed,  \* the files that can no longer be opened
  closed      \* the student has been deleted

Init ==
  /\ shelf = [q \in Requirements |-> NoFile]
  /\ destroyed = {}
  /\ closed = FALSE

Submit(q) ==
  /\ ~closed
  /\ \E f \in Files \ destroyed : shelf' = [shelf EXCEPT ![q] = f]
  /\ UNCHANGED <<destroyed, closed>>

Withdraw(q) ==
  /\ shelf' = [shelf EXCEPT ![q] = NoFile]
  /\ UNCHANGED <<destroyed, closed>>

Close ==
  /\ shelf' = [q \in Requirements |-> NoFile]
  /\ closed' = TRUE
  /\ UNCHANGED destroyed

\* Only a file that is off the shelf may be destroyed.
Destroy ==
  /\ \E f \in Files \ Range(shelf) : destroyed' = destroyed \cup {f}
  /\ UNCHANGED <<shelf, closed>>

Next ==
  \/ \E q \in Requirements : Submit(q) \/ Withdraw(q)
  \/ Close
  \/ Destroy

Spec == Init /\ [][Next]_<<shelf, destroyed, closed>>

=============================================================================
