--------------------------- MODULE StudentRecord ----------------------------
(***************************************************************************)
(* A student's record as the coordinators edit it: the dialog of the       *)
(* students page (use-students.ts) and updateStudent behind it             *)
(* (coordinator.service.ts), createStudent of the supervisor, and the      *)
(* deletion of the student or of the establishment.                        *)
(*                                                                         *)
(* The course decides the year level and the required hours (courses.ts),  *)
(* which are written only when the course changes; both go together and    *)
(* are called hours here.  A name is stored twice, on the User row and on  *)
(* the Student row, by two writes without a transaction.                   *)
(***************************************************************************)
EXTENDS Integers

CONSTANTS
  Courses,            \* on offer
  HoursOf,            \* what each of them requires
  OldCourse,          \* a course from before the list, or none
  OldHours,           \* hours typed by hand in those days
  Establishments, NoEstablishment,
  PersonNames,
  Pages,              \* coordinators' pages; each has one dialog
  Absent, Deleted,    \* the student before and after
  MaxFaults           \* how many requests may be lost; bounds the runs

Hours == {HoursOf[c] : c \in Courses} \cup OldHours

StudentRows ==
  [course : Courses \cup {OldCourse}, hours : Hours,
   establishment : Establishments \cup {NoEstablishment}, name : PersonNames]

ASSUME RecordAssumption ==
  /\ Absent # Deleted
  /\ {Absent, Deleted} \cap StudentRows = {}
  /\ HoursOf \in [Courses -> Nat]
  /\ OldHours \subseteq Nat
  /\ OldCourse \notin Courses
  /\ NoEstablishment \notin Establishments
  /\ MaxFaults \in Nat

VARIABLES
  student,   \* the Student row, or Absent, or Deleted
  account,   \* User.name of the student
  living,    \* establishments that exist
  page,      \* the dialogs, with the request each has sent
  faults     \* how many requests were lost

vars == <<student, account, living, page, faults>>

Exists == student \notin {Absent, Deleted}

\* The body of a request: the form is always sent whole.
Forms == [course : Courses \cup {OldCourse},
          establishment : Establishments \cup {NoEstablishment}, name : PersonNames]

\* What a dialog knows of the student, as listed when it was opened, and what
\* the server reads.
Seen == [course : Courses \cup {OldCourse}, hours : Hours]

AsRead == [course |-> student.course, hours |-> student.hours]

Closed == [pc |-> "closed"]

Editing(p) == page[p].pc \in {"name", "record"}

\* A dialog is closed, open, or being saved; what the server has read goes with
\* the request.
Dialogs ==
  {Closed} \cup [pc : {"open"}, seen : Seen]
    \cup [pc : {"name", "record"}, seen : Seen, form : Forms, read : Seen]

TypeOK ==
  /\ student \in StudentRows \cup {Absent, Deleted}
  /\ account \in PersonNames
  /\ living \subseteq Establishments
  /\ page \in [Pages -> Dialogs]
  /\ faults \in 0 .. MaxFaults

\* A student from before the list, or none yet.
Init ==
  /\ student \in {s \in StudentRows : s.hours \in OldHours} \cup {Absent}
  /\ account \in PersonNames
  /\ student # Absent => account = student.name
  /\ living = Establishments
  /\ page = [p \in Pages |-> Closed]
  /\ faults = 0

-----------------------------------------------------------------------------
\* createStudent: both rows in one transaction, hours from an offered course,
\* at the establishment of the supervisor.  The foreign key refuses one that is
\* gone by then.
Enroll(c, e, n) ==
  /\ student = Absent
  /\ student' = [course |-> c, hours |-> HoursOf[c], establishment |-> e, name |-> n]
  /\ account' = n
  /\ UNCHANGED <<living, page, faults>>

-----------------------------------------------------------------------------
\* handleEdit: the dialog takes the row as the page has it, and stays open for
\* as long as the coordinator likes.
OpenDialog(p) ==
  /\ page[p].pc = "closed"
  /\ Exists
  /\ page' = [page EXCEPT
       ![p] = [pc |-> "open", seen |-> AsRead]]
  /\ UNCHANGED <<student, account, living, faults>>

CloseDialog(p) ==
  /\ page[p].pc = "open"
  /\ page' = [page EXCEPT ![p] = Closed]
  /\ UNCHANGED <<student, account, living, faults>>

\* courseOptions: the list, and the student's own course if it is not on it.
Options(seen) == Courses \cup {seen.course}

BrokenShown(seen, f) ==   \* from the table whenever it can
  IF f.course \in Courses THEN HoursOf[f.course] ELSE seen.hours
\* placement: the hours that the dialog shows, read-only.
Shown(seen, f) == IF f.course = seen.course THEN seen.hours ELSE HoursOf[f.course]

BrokenDerived(f, read) ==   \* only where the hours were typed by hand
  IF read.course \notin Courses /\ f.course \in Courses THEN HoursOf[f.course]
  ELSE student.hours
\* courseChanged and deriveFromCourse: by the course as read.
Derived(f, read) == IF f.course = read.course THEN student.hours ELSE HoursOf[f.course]

\* A failed request leaves the dialog open, with what it knew.
Fails(p) == page' = [page EXCEPT ![p] = [pc |-> "open", seen |-> @.seen]]

\* The form is sent and the row is read: a new course must be on offer.
Submit(p, f) ==
  /\ page[p].pc = "open"
  /\ f.course \in Options(page[p].seen)
  /\ Exists
  /\ f.course = student.course \/ f.course \in Courses
  /\ page' = [page EXCEPT ![p] = [pc |-> "name", seen |-> @.seen, form |-> f,
                                  read |-> AsRead]]
  /\ UNCHANGED <<student, account, living, faults>>

BrokenNamed(f) == account   \* leaves the User row to somebody else
Named(f) == f.name

\* First the User row, where the name is shown from ...
WriteName(p) ==
  /\ page[p].pc = "name"
  /\ IF Exists
     THEN /\ account' = Named(page[p].form)
          /\ page' = [page EXCEPT ![p].pc = "record"]
     ELSE Fails(p) /\ UNCHANGED account
  /\ UNCHANGED <<student, living, faults>>

\* The fields of the form, and the hours if the course changed.
Record(f, read) ==
  [course |-> f.course, hours |-> Derived(f, read),
   establishment |-> f.establishment, name |-> f.name]

\* The foreign key of Student.establishmentId.
Placeable(e) == e \in living \cup {NoEstablishment}

\* ... and then the Student row.
WriteRecord(p) ==
  /\ page[p].pc = "record"
  /\ IF Exists /\ Placeable(page[p].form.establishment)
     THEN /\ student' = Record(page[p].form, page[p].read)
          /\ page' = [page EXCEPT ![p] = Closed]
     ELSE Fails(p) /\ UNCHANGED student
  /\ UNCHANGED <<account, living, faults>>

-----------------------------------------------------------------------------
BrokenUnplaced(e) == student   \* leaves the student where he was
\* The establishment is deleted: its students stay, without a placement.
Unplaced(e) ==
  IF Exists /\ student.establishment = e
  THEN [student EXCEPT !.establishment = NoEstablishment] ELSE student

Raze(e) ==
  /\ e \in living
  /\ living' = living \ {e}
  /\ student' = Unplaced(e)
  /\ UNCHANGED <<account, page, faults>>

\* deleteStudentCascade.
Remove ==
  /\ Exists
  /\ student' = Deleted
  /\ UNCHANGED <<account, living, page, faults>>

\* A crash or a lost connection: what was written stays written.
RequestLost(p) ==
  /\ Editing(p)
  /\ faults < MaxFaults
  /\ faults' = faults + 1
  /\ Fails(p)
  /\ UNCHANGED <<student, account, living>>

PageStep(p) ==
  \/ OpenDialog(p) \/ CloseDialog(p)
  \/ \E f \in Forms : Submit(p, f)
  \/ WriteName(p) \/ WriteRecord(p) \/ RequestLost(p)

Next ==
  \/ \E p \in Pages : PageStep(p)
  \/ \E c \in Courses, e \in living, n \in PersonNames : Enroll(c, e, n)
  \/ \E e \in Establishments : Raze(e)
  \/ Remove

Spec == Init /\ [][Next]_vars

-----------------------------------------------------------------------------
\* Properties.

EditsTakeTurns == \A p, q \in Pages : Editing(p) /\ Editing(q) => p = q

\* The hours are those of the course or were typed by hand.
HoursFollow ==
  Exists => student.hours \in OldHours \cup
              {HoursOf[c] : c \in Courses \cap {student.course}}

\* "The required hours follow from the course" (courses.ts), and never are those
\* of another one, as long as edits of the student take turns at the server,
\* however old the dialogs are that they come from and even if one is lost.
TurnsKeepHours == []EditsTakeTurns => []HoursFollow

\* An edit that was lost, or whose establishment was deleted under the dialog,
\* stops between its two writes.
HalfDone ==
  faults > 0 \/ \E p \in Pages : page[p].pc = "record"
                                   /\ ~Placeable(page[p].form.establishment)

NamesAgree == Exists /\ (\A p \in Pages : ~Editing(p)) => account = student.name

\* The two copies of a name agree as long as edits take turns and none stops
\* half-way (updateStudent).
TurnsKeepNames == [](EditsTakeTurns /\ ~HalfDone) => []NamesAgree

\* A saved edit stores the hours that its dialog showed, if the server has read
\* the student as the dialog knew him and finds him so: the page and the server
\* each derive the hours by themselves (placement, updateStudent).
ShownIsStored ==
  [][\A p \in Pages :
       page[p].pc = "record" /\ page'[p] = Closed
         /\ page[p].seen = page[p].read /\ page[p].read = AsRead
       => student'.hours = Shown(page[p].seen, page[p].form)]_vars

\* The student is never placed at an establishment that is gone, whichever of
\* an edit and a deletion comes first (EstablishmentService.remove).
PlacedAlive == Exists => student.establishment \in living \cup {NoEstablishment}

=============================================================================
