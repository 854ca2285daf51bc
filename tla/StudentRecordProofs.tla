------------------------ MODULE StudentRecordProofs -------------------------
(***************************************************************************)
(* Theorems about StudentRecord for every value of its constants.          *)
(***************************************************************************)
EXTENDS StudentRecord, TLAPS

-----------------------------------------------------------------------------
\* Type correctness.

\* The dialogs at each of their steps.
LEMMA DialogTypes ==
  ASSUME TypeOK, NEW p \in Pages
  PROVE  /\ page[p].pc = "open" => page[p] \in [pc : {"open"}, seen : Seen]
         /\ Editing(p) => page[p] \in [pc : {"name", "record"}, seen : Seen, form : Forms,
                                       read : Seen]
BY DEF TypeOK, Dialogs, Closed, Editing

\* The hours that a new course brings are known: the server has refused a course
\* that is neither the student's nor on offer.
FormsOffered ==
  \A p \in Pages : Editing(p) =>
    page[p].form.course = page[p].read.course \/ page[p].form.course \in Courses

RecordOK == TypeOK /\ FormsOffered

LEMMA ExistingRow == TypeOK /\ Exists => student \in StudentRows
BY DEF TypeOK, Exists

LEMMA RecordIsRow ==
  ASSUME RecordOK, NEW p \in Pages, Editing(p), Exists
  PROVE  LET row == Record(page[p].form, page[p].read)
         IN  /\ row \in StudentRows
             /\ row.hours = Derived(page[p].form, page[p].read)
             /\ row.name = page[p].form.name
             /\ row.course = page[p].form.course
             /\ row.establishment = page[p].form.establishment
<1>1. page[p].form \in Forms /\ page[p].read \in Seen
  BY DialogTypes DEF RecordOK
<1>2. Derived(page[p].form, page[p].read) \in Hours
  BY ExistingRow DEF RecordOK, FormsOffered, Derived, Hours, StudentRows
<1> QED
  BY <1>1, <1>2 DEF Record, StudentRows, Forms

LEMMA InitRecordOK == Init => RecordOK
<1> SUFFICES ASSUME Init PROVE RecordOK
  OBVIOUS
<1> USE RecordAssumption
<1>1. TypeOK
  BY DEF Init, TypeOK, Dialogs
<1>2. FormsOffered
  BY DEF Init, FormsOffered, Editing, Closed
<1> QED
  BY <1>1, <1>2 DEF RecordOK

\* What a page does leaves the other dialogs alone.
LEMMA PageAlone ==
  ASSUME TypeOK, NEW p \in Pages, PageStep(p)
  PROVE  \A q \in Pages \ {p} : page'[q] = page[q]
BY DEF TypeOK, PageStep, OpenDialog, CloseDialog, Submit, WriteName, WriteRecord, RequestLost, Fails

\* A request that fails, of whatever sort, leaves an open dialog.
LEMMA FailsOpens ==
  ASSUME RecordOK, NEW p \in Pages, Editing(p), Fails(p)
  PROVE  /\ page' \in [Pages -> Dialogs]
         /\ page'[p].pc = "open"
         /\ FormsOffered'
<1>1. page[p].seen \in Seen
  BY DialogTypes DEF RecordOK
<1>2. [pc |-> "open", seen |-> page[p].seen] \in Dialogs
  BY <1>1 DEF Dialogs
<1>3. /\ page' \in [Pages -> Dialogs]
      /\ page'[p] = [pc |-> "open", seen |-> page[p].seen]
      /\ \A q \in Pages \ {p} : page'[q] = page[q]
  BY <1>2 DEF RecordOK, TypeOK, Fails
<1>4. FormsOffered'
  BY <1>3 DEF RecordOK, FormsOffered, Editing
<1> QED
  BY <1>3, <1>4

LEMMA PageRecordOK ==
  ASSUME RecordOK, NEW p \in Pages, PageStep(p)
  PROVE  RecordOK'
<1> USE DEF RecordOK, TypeOK
<1>1. CASE OpenDialog(p)
  <2>1. AsRead \in Seen
    BY <1>1, ExistingRow DEF OpenDialog, AsRead, Seen, StudentRows
  <2>2. [pc |-> "open", seen |-> AsRead] \in Dialogs
    BY <2>1 DEF Dialogs
  <2> QED
    BY <1>1, <2>2 DEF OpenDialog, FormsOffered, Editing
<1>2. CASE CloseDialog(p)
  BY <1>2 DEF CloseDialog, FormsOffered, Editing, Closed, Dialogs
<1>3. ASSUME NEW f \in Forms, Submit(p, f) PROVE RecordOK'
  <2>1. AsRead \in Seen
    BY <1>3, ExistingRow DEF Submit, AsRead, Seen, StudentRows
  <2>2. [pc |-> "name", seen |-> page[p].seen, form |-> f, read |-> AsRead] \in Dialogs
    BY <1>3, <2>1, DialogTypes DEF Submit, Dialogs
  <2>3. /\ page' \in [Pages -> Dialogs]
        /\ page'[p] = [pc |-> "name", seen |-> page[p].seen, form |-> f, read |-> AsRead]
        /\ \A q \in Pages \ {p} : page'[q] = page[q]
    BY <1>3, <2>2 DEF Submit
  <2>4. FormsOffered'
    BY <1>3, <2>3 DEF Submit, FormsOffered, Editing, AsRead
  <2> QED
    BY <1>3, <2>3, <2>4 DEF Submit
<1>4. CASE WriteName(p)
  <2>1. page[p].form \in Forms
    BY <1>4, DialogTypes DEF WriteName, Editing
  <2>2. CASE Exists
    <3>1. [page[p] EXCEPT !.pc = "record"] \in Dialogs
      BY <1>4, DialogTypes DEF WriteName, Editing, Dialogs
    <3>2. /\ page' \in [Pages -> Dialogs]
          /\ page'[p] = [page[p] EXCEPT !.pc = "record"]
          /\ \A q \in Pages \ {p} : page'[q] = page[q]
      BY <1>4, <2>2, <3>1 DEF WriteName
    <3>3. FormsOffered'
      BY <1>4, <3>2, DialogTypes DEF WriteName, FormsOffered, Editing
    <3> QED
      BY <1>4, <2>1, <2>2, <3>2, <3>3 DEF WriteName, Named, Forms
  <2>3. CASE ~Exists
    BY <1>4, <2>3, FailsOpens DEF WriteName, Editing
  <2> QED
    BY <2>2, <2>3
<1>5. CASE WriteRecord(p)
  <2>1. CASE Exists /\ Placeable(page[p].form.establishment)
    <3>1. student' \in StudentRows
      BY <1>5, <2>1, RecordIsRow DEF WriteRecord, Editing
    <3> QED
      BY <1>5, <2>1, <3>1 DEF WriteRecord, FormsOffered, Editing, Closed, Dialogs
  <2>2. CASE ~(Exists /\ Placeable(page[p].form.establishment))
    BY <1>5, <2>2, FailsOpens DEF WriteRecord, Editing
  <2> QED
    BY <2>1, <2>2
<1>6. CASE RequestLost(p)
  <2>1. faults' \in 0 .. MaxFaults
    BY <1>6, RecordAssumption DEF RequestLost
  <2> QED
    BY <1>6, <2>1, FailsOpens DEF RequestLost
<1> QED
  BY <1>1, <1>2, <1>3, <1>4, <1>5, <1>6 DEF PageStep

LEMMA NextRecordOK == RecordOK /\ [Next]_vars => RecordOK'
<1> SUFFICES ASSUME RecordOK, [Next]_vars PROVE RecordOK'
  OBVIOUS
<1> USE DEF RecordOK, TypeOK, FormsOffered, Editing
<1>1. ASSUME NEW p \in Pages, PageStep(p) PROVE RecordOK'
  BY <1>1, PageRecordOK
<1>2. ASSUME NEW c \in Courses, NEW e \in living, NEW n \in PersonNames, Enroll(c, e, n)
      PROVE  RecordOK'
  BY <1>2 DEF Enroll, StudentRows, Hours
<1>3. ASSUME NEW e \in Establishments, Raze(e) PROVE RecordOK'
  <2>1. Unplaced(e) \in StudentRows \cup {Absent, Deleted}
    BY ExistingRow DEF Unplaced, StudentRows
  <2> QED
    BY <1>3, <2>1 DEF Raze
<1>4. CASE Remove
  BY <1>4 DEF Remove
<1>5. CASE UNCHANGED vars
  BY <1>5 DEF vars
<1> QED
  BY <1>1, <1>2, <1>3, <1>4, <1>5 DEF Next

LEMMA SpecRecordOK == Spec => []RecordOK
BY InitRecordOK, NextRecordOK, PTL DEF Spec

\* Rows, dialogs and requests always have their types: the hours that are stored
\* are those of some course, or were typed by hand.
THEOREM TypeCorrect == Spec => []TypeOK
<1>1. RecordOK => TypeOK
  BY DEF RecordOK
<1> QED
  BY <1>1, SpecRecordOK, PTL

-----------------------------------------------------------------------------
\* The steps, as far as the student's row and name are concerned.

\* A step writes the row from a form, changes nothing that the properties below
\* speak of, or is one of the steps listed.
LEMMA Steps ==
  ASSUME RecordOK, [Next]_vars
  PROVE  \/ \E p \in Pages :
              /\ WriteRecord(p) /\ Exists /\ Placeable(page[p].form.establishment)
              /\ student' = Record(page[p].form, page[p].read) /\ page'[p] = Closed
         \/ \E c \in Courses, e \in living, n \in PersonNames : Enroll(c, e, n)
         \/ \E e \in Establishments : Raze(e)
         \/ Remove
         \/ UNCHANGED <<student, living>>
<1>1. ASSUME NEW p \in Pages, WriteRecord(p)
      PROVE  \/ /\ Exists /\ Placeable(page[p].form.establishment)
                /\ student' = Record(page[p].form, page[p].read) /\ page'[p] = Closed
             \/ UNCHANGED <<student, living>>
  BY <1>1 DEF WriteRecord, RecordOK, TypeOK
<1>2. ASSUME NEW p \in Pages, PageStep(p), ~WriteRecord(p)
      PROVE  UNCHANGED <<student, living>>
  BY <1>2 DEF PageStep, OpenDialog, CloseDialog, Submit, WriteName, RequestLost
<1> QED
  BY <1>1, <1>2 DEF Next, vars

-----------------------------------------------------------------------------
\* Placements.

LEMMA NextPlacedAlive == RecordOK /\ PlacedAlive /\ [Next]_vars => PlacedAlive'
<1> SUFFICES ASSUME RecordOK, PlacedAlive, [Next]_vars PROVE PlacedAlive'
  OBVIOUS
<1>1. ASSUME NEW p \in Pages, WriteRecord(p), Exists, Placeable(page[p].form.establishment),
             student' = Record(page[p].form, page[p].read)
      PROVE  PlacedAlive'
  <2>1. student'.establishment = page[p].form.establishment
    BY <1>1, RecordIsRow DEF WriteRecord, Editing
  <2> QED
    BY <1>1, <2>1 DEF WriteRecord, Placeable, PlacedAlive
<1>2. ASSUME NEW c \in Courses, NEW e \in living, NEW n \in PersonNames, Enroll(c, e, n)
      PROVE  PlacedAlive'
  BY <1>2 DEF Enroll, PlacedAlive
<1>3. ASSUME NEW e \in Establishments, Raze(e) PROVE PlacedAlive'
  <2>1. Exists => Unplaced(e).establishment \in (living \ {e}) \cup {NoEstablishment}
    BY ExistingRow DEF RecordOK, PlacedAlive, Unplaced, StudentRows
  <2>2. ~Exists => student' = student
    BY <1>3 DEF Raze, Unplaced
  <2> QED
    BY <1>3, <2>1, <2>2 DEF Raze, PlacedAlive, Exists
<1>4. CASE Remove
  BY <1>4 DEF Remove, PlacedAlive, Exists
<1>5. CASE UNCHANGED <<student, living>>
  BY <1>5 DEF PlacedAlive, Exists
<1> QED
  BY <1>1, <1>2, <1>3, <1>4, <1>5, Steps

\* The student is never placed at an establishment that is gone, with any number
\* of pages and dialogs of any age (EstablishmentService.remove).
THEOREM StudentPlaced == Spec => []PlacedAlive
<1>1. Init => PlacedAlive
  BY DEF Init, PlacedAlive, Exists, StudentRows
<1> QED
  BY <1>1, SpecRecordOK, NextPlacedAlive, PTL DEF Spec

-----------------------------------------------------------------------------
\* Hours.

\* While a request is at work the course is the one that it has read.
CourseKept ==
  \A p \in Pages : Editing(p) =>
    /\ student # Absent
    /\ Exists => page[p].read.course = student.course

HoursTrue == HoursFollow /\ CourseKept

LEMMA NextCourseKept ==
  RecordOK /\ CourseKept /\ EditsTakeTurns /\ [Next]_vars => CourseKept'
<1> SUFFICES ASSUME RecordOK, CourseKept, EditsTakeTurns, [Next]_vars,
                    NEW p \in Pages, Editing(p)'
             PROVE  /\ student' # Absent
                    /\ Exists' => page'[p].read.course = student'.course
  BY DEF CourseKept
<1>1. ASSUME NEW q \in Pages, PageStep(q), q # p
      PROVE  student' = student /\ page'[p] = page[p] /\ Editing(p)
  <2>1. page'[p] = page[p] /\ Editing(p)
    BY <1>1, PageAlone DEF RecordOK, Editing
  <2>2. ~Editing(q)
    BY <1>1, <2>1 DEF EditsTakeTurns
  <2> QED
    BY <1>1, <2>1, <2>2
       DEF PageStep, OpenDialog, CloseDialog, Submit, WriteName, WriteRecord, RequestLost, Editing
<1>2. CASE PageStep(p)
  <2>1. ASSUME NEW f \in Forms, Submit(p, f)
        PROVE  student' = student /\ Exists /\ page'[p].read.course = student.course
    BY <2>1 DEF Submit, AsRead, RecordOK, TypeOK
  <2>2. CASE WriteName(p)
    <3>1. Exists
      BY <2>2, FailsOpens DEF WriteName, Editing
    <3>2. page'[p] = [page[p] EXCEPT !.pc = "record"]
      BY <2>2, <3>1 DEF WriteName, RecordOK, TypeOK
    <3>3. page'[p].read = page[p].read
      BY <2>2, <3>2, DialogTypes DEF WriteName, Editing, RecordOK
    <3> QED
      BY <2>2, <3>1, <3>3 DEF WriteName, CourseKept, Editing, Exists
  <2>3. ~OpenDialog(p) /\ ~CloseDialog(p) /\ ~WriteRecord(p) /\ ~RequestLost(p)
    <3>1. Editing(p) /\ Fails(p) => FALSE
      BY FailsOpens DEF Editing
    <3> QED
      BY <3>1 DEF OpenDialog, CloseDialog, WriteRecord, RequestLost, Editing, Closed,
                  RecordOK, TypeOK
  <2> QED
    BY <1>2, <2>1, <2>2, <2>3 DEF PageStep, Exists
<1>3. CASE \A q \in Pages : ~PageStep(q)
  <2>1. UNCHANGED page /\ Editing(p)
    BY <1>3 DEF Next, Enroll, Raze, Remove, vars, Editing
  <2>2. \A c \in Courses, e \in living, n \in PersonNames : ~Enroll(c, e, n)
    BY <2>1 DEF CourseKept, Enroll
  <2>3. Remove => student' # Absent
    BY RecordAssumption DEF Remove
  <2>4. ASSUME NEW e \in Establishments, Raze(e), Exists
        PROVE  student' # Absent /\ student'.course = student.course
    <3>1. Unplaced(e) \in StudentRows /\ Unplaced(e).course = student.course
      BY <2>4, ExistingRow DEF Unplaced, RecordOK, StudentRows
    <3> QED
      BY <2>4, <3>1, RecordAssumption DEF Raze
  <2>5. ASSUME NEW e \in Establishments, Raze(e), ~Exists
        PROVE  student' = student
    BY <2>5 DEF Raze, Unplaced
  <2>6. /\ student' # Absent
        /\ Exists' => student'.course = student.course /\ Exists
    <3>1. CASE UNCHANGED student
      BY <2>1, <3>1 DEF CourseKept, Exists
    <3>2. ASSUME NEW e \in Establishments, Raze(e)
          PROVE  /\ student' # Absent
                 /\ Exists' => student'.course = student.course /\ Exists
      <4>1. CASE Exists
        BY <2>4, <3>2, <4>1
      <4>2. CASE ~Exists
        BY <2>5, <3>1, <3>2, <4>2
      <4> QED
        BY <4>1, <4>2
    <3>3. CASE Remove
      BY <2>3, <3>3 DEF Remove, Exists
    <3> QED
      BY <1>3, <2>2, <3>1, <3>2, <3>3 DEF Next, vars
  <2> QED
    <3>1. page'[p].read = page[p].read
      BY <2>1
    <3>2. Exists => page[p].read.course = student.course
      BY <2>1 DEF CourseKept
    <3> QED
      BY <2>6, <3>1, <3>2
<1> QED
  BY <1>1, <1>2, <1>3 DEF CourseKept, Exists

LEMMA NextHoursTrue ==
  RecordOK /\ HoursTrue /\ EditsTakeTurns /\ [Next]_vars => HoursTrue'
<1> SUFFICES ASSUME RecordOK, HoursTrue, EditsTakeTurns, [Next]_vars PROVE HoursFollow'
  BY NextCourseKept DEF HoursTrue
<1>1. ASSUME NEW p \in Pages, WriteRecord(p), Exists,
             student' = Record(page[p].form, page[p].read)
      PROVE  HoursFollow'
  <2>1. /\ student'.hours = Derived(page[p].form, page[p].read)
        /\ student'.course = page[p].form.course
    BY <1>1, RecordIsRow DEF WriteRecord, Editing
  <2>2. page[p].read.course = student.course
    BY <1>1 DEF WriteRecord, HoursTrue, CourseKept, Editing
  <2>3. CASE page[p].form.course = student.course
    BY <1>1, <2>1, <2>2, <2>3 DEF Derived, HoursTrue, HoursFollow
  <2>4. CASE page[p].form.course # student.course
    <3>1. page[p].form.course \in Courses
      BY <1>1, <2>2, <2>4 DEF WriteRecord, Editing, RecordOK, FormsOffered
    <3> QED
      BY <2>1, <2>2, <2>4, <3>1 DEF Derived, HoursFollow
  <2> QED
    BY <2>3, <2>4
<1>2. ASSUME NEW c \in Courses, NEW e \in living, NEW n \in PersonNames, Enroll(c, e, n)
      PROVE  HoursFollow'
  BY <1>2 DEF Enroll, HoursFollow
<1>3. ASSUME NEW e \in Establishments, Raze(e) PROVE HoursFollow'
  <2>1. Exists => /\ Unplaced(e).course = student.course
                  /\ Unplaced(e).hours = student.hours
    BY ExistingRow DEF RecordOK, Unplaced, StudentRows
  <2>2. ~Exists => student' = student
    BY <1>3 DEF Raze, Unplaced
  <2> QED
    BY <1>3, <2>1, <2>2 DEF Raze, HoursTrue, HoursFollow, Exists
<1>4. CASE Remove
  BY <1>4 DEF Remove, HoursFollow, Exists
<1>5. CASE UNCHANGED <<student, living>>
  BY <1>5 DEF HoursTrue, HoursFollow, Exists
<1> QED
  BY <1>1, <1>2, <1>3, <1>4, <1>5, Steps

\* "The required hours follow from the course" as long as edits of the student
\* take turns at the server, with any number of pages and lost requests.
THEOREM HoursFollowCourse == Spec => TurnsKeepHours
<1>1. Init => HoursTrue
  <2> SUFFICES ASSUME Init PROVE HoursTrue
    OBVIOUS
  <2>1. HoursFollow
    BY DEF Init, HoursFollow, Exists
  <2>2. CourseKept
    BY DEF Init, CourseKept, Editing, Closed
  <2> QED
    BY <2>1, <2>2 DEF HoursTrue
<1>2. HoursTrue => HoursFollow
  BY DEF HoursTrue
<1> QED
  BY <1>1, <1>2, SpecRecordOK, NextHoursTrue, PTL DEF Spec, TurnsKeepHours

-----------------------------------------------------------------------------
\* Names.

\* Between the two writes of an edit the User row is one ahead ...
NameAhead ==
  \A p \in Pages : page[p].pc = "record" =>
    student # Absent /\ (Exists => account = page[p].form.name)

\* ... and otherwise the two agree.
NameSettled == Exists /\ (\A p \in Pages : page[p].pc # "record") => account = student.name

NamesTrue == NameAhead /\ NameSettled

Orderly == EditsTakeTurns /\ ~HalfDone

LEMMA PageNamesTrue ==
  ASSUME RecordOK, NamesTrue, Orderly, ~HalfDone', NEW p \in Pages, PageStep(p)
  PROVE  NamesTrue'
<1>1. \A q \in Pages \ {p} : page'[q] = page[q]
  BY PageAlone DEF RecordOK
<1>2. CASE WriteName(p)
  <2>1. \A q \in Pages \ {p} : page[q].pc # "record"
    BY <1>2 DEF WriteName, Orderly, EditsTakeTurns, Editing
  <2>2. CASE Exists
    <3>1. /\ page'[p].pc = "record" /\ page'[p].form = page[p].form
          /\ account' = page[p].form.name
      BY <1>2, <2>2, DialogTypes DEF WriteName, Named, Editing, RecordOK, TypeOK
    <3> QED
      BY <1>1, <1>2, <2>1, <2>2, <3>1
         DEF WriteName, NamesTrue, NameAhead, NameSettled, Exists
  <2>3. CASE ~Exists
    <3>1. page'[p].pc = "open"
      BY <1>2, <2>3, FailsOpens DEF WriteName, Editing
    <3> QED
      BY <1>1, <1>2, <2>1, <2>3, <3>1
         DEF WriteName, NamesTrue, NameAhead, NameSettled, Exists
  <2> QED
    BY <2>2, <2>3
<1>3. CASE WriteRecord(p)
  <2>1. \A q \in Pages \ {p} : page[q].pc # "record"
    BY <1>3 DEF WriteRecord, Orderly, EditsTakeTurns, Editing
  <2>2. Placeable(page[p].form.establishment)
    BY <1>3 DEF WriteRecord, Orderly, HalfDone
  <2>3. CASE Exists
    <3>1. /\ student'.name = page[p].form.name /\ account' = account
          /\ page'[p].pc = "closed"
      BY <1>3, <2>2, <2>3, RecordIsRow DEF WriteRecord, Closed, Editing, RecordOK, TypeOK
    <3> QED
      BY <1>1, <1>3, <2>1, <2>3, <3>1
         DEF WriteRecord, NamesTrue, NameAhead, NameSettled, Exists
  <2>4. CASE ~Exists
    <3>1. page'[p].pc = "open"
      BY <1>3, <2>4, FailsOpens DEF WriteRecord, Editing
    <3> QED
      BY <1>1, <1>3, <2>1, <2>4, <3>1
         DEF WriteRecord, NamesTrue, NameAhead, NameSettled, Exists
  <2> QED
    BY <2>3, <2>4
<1>4. ~RequestLost(p)
  BY RecordAssumption DEF RequestLost, HalfDone, RecordOK, TypeOK
<1>5. CASE OpenDialog(p) \/ CloseDialog(p) \/ \E f \in Forms : Submit(p, f)
  <2>1. UNCHANGED <<student, account>> /\ page[p].pc # "record" /\ page'[p].pc # "record"
    BY <1>5 DEF OpenDialog, CloseDialog, Submit, Closed, RecordOK, TypeOK
  <2> QED
    BY <1>1, <2>1 DEF NamesTrue, NameAhead, NameSettled, Exists
<1> QED
  BY <1>2, <1>3, <1>4, <1>5 DEF PageStep

LEMMA NextNamesTrue ==
  RecordOK /\ NamesTrue /\ Orderly /\ ~HalfDone' /\ [Next]_vars => NamesTrue'
<1> SUFFICES ASSUME RecordOK, NamesTrue, Orderly, ~HalfDone', [Next]_vars PROVE NamesTrue'
  OBVIOUS
<1>1. ASSUME NEW p \in Pages, PageStep(p) PROVE NamesTrue'
  BY <1>1, PageNamesTrue
<1>2. ASSUME NEW c \in Courses, NEW e \in living, NEW n \in PersonNames, Enroll(c, e, n)
      PROVE  NamesTrue'
  BY <1>2 DEF Enroll, NamesTrue, NameAhead, NameSettled
<1>3. ASSUME NEW e \in Establishments, Raze(e) PROVE NamesTrue'
  <2>1. Exists => Unplaced(e) \in StudentRows /\ Unplaced(e).name = student.name
    BY ExistingRow DEF RecordOK, Unplaced, StudentRows
  <2>2. ~Exists => student' = student
    BY <1>3 DEF Raze, Unplaced
  <2> QED
    BY <1>3, <2>1, <2>2, RecordAssumption DEF Raze, NamesTrue, NameAhead, NameSettled, Exists
<1>4. CASE Remove
  BY <1>4, RecordAssumption DEF Remove, NamesTrue, NameAhead, NameSettled, Exists
<1>5. CASE UNCHANGED vars
  BY <1>5 DEF vars, NamesTrue, NameAhead, NameSettled, Exists
<1> QED
  BY <1>1, <1>2, <1>3, <1>4, <1>5 DEF Next

\* The two copies of a name agree whenever no edit is at work, as long as edits
\* take turns and none stops between its two writes (updateStudent).
THEOREM NamesStayAgreed == Spec => TurnsKeepNames
<1>1. Init => NamesTrue
  BY DEF Init, NamesTrue, NameAhead, NameSettled, Exists, Closed
<1>2. NamesTrue => NamesAgree
  BY DEF NamesTrue, NameSettled, NamesAgree, Editing
<1>3. EditsTakeTurns /\ ~HalfDone => Orderly
  BY DEF Orderly
<1> QED
  BY <1>1, <1>2, <1>3, SpecRecordOK, NextNamesTrue, PTL DEF Spec, TurnsKeepNames

=============================================================================
