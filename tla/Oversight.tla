----------------------------- MODULE Oversight ------------------------------
(***************************************************************************)
(* What the pages of the three roles say of a student's attendance: the    *)
(* coordinator's oversight, all-time or of a month, the Daily Time Record  *)
(* of a month, and the hours in every list.                                *)
(*                                                                         *)
(* Nothing here changes a row.  Each figure is computed from the rows of   *)
(* Attendance as one read finds them, at any point of its behaviours.      *)
(***************************************************************************)
EXTENDS Attendance, FiniteSets

CONSTANTS
  MonthLength,   \* days in a calendar month, 28 to 31 in the code
  AllTime        \* no month: the window of the oversight without a filter

ASSUME MonthAssumption ==
  /\ MonthLength \in Nat \ {0}
  /\ AllTime \notin Nat

\* parseMonth: the first and the last day of a month.
FirstDay(month) == month * MonthLength

LastDay(month) == (month + 1) * MonthLength - 1

Months == {m \in 0 .. MaxClock : \E d \in Days : d \in FirstDay(m) .. LastDay(m)}

-----------------------------------------------------------------------------
\* getAttendanceOversight: from the later of the month's start and the student's
\* start date to the earlier of the month's end and today.

WindowStart(month) ==
  IF month # AllTime /\ student.start < FirstDay(month) THEN FirstDay(month)
  ELSE student.start

BrokenWindowEnd(month) ==   \* takes the end for an exclusive bound
  IF month # AllTime /\ LastDay(month) < Today THEN LastDay(month) - 1 ELSE Today
WindowEnd(month) ==
  IF month # AllTime /\ LastDay(month) < Today THEN LastDay(month) ELSE Today

BrokenPresentDays(month) ==   \* counts what was logged before the start date
  {d \in Days : HasApprovedSession(punches[d]) /\ d <= WindowEnd(month)}
PresentDays(month) ==
  {d \in Days : /\ HasApprovedSession(punches[d])
                /\ WindowStart(month) <= d /\ d <= WindowEnd(month)}

TotalDays(month) ==
  IF WindowStart(month) <= WindowEnd(month)
  THEN WindowEnd(month) - WindowStart(month) + 1 ELSE 0

HoursOn(days) == TotalApproved([d \in days |-> punches[d]])

\* The days that the DTR of a month prints.
DtrDays(month) == {d \in Days : d \in FirstDay(month) .. LastDay(month)}

-----------------------------------------------------------------------------
\* Properties.

\* Nobody is present on more days than the window has, so no percentage is over
\* 100 and none is computed out of nothing: whatever the start date is moved to
\* after he has punched, and whatever day a punch over midnight lands on
\* (getAttendanceOversight).
PercentageFits ==
  \A month \in Months \cup {AllTime} : Cardinality(PresentDays(month)) <= TotalDays(month)

\* The pages agree.  The months of the oversight divide its all-time days; their
\* hours and those of the DTRs add up, but for the rounding of each figure, to
\* the all-time hours and to the hours in the lists; and the oversight is behind
\* the lists only by days before the start date (getAttendanceOversight,
\* buildDtrData, listStudents).
MonthsAddUp ==
  LET sum(f(_)) == SumFunction([m \in Months |-> f(m)])
      near(a, b) == 2 * (a - b) \in -(Cardinality(Months) + 1) .. Cardinality(Months) + 1
      before     == {d \in Days : d < student.start}
      oversight(month) == HoursOn(PresentDays(month))
      dtr(month)       == HoursOn(DtrDays(month))
  IN  /\ UNION {PresentDays(m) : m \in Months} = PresentDays(AllTime)
      /\ near(sum(oversight), oversight(AllTime))
      /\ near(sum(dtr), Hours)
      /\ 2 * (Hours - oversight(AllTime) - HoursOn(before)) \in -3 .. 3

=============================================================================
