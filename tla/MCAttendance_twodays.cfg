\* Two days in two months, a punch over midnight, a start date that moves; rounded hours.
SPECIFICATION Spec
CONSTANTS
  TicksPerCent = 2
  Requests = {r1}
  Decisions = {d1}
  Establishments = {e1}
  NoOne = none
  NoTx = notx
  CourseHours = {0}
  StartDays = {0, 1}
  HandStatuses = {}
  Remarks = {}
  Tried = {"TIME_IN_AM", "TIME_OUT_AM"}
  DayLength = 2
  MaxClock = 3
  OnePunchAtATime = TRUE
  MonthLength = 1
  AllTime = allTime
INVARIANTS PendingPromise PercentageFits MonthsAddUp
