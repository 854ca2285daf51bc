\* One student, one day, one punch in flight; every order of decisions.
SPECIFICATION Spec
CONSTANTS
  TicksPerCent = 1
  Requests = {r1}
  Decisions = {d1}
  Establishments = {e1}
  NoOne = none
  NoTx = notx
  CourseHours = {0}
  StartDays = {0}
  HandStatuses = {}
  Remarks = {"noted"}
  Tried = {"TIME_IN_AM", "TIME_OUT_AM", "TIME_IN_PM", "TIME_OUT_PM"}
  DayLength = 100
  MaxClock = 2
  OnePunchAtATime = TRUE
  MonthLength = 1
  AllTime = allTime
INVARIANTS SequentialSessions HoursFitTheDay
