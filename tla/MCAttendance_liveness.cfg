\* Two concurrent decisions and a hand edit around the requirement; hours are
\* rounded; every request ends.
SPECIFICATION FairSpec
CONSTANTS
  TicksPerCent = 2
  Requests = {r1}
  Decisions = {d1, d2}
  Establishments = {e1}
  NoOne = none
  NoTx = notx
  CourseHours = {1}
  StartDays = {0}
  HandStatuses = {"ACTIVE"}
  Remarks = {}
  Tried = {"TIME_IN_AM", "TIME_OUT_AM"}
  DayLength = 100
  MaxClock = 2
  OnePunchAtATime = TRUE
  MonthLength = 1
  AllTime = allTime
PROPERTIES AutoCompletion RefinesTimeCard RequestsEnd
