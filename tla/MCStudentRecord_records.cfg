\* Two pages edit one student, who may be removed or lose the establishment.
SPECIFICATION Spec
CONSTANTS
  act = act
  bsit = bsit
  Courses = {act, bsit}
  HoursOf <- MCHoursOf
  OldCourse = oldCourse
  OldHours = {4}
  Establishments = {e1}
  NoEstablishment = noEstablishment
  PersonNames = {n1, n2}
  Pages = {p1, p2}
  Absent = absent
  Deleted = deleted
  MaxFaults = 1
INVARIANTS PlacedAlive
PROPERTIES TurnsKeepHours TurnsKeepNames ShownIsStored
CHECK_DEADLOCK FALSE
