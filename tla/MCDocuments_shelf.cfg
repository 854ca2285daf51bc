\* Two requests at once, with a fault.
SPECIFICATION Spec
CONSTANTS
  Requirements = {q1, q2}
  Documents = {d1, d2}
  Objects = {o1, o2, o3}
  Requests = {r1, r2}
  NoObject = noObject
  NoDocument = noDocument
  NoRequirement = noRequirement
  Faults = {"crash", "storage", "database"}
  MaxFaults = 1
INVARIANTS NeverDangling NothingLeftBehind
PROPERTIES RefinesShelf TurnsLeaveNoOrphans
CHECK_DEADLOCK FALSE
