\* Two requests on two accounts, one of them perhaps an old one.
SPECIFICATION Spec
CONSTANTS
  Users = {u1, u2}
  Requests = {r1, r2}
  Attempts = 2
  MaxIssued = 3
  MaxFaults = 1
  Absent = absent
INVARIANTS NamesApart RefusedOnlyAfter PlainOnlyAfterChange
PROPERTIES TurnsMailTrue TurnsChangeProved
CHECK_DEADLOCK FALSE
