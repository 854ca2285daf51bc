\* Two establishments, two supervisors, two requests at once.
SPECIFICATION Spec
CONSTANTS
  Establishments = {e1, e2}
  Supervisors = {s1, s2}
  Requests = {r1, r2}
  Same = same
  Absent = absent
  Deleted = deleted
  nameA = nameA
  nameB = nameB
  branchX = branchX
  noKey = noKey
  Names <- MCNames
  Branches <- MCBranches
  NoBranch <- MCNoBranch
PROPERTIES LabelsStayApart RefinesRegistry
CHECK_DEADLOCK FALSE
