\* One tab; a current password may be mistyped.
SPECIFICATION Spec
CONSTANTS
  Tabs = {t1}
  Students = {s1}
  Supervisors = {}
  Coordinators = {}
  MaxTokens = 2
  Used = {t1}
  NoOne = nobody
PROPERTIES OnlyWaysOut
CHECK_DEADLOCK FALSE
