\* Two tabs of one browser, two roles.
SPECIFICATION FairSpec
CONSTANTS
  Tabs = {t1, t2}
  Students = {s1}
  Supervisors = {}
  Coordinators = {c1}
  MaxTokens = 2
  Used = {t1}
  NoOne = nobody
PROPERTIES LoginReached ChangeAsked TurnsForcedRight TurnsSessionSteady
CHECK_DEADLOCK FALSE
