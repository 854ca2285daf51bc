\* A student and a supervisor, who watches; pages of one message.
SPECIFICATION Spec
CONSTANTS
  Students = {s1}
  Supervisors = {v1}
  Coordinators = {}
  Place <- Together
  NoPlace = nowhere
  Conversations = {c1, c2}
  MaxCreating = 1
  Watchers = {v1}
  Watched = {c1}
  Page = 1
  Ms <- MCMs
  MaxTime = 4
  MaxMessages <- MCMaxMessages
  Absent = absent
INVARIANTS OlderPageApart
PROPERTIES TurnsOnePerPair TurnsReadWasShown TurnsNoHole TurnsNothingHidden
CHECK_DEADLOCK FALSE
