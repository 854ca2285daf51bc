\* Two requests of editors and one of a supervisor at a time.
SPECIFICATION Spec
CONSTANTS
  Templates = {t1, t2, t3}
  Items = {i1, i2}
  Evaluations = {e1}
  Edits = {c1, c2}
  Ratings = {r1}
  NoTemplate = none
  MaxScore = 2
SYMMETRY Symmetry
INVARIANTS CalmOneOfEach RatingsFit SheetKept
PROPERTIES CalmImmutable RefinesHistory
