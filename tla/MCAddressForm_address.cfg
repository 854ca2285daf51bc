\* Two establishments, alike; two submissions; cities that share their name.
SPECIFICATION FormSpec
CONSTANTS
  r1 = r1
  p1 = p1
  c1 = c1
  b1 = b1
  r2 = r2
  p2 = p2
  c2 = c2
  Places <- MCPlaces
  LevelOf <- MCLevelOf
  ParentOf <- MCParentOf
  NameOf <- MCNameOf
  PlaceNames <- MCNames
  NoName = noName
  NoPlace = noPlace
  Rows = {e1, e2}
  Nobody = nobody
  NoRow = noRow
  Before <- MCBefore
  MaxCalls = 2
SYMMETRY MCSymmetry
INVARIANTS AddressNests SentIsShown
CHECK_DEADLOCK FALSE
