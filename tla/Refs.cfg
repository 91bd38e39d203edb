SPECIFICATION Spec
CONSTANTS
  Ids = {i, j}
  Contents = {c, d}
  Keys = {k1, k2}
  Author = author
  Reader = reader
  Nothing = Nothing
  MaxLen = 2
  MaxHowMany = 2
  MaxOps = 3
  MaxRefs = 2
SYMMETRY Symmetry
INVARIANTS TypeOK Follows FollowsKey NeverDangling
CHECK_DEADLOCK FALSE
