SPECIFICATION FairSpec
CONSTANTS
  Null = Null
  o1 = o1
  o2 = o2
  f1 = f1
  f2 = f2
  d1 = d1
  d2 = d2
  Docs = {d1, d2}
  Own = {o1}
  Others = {f1, f2}
  DocOf <- PlacementShort
  MaxConns = 3
  MaxResends = 1
  Reconnects = "forgotten"
INVARIANT OnceMeansSynced
PROPERTY Converges
CHECK_DEADLOCK FALSE
