SPECIFICATION Spec
CONSTANTS
  Absent = Absent
  NoOverlay = NoOverlay
  d1 = d1
  d2 = d2
  Docs = {d1, d2}
  Vals = {0, 1, 2, 3}
  Unset = 0
  NumQueries = 2
  Accepts <- Overlapping
  InitSubs = {1}
  Kinds <- KindsOf
  OwnKinds <- OwnKindsOf
  MaxTxns = 3
INVARIANT SnapshotConsistent
PROPERTY NeverFlickers
CHECK_DEADLOCK FALSE
