SPECIFICATION Spec
CONSTANTS
  c1 = c1
  c2 = c2
  n1 = n1
  store = store
  d1 = d1
  d2 = d2
  q1 = q1
  Clients = {c1, c2}
  Models = {n1}
  Store = store
  Docs = {d1, d2}
  PathSubs <- AllByPath
  QueryOrder <- OneQuery
  QuerySubs <- FirstByQuery
  MaxTxns = 3
  MaxInFlight = 3
  MayFail = TRUE
INVARIANTS
  EmittedInOrder
  EmittedWereStored
  HeadUnfinished
  WritesInOrder
  LocksHeld
CHECK_DEADLOCK FALSE
