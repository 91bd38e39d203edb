SPECIFICATION FairSpec
CONSTANTS
  c1 = c1
  c2 = c2
  n1 = n1
  store = store
  d1 = d1
  d2 = d2
  q1 = q1
  Clients = {c1, c2}
  Models = {n1}
  Store = store
  Docs = {d1}
  PathSubs <- AllByPath
  QueryOrder <- OneQuery
  QuerySubs <- FirstByQuery
  MaxTxns = 3
  MaxInFlight = 3
  MayFail = FALSE
INVARIANTS
  BroadcastToAll
PROPERTIES
  AllEmitted
  ModelsFinish
CHECK_DEADLOCK FALSE
