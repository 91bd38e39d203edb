SPECIFICATION Spec
CONSTANTS
  a = a
  g = g
  q1 = q1
  ns = ns
  me = me
  o = o
  NoId = NoId
  Queries = {q1}
  Counts = {}
  NsOf <- MCNsOf
  Paths = {1, 2}
  Patterns = {a, g}
  Globs = {g}
  Covers <- MCCovers
  Me = me
  Others = {o}
  MaxVer = 1
  MaxOps = 2
  OtherTargets = {a}
  MaxTargets = 2
  MaxConns = 2
INVARIANTS TypeOK InStep SentOnce IdsSurviveBundle
CHECK_DEADLOCK FALSE
