SPECIFICATION Spec
CONSTANTS
  m1 = m1
  c1 = c1
  c2 = c2
  p1 = p1
  p2 = p2
  Paths = {p1, p2}
  Models = {m1}
  Callers = {c1, c2}
  Absent = Absent
  None = None
  ModelPaths = {p1}
  Kinds = {"incr", "setNull", "add"}
  VersionRead = TRUE
  MaxRetries = 2
  MaxTxns = 2
  MaxResends = 1
  MaxFlushes = 1
SYMMETRY Symmetry
INVARIANTS TypeOK NoLostUpdate OneVerdict
CHECK_DEADLOCK FALSE
