SPECIFICATION Spec
CONSTANTS
  Ids = {1, 2}
  MaxKey = 2
  Bounds = {1, 2}
  Limits = {0, 1}
  NoOverlay = NoOverlay
  MaxPending = 2
INVARIANTS TypeOK ResultIsQuery InOrder
CHECK_DEADLOCK FALSE
