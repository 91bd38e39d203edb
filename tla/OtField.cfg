SPECIFICATION Spec
CONSTANTS
  a = a
  b = b
  l = l
  Clients = {a, b, l}
  Present = {a, b}
  Typists = {a, b}
  Owner = a
  InitText <- OneChar
  MaxOps = 3
INVARIANTS LocalView NeverThrows Settled
CHECK_DEADLOCK FALSE
