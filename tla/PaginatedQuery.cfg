SPECIFICATION PageSpec
CONSTANTS
  NumDocs = 4
  NumKeys = 5
  Skips = {0, 1}
  Limit = 2
  Nothing = Nothing
  NoCache = NoCache
  MaxLapsed = 2
INVARIANTS PageTypeOK PageKept ToldPage
CHECK_DEADLOCK FALSE
