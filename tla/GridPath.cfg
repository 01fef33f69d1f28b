CONSTANTS
  XMax = 5
  YMax = 4
  Starts <- MCStarts
SPECIFICATION FairSpec
CHECK_DEADLOCK FALSE
INVARIANT Shortest
PROPERTIES Advances Returns
