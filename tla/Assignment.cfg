CONSTANTS
  Robot = {x1, x2, x3}
  MaxRobots = 3
  NumObjects = 2
  Demands = {0, 1}
  Points <- Crossings
  Cameras = {0, 1}
  Unit = 12
  NULL = NULL
SPECIFICATION FairSpec
CHECK_DEADLOCK FALSE
INVARIANTS Matching NoBetterRobot BestView
PROPERTY Terminates
