SPECIFICATION RosterSpec
CONSTANTS
  r1 = r1
  r2 = r2
  None = None
  Robot <- TheRobots
PROPERTIES  RemovalCompletes 
CHECK_DEADLOCK FALSE
