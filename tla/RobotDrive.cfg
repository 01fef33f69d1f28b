CONSTANTS
  XMax = 1
  YMax = 1
  BoxSize = 2
  Orders = {"forward", "target", "pan", "other"}
  Targets <- MCTargets
  MaxOrders = 3
  Room <- MCRoom
SPECIFICATION Spec
CHECK_DEADLOCK FALSE
INVARIANTS TypeOK SettledAgree OnePan
