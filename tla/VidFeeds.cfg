CONSTANTS
  Url = {u1, u2}
  Stump = stump
  MaxEvents = 3
  Faults = {"loss", "tear", "sigterm"}
SPECIFICATION FairSpec
CHECK_DEADLOCK FALSE
INVARIANTS TypeOK OneFeed  
 
