CONSTANTS
  Qos = qos
  Listener = {l1, l2}
  Admin = {a1}
  Address = {x1, x2}
  RID = {k1}
  ObjectId = {o1}
  MaxObjects = 1
  Messages = {"UPDATE", "INIT", "RM", "OBJECT"}
  Commands = {}
  NoThread = NoThread
  NoRobot = NoRobot
  Freed = Freed
SPECIFICATION FairSpec
INVARIANTS  Balanced NoCircularWait
PROPERTIES CleanupCompletes RoundCompletes
