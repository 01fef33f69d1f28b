CONSTANTS
  Qos = qos
  Listener = {l1, l2}
  Admin = {a1}
  Address = {x1}
  RID = {k1}
  ObjectId = {o1}
  MaxObjects = 1
  Messages = {"INIT", "RM"}
  Commands = {"DEL_OBJ"}
  NoThread = NoThread
  NoRobot = NoRobot
  Freed = Freed
SPECIFICATION FairSpec
CHECK_DEADLOCK FALSE
PROPERTY DeletionSent
