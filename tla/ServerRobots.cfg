CONSTANTS
  Qos = qos
  Listener = {l1, l2}
  Admin = {a1}
  Address = {x1, x2}
  RID = {k1}
  ObjectId = {o1}
  MaxObjects = 1
  Messages = {"OBJECT"}
  Commands = {"FWD", "RLS_RBT", "DEL_OBJ"}
  NoThread = NoThread
  NoRobot = NoRobot
  Freed = Freed
SPECIFICATION Spec
SYMMETRY Interchangeable
CHECK_DEADLOCK FALSE
INVARIANTS TypeOK RobotsLive SubjectLive RoundStable
PROPERTIES StableIteration ObjectsStable
