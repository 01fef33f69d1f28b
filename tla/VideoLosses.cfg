CONSTANTS
  IoThread = {worker}
  Writer = {w1}
  Greeter = greeter
  MaxMessages = 2
  MaxConns = 2
  MayLose = TRUE
  MayShutdown = TRUE
SPECIFICATION Spec
CHECK_DEADLOCK FALSE
INVARIANTS TypeOK  
 
