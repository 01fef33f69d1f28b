----------------------------- MODULE ServerCore -----------------------------
(***************************************************************************)
(* The threads of Server/Controller and what they share: the vectors of    *)
(* robots, of objects and of the robots an administrator has taken over    *)
(* (used_robots, inUse in AdminHandler), each guarded by a Vector_ts, and  *)
(* the mutex inside every robot.                                           *)
(*                                                                         *)
(*   Qos        controllerThread: updateCameras, normalize, doQOS          *)
(*   Listener   one per robot controller: onConnect, threaded_listen and   *)
(*              cleanupConn                                                *)
(*   Admin      io threads in AdminHandler::session::read_handler          *)
(*                                                                         *)
(* A step is an access to one lock and the code after it, up to the next   *)
(* access.  A critical section that takes no other lock is one step.       *)
(* Object mutexes are such sections and are left out.  A robot is the      *)
(* address of its Robot object: an address that was freed may be given to  *)
(* a later robot.  A message names one robot or one object.                *)
(***************************************************************************)
EXTENDS Integers, Sequences, FiniteSets, SequencesExt

CONSTANTS Qos,        \* the QoS thread
          Listener,   \* the threads that serve robot controllers
          Admin,      \* the threads that serve administrators
          Address,    \* where Robot objects can be allocated (bounds the robots)
          RID,        \* the ids a controller gives its robots
          ObjectId,   \* the ids of the objects
          MaxObjects, \* how long objects may get (bounds the announcements)
          Messages,   \* the messages robot controllers send
          Commands,   \* the commands administrators send
          NoThread,   \* the holder of a free mutex
          NoRobot,    \* an array entry that was never written
          Freed       \* what is at an address that holds no Robot

Thread == {Qos} \cup Listener \cup Admin

ASSUME ServerAssumption ==
  /\ Qos \notin Listener \cup Admin /\ Listener \cap Admin = {}
  /\ NoThread \notin Thread /\ NoRobot \notin Address
  /\ Freed \notin [conn : Listener, rid : RID]
  /\ IsFiniteSet(Address) /\ MaxObjects \in Nat
  /\ Messages \subseteq {"UPDATE", "INIT", "RM", "OBJECT"}
  /\ Commands \subseteq {"FWD", "RLS_RBT", "DEL_OBJ"}

VARIABLES robots,     \* Vector_ts<Robot*>, the registered robots in order
          inUse,      \* Vector_ts<Robot*>, in which no pointer is twice
          objects,    \* Vector_ts<Object*>, by object id
          ident,      \* the endpoint and RID of the Robot at each address, or Freed
          mutex,      \* the holder of the robotMutex at each address
          robotsLk, inUseLk, objectsLk,   \* the locks of the three vectors
          r,          \* doQOS: the entries written to the array of robots
          rNull,      \* doQOS: the array is the NULL pointer
          at,         \* the position each thread has reached in robots
          job,        \* what each thread is working on
          pc          \* where each thread is

heap  == <<ident, mutex>>
data  == <<robots, inUse, objects>>
locks == <<robotsLk, inUseLk, objectsLk>>
round == <<r, rNull>>
vars  == <<heap, data, locks, round, at, job, pc>>

Robots  == INSTANCE RWLock WITH rw <- robotsLk
InUse   == INSTANCE RWLock WITH rw <- inUseLk
Objects == INSTANCE RWLock WITH rw <- objectsLk

Job(what, key) == [what |-> what, key |-> key]
Idle == Job("none", NoRobot)

Init ==
  /\ ident = [a \in Address |-> Freed]
  /\ mutex = [a \in Address |-> NoThread]
  /\ robots = <<>> /\ inUse = {} /\ objects = <<>>
  /\ robotsLk = Robots!Free /\ inUseLk = InUse!Free /\ objectsLk = Objects!Free
  /\ r = <<>> /\ rNull = FALSE
  /\ at = [t \in Thread |-> 1]
  /\ job = [t \in Thread |-> Idle]
  /\ pc = [t \in Thread |-> IF t \in Listener THEN "off" ELSE "idle"]

Registered == ToSet(robots)

\* Where the registered robots of a connection, or one of them, are.
RobotsOf(l) == {i \in DOMAIN robots : ident[robots[i]] # Freed /\ ident[robots[i]].conn = l}
RobotAt(l, k) == {i \in RobotsOf(l) : ident[robots[i]].rid = k}

\* The search loops of the code stop at the first match.
First(S) == {i \in S : \A j \in S : i <= j}

Erase(vector, found) ==
  \/ found = {} /\ UNCHANGED vector
  \/ \E i \in First(found) : vector' = RemoveAt(vector, i)

\* No process, no step: a crash of one thread ends all of them.
Alive == \A t \in Thread : pc[t] # "crashed"

Goto(t, from, to) ==
  /\ pc[t] = from
  /\ pc' = [pc EXCEPT ![t] = to]

Take(t, j)  == job' = [job EXCEPT ![t] = j]
Finish(t)   == Take(t, Idle)
Advance(t)  == at' = [at EXCEPT ![t] = @ + 1]
Restart(t)  == at' = [at EXCEPT ![t] = 1]

\* What a step on the lock of one vector leaves alone.
RobotsOnly(t)  == UNCHANGED <<heap, data, inUseLk, objectsLk, round>>
ObjectsOnly(t) == UNCHANGED <<heap, data, robotsLk, inUseLk, round>>
InUseOnly(t)   == UNCHANGED <<heap, data, robotsLk, objectsLk, round>>

-----------------------------------------------------------------------------
(* Walks over the robots under the read lock, each robot locked in turn:   *)
(* DbManager::insertCameras and updateCameras.                             *)

CamsRead(t) ==
  /\ Goto(t, "cams", "camsScan")
  /\ Robots!ReadLock(t)
  /\ RobotsOnly(t) /\ UNCHANGED <<at, job>>

CamsVisit(t) ==
  /\ pc[t] = "camsScan" /\ at[t] \in DOMAIN robots
  /\ mutex[robots[at[t]]] = NoThread
  /\ Advance(t)
  /\ UNCHANGED <<heap, data, locks, round, job, pc>>

\* Mutant of CamsDone: the lock of the vector is kept.
CamsDoneKeep(t) ==
  /\ at[t] \notin DOMAIN robots
  /\ Goto(t, "camsScan", CASE t = Qos -> "idle" [] job[t].what = "connect" -> "objects" [] OTHER -> "listen")
  /\ Restart(t)
  /\ UNCHANGED <<heap, data, locks, round, job>>

\* A new connection is sent the objects next; the QoS thread goes on with a
\* round, or sleeps in the five iterations of six whose dbupdate is not 0.
CamsDone(t) ==
  /\ at[t] \notin DOMAIN robots
  /\ \E to \in CASE t = Qos -> {"idle", "objects"}
                 [] job[t].what = "connect" -> {"objects"}
                 [] OTHER -> {"listen"} :
       /\ Goto(t, "camsScan", to)
       /\ IF to = "objects" THEN UNCHANGED job ELSE Finish(t)
  /\ Robots!ReadUnlock(t)
  /\ Restart(t)
  /\ RobotsOnly(t)

\* DataFile::write, normalize and onConnect only read the objects.
ReadObjects(t) ==
  /\ Goto(t, "objects", IF t = Qos THEN "roundObjects" ELSE "listen")
  /\ objectsLk.waiting \cup objectsLk.writing = {}
  /\ Finish(t)
  /\ UNCHANGED <<heap, data, locks, round, at>>

-----------------------------------------------------------------------------
(* The QoS thread: controllerThread and doQOS.                             *)

RoundStart ==
  /\ Goto(Qos, "idle", "cams")
  /\ UNCHANGED <<heap, data, locks, round, at, job>>

RoundObjects ==
  /\ Goto(Qos, "roundObjects", "roundRobots")
  /\ Objects!ReadLock(Qos)
  /\ ObjectsOnly(Qos) /\ UNCHANGED <<at, job>>

\* used_robots is read without its lock, here and in UsedTest.
RoundRobots ==
  /\ Goto(Qos, "roundRobots", "test")
  /\ Robots!ReadLock(Qos)
  /\ rNull' = (Len(robots) - Cardinality(inUse) <= 0)
  /\ UNCHANGED <<heap, data, inUseLk, objectsLk, r, at, job>>

\* The code compares robots->at(i) with robots->at(j), j below the number of
\* used robots: it never looks at which robots are used.
UsedTest(i) ==
  \E j \in 1..Cardinality(inUse) : j \in DOMAIN robots /\ robots[i] = robots[j]

SkipUsed ==
  /\ pc[Qos] = "test" /\ at[Qos] \in DOMAIN robots /\ UsedTest(at[Qos])
  /\ r' = Append(r, NoRobot)
  /\ Advance(Qos)
  /\ UNCHANGED <<heap, data, locks, rNull, job, pc>>

\* r[i] is written before the robot is locked; writing to a NULL array crashes.
AddUnused ==
  /\ at[Qos] \in DOMAIN robots /\ ~UsedTest(at[Qos])
  /\ Goto(Qos, "test", IF rNull THEN "crashed" ELSE "lock")
  /\ r' = IF rNull THEN r ELSE Append(r, robots[at[Qos]])
  /\ UNCHANGED <<heap, data, locks, rNull, at, job>>

LockRobot ==
  /\ Goto(Qos, "lock", "test")
  /\ mutex[r[at[Qos]]] = NoThread
  /\ mutex' = [mutex EXCEPT ![r[at[Qos]]] = Qos]
  /\ Advance(Qos)
  /\ UNCHANGED <<ident, data, locks, round, job>>

AllAdded ==
  /\ at[Qos] \notin DOMAIN robots
  /\ Goto(Qos, "test", "calc")
  /\ Restart(Qos)
  /\ UNCHANGED <<heap, data, locks, round, job>>

\* calcQos, calcAssignments and sendAssignments go through all of r, unless
\* there is no array or no object.  An entry never written is any pointer.
Calc ==
  /\ \E to \in IF ~rNull /\ objects # <<>> /\ NoRobot \in ToSet(r)
               THEN {"unlock", "crashed"} ELSE {"unlock"} :
       Goto(Qos, "calc", to)
  /\ UNCHANGED <<heap, data, locks, round, at, job>>

\* Mutant of UnlockRobot: the loop starts at the second robot.
UnlockRobotLate ==
  /\ pc[Qos] = "unlock" /\ at[Qos] \in DOMAIN robots
  /\ mutex' = IF at[Qos] = 1 THEN mutex ELSE [mutex EXCEPT ![robots[at[Qos]]] = NoThread]
  /\ Advance(Qos)
  /\ UNCHANGED <<ident, data, locks, round, job, pc>>

UnlockRobot ==
  /\ pc[Qos] = "unlock" /\ at[Qos] \in DOMAIN robots
  /\ mutex' = IF UsedTest(at[Qos]) THEN mutex
              ELSE [mutex EXCEPT ![robots[at[Qos]]] = NoThread]
  /\ Advance(Qos)
  /\ UNCHANGED <<ident, data, locks, round, job, pc>>

RoundLeave ==
  /\ at[Qos] \notin DOMAIN robots
  /\ Goto(Qos, "unlock", "roundEnd")
  /\ Robots!ReadUnlock(Qos)
  /\ r' = <<>> /\ rNull' = FALSE
  /\ Restart(Qos)
  /\ UNCHANGED <<heap, data, inUseLk, objectsLk, job>>

RoundEnd ==
  /\ Goto(Qos, "roundEnd", "idle")
  /\ Objects!ReadUnlock(Qos)
  /\ ObjectsOnly(Qos) /\ UNCHANGED <<at, job>>

-----------------------------------------------------------------------------
(* Robot controllers: onConnect, threaded_listen, cleanupConn.             *)

\* Bound: a robot is announced only while there is an address for it.
Announcing == {l \in Listener : job[l].what \in {"connect", "init"} /\ pc[l] \in {"rGate", "rWriting"}}
CanAllocate == Cardinality({a \in Address : ident[a] = Freed}) > Cardinality(Announcing)

\* What a listener wants from the write lock of robots, and where it is then.
Registering(l) ==
  \/ pc[l] = "off" /\ CanAllocate /\ \E k \in RID : Take(l, Job("connect", k))
  \/ pc[l] = "listen" /\ "INIT" \in Messages /\ CanAllocate /\ \E k \in RID : Take(l, Job("init", k))
  \/ pc[l] = "listen" /\ "RM" \in Messages /\ \E k \in RID : Take(l, Job("rm", k))
  \/ pc[l] = "listen" /\ Take(l, Job("cleanup", NoRobot))

LockRobots(l) ==
  /\ Registering(l)
  /\ pc' = [pc EXCEPT ![l] = "rGate"]
  /\ Robots!WriteWait(l)
  /\ RobotsOnly(l) /\ UNCHANGED at

\* A controller whose first RID is negative has no robots yet.
ConnectEmpty(l) ==
  /\ Goto(l, "off", "objects")
  /\ UNCHANGED <<heap, data, locks, round, at, job>>

\* Mutant of EnterRobots: the writer does not wait for the readers to leave.
EnterRobotsEarly(l) ==
  /\ Goto(l, "rGate", "rWriting")
  /\ robotsLk' = [robotsLk EXCEPT !.waiting = {}, !.writing = {l}]
  /\ RobotsOnly(l) /\ UNCHANGED <<at, job>>

EnterRobots(l) ==
  /\ Goto(l, "rGate", "rWriting")
  /\ Robots!WriteEnter(l)
  /\ RobotsOnly(l) /\ UNCHANGED <<at, job>>

\* Mutant of Push: the arguments of the constructor swapped.
PushSwapped(l, a) ==
  /\ ident[a] = Freed
  /\ ident' = [ident EXCEPT ![a] = [conn |-> job[l].key, rid |-> l]]
  /\ mutex' = [mutex EXCEPT ![a] = NoThread]
  /\ robots' = Append(robots, a)

\* new Robot and push_back.
Push(l, a) ==
  /\ ident[a] = Freed
  /\ ident' = [ident EXCEPT ![a] = [conn |-> l, rid |-> job[l].key]]
  /\ mutex' = [mutex EXCEPT ![a] = NoThread]
  /\ robots' = Append(robots, a)

\* Mutant of PushRobot: the cameras are inserted before unlock().
PushRobotKeep(l) ==
  /\ job[l].what = "connect"
  /\ Goto(l, "rWriting", "cams")
  /\ \E a \in Address : Push(l, a)
  /\ UNCHANGED <<inUse, objects, locks, round, at, job>>

\* onConnect pushes what it is told.
PushRobot(l) ==
  /\ job[l].what = "connect"
  /\ Goto(l, "rWriting", "cams")
  /\ \E a \in Address : Push(l, a)
  /\ Robots!WriteUnlock(l)
  /\ UNCHANGED <<inUse, objects, inUseLk, objectsLk, round, at, job>>

\* Mutant of AddRobot: no check for duplicates.
AddRobotAgain(l) ==
  /\ job[l].what = "init"
  /\ Goto(l, "rWriting", "cams")
  /\ \E a \in Address : Push(l, a)
  /\ Robots!WriteUnlock(l)
  /\ UNCHANGED <<inUse, objects, inUseLk, objectsLk, round, at, job>>

\* P_ROBOT_INIT leaves out a robot with the endpoint and RID of a registered one.
AddRobot(l) ==
  /\ job[l].what = "init"
  /\ Goto(l, "rWriting", "cams")
  /\ \/ RobotAt(l, job[l].key) = {} /\ \E a \in Address : Push(l, a)
     \/ RobotAt(l, job[l].key) # {} /\ UNCHANGED <<heap, robots>>
  /\ Robots!WriteUnlock(l)
  /\ UNCHANGED <<inUse, objects, inUseLk, objectsLk, round, at, job>>

\* P_ROBOT_RM erases the pointer and does not delete the robot.
RemoveRobot(l) ==
  /\ job[l].what = "rm"
  /\ Goto(l, "rWriting", "listen")
  /\ Erase(robots, RobotAt(l, job[l].key))
  /\ Robots!WriteUnlock(l) /\ Finish(l)
  /\ UNCHANGED <<heap, inUse, objects, inUseLk, objectsLk, round, at>>

\* Mutant of DeleteRobot: it deletes the robot and leaves its pointer.
DeleteRobotOnly(l) ==
  /\ pc[l] = "rWriting" /\ job[l].what = "cleanup"
  /\ \E i \in First(RobotsOf(l)) :
       /\ mutex[robots[i]] = NoThread
       /\ ident' = [ident EXCEPT ![robots[i]] = Freed]
  /\ UNCHANGED <<mutex, robots, inUse, objects, locks, round, at, job, pc>>

\* cleanupConn: the destructor of Robot waits for its mutex.  inUse may still
\* point to the robot.
DeleteRobot(l) ==
  /\ pc[l] = "rWriting" /\ job[l].what = "cleanup"
  /\ \E i \in First(RobotsOf(l)) :
       /\ mutex[robots[i]] = NoThread
       /\ ident' = [ident EXCEPT ![robots[i]] = Freed]
       /\ robots' = RemoveAt(robots, i)
  /\ UNCHANGED <<mutex, inUse, objects, locks, round, at, job, pc>>

CleanupDone(l) ==
  /\ job[l].what = "cleanup" /\ RobotsOf(l) = {}
  /\ Goto(l, "rWriting", "off")
  /\ Robots!WriteUnlock(l) /\ Finish(l)
  /\ RobotsOnly(l) /\ UNCHANGED at

\* P_ROBOT_UPDATE: objects, then robots, then the robot it names.
UpdateObjects(l) ==
  /\ "UPDATE" \in Messages
  /\ Goto(l, "listen", "updateRobots")
  /\ \E k \in RID : Take(l, Job("update", k))
  /\ Objects!ReadLock(l)
  /\ ObjectsOnly(l) /\ UNCHANGED at

UpdateRobots(l) ==
  /\ Goto(l, "updateRobots", "update")
  /\ Robots!ReadLock(l)
  /\ RobotsOnly(l) /\ UNCHANGED <<at, job>>

UpdateRobot(l) ==
  /\ Goto(l, "update", "updateEnd")
  /\ \A i \in First(RobotAt(l, job[l].key)) : mutex[robots[i]] = NoThread
  /\ Robots!ReadUnlock(l)
  /\ RobotsOnly(l) /\ UNCHANGED <<at, job>>

UpdateEnd(l) ==
  /\ Goto(l, "updateEnd", "listen")
  /\ Objects!ReadUnlock(l) /\ Finish(l)
  /\ ObjectsOnly(l) /\ UNCHANGED at

\* P_OBJECT looks for the object without the lock of the vector.  Bound: at
\* most MaxObjects announcements are in the vector or on their way to it.
AnnounceObject(l) ==
  /\ "OBJECT" \in Messages
  /\ Len(objects) + Cardinality({m \in Listener : job[m].what = "object"}) < MaxObjects
  /\ Goto(l, "listen", "search")
  /\ \E o \in ObjectId : Take(l, Job("object", o))
  /\ UNCHANGED <<heap, data, locks, round, at>>

\* While another thread changes the vector the iterators may be invalid: the
\* search gives either answer or crashes.
SearchObject(l) ==
  LET racing == objectsLk.writing # {}
      known  == job[l].key \in ToSet(objects)
  IN /\ \/ (known \/ racing) /\ Goto(l, "search", "listen") /\ Finish(l)
        \/ (~known \/ racing) /\ Goto(l, "search", "oWait") /\ UNCHANGED job
        \/ racing /\ Goto(l, "search", "crashed") /\ UNCHANGED job
     /\ UNCHANGED <<heap, data, locks, round, at>>

-----------------------------------------------------------------------------
(* Writers of the objects: P_OBJECT and P_CMD_DEL_OBJ.                     *)

LockObjects(t) ==
  /\ Goto(t, "oWait", "oGate")
  /\ Objects!WriteWait(t)
  /\ ObjectsOnly(t) /\ UNCHANGED <<at, job>>

\* Mutant of EnterObjects: the writer does not wait for the readers to leave.
EnterObjectsEarly(t) ==
  /\ Goto(t, "oGate", "oWriting")
  /\ objectsLk' = [objectsLk EXCEPT !.waiting = {}, !.writing = {t}]
  /\ ObjectsOnly(t) /\ UNCHANGED <<at, job>>

EnterObjects(t) ==
  /\ Goto(t, "oGate", "oWriting")
  /\ Objects!WriteEnter(t)
  /\ ObjectsOnly(t) /\ UNCHANGED <<at, job>>

PushObject(l) ==
  /\ l \in Listener
  /\ Goto(l, "oWriting", "listen")
  /\ objects' = Append(objects, job[l].key)
  /\ Objects!WriteUnlock(l) /\ Finish(l)
  /\ UNCHANGED <<heap, robots, inUse, robotsLk, inUseLk, round, at>>

EraseObject(a) ==
  /\ a \in Admin
  /\ Goto(a, "oWriting", "send")
  /\ Erase(objects, {i \in DOMAIN objects : objects[i] = job[a].key})
  /\ Objects!WriteUnlock(a)
  /\ UNCHANGED <<heap, robots, inUse, robotsLk, inUseLk, round, at, job>>

-----------------------------------------------------------------------------
(* Administrators: AdminHandler::session::read_handler holds the read lock *)
(* of robots through every command.                                        *)

\* "FWD" stands for every command that moves one robot; robots are named by
\* their global id, which may be that of no registered robot.
Command(a) ==
  /\ \/ "FWD" \in Commands /\ Goto(a, "idle", "scan")
        /\ \E x \in Address : Take(a, Job("FWD", x))
     \/ "RLS_RBT" \in Commands /\ Goto(a, "idle", "iWait")
        /\ \E x \in Address : Take(a, Job("RLS_RBT", x))
     \/ "DEL_OBJ" \in Commands /\ Goto(a, "idle", "oWait")
        /\ \E o \in ObjectId : Take(a, Job("DEL_OBJ", o))
  /\ Robots!ReadLock(a)
  /\ RobotsOnly(a) /\ UNCHANGED at

\* A robot that is not the one named is locked and unlocked.
ScanRobot(a) ==
  /\ pc[a] = "scan" /\ at[a] \in DOMAIN robots
  /\ LET x == robots[at[a]]
     IN  /\ mutex[x] = NoThread
         /\ \/ x # job[a].key /\ Advance(a) /\ UNCHANGED <<mutex, pc>>
            \/ x = job[a].key /\ mutex' = [mutex EXCEPT ![x] = a]
               /\ Goto(a, "scan", "iWait") /\ Restart(a)
  /\ UNCHANGED <<ident, data, locks, round, job>>

NotFound(a) ==
  /\ at[a] \notin DOMAIN robots
  /\ Goto(a, "scan", "leave")
  /\ Restart(a)
  /\ UNCHANGED <<heap, data, locks, round, job>>

LockInUse(a) ==
  /\ Goto(a, "iWait", "iGate")
  /\ InUse!WriteWait(a)
  /\ InUseOnly(a) /\ UNCHANGED <<at, job>>

EnterInUse(a) ==
  /\ Goto(a, "iGate", "iWriting")
  /\ InUse!WriteEnter(a)
  /\ InUseOnly(a) /\ UNCHANGED <<at, job>>

TakeRobot(a) ==
  /\ job[a].what = "FWD"
  /\ Goto(a, "iWriting", "send")
  /\ inUse' = inUse \cup {job[a].key}
  /\ InUse!WriteUnlock(a)
  /\ UNCHANGED <<heap, robots, objects, robotsLk, objectsLk, round, at, job>>

\* The search reads the global id of every pointer, those to deleted robots
\* too: such a read may give any id.
ReleaseRobot(a) ==
  LET x     == job[a].key
      stale == {y \in inUse : ident[y] = Freed}
  IN /\ job[a].what = "RLS_RBT"
     /\ Goto(a, "iWriting", "leave")
     /\ \/ \E y \in stale \cup ({x} \cap inUse) : inUse' = inUse \ {y}
        \/ x \notin inUse \ stale /\ UNCHANGED inUse
     /\ InUse!WriteUnlock(a)
     /\ UNCHANGED <<heap, robots, objects, robotsLk, objectsLk, round, at, job>>

\* sendCommand, to the robot's controller or to all, then the robot is unlocked.
SendCommand(a) ==
  /\ Goto(a, "send", "leave")
  /\ mutex' = IF job[a].what = "FWD" THEN [mutex EXCEPT ![job[a].key] = NoThread] ELSE mutex
  /\ UNCHANGED <<ident, data, locks, round, at, job>>

CommandDone(a) ==
  /\ Goto(a, "leave", "idle")
  /\ Robots!ReadUnlock(a) /\ Finish(a)
  /\ RobotsOnly(a) /\ UNCHANGED at

-----------------------------------------------------------------------------
QosSteps ==
  \/ CamsRead(Qos) \/ CamsVisit(Qos) \/ CamsDone(Qos) \/ ReadObjects(Qos)
  \/ RoundStart \/ RoundObjects \/ RoundRobots
  \/ SkipUsed \/ AddUnused \/ LockRobot \/ AllAdded \/ Calc \/ UnlockRobot
  \/ RoundLeave \/ RoundEnd

\* What the other side may do or not do.
Arrival(l) ==
  \/ LockRobots(l) \/ ConnectEmpty(l) \/ UpdateObjects(l) \/ AnnounceObject(l)

ListenerSteps(l) ==
  \/ CamsRead(l) \/ CamsVisit(l) \/ CamsDone(l) \/ ReadObjects(l)
  \/ EnterRobots(l) \/ PushRobot(l) \/ AddRobot(l) \/ RemoveRobot(l)
  \/ DeleteRobot(l) \/ CleanupDone(l)
  \/ UpdateRobots(l) \/ UpdateRobot(l) \/ UpdateEnd(l)
  \/ SearchObject(l) \/ LockObjects(l) \/ EnterObjects(l) \/ PushObject(l)

AdminSteps(a) ==
  \/ ScanRobot(a) \/ NotFound(a) \/ LockInUse(a) \/ EnterInUse(a)
  \/ TakeRobot(a) \/ ReleaseRobot(a) \/ SendCommand(a) \/ CommandDone(a)
  \/ LockObjects(a) \/ EnterObjects(a) \/ EraseObject(a)

Next ==
  /\ Alive
  /\ \/ QosSteps
     \/ \E l \in Listener : Arrival(l) \/ ListenerSteps(l)
     \/ \E a \in Admin : Command(a) \/ AdminSteps(a)

Spec == Init /\ [][Next]_vars

\* A thread that can go on does.  Whether a controller sends anything and an
\* administrator asks for anything is theirs.
FairSpec ==
  /\ Spec
  /\ WF_vars(Alive /\ QosSteps)
  /\ \A l \in Listener : WF_vars(Alive /\ ListenerSteps(l))
  /\ \A a \in Admin : WF_vars(Alive /\ AdminSteps(a))

-----------------------------------------------------------------------------
(* What the threads rely on.                                               *)

\* The pointers, the locks and the places of the threads have their types.
TypeOK ==
  /\ ident \in [Address -> [conn : Listener, rid : RID] \cup {Freed}]
  /\ mutex \in [Address -> Thread \cup {NoThread}]
  /\ Registered \subseteq Address /\ inUse \subseteq Address
  /\ ToSet(objects) \subseteq ObjectId
  /\ ToSet(r) \subseteq Address \cup {NoRobot} /\ rNull \in BOOLEAN
  /\ {robotsLk, inUseLk, objectsLk} \subseteq Robots!RWState
  /\ at \in [Thread -> 1..(Cardinality(Address) + 1)]

\* No pointer in robots is to a deleted Robot, and none is there twice: every
\* walk over the vector may follow what it finds (cleanupConn deletes before
\* it erases, P_ROBOT_RM erases and does not delete).
RobotsLive == IsInjective(robots) /\ \A a \in Registered : ident[a] # Freed

HasSubject(a) ==
  job[a].what = "FWD" /\ pc[a] \in {"iWait", "iGate", "iWriting", "send"}

\* The robot an administrator's command has found stays registered until the
\* command is sent: its pointer is used after the lock of inUse was waited for.
SubjectLive == \A a \in Admin : HasSubject(a) => job[a].key \in Registered

\* From the moment doQOS copies robots to the moment it unlocks them by
\* position, the copy and the vector agree.
RoundStable ==
  pc[Qos] \in {"test", "lock", "calc", "unlock"} =>
    \A i \in DOMAIN r : i \in DOMAIN robots /\ r[i] \in {robots[i], NoRobot}

\* No two registered robots have the same endpoint and RID, however INIT, RM
\* and reconnections interleave: P_ROBOT_UPDATE and P_ROBOT_RM stop at the first.
UniqueRobots ==
  \A i, j \in DOMAIN robots : ident[robots[i]] = ident[robots[j]] => i = j

\* Nobody changes robots while another thread walks over it.
StableIteration == [][robots' # robots => robotsLk.reading = {} /\ robotsLk.writing # {}]_vars

\* Nobody changes objects while doQOS or P_ROBOT_UPDATE goes through them.
ObjectsStable == [][objects' # objects => objectsLk.reading = {} /\ objectsLk.writing # {}]_vars

\* Between rounds the QoS thread holds no robot and no vector; in a round every
\* robot it has added and no other is locked (doQOS unlocks by a second test).
Balanced ==
  LET held == {a \in Address : mutex[a] = Qos}
  IN /\ pc[Qos] \in {"idle", "cams", "objects"} => held = {} /\ Qos \notin robotsLk.reading \cup objectsLk.reading
     /\ pc[Qos] = "calc" => held = ToSet(r) \ {NoRobot}

\* The mutex a thread has to wait for, if its next access is to a robot.
MutexWanted(t) ==
  CASE pc[t] \in {"camsScan", "scan"} /\ at[t] \in DOMAIN robots -> {robots[at[t]]}
    [] pc[t] = "lock"   -> {r[at[t]]}
    [] pc[t] = "update" -> {robots[i] : i \in First(RobotAt(t, job[t].key))}
    [] pc[t] = "rWriting" /\ job[t].what = "cleanup" -> {robots[i] : i \in First(RobotsOf(t))}
    [] OTHER -> {}

Keeping(lk) == lk.waiting \cup lk.writing

\* The threads that keep t from taking its next step.
WaitsFor(t) ==
  CASE pc[t] \in {"cams", "updateRobots", "roundRobots"} -> Keeping(robotsLk)
    [] pc[t] \in {"roundObjects", "objects"} -> Keeping(objectsLk)
    [] pc[t] = "rGate" -> robotsLk.reading \cup robotsLk.writing
    [] pc[t] = "oWait" -> objectsLk.waiting
    [] pc[t] = "oGate" -> objectsLk.reading \cup objectsLk.writing
    [] pc[t] = "iWait" -> inUseLk.waiting
    [] pc[t] = "iGate" -> inUseLk.writing
    [] OTHER -> {mutex[a] : a \in MutexWanted(t)} \ {NoThread}

\* The threads never wait for each other in a circle, nor one for itself.
NoCircularWait ==
  ~ \E S \in SUBSET Thread : S # {} /\ \A t \in S : WaitsFor(t) \cap S # {}

\* A connection that closes is cleaned up, however many walks are under way:
\* the writer that waits keeps new readers out.
CleanupCompletes == \A l \in Listener : pc[l] = "rGate" /\ job[l].what = "cleanup" ~> pc[l] = "off"

\* Once no controller waits to register or to leave, every round of doQOS ends.
\* (A round may starve while writers keep coming: nothing orders the threads
\* that wait for the gate.)
RoundCompletes ==
  <>[](\A l \in Listener : pc[l] \notin {"rGate", "rWriting"})
    => (pc[Qos] = "roundObjects" ~> pc[Qos] = "idle")

-----------------------------------------------------------------------------
(* The inductive invariant behind the properties of robots.                *)

\* A thread at this label is under the read lock of robots.  The QoS thread
\* crashes there only, a listener does not.
Reads(t, label) ==
  \/ label \in {"camsScan", "update", "test", "lock", "calc", "unlock",
               "scan", "iWait", "iGate", "iWriting", "send", "leave"}
  \/ t \in Admin /\ label \in {"oWait", "oGate", "oWriting"}
  \/ t = Qos /\ label = "crashed"

RobotsLocked ==
  /\ robotsLk = [waiting |-> {t \in Thread : pc[t] = "rGate"},
                 reading |-> {t \in Thread : Reads(t, pc[t])},
                 writing |-> {t \in Thread : pc[t] = "rWriting"}]
  /\ robotsLk.writing # {} => robotsLk.reading = {}
  /\ \A t, u \in robotsLk.writing : t = u
  /\ \A t, u \in robotsLk.waiting : t = u

TypeInv ==
  /\ DOMAIN pc = Thread /\ DOMAIN job = Thread /\ DOMAIN at = Thread
  /\ ident \in [Address -> [conn : Listener, rid : RID] \cup {Freed}]
  /\ robots \in Seq(Address)
  /\ \A l \in Listener : job[l].what \in {"connect", "init"} => job[l].key \in RID
  /\ \A a \in Admin : pc[a] \in {"oWait", "oGate", "oWriting"} => job[a].what = "DEL_OBJ"

Fresh(l) ==
  \/ pc[l] = "off"
  \/ job[l].what = "connect" /\ pc[l] \in {"rGate", "rWriting"}

\* A connection that is not there yet, or that has not announced its robots,
\* has none: onConnect need not look for duplicates.
FreshConnections == \A l \in Listener : Fresh(l) => RobotsOf(l) = {}

IInv == TypeInv /\ RobotsLocked /\ RobotsLive /\ FreshConnections /\ UniqueRobots /\ SubjectLive

-----------------------------------------------------------------------------
(* What the comments of the source say and the code does not do.           *)

\* "also let the robot controllers know to delete it": an administrator's
\* DEL_OBJ gets to the controllers.
DeletionSent == \A a \in Admin : job[a].what = "DEL_OBJ" ~> pc[a] = "send"

=============================================================================
