----------------------------- MODULE Assignment -----------------------------
(***************************************************************************)
(* One computation of Assignment::calcAssignments: while there is an       *)
(* object without a robot and a robot without an object, the object with   *)
(* the highest demand gets the robot with the best quality.  Each turn of  *)
(* the outer loop is a step.  Indices begin with 1; None is the -1 of the  *)
(* code.  No robot is commandeered, so that doQOS has written all entries  *)
(* of r.                                                                   *)
(***************************************************************************)
EXTENDS Integers, Sequences, FiniteSets, SequencesExt

CONSTANTS Robot,        \* the Robot objects
          MaxRobots,    \* how many may be in the array (bounds the inputs)
          NumObjects,
          Demands,      \* the demands an object can have
          Points,       \* where robots and objects can be (bounds the inputs)
          Cameras,      \* the types of camera: 0 or another
          Unit,         \* the quality 1.0, in units that make the others whole
          NULL          \* no Robot

ASSUME AssignmentAssumption ==
  /\ NumObjects \in Nat \ {0} /\ MaxRobots \in Nat \ {0}
  /\ Demands \subseteq Nat /\ Cameras \subseteq Nat
  /\ Points \subseteq Int \X Int
  /\ Unit \in Nat /\ NULL \notin Robot

None == -1
Object == 1..NumObjects

VARIABLES r,                  \* the array of robots
          dem,                \* the demand for each object
          quality,            \* calcQos of each object and robot
          robotAssignments,   \* the object of each robot, or None
          objAss,             \* the robot of each object, or None
          viewedFrom,         \* the Robot each object is viewed from, or NULL
          pc

inputs == <<r, dem, quality>>
vars   == <<inputs, robotAssignments, objAss, viewedFrom, pc>>

-----------------------------------------------------------------------------
(* Qos::dist and Qos::calcQos.                                             *)

Abs(x) == IF x < 0 THEN -x ELSE x
Manhattan(p, q) == Abs(p[1] - q[1]) + Abs(p[2] - q[2])

\* Best at the distance 2, falling to 0 on the way in and towards it further out.
DistQuality(d) == IF d >= 2 THEN (2 * Unit) \div d ELSE (d * Unit) \div 2

\* In this unit the quality of every distance is a whole number.
ASSUME UnitAssumption ==
  /\ Unit % 2 = 0
  /\ \A p, q \in Points : Manhattan(p, q) > 1 => (2 * Unit) % Manhattan(p, q) = 0

\* CAM_VALUES: camera 0 counts in full, every other type for 0.7.
CalcQos(d, camera) == (IF camera = 0 THEN 10 ELSE 7) * DistQuality(d)

QualityOf(robotPos, camera, objectPos) ==
  [o \in Object |-> [i \in DOMAIN robotPos |->
     CalcQos(Manhattan(robotPos[i], objectPos[o]), camera[i])]]

-----------------------------------------------------------------------------
\* What doQOS hands over: robots without repetition, where they and the
\* objects are, what the visitors want.
Inputs(robots) ==
  /\ r = robots
  /\ dem \in [Object -> Demands]
  /\ \E robotPos \in [DOMAIN robots -> Points], camera \in [DOMAIN robots -> Cameras],
        objectPos \in [Object -> Points] :
       quality = QualityOf(robotPos, camera, objectPos)

\* initAssignments and the declarations before the loop.
Cleared ==
  /\ robotAssignments = [i \in DOMAIN r |-> None]
  /\ objAss = [o \in Object |-> None]
  /\ pc = "assign"

Init ==
  /\ \E n \in 1..MaxRobots : \E robots \in [1..n -> Robot] :
       IsInjective(robots) /\ Inputs(robots)
  /\ Cleared
  /\ viewedFrom = [o \in Object |-> NULL]

Unassigned(f) == {i \in DOMAIN f : f[i] = None}

\* The maximum loops take the first of equals.
Best(S, f) == {i \in S : \A j \in S : f[j] < f[i] \/ (f[j] = f[i] /\ i <= j)}

\* Of an object that has a robot the code looks at the demand as well, while
\* nothing is found yet at the one before the first; that decides nothing.
MaxObject == Best(Unassigned(objAss), dem)

\* Mutants of MaxRobot: it does not ask whether the robot is assigned; the first
\* robot; only a robot with some quality.
MaxRobotAny(o) == Best(DOMAIN r, quality[o])
MaxRobotFirst(o) ==
  {i \in Unassigned(robotAssignments) : \A j \in Unassigned(robotAssignments) : i <= j}
MaxRobotSeen(o) == Best({i \in Unassigned(robotAssignments) : quality[o][i] > 0}, quality[o])

MaxRobot(o) == Best(Unassigned(robotAssignments), quality[o])

IsDone(assignments) == Unassigned(assignments) = {}

\* A turn of the loop.
Assign ==
  /\ pc = "assign"
  /\ \E o \in MaxObject : \E i \in MaxRobot(o) :
       /\ robotAssignments' = [robotAssignments EXCEPT ![i] = o]
       /\ objAss' = [objAss EXCEPT ![o] = i]
  /\ pc' = IF IsDone(robotAssignments') THEN "assigned" ELSE "assign"
  /\ UNCHANGED <<inputs, viewedFrom>>

NoObjectLeft ==
  /\ pc = "assign" /\ Unassigned(objAss) = {}
  /\ pc' = "assigned"
  /\ UNCHANGED <<inputs, robotAssignments, objAss, viewedFrom>>

\* Mutant of View: a view of no quality is taken for a view.
ViewNothing(o) ==
  IF objAss[o] # None THEN {r[objAss[o]]} ELSE {r[i] : i \in Best(DOMAIN r, quality[o])}

\* The robot of an object, or else the camera with the best view of it, if it
\* sees it at all.  The set has one element.
View(o) ==
  IF objAss[o] # None THEN {r[objAss[o]]}
  ELSE {IF quality[o][i] <= 0 THEN NULL ELSE r[i] : i \in Best(DOMAIN r, quality[o])}

WriteBack ==
  /\ pc = "assigned"
  /\ viewedFrom' \in [Object -> Robot \cup {NULL}]
  /\ \A o \in Object : viewedFrom'[o] \in View(o)
  /\ pc' = "viewed"
  /\ UNCHANGED <<inputs, robotAssignments, objAss>>

Next == Assign \/ NoObjectLeft \/ WriteBack

Spec == Init /\ [][Next]_vars

FairSpec == Spec /\ WF_vars(Next)

-----------------------------------------------------------------------------

TypeOK ==
  /\ r \in Seq(Robot)
  /\ dem \in [Object -> Nat]
  /\ quality \in [Object -> [DOMAIN r -> Nat]]
  /\ robotAssignments \in [DOMAIN r -> Object \cup {None}]
  /\ objAss \in [Object -> DOMAIN r \cup {None}]
  /\ viewedFrom \in [Object -> Robot \cup {NULL}]
  /\ pc \in {"assign", "assigned", "viewed"}

\* The two tables of the loop say the same, so that no robot has two objects
\* and no object two robots.
Matching ==
  /\ \A i \in DOMAIN r : robotAssignments[i] # None => objAss[robotAssignments[i]] = i
  /\ \A o \in Object : objAss[o] # None => robotAssignments[objAss[o]] = o

\* When the loop ends no robot is idle while an object waits for one.
Maximal == pc # "assign" => Unassigned(objAss) = {} \/ Unassigned(robotAssignments) = {}

\* No object waits while a less wanted one has a robot.
DemandFirst ==
  \A o, p \in Object : objAss[o] # None /\ objAss[p] = None => dem[o] >= dem[p]

\* No object would be better served by a robot that is idle or that serves a
\* less wanted object.
NoBetterRobot ==
  \A o \in Object : objAss[o] # None =>
    \A i \in DOMAIN r :
      \/ robotAssignments[i] # None /\ dem[robotAssignments[i]] >= dem[o]
      \/ quality[o][i] <= quality[o][objAss[o]]

\* What the visitors see is the best view: that of the robot sent to the
\* object or, for an object without one, of any robot that sees it at all.
BestView ==
  pc = "viewed" => \A o \in Object :
    IF \A i \in DOMAIN r : quality[o][i] = 0
    THEN objAss[o] = None => viewedFrom[o] = NULL
    ELSE \E i \in DOMAIN r :
           /\ viewedFrom[o] = r[i]
           /\ objAss[o] \in {i, None}
           /\ objAss[o] = None => \A j \in DOMAIN r : quality[o][j] <= quality[o][i]

\* The loop ends: each turn assigns a robot, for qualities are never below 0.
Terminates == <>(pc = "viewed")

IInv == TypeOK /\ Matching /\ Maximal /\ DemandFirst /\ NoBetterRobot /\ BestView

=============================================================================
