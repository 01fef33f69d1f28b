-------------------------- MODULE SequentialProof --------------------------
(***************************************************************************)
(* Proofs about the two parts of the server that one thread carries out    *)
(* from beginning to end.                                                  *)
(* Assignment, for any numbers of robots and objects, any demands,         *)
(* positions and cameras.  That the loop ends is beyond the prover, but    *)
(* what it follows from is not: a turn is always possible, and each leaves *)
(* one object and one robot fewer.                                         *)
(* Framing: that the stream is cut faithfully while every read brings      *)
(* cells of one message, for all lengths of messages, header and buffer.   *)
(* The invariant: what is in transit is a Stream, all of what is Pending   *)
(* belongs to the message that is due, and the buffer is used from its     *)
(* front.  A read moves cells from the wire to what is Pending (Reads), a  *)
(* message that is complete leaves the Stream at its front (Leaves).       *)
(***************************************************************************)
EXTENDS Assignment, Framing, SequenceTheorems, Induction

\* Qualities are numbers and never below 0, so that every free robot beats the
\* initial tQos of the code.
LEMMA QualityNat ==
  ASSUME NEW d \in Nat, NEW camera PROVE CalcQos(d, camera) \in Nat
<1>1. Unit \in Nat
  BY AssignmentAssumption
<1>2. (2 * Unit) \in Nat /\ (d * Unit) \in Nat
  BY <1>1
<1>3. ASSUME NEW n \in Nat, NEW k \in Nat \ {0} PROVE n \div k \in Nat
  OBVIOUS
<1>4. DistQuality(d) \in Nat
  BY <1>2, <1>3 DEF DistQuality
<1>5. QED
  BY <1>4 DEF CalcQos

\* What doQOS hands over has the types that TypeOK asks for.
LEMMA InputsTyped ==
  ASSUME NEW robots \in Seq(Robot), Inputs(robots)
  PROVE  r \in Seq(Robot) /\ dem \in [Object -> Nat] /\ quality \in [Object -> [DOMAIN r -> Nat]]
<1>1. PICK robotPos \in [DOMAIN robots -> Points], camera \in [DOMAIN robots -> Cameras],
           objectPos \in [Object -> Points] : quality = QualityOf(robotPos, camera, objectPos)
  BY DEF Inputs
<1>2. ASSUME NEW p \in Points, NEW q \in Points PROVE Manhattan(p, q) \in Nat
  BY AssignmentAssumption DEF Manhattan, Abs
<1>3. ASSUME NEW o \in Object, NEW i \in DOMAIN robots
      PROVE  CalcQos(Manhattan(robotPos[i], objectPos[o]), camera[i]) \in Nat
  BY <1>2, QualityNat
<1>4. quality \in [Object -> [DOMAIN robots -> Nat]]
  BY <1>1, <1>3 DEF QualityOf
<1>5. QED
  BY <1>4, AssignmentAssumption DEF Inputs

\* The declarations before the loop establish the invariant.
LEMMA InitIInv == Init => IInv
<1> SUFFICES ASSUME Init PROVE IInv
  OBVIOUS
<1>0. PICK n \in 1..MaxRobots : \E robots \in [1..n -> Robot] : Inputs(robots)
  BY DEF Init
<1>1. PICK robots \in [1..n -> Robot] : Inputs(robots)
  BY <1>0
<1>2. n \in Nat /\ robots \in Seq(Robot)
  BY AssignmentAssumption
<1>3. r \in Seq(Robot) /\ dem \in [Object -> Nat] /\ quality \in [Object -> [DOMAIN r -> Nat]]
  BY <1>1, <1>2, InputsTyped
<1>4. TypeOK
  BY <1>3 DEF Init, Cleared, TypeOK
<1>5. Matching /\ Maximal /\ DemandFirst /\ NoBetterRobot /\ BestView
  BY DEF Init, Cleared, Matching, Maximal, DemandFirst, NoBetterRobot, BestView
<1>6. QED
  BY <1>4, <1>5 DEF IInv

\* A turn of the loop.
LEMMA AssignIInv == IInv /\ Assign => IInv'
<1> SUFFICES ASSUME IInv, Assign PROVE IInv'
  OBVIOUS
<1>0. /\ r \in Seq(Robot) /\ dem \in [Object -> Nat]
      /\ quality \in [Object -> [DOMAIN r -> Nat]]
      /\ robotAssignments \in [DOMAIN r -> Object \cup {None}]
      /\ objAss \in [Object -> DOMAIN r \cup {None}]
      /\ DOMAIN r \subseteq Nat
  BY DEF IInv, TypeOK
<1>a. PICK o \in MaxObject : \E i \in MaxRobot(o) :
        /\ robotAssignments' = [robotAssignments EXCEPT ![i] = o]
        /\ objAss' = [objAss EXCEPT ![o] = i]
  BY DEF Assign
<1>1. PICK i \in MaxRobot(o) :
        /\ robotAssignments' = [robotAssignments EXCEPT ![i] = o]
        /\ objAss' = [objAss EXCEPT ![o] = i]
  BY <1>a
<1>2. /\ o \in Object /\ objAss[o] = None
      /\ \A p \in Object : objAss[p] = None => dem[p] <= dem[o]
  <2>1. /\ o \in DOMAIN objAss /\ objAss[o] = None
        /\ \A p \in DOMAIN objAss : objAss[p] = None => dem[p] < dem[o] \/ dem[p] = dem[o]
    BY DEF MaxObject, Best, Unassigned
  <2>2. DOMAIN objAss = Object /\ \A p \in Object : dem[p] \in Nat
    BY <1>0
  <2>3. QED
    BY <2>1, <2>2
<1>3. /\ i \in DOMAIN r /\ robotAssignments[i] = None
      /\ \A j \in DOMAIN r : robotAssignments[j] = None => quality[o][j] <= quality[o][i]
  BY <1>0, <1>2 DEF MaxRobot, Best, Unassigned
<1>4. r' = r /\ dem' = dem /\ quality' = quality /\ viewedFrom' = viewedFrom
  BY DEF Assign, inputs
<1>5. o # None /\ i # None
  BY <1>0, <1>2, <1>3 DEF Object, None
<1>6. /\ robotAssignments' \in [DOMAIN r -> Object \cup {None}]
      /\ objAss' \in [Object -> DOMAIN r \cup {None}]
      /\ \A j \in DOMAIN r : robotAssignments'[j] = IF j = i THEN o ELSE robotAssignments[j]
      /\ \A p \in Object : objAss'[p] = IF p = o THEN i ELSE objAss[p]
  BY <1>0, <1>1, <1>2, <1>3
<1>7. TypeOK'
  <2>1. pc' \in {"assign", "assigned"}
    BY DEF Assign
  <2>2. QED
    BY <1>0, <1>4, <1>6, <2>1 DEF IInv, TypeOK
<1>8. Matching'
  <2>1. ASSUME NEW j \in DOMAIN r, robotAssignments'[j] # None
        PROVE  objAss'[robotAssignments'[j]] = j
    <3>1. CASE j = i
      BY <1>2, <1>6, <3>1
    <3>2. CASE j # i
      <4>1. robotAssignments'[j] = robotAssignments[j] /\ robotAssignments[j] # None
        BY <1>6, <2>1, <3>2
      <4>2. robotAssignments[j] \in Object /\ objAss[robotAssignments[j]] = j
        BY <1>0, <4>1 DEF IInv, Matching
      <4>3. robotAssignments[j] # o
        BY <1>0, <1>2, <4>2 DEF None
      <4>4. QED
        BY <1>6, <4>1, <4>2, <4>3
    <3>3. QED
      BY <3>1, <3>2
  <2>2. ASSUME NEW p \in Object, objAss'[p] # None
        PROVE  robotAssignments'[objAss'[p]] = p
    <3>1. CASE p = o
      BY <1>3, <1>6, <3>1
    <3>2. CASE p # o
      <4>1. objAss'[p] = objAss[p] /\ objAss[p] # None
        BY <1>6, <2>2, <3>2
      <4>2. objAss[p] \in DOMAIN r /\ robotAssignments[objAss[p]] = p
        BY <1>0, <4>1 DEF IInv, Matching
      <4>3. objAss[p] # i
        BY <1>3, <4>2 DEF Object, None
      <4>4. QED
        BY <1>6, <4>1, <4>2, <4>3
    <3>3. QED
      BY <3>1, <3>2
  <2>3. QED
    BY <1>4, <2>1, <2>2 DEF Matching
<1>9. Maximal'
  <2>1. pc' = IF Unassigned(robotAssignments') = {} THEN "assigned" ELSE "assign"
    BY DEF Assign, IsDone
  <2>2. pc' # "assign" => Unassigned(robotAssignments') = {}
    BY <2>1
  <2>3. Unassigned(robotAssignments)' = Unassigned(robotAssignments')
    BY DEF Unassigned
  <2>4. QED
    BY <2>2, <2>3 DEF Maximal
<1>10. DemandFirst'
  BY <1>0, <1>2, <1>4, <1>5, <1>6 DEF IInv, DemandFirst
<1>11. ASSUME NEW p \in Object, objAss'[p] # None, NEW j \in DOMAIN r
       PROVE  \/ robotAssignments'[j] # None /\ dem[robotAssignments'[j]] >= dem[p]
              \/ quality[p][j] <= quality[p][objAss'[p]]
  <2>1. CASE p = o
    <3>1. CASE robotAssignments[j] = None
      BY <1>0, <1>3, <1>6, <2>1, <3>1
    <3>2. CASE robotAssignments[j] # None
      <4>1. robotAssignments[j] \in Object /\ objAss[robotAssignments[j]] # None
        BY <1>0, <3>2 DEF IInv, Matching, None
      <4>2. dem[robotAssignments[j]] >= dem[o]
        BY <1>2, <4>1 DEF IInv, DemandFirst
      <4>3. robotAssignments'[j] = robotAssignments[j]
        BY <1>3, <1>6, <3>2
      <4>4. QED
        BY <2>1, <3>2, <4>2, <4>3
    <3>3. QED
      BY <3>1, <3>2
  <2>2. CASE p # o
    <3>1. objAss[p] # None /\ objAss'[p] = objAss[p]
      BY <1>6, <1>11, <2>2
    <3>2. \/ robotAssignments[j] # None /\ dem[robotAssignments[j]] >= dem[p]
          \/ quality[p][j] <= quality[p][objAss[p]]
      BY <3>1 DEF IInv, NoBetterRobot
    <3>3. robotAssignments[j] # None => robotAssignments'[j] = robotAssignments[j]
      BY <1>3, <1>6
    <3>4. QED
      BY <3>1, <3>2, <3>3
  <2>3. QED
    BY <2>1, <2>2
<1>12. NoBetterRobot'
  BY <1>4, <1>11 DEF NoBetterRobot
<1>13. BestView'
  BY DEF Assign, BestView
<1>14. QED
  BY <1>7, <1>8, <1>9, <1>10, <1>12, <1>13 DEF IInv

\* The views, when the loop has ended.
LEMMA WriteBackIInv == IInv /\ WriteBack => IInv'
<1> SUFFICES ASSUME IInv, WriteBack PROVE IInv'
  OBVIOUS
<1>1. /\ r' = r /\ dem' = dem /\ quality' = quality /\ objAss' = objAss
      /\ robotAssignments' = robotAssignments /\ pc = "assigned" /\ pc' = "viewed"
      /\ viewedFrom' \in [Object -> Robot \cup {NULL}]
  BY DEF WriteBack, inputs
<1>2. TypeOK' /\ Matching' /\ DemandFirst' /\ NoBetterRobot' /\ Maximal'
  BY <1>1 DEF IInv, TypeOK, Matching, DemandFirst, NoBetterRobot, Maximal, Unassigned
<1>0. /\ quality \in [Object -> [DOMAIN r -> Nat]]
      /\ objAss \in [Object -> DOMAIN r \cup {None}]
      /\ r \in Seq(Robot)
  BY DEF IInv, TypeOK
<1>3. ASSUME NEW o \in Object, objAss[o] # None
      PROVE  objAss[o] \in DOMAIN r /\ viewedFrom'[o] = r[objAss[o]]
  BY <1>0, <1>3 DEF WriteBack, View
<1>4. ASSUME NEW o \in Object, objAss[o] = None
      PROVE  \E i \in DOMAIN r :
               /\ \A j \in DOMAIN r : quality[o][j] <= quality[o][i]
               /\ viewedFrom'[o] = IF quality[o][i] <= 0 THEN NULL ELSE r[i]
  <2>1. PICK i \in Best(DOMAIN r, quality[o]) :
          viewedFrom'[o] = IF quality[o][i] <= 0 THEN NULL ELSE r[i]
    BY <1>4 DEF WriteBack, View
  <2>2. i \in DOMAIN r /\ \A j \in DOMAIN r : quality[o][j] <= quality[o][i]
    BY <1>0 DEF Best
  <2>3. QED
    BY <2>1, <2>2
<1>5. BestView'
  <2> SUFFICES ASSUME NEW o \in Object
               PROVE  IF \A i \in DOMAIN r : quality[o][i] = 0
                      THEN objAss[o] = None => viewedFrom'[o] = NULL
                      ELSE \E i \in DOMAIN r :
                             /\ viewedFrom'[o] = r[i]
                             /\ objAss[o] \in {i, None}
                             /\ objAss[o] = None => \A j \in DOMAIN r : quality[o][j] <= quality[o][i]
    BY <1>1 DEF BestView
  <2>1. CASE objAss[o] # None
    BY <1>3, <2>1
  <2>2. CASE objAss[o] = None
    <3>1. PICK i \in DOMAIN r :
            /\ \A j \in DOMAIN r : quality[o][j] <= quality[o][i]
            /\ viewedFrom'[o] = IF quality[o][i] <= 0 THEN NULL ELSE r[i]
      BY <1>4, <2>2
    <3>2. \A j \in DOMAIN r : quality[o][j] \in Nat
      BY <1>0
    <3>3. QED
      BY <2>2, <3>1, <3>2
  <2>3. QED
    BY <2>1, <2>2
<1>6. QED
  BY <1>2, <1>5 DEF IInv

\* Every step of calcAssignments keeps the invariant.
LEMMA StepIInv == IInv /\ [Next]_vars => IInv'
<1>1. IInv /\ NoObjectLeft => IInv'
  BY DEF NoObjectLeft, inputs, IInv, TypeOK, Matching, Maximal, DemandFirst, NoBetterRobot,
     BestView, Unassigned
<1>2. IInv /\ UNCHANGED vars => IInv'
  BY DEF vars, inputs, IInv, TypeOK, Matching, Maximal, DemandFirst, NoBetterRobot,
     BestView, Unassigned
<1>3. QED
  BY <1>1, <1>2, AssignIInv, WriteBackIInv DEF Next

\* The strengthened invariant of the greedy loop and of the views it leaves is inductive.
THEOREM Inductive == Spec => []IInv
  BY InitIInv, StepIInv, PTL DEF Spec

\* No robot is sent to two objects and no object is given two robots.
THEOREM IsMatching == Spec => []Matching
<1>1. IInv => Matching
  BY DEF IInv
<1>2. QED
  BY <1>1, Inductive, PTL

\* The assignment is stable: no object would be better served by a robot that
\* is idle or that serves a less wanted object.
THEOREM IsStable == Spec => []NoBetterRobot
<1>1. IInv => NoBetterRobot
  BY DEF IInv
<1>2. QED
  BY <1>1, Inductive, PTL

\* Visitors are shown the best view there is.
THEOREM ShowsBestView == Spec => []BestView
<1>1. IInv => BestView
  BY DEF IInv
<1>2. QED
  BY <1>1, Inductive, PTL

-----------------------------------------------------------------------------
(* The loop always finds an object and a robot, and only one of each.      *)

\* A maximum loop over a part of 1..N finds one index, by induction over N.
LEMMA OneBest ==
  ASSUME NEW N \in Nat, NEW S \in SUBSET (1..N), S # {}, NEW f, \A i \in S : f[i] \in Nat
  PROVE  \E i \in S : Best(S, f) = {i}
<1> DEFINE upto(n) == {i \in S : i <= n}
           T == {n \in 0..N : upto(n) = {} \/ Best(upto(n), f) # {}}
<1>0. \A i \in S : i \in Nat /\ 1 <= i /\ i <= N
  OBVIOUS
<1>1. 0 \in T
  <2>1. ASSUME NEW i \in S PROVE ~(i <= 0)
    BY <1>0
  <2>2. upto(0) = {}
    BY <2>1
  <2> QED BY <2>2
<1>2. ASSUME NEW n \in 1..N, n - 1 \in T PROVE n \in T
  <2>0. n \in Nat /\ n \in 0..N
    OBVIOUS
  <2>1. CASE n \notin S
    <3>1. upto(n) = upto(n - 1)
      <4>1. ASSUME NEW i \in S PROVE i <= n <=> i <= n - 1
        BY <1>0, <2>0, <2>1
      <4> QED BY <4>1
    <3> HIDE DEF upto
    <3> QED BY <1>2, <2>0, <3>1
  <2>2. CASE n \in S /\ upto(n - 1) = {}
    <3>1. upto(n) = {n}
      <4>1. ASSUME NEW i \in S PROVE i <= n <=> i = n \/ i <= n - 1
        BY <1>0, <2>0
      <4>2. \A i \in S : ~(i <= n - 1)
        BY <2>2
      <4>3. \A i \in S : i <= n <=> i = n
        BY <4>1, <4>2
      <4> QED BY <2>2, <4>3
    <3>2. n \in Best({n}, f)
      BY <2>0 DEF Best
    <3> HIDE DEF upto
    <3> QED BY <2>0, <3>1, <3>2
  <2>3. CASE n \in S /\ upto(n - 1) # {}
    <3>1. PICK i \in upto(n - 1) : \A j \in upto(n - 1) : f[j] < f[i] \/ (f[j] = f[i] /\ i <= j)
      BY <1>2, <2>3 DEF Best
    <3>2. i \in S /\ i <= n - 1 /\ i \in Nat /\ \A j \in upto(n) : j \in S /\ (j = n \/ j \in upto(n - 1))
      BY <1>0, <2>0
    <3>3. i \in upto(n) /\ n \in upto(n)
      BY <2>0, <2>3, <3>2
    <3> HIDE DEF upto
    <3>4. CASE f[n] <= f[i]
      <4>1. \A j \in upto(n) : f[j] < f[i] \/ (f[j] = f[i] /\ i <= j)
        BY <2>0, <2>3, <3>1, <3>2, <3>4
      <4>2. i \in Best(upto(n), f)
        BY <3>3, <4>1 DEF Best
      <4> QED BY <2>0, <4>2
    <3>5. CASE f[i] < f[n]
      <4>1. \A j \in upto(n) : f[j] < f[n] \/ (f[j] = f[n] /\ n <= j)
        BY <2>0, <2>3, <3>1, <3>2, <3>5
      <4>2. n \in Best(upto(n), f)
        BY <3>3, <4>1 DEF Best
      <4> QED BY <2>0, <4>2
    <3> QED BY <2>3, <3>2, <3>4, <3>5
  <2> QED BY <2>1, <2>2, <2>3
<1>3. upto(N) = S
  BY <1>0
<1> HIDE DEF T, upto
<1>4. 0..N \subseteq T
  BY <1>1, <1>2, BoundedInduction
<1>5. PICK i : i \in Best(S, f)
  BY <1>3, <1>4 DEF T
<1>6. ASSUME NEW j \in Best(S, f) PROVE j = i
  <2>1. i \in S /\ j \in S /\ i \in Nat /\ j \in Nat /\ f[i] \in Nat /\ f[j] \in Nat
    BY <1>0, <1>5 DEF Best
  <2>2. (f[j] < f[i] \/ (f[j] = f[i] /\ i <= j)) /\ (f[i] < f[j] \/ (f[i] = f[j] /\ j <= i))
    BY <1>5, <2>1 DEF Best
  <2> QED BY <2>1, <2>2
<1> QED BY <1>5, <1>6 DEF Best

\* The loop goes on only while a robot is idle, and there is a robot.
RobotIdle == DOMAIN r # {} /\ (pc = "assign" => Unassigned(robotAssignments) # {})

LEMMA InitIdle == Init => RobotIdle
<1> SUFFICES ASSUME Init PROVE RobotIdle
  OBVIOUS
<1>1. PICK n \in 1..MaxRobots : \E robots \in [1..n -> Robot] : Inputs(robots)
  BY DEF Init
<1>2. DOMAIN r = 1..n /\ n \in Nat /\ 1 \in 1..n
  BY <1>1, AssignmentAssumption DEF Inputs
<1>3. 1 \in Unassigned(robotAssignments)
  BY <1>2 DEF Init, Cleared, Unassigned
<1> QED BY <1>2, <1>3 DEF RobotIdle

LEMMA StepIdle == RobotIdle /\ [Next]_vars => RobotIdle'
<1> SUFFICES ASSUME RobotIdle, [Next]_vars PROVE RobotIdle'
  OBVIOUS
<1>1. CASE Assign
  BY <1>1 DEF Assign, RobotIdle, IsDone, inputs
<1>2. CASE NoObjectLeft \/ WriteBack
  BY <1>2 DEF NoObjectLeft, WriteBack, RobotIdle, inputs
<1>3. CASE UNCHANGED vars
  BY <1>3 DEF vars, RobotIdle, Unassigned, inputs
<1> QED BY <1>1, <1>2, <1>3 DEF Next

\* Both maximum loops find an index as long as the outer loop goes on, and only
\* one, and so does the loop for the view of an object without a robot: the loop
\* never stores an assignment at the index -1 (Assignment.cpp:119), and equal
\* inputs give equal assignments and views.
THEOREM OneChoice ==
  Spec => [](/\ pc = "assign" /\ Unassigned(objAss) # {} =>
                  \E o \in Object, i \in DOMAIN r : MaxObject = {o} /\ MaxRobot(o) = {i}
             /\ pc = "assigned" =>
                  \A o \in Object : \E v \in Robot \cup {NULL} : View(o) = {v})
<1>0. Spec => []RobotIdle
  BY InitIdle, StepIdle, PTL DEF Spec
<1>1. ASSUME IInv, RobotIdle, pc = "assign", Unassigned(objAss) # {}
      PROVE  \E o \in Object, i \in DOMAIN r : MaxObject = {o} /\ MaxRobot(o) = {i}
  <2>1. PICK n \in Nat : n = NumObjects /\ Object = 1..n
    BY AssignmentAssumption DEF Object
  <2>2. PICK S \in SUBSET (1..n) : S = Unassigned(objAss)
    BY <1>1, <2>1 DEF Unassigned, IInv, TypeOK
  <2>3. PICK f : f = dem
    OBVIOUS
  <2>4. S # {} /\ \A i \in S : f[i] \in Nat
    BY <1>1, <2>1, <2>2, <2>3 DEF IInv, TypeOK
  <2>5. PICK o \in S : Best(S, f) = {o}
    BY <2>4, OneBest
  <2>6. o \in Object /\ MaxObject = {o}
    BY <2>1, <2>2, <2>3, <2>5 DEF MaxObject
  <2>7. PICK k \in Nat : DOMAIN r = 1..k
    BY <1>1 DEF IInv, TypeOK
  <2>8. PICK R \in SUBSET (1..k) : R = Unassigned(robotAssignments)
    BY <1>1, <2>7 DEF Unassigned, IInv, TypeOK
  <2>9. PICK q : q = quality[o]
    OBVIOUS
  <2>10. R # {} /\ \A i \in R : q[i] \in Nat
    BY <1>1, <2>6, <2>7, <2>8, <2>9 DEF IInv, TypeOK, RobotIdle
  <2>11. PICK i \in R : Best(R, q) = {i}
    BY <2>10, OneBest
  <2>12. i \in DOMAIN r /\ MaxRobot(o) = {i}
    BY <2>7, <2>8, <2>9, <2>11 DEF MaxRobot
  <2> QED BY <2>6, <2>12
<1>2. ASSUME IInv, RobotIdle, NEW o \in Object PROVE \E v \in Robot \cup {NULL} : View(o) = {v}
  <2>1. PICK k \in Nat : DOMAIN r = 1..k
    BY <1>2 DEF IInv, TypeOK
  <2>2. \A i \in DOMAIN r : r[i] \in Robot
    BY <1>2 DEF IInv, TypeOK
  <2>3. CASE objAss[o] # None
    <3>1. objAss[o] \in DOMAIN r
      BY <1>2, <2>3 DEF IInv, TypeOK
    <3> QED BY <2>2, <2>3, <3>1 DEF View
  <2>4. CASE objAss[o] = None
    <3>1. PICK q : q = quality[o]
      OBVIOUS
    <3>2. PICK R \in SUBSET (1..k) : R = DOMAIN r
      BY <2>1
    <3>3. R # {} /\ \A i \in R : q[i] \in Nat
      BY <1>2, <3>1, <3>2 DEF IInv, TypeOK, RobotIdle
    <3>4. PICK i \in R : Best(R, q) = {i}
      BY <3>3, OneBest
    <3>5. View(o) = {IF quality[o][i] <= 0 THEN NULL ELSE r[i]}
      BY <2>4, <3>1, <3>2, <3>4 DEF View
    <3>6. r[i] \in Robot
      BY <2>2, <3>2
    <3> QED BY <3>5, <3>6
  <2> QED BY <2>3, <2>4
<1>3. IInv /\ RobotIdle
      => /\ pc = "assign" /\ Unassigned(objAss) # {} =>
              \E o \in Object, i \in DOMAIN r : MaxObject = {o} /\ MaxRobot(o) = {i}
         /\ pc = "assigned" =>
              \A o \in Object : \E v \in Robot \cup {NULL} : View(o) = {v}
  BY <1>1, <1>2
<1> QED BY <1>0, <1>3, Inductive, PTL

\* A turn of the loop takes one object and one robot from those that have
\* nothing, so that there are no more turns than objects and than robots.
THEOREM EachTurnAssigns ==
  Spec => [][pc = "assign" /\ robotAssignments' # robotAssignments =>
               \E o \in Unassigned(objAss), i \in Unassigned(robotAssignments) :
                 /\ Unassigned(objAss') = Unassigned(objAss) \ {o}
                 /\ Unassigned(robotAssignments') = Unassigned(robotAssignments) \ {i}]_vars
<1>1. ASSUME IInv, [Next]_vars, pc = "assign", robotAssignments' # robotAssignments
      PROVE  \E o \in Unassigned(objAss), i \in Unassigned(robotAssignments) :
               /\ Unassigned(objAss') = Unassigned(objAss) \ {o}
               /\ Unassigned(robotAssignments') = Unassigned(robotAssignments) \ {i}
  <2>1. Assign
    BY <1>1 DEF Next, NoObjectLeft, WriteBack, vars
  <2>2. PICK o \in MaxObject : \E i \in MaxRobot(o) :
          /\ robotAssignments' = [robotAssignments EXCEPT ![i] = o]
          /\ objAss' = [objAss EXCEPT ![o] = i]
    BY <2>1 DEF Assign
  <2>3. PICK i \in MaxRobot(o) :
          /\ robotAssignments' = [robotAssignments EXCEPT ![i] = o]
          /\ objAss' = [objAss EXCEPT ![o] = i]
    BY <2>2
  <2>4. o \in Unassigned(objAss) /\ i \in Unassigned(robotAssignments)
    BY DEF MaxObject, MaxRobot, Best
  <2>5. o # None /\ i # None
    BY <1>1, <2>4 DEF Unassigned, IInv, TypeOK, Object, None
  <2> QED BY <1>1, <2>3, <2>4, <2>5 DEF Unassigned
<1>2. IInv /\ [Next]_vars
      => [pc = "assign" /\ robotAssignments' # robotAssignments =>
            \E o \in Unassigned(objAss), i \in Unassigned(robotAssignments) :
              /\ Unassigned(objAss') = Unassigned(objAss) \ {o}
              /\ Unassigned(robotAssignments') = Unassigned(robotAssignments) \ {i}]_vars
  BY <1>1
<1> QED BY <1>2, Inductive, PTL DEF Spec

-----------------------------------------------------------------------------
(* Framing.                                                                *)

Cells == Seq(Int \X Int)

\* w is what was sent after message g, up to message s.  The last part says, of
\* cells apart, what After says of neighbours.
Stream(w, g, s) ==
  /\ w = <<>> <=> g = s
  /\ w # <<>> => w[1] = <<g + 1, 1>> /\ w[Len(w)] = <<s, Size[s]>>
  /\ \A i \in 1..(Len(w) - 1) : w[i + 1] = After(w[i])
  /\ \A i \in 1..Len(w) : w[i][1] \in (g + 1)..s /\ w[i][2] \in 1..Size[w[i][1]]
  /\ \A i, j \in 1..Len(w) : w[i][1] = w[j][1] => w[i][2] - w[j][2] = i - j

\* p is the front of message m.
IsFront(p, m) == \A i \in 1..Len(p) : p[i] = <<m, i>>

Sound ==
  /\ sent \in 0..Len(Size) /\ good \in 0..sent /\ wrong = "none"
  /\ wire \in Cells /\ input \in Cells /\ arr \in Cells
  /\ buf \in Cells /\ Len(buf) = BufSize /\ buf_offset = 0 /\ bytes_read \in Nat
  /\ at \in {"init", "rest", "head", "frame", "more"}
  /\ at = "frame" => bytes_read \in HeadLen..BufSize
  /\ at = "more" => bytes_read = Len(arr)
  /\ at \in {"rest", "more"} => HeadLen <= Len(Pending) /\ Len(Pending) < Size[good + 1]
  /\ IsFront(Pending, good + 1)
  /\ Stream(InTransit, good, sent)

FramingInv == (~mixed /\ at # "gone") => Sound

-----------------------------------------------------------------------------
(* Streams.                                                                *)

LEMMA SizeOf == ASSUME NEW m \in 1..Len(Size) PROVE Size[m] \in Nat /\ Size[m] >= 1 /\ Size[m] >= HeadLen
BY FramingAssumption DEF Messages

LEMMA SizeLen == Len(Size) \in Nat
BY FramingAssumption

LEMMA CellAt ==
  ASSUME NEW w \in Cells, NEW i \in 1..Len(w)
  PROVE  w[i] = <<w[i][1], w[i][2]>> /\ w[i][1] \in Int /\ w[i][2] \in Int
<1>1. w[i] \in Int \X Int BY DEF Cells
<1> QED BY <1>1

LEMMA CellsLen == ASSUME NEW w \in Cells PROVE Len(w) \in Nat /\ (w = <<>> <=> Len(w) = 0)
BY DEF Cells

LEMMA Joined ==
  ASSUME NEW a \in Cells, NEW b \in Cells
  PROVE  /\ a \o b \in Cells /\ Len(a \o b) = Len(a) + Len(b)
         /\ \A i \in 1..Len(a) : (a \o b)[i] = a[i]
         /\ \A i \in (Len(a) + 1)..(Len(a) + Len(b)) : (a \o b)[i] = b[i - Len(a)]
         /\ \A i \in 1..Len(b) : (a \o b)[Len(a) + i] = b[i]
<1>1. Len(a) \in Nat /\ Len(b) \in Nat BY CellsLen
<1>2. /\ a \o b \in Cells /\ Len(a \o b) = Len(a) + Len(b)
      /\ \A i \in 1..(Len(a) + Len(b)) : (a \o b)[i] = IF i <= Len(a) THEN a[i] ELSE b[i - Len(a)]
  BY ConcatProperties DEF Cells
<1>3. \A i \in 1..Len(b) : (a \o b)[Len(a) + i] = b[i]
  <2> SUFFICES ASSUME NEW i \in 1..Len(b) PROVE (a \o b)[Len(a) + i] = b[i] OBVIOUS
  <2>1. Len(a) + i \in 1..(Len(a) + Len(b)) /\ ~(Len(a) + i <= Len(a)) /\ (Len(a) + i) - Len(a) = i BY <1>1
  <2> QED BY <2>1, <1>2
<1> QED BY <1>1, <1>2, <1>3

LEMMA CutAt ==
  ASSUME NEW w \in Cells, NEW n \in 0..Len(w)
  PROVE  /\ SubSeq(w, 1, n) \in Cells /\ Len(SubSeq(w, 1, n)) = n
         /\ \A i \in 1..n : SubSeq(w, 1, n)[i] = w[i]
         /\ SubSeq(w, n + 1, Len(w)) \in Cells /\ Len(SubSeq(w, n + 1, Len(w))) = Len(w) - n
         /\ \A i \in 1..(Len(w) - n) : SubSeq(w, n + 1, Len(w))[i] = w[n + i]
<1>1. Len(w) \in Nat BY CellsLen
<1>2. \A i \in 1..Len(w) : w[i] \in Int \X Int BY DEF Cells
<1>3. \A i \in 1..n : w[i] \in Int \X Int BY <1>1, <1>2
<1>4. \A i \in (n + 1)..Len(w) : w[i] \in Int \X Int BY <1>1, <1>2
<1>5. /\ SubSeq(w, 1, n) \in Cells /\ Len(SubSeq(w, 1, n)) = IF 1 <= n THEN n - 1 + 1 ELSE 0
      /\ \A i \in 1..(n - 1 + 1) : SubSeq(w, 1, n)[i] = w[1 + i - 1]
  BY <1>1, <1>3, SubSeqProperties DEF Cells
<1>6. /\ SubSeq(w, n + 1, Len(w)) \in Cells
      /\ Len(SubSeq(w, n + 1, Len(w))) = IF n + 1 <= Len(w) THEN Len(w) - (n + 1) + 1 ELSE 0
      /\ \A i \in 1..(Len(w) - (n + 1) + 1) : SubSeq(w, n + 1, Len(w))[i] = w[(n + 1) + i - 1]
  BY <1>1, <1>4, SubSeqProperties DEF Cells
<1>7. \A i \in 1..(Len(w) - n) : SubSeq(w, n + 1, Len(w))[i] = w[n + i]
  <2> SUFFICES ASSUME NEW i \in 1..(Len(w) - n) PROVE SubSeq(w, n + 1, Len(w))[i] = w[n + i] OBVIOUS
  <2>1. i \in 1..(Len(w) - (n + 1) + 1) /\ (n + 1) + i - 1 = n + i BY <1>1
  <2> QED BY <2>1, <1>6
<1>8. \A i \in 1..n : SubSeq(w, 1, n)[i] = w[i]
  <2> SUFFICES ASSUME NEW i \in 1..n PROVE SubSeq(w, 1, n)[i] = w[i] OBVIOUS
  <2>1. i \in 1..(n - 1 + 1) /\ 1 + i - 1 = i OBVIOUS
  <2> QED BY <2>1, <1>5
<1> QED BY <1>1, <1>5, <1>6, <1>7, <1>8

LEMMA SameCells ==
  ASSUME NEW a \in Cells, NEW b \in Cells, Len(a) = Len(b), \A i \in 1..Len(a) : a[i] = b[i]
  PROVE  a = b
BY SeqEqual DEF Cells

LEMMA Associates ==
  ASSUME NEW a \in Cells, NEW b \in Cells, NEW c \in Cells
  PROVE  a \o (b \o c) = (a \o b) \o c
<1> DEFINE bc == b \o c
           ab == a \o b
           l == Len(a)
           k == Len(b)
<1>1. l \in Nat /\ k \in Nat /\ Len(c) \in Nat BY CellsLen
<1>2. /\ bc \in Cells /\ Len(bc) = k + Len(c) /\ \A i \in 1..k : bc[i] = b[i]
      /\ \A i \in 1..Len(c) : bc[k + i] = c[i]
  BY Joined
<1>3. /\ ab \in Cells /\ Len(ab) = l + k /\ \A i \in 1..l : ab[i] = a[i]
      /\ \A i \in 1..k : ab[l + i] = b[i]
  BY Joined
<1> HIDE DEF ab, bc
<1>4. /\ a \o bc \in Cells /\ Len(a \o bc) = l + Len(bc) /\ \A i \in 1..l : (a \o bc)[i] = a[i]
      /\ \A i \in 1..Len(bc) : (a \o bc)[l + i] = bc[i]
  BY <1>2, Joined
<1>5. /\ ab \o c \in Cells /\ Len(ab \o c) = Len(ab) + Len(c) /\ \A i \in 1..Len(ab) : (ab \o c)[i] = ab[i]
      /\ \A i \in 1..Len(c) : (ab \o c)[Len(ab) + i] = c[i]
  BY <1>3, Joined
<1> HIDE DEF l, k
<1>6. Len(a \o bc) = Len(ab \o c) BY <1>1, <1>2, <1>3, <1>4, <1>5
<1>7. \A i \in 1..Len(a \o bc) : (a \o bc)[i] = (ab \o c)[i]
  <2> SUFFICES ASSUME NEW i \in 1..Len(a \o bc) PROVE (a \o bc)[i] = (ab \o c)[i] OBVIOUS
  <2>1. i \in Nat /\ i >= 1 /\ i <= l + (k + Len(c)) BY <1>1, <1>2, <1>4
  <2>2. CASE i <= l
    <3>1. i \in 1..l /\ i \in 1..Len(ab) BY <2>1, <2>2, <1>1, <1>3
    <3> QED BY <3>1, <1>3, <1>4, <1>5
  <2>3. CASE i > l /\ i <= l + k
    <3>1. i - l \in 1..k /\ i - l \in 1..Len(bc) /\ i \in 1..Len(ab) /\ l + (i - l) = i BY <2>1, <2>3, <1>1, <1>2, <1>3
    <3>2. (a \o bc)[l + (i - l)] = bc[i - l] /\ ab[l + (i - l)] = b[i - l] BY <3>1, <1>3, <1>4
    <3> QED BY <3>1, <3>2, <1>2, <1>5
  <2>4. CASE i > l + k
    <3> DEFINE j == i - (l + k)
    <3>1. j \in 1..Len(c) /\ k + j \in 1..Len(bc) /\ l + (k + j) = i /\ Len(ab) + j = i
      BY <2>1, <2>4, <1>1, <1>2, <1>3
    <3> HIDE DEF j
    <3>2. (a \o bc)[l + (k + j)] = bc[k + j] /\ (ab \o c)[Len(ab) + j] = c[j] BY <3>1, <1>4, <1>5
    <3>3. bc[k + j] = c[j] BY <3>1, <1>2
    <3> QED BY <3>1, <3>2, <3>3
  <2>5. i <= l \/ (i > l /\ i <= l + k) \/ i > l + k BY <2>1, <1>1
  <2> QED BY <2>2, <2>3, <2>4, <2>5
<1>8. a \o bc = ab \o c BY <1>4, <1>5, <1>6, <1>7, SameCells
<1> QED BY <1>8 DEF ab, bc

LEMMA WholeCells ==
  ASSUME NEW m \in 1..Len(Size)
  PROVE  Whole(m) \in Cells /\ Len(Whole(m)) = Size[m] /\ \A k \in 1..Size[m] : Whole(m)[k] = <<m, k>>
<1> DEFINE z == Size[m]
<1>1. z \in Nat /\ m \in Int BY SizeOf, SizeLen
<1> HIDE DEF z
<1>2. [k \in 1..z |-> <<m, k>>] \in Seq(Int \X Int) /\ Len([k \in 1..z |-> <<m, k>>]) = z BY <1>1
<1> QED BY <1>2 DEF Whole, Cells, z

\* A message that is sent is added at the end.
LEMMA Sends ==
  ASSUME NEW w \in Cells, NEW s \in 0..(Len(Size) - 1), NEW g \in 0..s, Stream(w, g, s)
  PROVE  w \o Whole(s + 1) \in Cells /\ Stream(w \o Whole(s + 1), g, s + 1)
<1> DEFINE z == Size[s + 1]
           x == Whole(s + 1)
           v == w \o x
<1>1. s + 1 \in 1..Len(Size) /\ z \in Nat /\ z >= 1 BY SizeOf, SizeLen
<1>2. x \in Cells /\ Len(x) = z /\ \A k \in 1..z : x[k] = <<s + 1, k>> BY <1>1, WholeCells
<1> HIDE DEF x, z
<1>3. /\ v \in Cells /\ Len(v) = Len(w) + z
      /\ \A i \in 1..Len(w) : v[i] = w[i]
      /\ \A i \in (Len(w) + 1)..Len(v) : v[i] = <<s + 1, i - Len(w)>>
  <2>1. /\ v \in Cells /\ Len(v) = Len(w) + Len(x)
        /\ \A i \in 1..Len(w) : v[i] = w[i]
        /\ \A i \in (Len(w) + 1)..(Len(w) + Len(x)) : v[i] = x[i - Len(w)]
    BY <1>2, Joined
  <2>2. \A i \in (Len(w) + 1)..(Len(w) + z) : i - Len(w) \in 1..z BY <1>1, CellsLen
  <2> QED BY <2>1, <2>2, <1>1, <1>2
<1> HIDE DEF v
<1>4. Len(w) \in Nat /\ Len(v) \in Nat BY <1>3, CellsLen
<1>5. \A i \in 1..Len(w) : w[i][1] \in (g + 1)..s /\ w[i][2] \in 1..Size[w[i][1]] BY DEF Stream
<1>6. v # <<>> /\ v[Len(v)] = <<s + 1, z>> BY <1>1, <1>3, <1>4
<1>7. v[1] = <<g + 1, 1>>
  <2>1. CASE w = <<>> BY <2>1, <1>1, <1>3, <1>4 DEF Stream
  <2>2. CASE w # <<>>
    <3>1. Len(w) >= 1 BY <2>2 DEF Cells
    <3> QED BY <2>2, <3>1, <1>3, <1>4 DEF Stream
  <2> QED BY <2>1, <2>2
<1>8. \A i \in 1..(Len(v) - 1) : v[i + 1] = After(v[i])
  <2> SUFFICES ASSUME NEW i \in 1..(Len(v) - 1) PROVE v[i + 1] = After(v[i]) OBVIOUS
  <2>1. CASE i < Len(w)
    <3>1. v[i] = w[i] /\ v[i + 1] = w[i + 1] /\ i \in 1..(Len(w) - 1) BY <2>1, <1>3, <1>4
    <3> QED BY <3>1 DEF Stream
  <2>2. CASE i = Len(w)
    <3>1. w # <<>> /\ w[Len(w)] = <<s, Size[s]>> BY <2>2, <1>4 DEF Stream, Cells
    <3>2. v[i] = <<s, Size[s]>> /\ v[i + 1] = <<s + 1, 1>> BY <2>2, <3>1, <1>3, <1>4
    <3>3. After(<<s, Size[s]>>) = <<s + 1, 1>>
      <4>1. Len(w) >= 1 BY <2>2
      <4>2. s \in Nat /\ Size[s] \in Int BY <4>1, <3>1, <1>4, SizeOf, SizeLen DEF Cells
      <4> QED BY <4>2 DEF After
    <3> QED BY <3>2, <3>3
  <2>3. CASE i > Len(w)
    <3>1. v[i] = <<s + 1, i - Len(w)>> /\ v[i + 1] = <<s + 1, i + 1 - Len(w)>> BY <2>3, <1>3, <1>4
    <3>2. i - Len(w) < z BY <1>1, <1>3, <1>4
    <3>3. After(<<s + 1, i - Len(w)>>) = <<s + 1, i - Len(w) + 1>> BY <3>2, <1>4 DEF After, z
    <3> QED BY <3>1, <3>3, <1>4
  <2> QED BY <2>1, <2>2, <2>3, <1>4
<1>9. \A i \in 1..Len(v) : v[i][1] \in (g + 1)..(s + 1) /\ v[i][2] \in 1..Size[v[i][1]]
  <2> SUFFICES ASSUME NEW i \in 1..Len(v) PROVE v[i][1] \in (g + 1)..(s + 1) /\ v[i][2] \in 1..Size[v[i][1]]
    OBVIOUS
  <2>1. CASE i <= Len(w) BY <2>1, <1>3, <1>4, <1>5
  <2>2. CASE i > Len(w)
    <3>1. v[i] = <<s + 1, i - Len(w)>> BY <2>2, <1>3, <1>4
    <3>2. i - Len(w) \in 1..z BY <2>2, <1>1, <1>3, <1>4
    <3> QED BY <3>1, <3>2 DEF z
  <2> QED BY <2>1, <2>2, <1>4
<1>10. \A i, j \in 1..Len(v) : v[i][1] = v[j][1] => v[i][2] - v[j][2] = i - j
  <2> SUFFICES ASSUME NEW i \in 1..Len(v), NEW j \in 1..Len(v), v[i][1] = v[j][1]
               PROVE  v[i][2] - v[j][2] = i - j
    OBVIOUS
  <2>1. CASE i <= Len(w) /\ j <= Len(w)
    <3>1. v[i] = w[i] /\ v[j] = w[j] /\ i \in 1..Len(w) /\ j \in 1..Len(w) BY <2>1, <1>3, <1>4
    <3> QED BY <3>1 DEF Stream
  <2>2. CASE i > Len(w) /\ j > Len(w) BY <2>2, <1>3, <1>4
  <2>3. CASE i <= Len(w) /\ j > Len(w)
    <3>1. v[i] = w[i] /\ w[i][1] <= s /\ v[j][1] = s + 1 /\ w[i][1] \in Int BY <2>3, <1>3, <1>4, <1>5
    <3> QED BY <3>1
  <2>4. CASE i > Len(w) /\ j <= Len(w)
    <3>1. v[j] = w[j] /\ w[j][1] <= s /\ v[i][1] = s + 1 /\ w[j][1] \in Int BY <2>4, <1>3, <1>4, <1>5
    <3> QED BY <3>1
  <2> QED BY <2>1, <2>2, <2>3, <2>4, <1>4
<1>11. g # s + 1 OBVIOUS
<1>12. Stream(v, g, s + 1) BY <1>6, <1>7, <1>8, <1>9, <1>10, <1>11 DEF Stream, z
<1> QED BY <1>3, <1>12 DEF v, x

\* A read of cells of one message adds to the front of the message that is due.
LEMMA Reads ==
  ASSUME NEW p \in Cells, NEW w \in Cells, NEW s \in 0..Len(Size), NEW g \in 0..s,
         Stream(p \o w, g, s), IsFront(p, g + 1), p # <<>> => Len(p) < Size[g + 1],
         NEW n \in 0..Len(w), \A i, j \in 1..n : w[i][1] = w[j][1]
  PROVE  /\ p \o SubSeq(w, 1, n) \in Cells /\ SubSeq(w, n + 1, Len(w)) \in Cells
         /\ Len(p \o SubSeq(w, 1, n)) = Len(p) + n
         /\ (p \o SubSeq(w, 1, n)) \o SubSeq(w, n + 1, Len(w)) = p \o w
         /\ IsFront(p \o SubSeq(w, 1, n), g + 1)
         /\ Len(p) + n > 0 => g < s /\ Len(p) + n <= Size[g + 1]
<1> DEFINE a == SubSeq(w, 1, n)
           back == SubSeq(w, n + 1, Len(w))
           q == p \o a
           v == p \o w
<1>1. Len(w) \in Nat /\ Len(p) \in Nat BY CellsLen
<1>2. a \in Cells /\ Len(a) = n /\ \A i \in 1..n : a[i] = w[i] BY CutAt
<1>3. back \in Cells /\ Len(back) = Len(w) - n /\ \A i \in 1..(Len(w) - n) : back[i] = w[n + i] BY CutAt
<1> HIDE DEF a, back
<1>4. /\ q \in Cells /\ Len(q) = Len(p) + n /\ \A i \in 1..Len(p) : q[i] = p[i]
      /\ \A i \in (Len(p) + 1)..(Len(p) + n) : q[i] = w[i - Len(p)]
  <2>1. /\ q \in Cells /\ Len(q) = Len(p) + Len(a) /\ \A i \in 1..Len(p) : q[i] = p[i]
        /\ \A i \in (Len(p) + 1)..(Len(p) + Len(a)) : q[i] = a[i - Len(p)]
    BY <1>2, Joined
  <2>2. \A i \in (Len(p) + 1)..(Len(p) + n) : i - Len(p) \in 1..n BY <1>1
  <2> QED BY <2>1, <2>2, <1>2
<1>5. /\ v \in Cells /\ Len(v) = Len(p) + Len(w) /\ \A i \in 1..Len(p) : v[i] = p[i]
      /\ \A i \in (Len(p) + 1)..(Len(p) + Len(w)) : v[i] = w[i - Len(p)]
  BY Joined
<1> HIDE DEF q
<1>6. q \o back = v
  <2>1. /\ q \o back \in Cells /\ Len(q \o back) = Len(q) + Len(back) /\ \A i \in 1..Len(q) : (q \o back)[i] = q[i]
        /\ \A i \in (Len(q) + 1)..(Len(q) + Len(back)) : (q \o back)[i] = back[i - Len(q)]
    BY <1>3, <1>4, Joined
  <2>3. Len(q \o back) = Len(v) BY <2>1, <1>1, <1>3, <1>4, <1>5
  <2>2. \A i \in 1..Len(v) : (q \o back)[i] = v[i]
    <3> SUFFICES ASSUME NEW i \in 1..Len(v) PROVE (q \o back)[i] = v[i] OBVIOUS
    <3>1. CASE i <= Len(q)
      <4>1. (q \o back)[i] = q[i] BY <3>1, <2>1, <1>1, <1>4
      <4>2. CASE i <= Len(p) BY <4>1, <4>2, <1>1, <1>4, <1>5
      <4>3. CASE i > Len(p)
        <5>1. i \in (Len(p) + 1)..(Len(p) + n) /\ i \in (Len(p) + 1)..(Len(p) + Len(w)) BY <3>1, <4>3, <1>1, <1>4
        <5> QED BY <4>1, <5>1, <1>4, <1>5
      <4>5. i \in Nat BY <1>1, <1>5
      <4>4. i <= Len(p) \/ i > Len(p) BY <1>1, <4>5
      <4> QED BY <4>2, <4>3, <4>4
    <3>2. CASE i > Len(q)
      <4>1. /\ i \in (Len(q) + 1)..(Len(q) + Len(back)) /\ i \in (Len(p) + 1)..(Len(p) + Len(w))
            /\ i - Len(q) \in 1..(Len(w) - n) /\ n + (i - Len(q)) = i - Len(p)
        BY <3>2, <1>1, <1>3, <1>4, <1>5
      <4>2. (q \o back)[i] = back[i - Len(q)] BY <4>1, <2>1
      <4>3. back[i - Len(q)] = w[n + (i - Len(q))] BY <4>1, <1>3
      <4> QED BY <4>1, <4>2, <4>3, <1>5
    <3>3. i \in Nat /\ Len(q) \in Nat BY <1>1, <1>4, <1>5
    <3>4. i <= Len(q) \/ i > Len(q) BY <3>3
    <3> QED BY <3>1, <3>2, <3>4
  <2> QED BY <2>1, <2>2, <2>3, <1>5, SameCells
<1> HIDE DEF v
<1>7. Stream(v, g, s) BY DEF v
<1>8. ASSUME Len(p) + n > 0
      PROVE  g < s /\ Len(p) + n <= Size[g + 1] /\ IsFront(q, g + 1)
  <2>1. v # <<>> /\ Len(v) >= 1 /\ Len(v) \in Nat /\ Len(p) + n <= Len(v) BY <1>8, <1>1, <1>5
  <2>2. v[1] = <<g + 1, 1>> /\ g < s BY <2>1, <1>7 DEF Stream
  <2>3. Size[g + 1] \in Nat /\ Size[g + 1] >= 1 BY <2>2, SizeOf, SizeLen
  <2>4. \A i \in 1..(Len(p) + n) : v[i][1] = g + 1
    <3>1. \A i \in 1..Len(p) : v[i][1] = g + 1 BY <1>1, <1>5 DEF IsFront
    <3>2. n > 0 => v[Len(p) + 1][1] = g + 1
      <4>1. CASE p = <<>> BY <4>1, <2>2
      <4>2. CASE p # <<>> /\ n > 0
        <5>1. Len(p) >= 1 BY <4>2 DEF Cells
        <5>2. v[Len(p)] = <<g + 1, Len(p)>> BY <5>1, <1>1, <1>5 DEF IsFront
        <5>3. v[Len(p) + 1] = After(v[Len(p)]) BY <4>2, <5>1, <1>1, <1>5, <1>7 DEF Stream
        <5>4. After(<<g + 1, Len(p)>>) = <<g + 1, Len(p) + 1>> BY <4>2, <1>1, <2>3 DEF After
        <5> QED BY <5>2, <5>3, <5>4
      <4> QED BY <4>1, <4>2
    <3>3. \A i \in (Len(p) + 1)..(Len(p) + n) : v[i][1] = g + 1
      <4> SUFFICES ASSUME NEW i \in (Len(p) + 1)..(Len(p) + n) PROVE v[i][1] = g + 1 OBVIOUS
      <4>1. n > 0 /\ i - Len(p) \in 1..n /\ 1 \in 1..n BY <1>1
      <4>2. w[i - Len(p)][1] = w[1][1] BY <4>1
      <4>3. v[i] = w[i - Len(p)] /\ v[Len(p) + 1] = w[1] BY <4>1, <1>1, <1>5
      <4> QED BY <4>1, <4>2, <4>3, <3>2
    <3> QED BY <3>1, <3>3, <1>1
  <2>5. \A i \in 1..(Len(p) + n) : v[i][2] = i
    <3> SUFFICES ASSUME NEW i \in 1..(Len(p) + n) PROVE v[i][2] = i OBVIOUS
    <3>1. v[i][1] = v[1][1] /\ v[1][2] = 1 /\ i \in 1..Len(v) /\ 1 \in 1..Len(v) BY <2>1, <2>2, <2>4, <1>1
    <3>2. v[i][2] - v[1][2] = i - 1 BY <3>1, <1>7 DEF Stream
    <3>3. v[i][2] \in Int BY <3>1, <1>5, CellAt
    <3> QED BY <3>1, <3>2, <3>3
  <2>6. \A i \in 1..(Len(p) + n) : q[i] = v[i]
    <3> SUFFICES ASSUME NEW i \in 1..(Len(p) + n) PROVE q[i] = v[i] OBVIOUS
    <3>1. CASE i <= Len(p) BY <3>1, <1>1, <1>4, <1>5
    <3>2. CASE i > Len(p)
      <4>1. i \in (Len(p) + 1)..(Len(p) + n) /\ i \in (Len(p) + 1)..(Len(p) + Len(w)) BY <3>2, <1>1
      <4> QED BY <4>1, <1>4, <1>5
    <3> QED BY <3>1, <3>2, <1>1
  <2>7. \A i \in 1..(Len(p) + n) : v[i] = <<v[i][1], v[i][2]>>
    <3> SUFFICES ASSUME NEW i \in 1..(Len(p) + n) PROVE v[i] = <<v[i][1], v[i][2]>> OBVIOUS
    <3>1. i \in 1..Len(v) BY <2>1, <1>1
    <3> QED BY <3>1, <1>5, CellAt
  <2>8. IsFront(q, g + 1) BY <2>4, <2>5, <2>6, <2>7, <1>4 DEF IsFront
  <2>9. Len(p) + n \in 1..Len(v) BY <2>1, <1>8, <1>1
  <2>10. v[Len(p) + n][2] <= Size[v[Len(p) + n][1]] BY <2>9, <1>7, SizeLen DEF Stream
  <2> QED BY <2>2, <2>4, <2>5, <2>8, <2>9, <2>10, <1>8, <1>1
<1>9. CASE Len(p) + n > 0 BY <1>9, <1>3, <1>4, <1>6, <1>8 DEF a, back, q, v
<1>10. CASE ~(Len(p) + n > 0)
  <2>1. Len(q) = 0 BY <1>10, <1>1, <1>4
  <2>2. IsFront(q, g + 1) BY <2>1 DEF IsFront
  <2> QED BY <2>2, <1>10, <1>3, <1>4, <1>6 DEF a, back, q, v
<1> QED BY <1>9, <1>10

\* A message that is complete leaves at the front.
LEMMA Leaves ==
  ASSUME NEW q \in Cells, NEW back \in Cells, NEW s \in 0..Len(Size), NEW g \in 0..s, g < s,
         Stream(q \o back, g, s), Len(q) = Size[g + 1], IsFront(q, g + 1)
  PROVE  Stream(back, g + 1, s) /\ q = Whole(g + 1)
<1> DEFINE v == q \o back
           z == Size[g + 1]
<1>1. z \in Nat /\ z >= 1 /\ Len(back) \in Nat BY SizeOf, SizeLen, CellsLen
<1>2. /\ v \in Cells /\ Len(v) = z + Len(back) /\ \A i \in 1..z : v[i] = <<g + 1, i>>
      /\ \A i \in 1..Len(back) : back[i] = v[z + i]
  <2>1. /\ v \in Cells /\ Len(v) = Len(q) + Len(back) /\ \A i \in 1..Len(q) : v[i] = q[i]
        /\ \A i \in 1..Len(back) : v[Len(q) + i] = back[i]
    BY Joined
  <2> QED BY <2>1 DEF IsFront
<1>3. q = Whole(g + 1)
  <2>1. g + 1 \in 1..Len(Size) BY SizeLen
  <2>2. Whole(g + 1) \in Cells /\ Len(Whole(g + 1)) = Len(q) /\ \A k \in 1..Len(q) : Whole(g + 1)[k] = <<g + 1, k>>
    BY <2>1, WholeCells
  <2> QED BY <2>2, SameCells DEF IsFront
<1> HIDE DEF v
<1>4. Stream(v, g, s) BY DEF v
<1> HIDE DEF z
<1>5. v # <<>> /\ v[Len(v)] = <<s, Size[s]>> BY <1>1, <1>2, <1>4 DEF Stream
<1>6. v[z] = <<g + 1, z>> BY <1>1, <1>2
<1>7. back = <<>> <=> g + 1 = s
  <2>1. ASSUME back = <<>> PROVE g + 1 = s BY <2>1, <1>1, <1>2, <1>5, <1>6
  <2>2. ASSUME g + 1 = s, back # <<>> PROVE FALSE
    <3>1. Len(back) >= 1 BY <2>2, <1>1 DEF Cells
    <3>2. v[Len(v)] = <<g + 1, z>> BY <2>2, <1>5 DEF z
    <3>3. Len(v) \in 1..Len(v) /\ z \in 1..Len(v) /\ Len(v) # z BY <3>1, <1>1, <1>2
    <3>5. v[Len(v)][1] = v[z][1] BY <3>2, <1>6
    <3>4. v[Len(v)][2] - v[z][2] = Len(v) - z BY <3>3, <3>5, <1>4 DEF Stream
    <3> QED BY <3>2, <3>3, <3>4, <1>1, <1>2, <1>6
  <2> QED BY <2>1, <2>2
<1>8. back # <<>> => back[1] = <<g + 2, 1>> /\ back[Len(back)] = <<s, Size[s]>>
  <2> SUFFICES ASSUME back # <<>> PROVE back[1] = <<g + 2, 1>> /\ back[Len(back)] = <<s, Size[s]>> OBVIOUS
  <2>1. Len(back) >= 1 BY <1>1 DEF Cells
  <2>2. v[z + 1] = After(v[z]) BY <2>1, <1>1, <1>2, <1>4 DEF Stream
  <2>3. After(<<g + 1, z>>) = <<g + 2, 1>>
    <3>1. g + 1 + 1 = g + 2 /\ ~(z < z) BY <1>1
    <3> QED BY <3>1 DEF After, z
  <2>4. back[1] = v[z + 1] /\ back[Len(back)] = v[Len(v)] BY <2>1, <1>1, <1>2
  <2> QED BY <2>2, <2>3, <2>4, <1>5, <1>6
<1>9. \A i \in 1..(Len(back) - 1) : back[i + 1] = After(back[i])
  <2> SUFFICES ASSUME NEW i \in 1..(Len(back) - 1) PROVE back[i + 1] = After(back[i]) OBVIOUS
  <2>1. back[i] = v[z + i] /\ back[i + 1] = v[z + (i + 1)] BY <1>1, <1>2
  <2>2. z + i \in 1..(Len(v) - 1) /\ z + (i + 1) = (z + i) + 1 BY <1>1, <1>2
  <2> QED BY <2>1, <2>2, <1>4 DEF Stream
<1>10. \A i \in 1..Len(back) : back[i][1] \in (g + 2)..s /\ back[i][2] \in 1..Size[back[i][1]]
  <2> SUFFICES ASSUME NEW i \in 1..Len(back) PROVE back[i][1] \in (g + 2)..s /\ back[i][2] \in 1..Size[back[i][1]]
    OBVIOUS
  <2>1. back[i] = v[z + i] /\ z + i \in 1..Len(v) /\ z \in 1..Len(v) BY <1>1, <1>2
  <2>2. back[i][1] \in (g + 1)..s /\ back[i][2] \in 1..Size[back[i][1]] BY <2>1, <1>4 DEF Stream
  <2>3. ASSUME back[i][1] = g + 1 PROVE FALSE
    <3>1. v[z + i][1] = v[z][1] BY <2>1, <2>3, <1>6
    <3>2. v[z + i][2] - v[z][2] = (z + i) - z BY <2>1, <3>1, <1>4 DEF Stream
    <3>3. v[z + i][2] \in 1..z BY <2>1, <2>2, <2>3 DEF z
    <3> QED BY <3>2, <3>3, <1>1, <1>6
  <2> QED BY <2>2, <2>3
<1>11. \A i, j \in 1..Len(back) : back[i][1] = back[j][1] => back[i][2] - back[j][2] = i - j
  <2> SUFFICES ASSUME NEW i \in 1..Len(back), NEW j \in 1..Len(back), back[i][1] = back[j][1]
               PROVE  back[i][2] - back[j][2] = i - j
    OBVIOUS
  <2>1. back[i] = v[z + i] /\ back[j] = v[z + j] BY <1>2
  <2>3. z + i \in 1..Len(v) /\ z + j \in 1..Len(v) BY <1>1, <1>2
  <2>4. v[z + i][1] = v[z + j][1] BY <2>1
  <2>5. \A k, l \in 1..Len(v) : v[k][1] = v[l][1] => v[k][2] - v[l][2] = k - l BY <1>4 DEF Stream
  <2>2. v[z + i][2] - v[z + j][2] = (z + i) - (z + j) BY <2>3, <2>4, <2>5
  <2> QED BY <2>1, <2>2, <1>1
<1>12. (g + 1) + 1 = g + 2 OBVIOUS
<1> QED BY <1>3, <1>7, <1>8, <1>9, <1>10, <1>11, <1>12 DEF Stream

-----------------------------------------------------------------------------
(* What the operators of the model do in a Sound state.                    *)

LEMMA TotalIs ==
  ASSUME NEW b, NEW m \in 1..Len(Size), \A k \in 1..HeadLen : b[k] = <<m, k>>
  PROVE  Total(b) = Size[m]
<1>1. 1 \in 1..HeadLen BY FramingAssumption
<1>2. \A l \in Messages : (\A k \in 1..HeadLen : b[k] = <<l, k>>) <=> l = m
  <2> SUFFICES ASSUME NEW l \in Messages PROVE (\A k \in 1..HeadLen : b[k] = <<l, k>>) <=> l = m OBVIOUS
  <2>1. ASSUME \A k \in 1..HeadLen : b[k] = <<l, k>> PROVE l = m
    <3>1. b[1] = <<l, 1>> /\ b[1] = <<m, 1>> BY <1>1, <2>1
    <3> QED BY <3>1
  <2> QED BY <2>1
<1>3. m \in Messages BY DEF Messages
<1>4. (CHOOSE l \in Messages : \A k \in 1..HeadLen : b[k] = <<l, k>>) = m BY <1>2, <1>3
<1> QED BY <1>2, <1>3, <1>4 DEF Total

LEMMA PlaceFront ==
  ASSUME NEW b \in Cells, Len(b) = BufSize, NEW t \in Cells, Len(t) <= BufSize
  PROVE  /\ Place(b, 0, t) \in Cells /\ Len(Place(b, 0, t)) = BufSize
         /\ SubSeq(Place(b, 0, t), 1, Len(t)) = t
<1> DEFINE x == Place(b, 0, t)
<1>1. BufSize \in Nat /\ Len(t) \in Nat BY CellsLen, FramingAssumption
<1>2. x = [i \in 1..BufSize |-> IF i \in 1..Len(t) THEN t[i] ELSE b[i]]
  <2>1. \A i \in 1..BufSize : (i \in (0 + 1)..(0 + Len(t)) <=> i \in 1..Len(t)) /\ i - 0 = i BY <1>1
  <2> QED BY <2>1 DEF Place
<1>3. \A i \in 1..BufSize : (IF i \in 1..Len(t) THEN t[i] ELSE b[i]) \in Int \X Int
  <2>1. \A i \in 1..Len(t) : t[i] \in Int \X Int BY DEF Cells
  <2>2. \A i \in 1..BufSize : b[i] \in Int \X Int BY DEF Cells
  <2> QED BY <2>1, <2>2
<1> HIDE DEF x
<1>4. x \in Cells /\ Len(x) = BufSize BY <1>1, <1>2, <1>3 DEF Cells
<1>5. \A i \in 1..Len(t) : x[i] = t[i]
  <2>1. \A i \in 1..Len(t) : i \in 1..BufSize BY <1>1
  <2> QED BY <2>1, <1>2
<1>6. Len(t) \in 0..Len(x) BY <1>1, <1>4
<1>7. /\ SubSeq(x, 1, Len(t)) \in Cells /\ Len(SubSeq(x, 1, Len(t))) = Len(t)
      /\ \A i \in 1..Len(t) : SubSeq(x, 1, Len(t))[i] = x[i]
  BY <1>4, <1>6, CutAt
<1>8. SubSeq(x, 1, Len(t)) = t BY <1>5, <1>7, SameCells
<1> QED BY <1>4, <1>8 DEF x

LEMMA FullCut == ASSUME NEW q \in Cells PROVE SubSeq(q, 1, Len(q)) = q /\ <<>> \o q = q
<1>1. Len(q) \in 0..Len(q) BY CellsLen
<1>2. SubSeq(q, 1, Len(q)) = q
  <2> DEFINE x == SubSeq(q, 1, Len(q))
  <2>1. x \in Cells /\ Len(x) = Len(q) /\ \A i \in 1..Len(q) : x[i] = q[i] BY <1>1, CutAt
  <2> HIDE DEF x
  <2>2. x = q BY <2>1, SameCells
  <2> QED BY <2>2 DEF x
<1> QED BY <1>2, ConcatEmptySeq DEF Cells

LEMMA PendingCells == ASSUME Sound PROVE Pending \in Cells /\ InTransit \in Cells
<1>1. <<>> \in Cells BY DEF Cells
<1>2. Pending \in Cells
  <2>1. CASE at = "frame"
    <3>1. bytes_read \in 0..Len(buf) BY <2>1, FramingAssumption DEF Sound
    <3>2. SubSeq(buf, 1, bytes_read) \in Cells BY <3>1, CutAt DEF Sound
    <3> QED BY <2>1, <3>2 DEF Pending
  <2>2. CASE at = "rest" BY <2>2 DEF Pending, Sound
  <2>3. CASE at = "more" BY <2>3 DEF Pending, Sound
  <2>4. CASE at \notin {"frame", "rest", "more"} BY <2>4, <1>1 DEF Pending
  <2> QED BY <2>1, <2>2, <2>3, <2>4
<1> QED BY <1>2, Joined DEF InTransit, Sound

\* A read of n cells in a Sound state.
LEMMA Gets ==
  ASSUME Sound, ~mixed', NEW n \in 0..Len(wire), Take(n), Pending # <<>> => Len(Pending) < Size[good + 1]
  PROVE  /\ Pending \o SubSeq(wire, 1, n) \in Cells /\ wire' \in Cells
         /\ Len(Pending \o SubSeq(wire, 1, n)) = Len(Pending) + n
         /\ (Pending \o SubSeq(wire, 1, n)) \o wire' = InTransit
         /\ IsFront(Pending \o SubSeq(wire, 1, n), good + 1)
         /\ Len(Pending) + n > 0 => good < sent /\ Len(Pending) + n <= Size[good + 1]
<1>1. \A i, j \in 1..n : wire[i][1] = wire[j][1] BY DEF Take
<1>2. /\ Pending \in Cells /\ wire \in Cells /\ sent \in 0..Len(Size) /\ good \in 0..sent
      /\ Stream(Pending \o wire, good, sent) /\ IsFront(Pending, good + 1)
  BY PendingCells DEF Sound, InTransit
<1>3. wire' = SubSeq(wire, n + 1, Len(wire)) BY DEF Take
<1> QED BY <1>1, <1>2, <1>3, Reads DEF InTransit

\* The message that is due is complete.
LEMMA Done ==
  ASSUME Sound, NEW q \in Cells, wire' \in Cells, q \o wire' = InTransit, IsFront(q, good + 1),
         good < sent, Len(q) = Size[good + 1], Deliver(q), sent' = sent
  PROVE  good' = good + 1 /\ wrong' = "none" /\ good' \in 0..sent' /\ Stream(wire', good', sent')
<1>1. sent \in 0..Len(Size) /\ good \in 0..sent /\ Stream(InTransit, good, sent) /\ wrong = "none" BY DEF Sound
<1>2. Stream(wire', good + 1, sent) /\ q = Whole(good + 1) BY <1>1, Leaves
<1>3. good < Len(Size) /\ good + 1 \in 0..sent BY <1>1, SizeLen
<1>4. good' = good + 1 /\ wrong' = wrong BY <1>2, <1>3 DEF Deliver
<1> QED BY <1>1, <1>2, <1>3, <1>4

\* What Sound says of a state in which nothing is pending.
LEMMA SoundIdle ==
  ASSUME at' \in {"init", "head"}, sent' \in 0..Len(Size), good' \in 0..sent', wrong' = "none",
         wire' \in Cells, input' \in Cells, arr' \in Cells, buf' \in Cells, Len(buf') = BufSize,
         buf_offset' = 0, bytes_read' \in Nat, Stream(wire', good', sent')
  PROVE  Sound'
<1>1. Pending' = <<>> /\ InTransit' = wire' BY FullCut DEF Pending, InTransit
<1>2. IsFront(Pending', good' + 1) BY <1>1 DEF IsFront
<1> QED BY <1>1, <1>2 DEF Sound

-----------------------------------------------------------------------------
(* The steps.                                                              *)

LEMMA InitSound == ASSUME FramingInit PROVE FramingInv
<1>1. <<>> \in Cells /\ Len(<<>>) = 0 BY DEF Cells
<1>2. Blank \in Cells /\ Len(Blank) = BufSize BY FramingAssumption DEF Blank, Zero, Cells
<1>3. Pending = <<>> /\ InTransit = <<>> BY <1>1, FullCut DEF FramingInit, Pending, InTransit
<1>4. Stream(<<>>, 0, 0) BY <1>1 DEF Stream
<1>5. IsFront(<<>>, 1) BY <1>1 DEF IsFront
<1> QED BY <1>1, <1>2, <1>3, <1>4, <1>5, SizeLen DEF FramingInit, FramingInv, Sound

LEMMA SendSound == ASSUME Sound, Send PROVE Sound'
<1>1. sent \in 0..(Len(Size) - 1) /\ good \in 0..sent BY SizeLen DEF Send, Sound
<1>2. Stream(InTransit, good, sent) /\ InTransit \in Cells /\ Pending \in Cells /\ wire \in Cells
  BY PendingCells DEF Sound
<1>3. InTransit \o Whole(sent + 1) \in Cells /\ Stream(InTransit \o Whole(sent + 1), good, sent + 1)
  BY <1>1, <1>2, Sends
<1>4. Whole(sent + 1) \in Cells BY <1>1, SizeLen, WholeCells
<1>5. wire' = wire \o Whole(sent + 1) /\ wire' \in Cells BY <1>2, <1>4, Joined DEF Send
<1>6. Pending' = Pending BY DEF Send, loop, Pending
<1>7. InTransit' = InTransit \o Whole(sent + 1)
  <2>1. Pending \o (wire \o Whole(sent + 1)) = (Pending \o wire) \o Whole(sent + 1)
    BY <1>2, <1>4, Associates
  <2> QED BY <2>1, <1>5, <1>6 DEF InTransit
<1>8. sent' = sent + 1 /\ sent' \in 0..Len(Size) /\ good' = good /\ good' \in 0..sent'
  BY <1>1, SizeLen DEF Send
<1>9. Stream(InTransit', good', sent') BY <1>3, <1>7, <1>8
<1> QED BY <1>5, <1>6, <1>8, <1>9 DEF Send, loop, Sound

LEMMA ReadInitSound == ASSUME Sound, ReadInit, ~mixed' PROVE Sound'
<1>1. Pending = <<>> /\ at = "init" BY DEF ReadInit, Pending
<1>2. PICK n \in Counts(HeadLen, Len(wire)) :
        LET s == SubSeq(wire, 1, n)
        IN /\ n >= HeadLen /\ Take(n)
           /\ IF n >= Total(s) THEN Connected(s) ELSE at' = "rest" /\ input' = s /\ UNCHANGED <<good, wrong>>
  BY DEF ReadInit
<1> DEFINE s == SubSeq(wire, 1, n)
<1>3. n \in 0..Len(wire) /\ n >= HeadLen /\ Take(n) BY <1>2 DEF Counts
<1>4. Pending \o s = s
  <2>1. s \in Cells BY <1>3, CutAt DEF Sound
  <2> HIDE DEF s
  <2> QED BY <2>1, <1>1, FullCut
<1>5. /\ s \in Cells /\ wire' \in Cells /\ Len(s) = n /\ s \o wire' = InTransit /\ IsFront(s, good + 1)
      /\ good < sent /\ n <= Size[good + 1]
  <2>1. Len(Pending) = 0 /\ n > 0 BY <1>1, <1>3, FramingAssumption
  <2> QED BY <1>1, <1>3, <1>4, <2>1, Gets
<1>6. UNCHANGED <<sent, buf, buf_offset, bytes_read, arr>> BY DEF ReadInit, loop
<1>7. good + 1 \in 1..Len(Size) BY <1>5, SizeLen DEF Sound
<1>8. Total(s) = Size[good + 1]
  <2>1. \A k \in 1..HeadLen : s[k] = <<good + 1, k>>
    <3>1. \A k \in 1..HeadLen : k \in 1..Len(s) BY <1>3, <1>5, FramingAssumption
    <3> QED BY <3>1, <1>5 DEF IsFront
  <2> HIDE DEF s
  <2> QED BY <2>1, <1>7, TotalIs
<1>9. CASE n >= Total(s)
  <2>1. Connected(s) BY <1>2, <1>9
  <2>2. n = Size[good + 1] BY <1>3, <1>5, <1>7, <1>8, <1>9, SizeOf
  <2> HIDE DEF s
  <2>3. SubSeq(s, 1, Total(s)) = s BY <1>5, <1>8, <2>2, FullCut
  <2>4. Deliver(s) /\ at' = "head" /\ input' = <<>> BY <2>1, <2>3 DEF Connected
  <2>5. good' = good + 1 /\ wrong' = "none" /\ good' \in 0..sent' /\ Stream(wire', good', sent')
    BY <1>5, <1>6, <2>2, <2>4, Done
  <2>6. input' \in Cells BY <2>4 DEF Cells
  <2> QED BY <1>5, <1>6, <2>4, <2>5, <2>6, SoundIdle DEF Sound
<1>10. CASE ~(n >= Total(s))
  <2>1. at' = "rest" /\ input' = s /\ UNCHANGED <<good, wrong>> BY <1>2, <1>10
  <2>2. n < Size[good + 1] BY <1>3, <1>7, <1>8, <1>10, SizeOf
  <2> HIDE DEF s
  <2>3. Pending' = s BY <2>1 DEF Pending
  <2>4. InTransit' = InTransit BY <2>3, <1>5 DEF InTransit
  <2> QED BY <1>3, <1>5, <1>6, <2>1, <2>2, <2>3, <2>4 DEF Sound
<1> QED BY <1>9, <1>10

LEMMA ReadRestSound == ASSUME Sound, ReadRest, ~mixed' PROVE Sound'
<1>1. Pending = input /\ at = "rest" BY DEF ReadRest, Pending
<1>2. HeadLen <= Len(input) /\ Len(input) < Size[good + 1] /\ IsFront(input, good + 1) BY <1>1 DEF Sound
<1>3. PICK n \in Counts(Total(input) - Len(input), Len(wire)) :
        n >= Total(input) - Len(input) /\ Take(n) /\ Connected(input \o SubSeq(wire, 1, n))
  BY DEF ReadRest
<1> DEFINE s == input \o SubSeq(wire, 1, n)
<1>4. n \in 0..Len(wire) /\ Take(n) /\ Connected(s) BY <1>3 DEF Counts
<1>5. Len(input) \in Nat /\ Len(input) >= 1 BY <1>2, CellsLen, FramingAssumption DEF Sound
<1>6. /\ s \in Cells /\ wire' \in Cells /\ Len(s) = Len(input) + n /\ s \o wire' = InTransit
      /\ IsFront(s, good + 1) /\ good < sent /\ Len(s) <= Size[good + 1]
  <2>1. Len(input) + n > 0 BY <1>4, <1>5
  <2> QED BY <1>1, <1>2, <1>4, <2>1, Gets
<1> HIDE DEF s
<1>7. good + 1 \in 1..Len(Size) BY <1>6, SizeLen DEF Sound
<1>8. Total(input) = Size[good + 1]
  <2>1. \A k \in 1..HeadLen : k \in 1..Len(input) BY <1>2, <1>5, FramingAssumption
  <2>2. \A k \in 1..HeadLen : input[k] = <<good + 1, k>> BY <2>1, <1>2 DEF IsFront
  <2> QED BY <2>2, <1>7, TotalIs
<1>9. Total(s) = Size[good + 1]
  <2>1. \A k \in 1..HeadLen : k \in 1..Len(s) BY <1>2, <1>4, <1>5, <1>6, FramingAssumption
  <2>2. \A k \in 1..HeadLen : s[k] = <<good + 1, k>> BY <2>1, <1>6 DEF IsFront
  <2> QED BY <2>2, <1>7, TotalIs
<1>10. Len(s) = Size[good + 1] BY <1>3, <1>4, <1>5, <1>6, <1>7, <1>8, SizeOf
<1>11. SubSeq(s, 1, Total(s)) = s BY <1>6, <1>9, <1>10, FullCut
<1>12. Deliver(s) /\ at' = "head" /\ input' = <<>> BY <1>4, <1>11 DEF Connected
<1>13. UNCHANGED <<sent, buf, buf_offset, bytes_read, arr>> BY DEF ReadRest, loop
<1>14. good' = good + 1 /\ wrong' = "none" /\ good' \in 0..sent' /\ Stream(wire', good', sent')
  BY <1>6, <1>10, <1>12, <1>13, Done
<1>15. input' \in Cells BY <1>12 DEF Cells
<1> QED BY <1>6, <1>12, <1>13, <1>14, <1>15, SoundIdle DEF Sound

LEMMA ReadHeadSound == ASSUME Sound, ReadHead, ~mixed', at' # "gone" PROVE Sound'
<1>1. Pending = <<>> /\ at = "head" /\ Room = BufSize BY FramingAssumption DEF ReadHead, Pending, Room, Sound
<1>2. PICK n \in Counts(HeadLen, Room) :
        /\ Take(n) /\ bytes_read' = n /\ buf' = Place(buf, buf_offset, SubSeq(wire, 1, n))
        /\ at' = IF n < HeadLen THEN "gone" ELSE "frame"
  BY DEF ReadHead
<1> DEFINE s == SubSeq(wire, 1, n)
<1>3. n \in 0..Len(wire) /\ n <= BufSize /\ n >= HeadLen /\ at' = "frame" /\ n \in Nat
  BY <1>1, <1>2, FramingAssumption, CellsLen DEF Counts, Sound
<1>4. Pending \o s = s
  <2>1. s \in Cells BY <1>3, CutAt DEF Sound
  <2> HIDE DEF s
  <2> QED BY <2>1, <1>1, FullCut
<1>5. s \in Cells /\ wire' \in Cells /\ Len(s) = n /\ s \o wire' = InTransit /\ IsFront(s, good + 1)
  <2>1. Len(Pending) = 0 BY <1>1
  <2> QED BY <1>1, <1>2, <1>3, <1>4, <2>1, Gets
<1>6. buf' = Place(buf, 0, s) /\ bytes_read' = n BY <1>2 DEF Sound
<1>7. UNCHANGED <<sent, input, buf_offset, arr, good, wrong>> BY DEF ReadHead
<1> HIDE DEF s
<1>8. buf' \in Cells /\ Len(buf') = BufSize /\ SubSeq(buf', 1, n) = s BY <1>3, <1>5, <1>6, PlaceFront DEF Sound
<1>9. Pending' = s BY <1>3, <1>6, <1>8 DEF Pending
<1>10. InTransit' = InTransit BY <1>9, <1>5 DEF InTransit
<1>11. bytes_read' \in HeadLen..BufSize BY <1>3, <1>6, FramingAssumption
<1> QED BY <1>3, <1>5, <1>6, <1>7, <1>8, <1>9, <1>10, <1>11 DEF Sound

\* Finish, when what was read is just the message that is due.
LEMMA FinishSound ==
  ASSUME Sound, NEW q \in Cells, wire' \in Cells, q \o wire' = InTransit, IsFront(q, good + 1),
         good < sent, Len(q) = Size[good + 1], NEW b \in Cells, Len(b) = BufSize,
         Finish(q, b, Len(q), Len(q)), sent' = sent, input' = input
  PROVE  Sound'
<1>1. Len(q) \in Nat BY CellsLen
<1>2. Deliver(q) BY DEF Finish
<1>3. good' = good + 1 /\ wrong' = "none" /\ good' \in 0..sent' /\ Stream(wire', good', sent') BY <1>2, Done
<1>4. arr' = <<>> /\ bytes_read' = 0 /\ buf' = b /\ buf_offset' = 0 /\ at' = "head"
  BY <1>1, FramingAssumption DEF Finish, Offset, Sound
<1>5. arr' \in Cells BY <1>4 DEF Cells
<1> QED BY <1>3, <1>4, <1>5, SoundIdle DEF Sound

LEMMA FrameSound == ASSUME Sound, Frame, ~mixed', at' # "gone" PROVE Sound'
<1>1. at = "frame" /\ Pending = SubSeq(buf, 1, bytes_read) BY DEF Frame, Pending
<1>2. bytes_read \in HeadLen..BufSize /\ bytes_read \in Nat /\ bytes_read \in 0..Len(buf)
  BY <1>1, FramingAssumption DEF Sound
<1> DEFINE q == SubSeq(buf, 1, bytes_read)
<1>3. q \in Cells /\ Len(q) = bytes_read /\ \A i \in 1..bytes_read : q[i] = buf[i] BY <1>2, CutAt DEF Sound
<1>4. /\ wire \in Cells /\ wire' = wire /\ q \o wire = InTransit /\ IsFront(q, good + 1)
      /\ UNCHANGED <<sent, closed, input, mixed>>
  BY <1>1 DEF Frame, Sound, InTransit
<1> HIDE DEF q
<1>5. Len(q) > 0 BY <1>2, <1>3, FramingAssumption
<1>6. good < sent /\ Len(q) <= Size[good + 1]
  <2>1. InTransit \in Cells /\ Len(InTransit) = Len(q) + Len(wire) /\ \A i \in 1..Len(q) : InTransit[i] = q[i]
    BY <1>3, <1>4, Joined
  <2>2. Len(wire) \in Nat /\ Len(q) \in Nat BY <1>3, <1>4, CellsLen
  <2>3. InTransit # <<>> /\ Len(q) \in 1..Len(InTransit) BY <1>5, <2>1, <2>2
  <2>4. Stream(InTransit, good, sent) BY DEF Sound
  <2>5. InTransit[Len(q)] = <<good + 1, Len(q)>> BY <1>5, <2>1, <2>2, <1>4 DEF IsFront
  <2>6. InTransit[Len(q)][2] \in 1..Size[InTransit[Len(q)][1]] BY <2>3, <2>4 DEF Stream
  <2>7. good # sent BY <2>3, <2>4 DEF Stream
  <2>8. good \in Int /\ sent \in Int /\ good <= sent BY SizeLen DEF Sound
  <2>9. good + 1 \in 1..Len(Size) BY <2>7, SizeLen DEF Sound
  <2>10. Size[good + 1] \in Nat BY <2>9, SizeOf
  <2> QED BY <2>2, <2>5, <2>6, <2>7, <2>8, <2>10
<1>7. good + 1 \in 1..Len(Size) BY <1>6, SizeLen DEF Sound
<1>8. Size[good + 1] \in Nat /\ Size[good + 1] >= 1 /\ Size[good + 1] # 0 BY <1>7, SizeOf
<1>9. Total(buf) = Size[good + 1]
  <2>1. \A k \in 1..HeadLen : k \in 1..bytes_read BY <1>2, FramingAssumption
  <2>2. \A k \in 1..HeadLen : buf[k] = <<good + 1, k>> BY <2>1, <1>3, <1>4 DEF IsFront
  <2> QED BY <2>2, <1>7, TotalIs
<1>10. CASE bytes_read >= Total(buf)
  <2>1. bytes_read = Total(buf) /\ Len(q) = Total(buf) BY <1>3, <1>6, <1>8, <1>9, <1>10, <1>2
  <2>2. Finish(SubSeq(buf, 1, Total(buf)), buf, Total(buf), bytes_read) BY <1>8, <1>9, <1>10 DEF Frame
  <2>3. Finish(q, buf, Len(q), Len(q)) BY <2>1, <2>2 DEF q
  <2> QED BY <2>1, <2>3, <1>3, <1>4, <1>6, <1>9, FinishSound DEF Sound
<1>11. CASE ~(bytes_read >= Total(buf))
  <2>1. arr' = q /\ at' = "more" /\ UNCHANGED <<buf, buf_offset, bytes_read, good, wrong>>
    BY <1>8, <1>9, <1>11 DEF Frame, q
  <2>2. Pending' = q BY <2>1 DEF Pending
  <2>3. InTransit' = InTransit BY <2>2, <1>4 DEF InTransit
  <2>4. HeadLen <= Len(q) /\ Len(q) < Size[good + 1] BY <1>2, <1>3, <1>8, <1>9, <1>11, FramingAssumption
  <2> QED BY <1>2, <1>3, <1>4, <2>1, <2>2, <2>3, <2>4 DEF Sound
<1> QED BY <1>10, <1>11

\* A read of n cells in "more": where they end up.
LEMMA MoreSound ==
  ASSUME Sound, at = "more", ~mixed', NEW n \in 0..Len(wire), n <= BufSize, Take(n)
  PROVE  LET b == Place(buf, buf_offset, SubSeq(wire, 1, n))
             s == arr \o SubSeq(b, 1, n)
         IN /\ b \in Cells /\ Len(b) = BufSize
            /\ s \in Cells /\ wire' \in Cells /\ Len(s) = bytes_read + n /\ s \o wire' = InTransit
            /\ IsFront(s, good + 1) /\ good < sent /\ Len(s) <= Size[good + 1]
            /\ bytes_read = Len(arr) /\ bytes_read >= HeadLen /\ bytes_read \in Nat /\ Lacking = Size[good + 1] - bytes_read
            /\ Total(arr) = Size[good + 1]
            /\ good + 1 \in 1..Len(Size) /\ Room = BufSize
<1>1. Pending = arr BY DEF Pending
<1>2. /\ bytes_read = Len(arr) /\ bytes_read \in Nat /\ HeadLen <= Len(arr) /\ Len(arr) < Size[good + 1]
      /\ IsFront(arr, good + 1) /\ buf_offset = 0
  BY <1>1 DEF Sound
<1> DEFINE x == SubSeq(wire, 1, n)
<1>3. x \in Cells /\ Len(x) = n BY CutAt DEF Sound
<1>4. /\ arr \o x \in Cells /\ wire' \in Cells /\ Len(arr \o x) = bytes_read + n /\ (arr \o x) \o wire' = InTransit
      /\ IsFront(arr \o x, good + 1) /\ good < sent /\ Len(arr \o x) <= Size[good + 1]
  <2>1. Len(arr) + n > 0 /\ (Pending # <<>> => Len(Pending) < Size[good + 1]) BY <1>1, <1>2, FramingAssumption
  <2> QED BY <1>1, <1>2, <2>1, Gets
<1> HIDE DEF x
<1>5. Place(buf, 0, x) \in Cells /\ Len(Place(buf, 0, x)) = BufSize /\ SubSeq(Place(buf, 0, x), 1, n) = x
  BY <1>3, PlaceFront DEF Sound
<1>6. good + 1 \in 1..Len(Size) BY <1>4, SizeLen DEF Sound
<1>7. Total(arr) = Size[good + 1]
  <2>1. \A k \in 1..HeadLen : k \in 1..Len(arr) BY <1>2, FramingAssumption
  <2>2. \A k \in 1..HeadLen : arr[k] = <<good + 1, k>> BY <2>1, <1>2 DEF IsFront
  <2> QED BY <2>2, <1>6, TotalIs
<1>8. Lacking = Size[good + 1] - bytes_read BY <1>7 DEF Lacking
<1>9. Room = BufSize BY <1>2, FramingAssumption DEF Room
<1>10. bytes_read >= HeadLen BY <1>2, FramingAssumption
<1> QED BY <1>2, <1>4, <1>5, <1>6, <1>7, <1>8, <1>9, <1>10 DEF x

LEMMA ReadMoreSound == ASSUME Sound, ReadMore, ~mixed', at' # "gone" PROVE Sound'
<1>1. at = "more" /\ Room = BufSize BY FramingAssumption DEF ReadMore, Room, Sound
<1> DEFINE B(n) == Place(buf, buf_offset, SubSeq(wire, 1, n))
           R(n) == arr \o SubSeq(B(n), 1, IF n < Lacking THEN n ELSE Lacking)
<1>2. PICK n \in Counts(Least, Room) :
        /\ Take(n)
        /\ IF n >= Lacking THEN Finish(R(n), B(n), Total(arr), bytes_read + n)
           ELSE /\ buf' = B(n) /\ arr' = R(n) /\ bytes_read' = bytes_read + n
                /\ UNCHANGED <<at, buf_offset, good, wrong>>
  BY DEF ReadMore
<1>3. n \in 0..Len(wire) /\ n <= BufSize /\ Take(n) /\ n \in Nat BY <1>1, <1>2, CellsLen DEF Counts, Sound
<1> DEFINE b == B(n)
           s == arr \o SubSeq(b, 1, n)
<1>4. /\ b \in Cells /\ Len(b) = BufSize
      /\ s \in Cells /\ wire' \in Cells /\ Len(s) = bytes_read + n /\ s \o wire' = InTransit
      /\ IsFront(s, good + 1) /\ good < sent /\ Len(s) <= Size[good + 1]
      /\ bytes_read = Len(arr) /\ bytes_read >= HeadLen /\ bytes_read \in Nat /\ Lacking = Size[good + 1] - bytes_read
      /\ good + 1 \in 1..Len(Size) /\ Total(arr) = Size[good + 1]
  BY <1>1, <1>3, MoreSound
<1>5. Size[good + 1] \in Nat BY <1>4, SizeOf
<1>6. n <= Lacking /\ (IF n < Lacking THEN n ELSE Lacking) = n BY <1>3, <1>4, <1>5
<1>7. R(n) = s BY <1>6
<1>8. UNCHANGED <<sent, input>> BY DEF ReadMore
<1>9. CASE n >= Lacking
  <2>1. Len(s) = Size[good + 1] /\ bytes_read + n = Len(s)
    <3>1. n \in Nat /\ Lacking \in Int /\ n >= Lacking /\ n <= Lacking BY <1>3, <1>4, <1>5, <1>6, <1>9
    <3>2. n = Lacking BY <3>1
    <3>3. bytes_read + n = Size[good + 1] BY <3>1, <3>2, <1>4, <1>5
    <3> QED BY <3>3, <1>4
  <2>2. Total(arr) = Len(s) BY <2>1, <1>4
  <2>3. Finish(s, b, Len(s), Len(s)) BY <1>2, <1>7, <1>9, <2>1, <2>2
  <2> HIDE DEF s, b
  <2> QED BY <1>4, <1>8, <2>1, <2>3, FinishSound
<1>10. CASE ~(n >= Lacking)
  <2>1. buf' = b /\ arr' = s /\ bytes_read' = bytes_read + n /\ UNCHANGED <<at, buf_offset, good, wrong>>
    BY <1>2, <1>7, <1>10
  <2> HIDE DEF s, b, B, R
  <2>2. Pending' = s BY <1>1, <2>1 DEF Pending
  <2>3. InTransit' = InTransit BY <1>4, <2>2 DEF InTransit
  <2>4. HeadLen <= Len(s) /\ Len(s) < Size[good + 1] /\ bytes_read' \in Nat /\ bytes_read' = Len(arr')
    BY <1>3, <1>4, <1>5, <1>10, <2>1, FramingAssumption
  <2> QED BY <1>1, <1>4, <1>8, <2>1, <2>2, <2>3, <2>4 DEF Sound
<1> QED BY <1>9, <1>10

LEMMA EndMoreSound == ASSUME Sound, EndMore, ~mixed', at' # "gone" PROVE Sound'
<1>1. at = "more" /\ Room = BufSize BY FramingAssumption DEF EndMore, Room, Sound
<1> DEFINE n == Len(wire)
           b == Place(buf, buf_offset, SubSeq(wire, 1, n))
           s == arr \o SubSeq(b, 1, n)
<1>2. Take(n) /\ n < Least /\ n < Room /\ n \in Nat BY CellsLen DEF EndMore, Ended, Sound
<1>3. SubSeq(wire, 1, n) = wire BY FullCut DEF Sound
<1>4. /\ buf' = b /\ arr' = s /\ bytes_read' = bytes_read + n
      /\ UNCHANGED <<sent, closed, at, input, buf_offset, good, wrong>>
  BY <1>3 DEF EndMore
<1>5. n \in 0..Len(wire) /\ n <= BufSize BY <1>1, <1>2, FramingAssumption
<1>6. /\ b \in Cells /\ Len(b) = BufSize
      /\ s \in Cells /\ wire' \in Cells /\ Len(s) = bytes_read + n /\ s \o wire' = InTransit
      /\ IsFront(s, good + 1) /\ good < sent /\ Len(s) <= Size[good + 1]
      /\ bytes_read = Len(arr) /\ bytes_read >= HeadLen /\ bytes_read \in Nat /\ Lacking = Size[good + 1] - bytes_read
      /\ good + 1 \in 1..Len(Size)
  BY <1>1, <1>2, <1>5, MoreSound
<1>7. Size[good + 1] \in Nat BY <1>6, SizeOf
<1>8. n < Lacking BY <1>2, <1>6, <1>7, <1>1, FramingAssumption DEF Least
<1> HIDE DEF s, b, n
<1>9. Pending' = s BY <1>1, <1>4 DEF Pending
<1>10. InTransit' = InTransit BY <1>6, <1>9 DEF InTransit
<1>11. HeadLen <= Len(s) /\ Len(s) < Size[good + 1] /\ bytes_read' \in Nat /\ bytes_read' = Len(arr')
  BY <1>2, <1>4, <1>6, <1>7, <1>8, FramingAssumption
<1> QED BY <1>1, <1>4, <1>6, <1>9, <1>10, <1>11 DEF Sound

\* Every step keeps the invariant.
LEMMA StepSound == ASSUME FramingInv, [FramingNext]_framingVars PROVE FramingInv'
<1> SUFFICES ASSUME ~mixed', at' # "gone" PROVE Sound' BY DEF FramingInv
<1>1. ~mixed BY DEF FramingNext, Listen, Send, Close, ReadInit, ReadRest, EndInit, ReadHead, EndHead, Frame, ReadMore, EndMore, Take, framingVars
<1>2. at # "gone" BY DEF FramingNext, Listen, Send, Close, ReadInit, ReadRest, EndInit, ReadHead, EndHead, Frame, ReadMore, EndMore, framingVars
<1>3. Sound BY <1>1, <1>2 DEF FramingInv
<1>4. CASE Send BY <1>3, <1>4, SendSound
<1>5. CASE Close \/ UNCHANGED framingVars
  <2>1. UNCHANGED <<sent, wire, at, input, buf, buf_offset, bytes_read, arr, good, wrong>>
    BY <1>5 DEF Close, framingVars, loop
  <2> QED BY <1>3, <2>1 DEF Sound, InTransit, Pending
<1>6. CASE ReadInit BY <1>3, <1>6, ReadInitSound
<1>7. CASE ReadRest BY <1>3, <1>7, ReadRestSound
<1>8. CASE EndInit BY <1>8 DEF EndInit
<1>9. CASE ReadHead BY <1>3, <1>9, ReadHeadSound
<1>10. CASE EndHead BY <1>10 DEF EndHead
<1>11. CASE Frame BY <1>3, <1>11, FrameSound
<1>12. CASE ReadMore BY <1>3, <1>12, ReadMoreSound
<1>13. CASE EndMore BY <1>3, <1>13, EndMoreSound
<1> QED BY <1>4, <1>5, <1>6, <1>7, <1>8, <1>9, <1>10, <1>11, <1>12, <1>13 DEF FramingNext, Listen

\* While every read brings cells of one message, the messages are read as they
\* were sent: for all their lengths, for every buffer that holds a header, and
\* wherever the network cuts them (RobotHandler.cpp:279-402).
THEOREM Faithfully == FramingSpec => []Faithful
<1>1. FramingInv => Faithful BY DEF FramingInv, Sound, Stream, Faithful
<1> QED BY <1>1, InitSound, StepSound, PTL DEF FramingSpec
=============================================================================
