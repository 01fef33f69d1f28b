-------------------------- MODULE RobotDriveProof --------------------------
(***************************************************************************)
(* Proofs that the camera is asked to pan once at a time, and that all     *)
(* agree on where the robot is once all is reported, for every grid, size  *)
(* of the mailboxes and number of commands.  OnePan is inductive as it     *)
(* stands, once the boxes it looks into are known to be sequences; for     *)
(* SettledAgree one has to know what is in the mailboxes.                  *)
(***************************************************************************)
EXTENDS RobotDrive, Induction

Boxes == (\E S : panBox \in Seq(S)) /\ (\E S : feedBox \in Seq(S))

PanInv == Boxes /\ OnePan

\* What a mailbox is after a message: one more at the end, and the oldest gone
\* when it was full.
LastPut(S, box, m, put) ==
  /\ put \in Seq(S \cup {m})
  /\ \/ Len(put) = Len(box) + 1 /\ \A i \in 1..Len(box) : put[i] = box[i]
     \/ box # <<>> /\ Len(put) = Len(box) /\ \A i \in 1..(Len(box) - 1) : put[i] = box[i + 1]
  /\ put[Len(put)] = m

\* Put is such a mailbox.
LEMMA PutLast ==
  ASSUME NEW S, NEW box \in Seq(S), NEW m
  PROVE  LastPut(S, box, m, Put(box, m))
<1> USE DEF LastPut
<1>1. box \in Seq(S \cup {m}) OBVIOUS
<1>2. CASE Len(box) < BoxSize
  <2>1. Put(box, m) = Append(box, m) BY <1>2 DEF Put
  <2> QED BY <1>1, <2>1
<1>3. CASE ~(Len(box) < BoxSize)
  <2>1. Put(box, m) = Append(Tail(box), m) BY <1>3 DEF Put
  <2>2. box # <<>> BY <1>3, DriveAssumption
  <2>3. Tail(box) \in Seq(S \cup {m}) /\ Len(Tail(box)) = Len(box) - 1
        /\ \A i \in 1..(Len(box) - 1) : Tail(box)[i] = box[i + 1]
    BY <1>1, <2>2
  <2> DEFINE rest == Tail(box)
  <2>4. rest \in Seq(S \cup {m}) /\ Len(rest) = Len(box) - 1 BY <2>3
  <2> HIDE DEF rest
  <2>5. /\ Append(rest, m) \in Seq(S \cup {m}) /\ Len(Append(rest, m)) = Len(rest) + 1
        /\ Append(rest, m)[Len(rest) + 1] = m
        /\ \A i \in 1..Len(rest) : Append(rest, m)[i] = rest[i]
    BY <2>4
  <2>6. Put(box, m) = Append(rest, m) /\ Len(box) \in Nat BY <1>1, <2>1 DEF rest
  <2>7. \A i \in 1..(Len(box) - 1) : rest[i] = box[i + 1] BY <2>3 DEF rest
  <2> QED BY <2>2, <2>4, <2>5, <2>6, <2>7
<1> QED BY <1>2, <1>3

\* A message that is not an answer leaves no more answers than there were.
LEMMA PutOther ==
  ASSUME NEW S, feedBox \in Seq(S), NEW m, m.cmd # "pan", feedBox' = Put(feedBox, m)
  PROVE  /\ \E T : feedBox' \in Seq(T)
         /\ Answers = {} => Answers' = {}
         /\ (\A i, j \in Answers : panning /\ i = j) => (\A i, j \in Answers' : panning /\ i = j)
<1>1. /\ feedBox' \in Seq(S \cup {m})
      /\ \/ /\ Len(feedBox') = Len(feedBox) + 1
            /\ \A i \in 1..Len(feedBox) : feedBox'[i] = feedBox[i]
         \/ /\ feedBox # <<>> /\ Len(feedBox') = Len(feedBox)
            /\ \A i \in 1..(Len(feedBox) - 1) : feedBox'[i] = feedBox[i + 1]
      /\ feedBox'[Len(feedBox')] = m
  <2>1. LastPut(S, feedBox, m, feedBox') BY PutLast
  <2> QED BY <2>1 DEF LastPut
<1>2. \E d \in {0, 1} : \A i \in Answers' : i + d \in Answers
  <2>1. CASE Len(feedBox') = Len(feedBox) + 1 /\ \A i \in 1..Len(feedBox) : feedBox'[i] = feedBox[i]
    <3>1. \A i \in Answers' : i \in Answers BY <1>1, <2>1 DEF Answers
    <3>2. \A i \in Answers' : i + 0 = i BY DEF Answers
    <3> QED BY <3>1, <3>2
  <2>2. CASE /\ feedBox # <<>> /\ Len(feedBox') = Len(feedBox)
             /\ \A i \in 1..(Len(feedBox) - 1) : feedBox'[i] = feedBox[i + 1]
    <3>1. \A i \in Answers' : i + 1 \in Answers BY <1>1, <2>2 DEF Answers
    <3> QED BY <3>1
  <2> QED BY <1>1, <2>1, <2>2
<1>3. PICK d \in {0, 1} : \A i \in Answers' : i + d \in Answers BY <1>2
<1>4. \A i \in Answers' : i \in Int BY DEF Answers
<1>5. \A i, j \in Answers' : i + d = j + d => i = j BY <1>3, <1>4
<1> QED BY <1>1, <1>3, <1>5

\* Init: the mailboxes are empty.
LEMMA PanInit == ASSUME Init PROVE PanInv
BY DEF Init, PanInv, Boxes, OnePan, Answers

\* A step that leaves the camera, its mailbox and the reports alone.
LEMMA PanSame ==
  ASSUME PanInv, UNCHANGED <<panning, panBox, panDoing, feedBox>>
  PROVE  PanInv'
BY DEF PanInv, Boxes, OnePan, Answers

\* A pan from the controller.
LEMMA PanAsked ==
  ASSUME PanInv, NEW c, Pan(c), UNCHANGED <<panDoing, feedBox>>
  PROVE  PanInv'
<1>1. CASE panning BY <1>1, PanSame DEF Pan
<1>2. CASE ~panning
  <2>1. panBox = <<>> /\ ~panDoing /\ Answers = {} BY <1>2 DEF PanInv, OnePan
  <2>2. panning' /\ panBox' = Put(<<>>, Msg(c)) BY <1>2, <2>1 DEF Pan
  <2>3. panBox' = <<Msg(c)>> BY <2>2, DriveAssumption DEF Put
  <2>4. Answers' = {} BY <2>1 DEF Answers
  <2>5. ~panDoing' BY <2>1
  <2>6. Len(panBox') <= 1 /\ panBox' \in Seq({Msg(c)}) BY <2>3
  <2>7. Boxes' BY <2>6 DEF Boxes, PanInv
  <2> QED BY <2>2, <2>4, <2>5, <2>6, <2>7 DEF PanInv, OnePan
<1> QED BY <1>1, <1>2

\* A report is read.
LEMMA PanRead ==
  ASSUME PanInv, feedBox # <<>>, feedBox' = Tail(feedBox),
         Head(feedBox).cmd # "pan" => panning' = panning, UNCHANGED <<panBox, panDoing>>
  PROVE  PanInv'
<1>1. PICK S : feedBox \in Seq(S) BY DEF PanInv, Boxes
<1>2. /\ feedBox' \in Seq(S) /\ Len(feedBox') = Len(feedBox) - 1
      /\ \A i \in 1..Len(feedBox') : feedBox'[i] = feedBox[i + 1]
      /\ Head(feedBox) = feedBox[1] /\ Len(feedBox) \in Nat /\ 1 \in 1..Len(feedBox)
  BY <1>1
<1>3. \A i \in Answers' : i \in Int /\ i + 1 \in Answers /\ i + 1 # 1 BY <1>2 DEF Answers
<1>4. Head(feedBox).cmd = "pan" => 1 \in Answers BY <1>2 DEF Answers
<1>5. \A i, j \in Answers : panning /\ i = j BY DEF PanInv, OnePan
<1>6. \A i, j \in Answers' : i = j BY <1>3, <1>5
<1>7. Head(feedBox).cmd = "pan" => Answers' = {} BY <1>3, <1>4, <1>5
<1>8. \A i, j \in Answers' : panning' /\ i = j BY <1>3, <1>5, <1>6, <1>7
<1>9. Head(feedBox).cmd = "pan" => Answers # {} BY <1>4
<1>10. Answers = {} => Answers' = {} BY <1>3
<1>11. Boxes' BY <1>2 DEF Boxes, PanInv
<1> QED BY <1>8, <1>9, <1>10, <1>11 DEF PanInv, OnePan

\* The firmware reports a movement.
LEMMA PanReported ==
  ASSUME PanInv, NEW m, m.cmd # "pan", feedBox' = Put(feedBox, m), UNCHANGED <<panning, panBox, panDoing>>
  PROVE  PanInv'
<1>1. PICK S : feedBox \in Seq(S) BY DEF PanInv, Boxes
<1>2. /\ \E T : feedBox' \in Seq(T)
      /\ Answers = {} => Answers' = {}
      /\ (\A i, j \in Answers : panning /\ i = j) => (\A i, j \in Answers' : panning /\ i = j)
  BY <1>1, PutOther
<1>3. Boxes' BY <1>2 DEF Boxes, PanInv
<1> QED BY <1>2, <1>3 DEF PanInv, OnePan

LEMMA ReportCmd == ASSUME NEW p, NEW d, NEW s PROVE Moved(p, d, s).cmd # "pan"
BY DEF Moved

\* The firmware takes a pan, and answers it.
LEMMA PanTaken == ASSUME PanInv, TakePan PROVE PanInv'
<1>1. PICK S : panBox \in Seq(S) BY DEF PanInv, Boxes
<1>2. panBox # <<>> /\ Len(panBox) <= 1 /\ panBox' = Tail(panBox) BY DEF TakePan, PanInv, OnePan
<1>3. panBox' = <<>> /\ panBox' \in Seq(S) BY <1>1, <1>2
<1>4. panning /\ Answers = {} BY <1>2 DEF PanInv, OnePan
<1>5. panning' /\ Answers' = {} BY <1>4 DEF TakePan, controller, Answers
<1>6. Boxes' BY <1>3 DEF Boxes, PanInv, TakePan
<1> QED BY <1>3, <1>5, <1>6 DEF PanInv, OnePan

LEMMA PanAnswered == ASSUME PanInv, FinishPan PROVE PanInv'
<1>1. PICK S : feedBox \in Seq(S) BY DEF PanInv, Boxes
<1>2. panning /\ Answers = {} /\ panBox = <<>> /\ panDoing BY DEF FinishPan, PanInv, OnePan
<1>3. panning' /\ panBox' = <<>> /\ ~panDoing' /\ feedBox' = Put(feedBox, Panned)
  BY <1>2 DEF FinishPan, controller
<1>4. /\ feedBox' \in Seq(S \cup {Panned})
      /\ \/ /\ Len(feedBox') = Len(feedBox) + 1
            /\ \A i \in 1..Len(feedBox) : feedBox'[i] = feedBox[i]
         \/ /\ feedBox # <<>> /\ Len(feedBox') = Len(feedBox)
            /\ \A i \in 1..(Len(feedBox) - 1) : feedBox'[i] = feedBox[i + 1]
  BY <1>1, <1>3, PutLast DEF LastPut
<1>5. \A i \in 1..Len(feedBox) : feedBox[i].cmd # "pan" BY <1>2 DEF Answers
<1>6. \A i \in Answers' : i = Len(feedBox')
  <2>1. CASE Len(feedBox') = Len(feedBox) + 1 /\ \A i \in 1..Len(feedBox) : feedBox'[i] = feedBox[i]
    BY <1>1, <1>4, <1>5, <2>1 DEF Answers
  <2>2. CASE /\ feedBox # <<>> /\ Len(feedBox') = Len(feedBox)
             /\ \A i \in 1..(Len(feedBox) - 1) : feedBox'[i] = feedBox[i + 1]
    BY <1>1, <1>4, <1>5, <2>2 DEF Answers
  <2> QED BY <1>4, <2>1, <2>2
<1>7. \A i, j \in Answers' : panning' /\ i = j BY <1>3, <1>6
<1>8. Boxes' BY <1>3, <1>4 DEF Boxes, PanInv, FinishPan
<1>9. panBox' = <<>> => Len(panBox') <= 1 OBVIOUS
<1> QED BY <1>3, <1>7, <1>8, <1>9 DEF PanInv, OnePan

\* Every step keeps the pan single.
LEMMA PanStep == ASSUME PanInv, [Next]_vars PROVE PanInv'
<1>1. CASE Update
  <2>1. CASE Pan("pan")
    BY <1>1, <2>1, PanAsked DEF Update, firmware
  <2>2. CASE UNCHANGED <<panning, panBox>>
    BY <1>1, <2>2, PanSame DEF Update, firmware
  <2> QED BY <1>1, <2>1, <2>2 DEF Update
<1>2. CASE NothingRead BY <1>2, PanSame DEF NothingRead, boxes, firmware
<1>3. CASE ReadPanned
  <2>1. feedBox # <<>> /\ feedBox' = Tail(feedBox) /\ Head(feedBox).cmd = "pan"
    BY <1>3 DEF ReadPanned
  <2> QED BY <1>3, <2>1, PanRead DEF ReadPanned, firmware
<1>4. CASE ReadMoved
  <2>1. feedBox # <<>> /\ feedBox' = Tail(feedBox) /\ panning' = panning
        /\ UNCHANGED <<panBox, panDoing>>
    BY <1>4 DEF ReadMoved, firmware
  <2> QED BY <2>1, PanRead
<1>5. ASSUME NEW c \in Orders, Execute(c) PROVE PanInv'
  <2>1. UNCHANGED <<panDoing, feedBox>> BY <1>5 DEF Execute, firmware
  <2>2. CASE c \in {"pan", "pid"}
    <3>1. Pan(c) BY <1>5, <2>2 DEF Execute
    <3> QED BY <2>1, <3>1, PanAsked
  <2>3. CASE c = "target"
    <3>1. UNCHANGED <<panning, panBox>> BY <1>5, <2>3 DEF Execute
    <3> QED BY <2>1, <3>1, PanSame
  <2>4. CASE c \notin {"pan", "pid", "target"}
    <3>1. UNCHANGED <<panning, panBox>> BY <1>5, <2>4 DEF Execute
    <3> QED BY <2>1, <3>1, PanSame
  <2> QED BY <2>2, <2>3, <2>4
<1>6. CASE TakeMove
  <2>1. PICK m : m.cmd # "pan" /\ feedBox' = Put(feedBox, m) BY <1>6, ReportCmd DEF TakeMove, Report
  <2> QED BY <1>6, <2>1, PanReported DEF TakeMove, controller
<1>7. CASE TakeOther
  <2>1. PICK m : m.cmd # "pan" /\ feedBox' = Put(feedBox, m) BY <1>7, ReportCmd DEF TakeOther, Report
  <2> QED BY <1>7, <2>1, PanReported DEF TakeOther, controller
<1>8. CASE TakeEmpty BY <1>8, PanSame DEF TakeEmpty, controller, firmware
<1>9. CASE Finish
  <2>1. PICK m : m.cmd # "pan" /\ feedBox' = Put(feedBox, m) BY <1>9, ReportCmd DEF Finish, Report
  <2> QED BY <1>9, <2>1, PanReported DEF Finish, controller
<1>10. CASE TakePan BY <1>10, PanTaken
<1>11. CASE FinishPan BY <1>11, PanAnswered
<1>12. CASE UNCHANGED vars BY <1>12, PanSame DEF vars, controller, boxes, firmware
<1> QED BY <1>1, <1>2, <1>3, <1>4, <1>5, <1>6, <1>7, <1>8, <1>9, <1>10, <1>11, <1>12
        DEF Next, RobotThread, Firmware

\* The camera is asked to pan once at a time, whatever commands come from
\* outside and however many reports the mailbox loses (Robot.cpp:198-205).
THEOREM PanOnce == Spec => []OnePan
<1>1. PanInv => OnePan BY DEF PanInv
<1> QED BY <1>1, PanInit, PanStep, PTL DEF Spec


-----------------------------------------------------------------------------
(* What the controller knows once everything is carried out and reported.  *)

\* The messages to cmdMovement that it answers with a report.
Told == {"forward", "left", "right", "turnaround", "calibrate", "coord", "other"}

Holds(box, cmds) == (\E S : box \in Seq(S)) /\ \A i \in 1..Len(box) : box[i].cmd \in cmds

Known == Holds(feedBox, {"moved", "pan"}) /\ Holds(moveBox, Told \cup {""})

\* The last report says where the robot is: nothing moves it and is silent.
LastReport ==
  \A i \in Reports : (\A j \in Reports : j <= i) => feedBox[i].at = pos /\ feedBox[i].facing = dir

\* Whoever could still report has nothing to report: then the controller knows.
Answered == \A i \in 1..Len(moveBox) : moveBox[i].cmd \notin Told

Settling == heard /\ doing = "none" /\ Reports = {} /\ Answered => loc = pos /\ head = dir

DriveInv == PanInv /\ Known /\ LastReport /\ Settling

\* A mailbox keeps the kinds of its messages, and ends with the last.
LEMMA PutHolds ==
  ASSUME NEW box, NEW cmds, Holds(box, cmds), NEW m, m.cmd \in cmds
  PROVE  /\ Holds(Put(box, m), cmds)
         /\ Len(Put(box, m)) \in 1..Len(Put(box, m)) /\ Put(box, m)[Len(Put(box, m))] = m
<1>1. PICK S : box \in Seq(S) BY DEF Holds
<1> DEFINE put == Put(box, m)
<1>2. LastPut(S, box, m, put) BY <1>1, PutLast
<1> HIDE DEF put
<1>3. put \in Seq(S \cup {m}) /\ Len(put) \in Nat /\ put[Len(put)] = m BY <1>2 DEF LastPut
<1>4. Len(box) \in Nat /\ (box # <<>> => Len(box) > 0) BY <1>1
<1>5. Len(put) \in 1..Len(put) BY <1>2, <1>3, <1>4 DEF LastPut
<1>6. \A i \in 1..Len(put) : put[i] = m \/ \E j \in 1..Len(box) : put[i] = box[j]
  <2>1. CASE Len(put) = Len(box) + 1 /\ \A i \in 1..Len(box) : put[i] = box[i]
    BY <1>3, <1>4, <2>1
  <2>2. CASE Len(put) = Len(box) /\ \A i \in 1..(Len(box) - 1) : put[i] = box[i + 1]
    <3>1. ASSUME NEW i \in 1..Len(put), i # Len(put) PROVE i + 1 \in 1..Len(box) /\ put[i] = box[i + 1]
      BY <1>4, <2>2, <3>1
    <3> QED BY <1>3, <3>1
  <2> QED BY <1>2, <2>1, <2>2 DEF LastPut
<1>7. Holds(put, cmds) BY <1>3, <1>6 DEF Holds
<1> QED BY <1>3, <1>5, <1>7 DEF put

LEMMA TailHolds ==
  ASSUME NEW box, NEW cmds, Holds(box, cmds), box # <<>>
  PROVE  /\ Holds(Tail(box), cmds) /\ Len(box) \in Nat /\ 1 \in 1..Len(box) /\ Head(box) = box[1]
         /\ Len(Tail(box)) = Len(box) - 1 /\ \A i \in 1..Len(Tail(box)) : Tail(box)[i] = box[i + 1]
<1>1. PICK S : box \in Seq(S) BY DEF Holds
<1> DEFINE left == Tail(box)
<1>2. /\ left \in Seq(S) /\ Len(left) = Len(box) - 1 /\ Len(box) \in Nat /\ Len(box) > 0
      /\ \A i \in 1..Len(left) : left[i] = box[i + 1]
      /\ Head(box) = box[1]
  BY <1>1
<1> HIDE DEF left
<1>3. \A i \in 1..Len(left) : i + 1 \in 1..Len(box) BY <1>2
<1>4. Holds(left, cmds) BY <1>2, <1>3 DEF Holds
<1> QED BY <1>2, <1>4 DEF left

\* The firmware reports where it is.
LEMMA ReportIsLast ==
  ASSUME Known, NEW m, m.cmd = "moved", m.at = pos', m.facing = dir', feedBox' = Put(feedBox, m)
  PROVE  Holds(feedBox', {"moved", "pan"}) /\ LastReport' /\ Reports' # {}
<1>1. Holds(feedBox', {"moved", "pan"}) /\ Len(feedBox') \in 1..Len(feedBox') /\ feedBox'[Len(feedBox')] = m
  <2>1. Holds(feedBox, {"moved", "pan"}) /\ m.cmd \in {"moved", "pan"} BY DEF Known
  <2>2. /\ Holds(Put(feedBox, m), {"moved", "pan"})
        /\ Len(Put(feedBox, m)) \in 1..Len(Put(feedBox, m)) /\ Put(feedBox, m)[Len(Put(feedBox, m))] = m
    BY <2>1, PutHolds
  <2> QED BY <2>2
<1>2. Len(feedBox') \in Reports' BY <1>1 DEF Reports
<1>3. \A i \in Reports' : i <= Len(feedBox') /\ i \in Int BY <1>1 DEF Reports
<1>4. ASSUME NEW i \in Reports', \A j \in Reports' : j <= i PROVE i = Len(feedBox')
  BY <1>1, <1>2, <1>3, <1>4
<1>5. LastReport' BY <1>1, <1>4 DEF LastReport
<1> QED BY <1>1, <1>2, <1>5

\* The answer of the camera does not push the last report out of a full mailbox.
LEMMA AnswerKeepsReport ==
  ASSUME Known, LastReport, Answers = {}, feedBox' = Put(feedBox, Panned), UNCHANGED <<pos, dir>>
  PROVE  /\ Holds(feedBox', {"moved", "pan"}) /\ LastReport'
         /\ Reports' = {} => Reports = {}
<1>1. PICK S : feedBox \in Seq(S) BY DEF Known, Holds
<1>2. Holds(feedBox', {"moved", "pan"}) /\ Len(feedBox) \in Nat
  <2>1. Holds(feedBox, {"moved", "pan"}) /\ Panned.cmd \in {"moved", "pan"} BY DEF Known, Panned, Msg
  <2>2. Holds(Put(feedBox, Panned), {"moved", "pan"}) BY <2>1, PutHolds
  <2> QED BY <1>1, <2>2
<1>3. \A i \in 1..Len(feedBox) : feedBox[i].cmd = "moved" BY DEF Known, Holds, Answers
<1>4. Reports = 1..Len(feedBox) BY <1>3 DEF Reports
<1>p. Panned.cmd # "moved" BY DEF Panned, Msg
<1>5. CASE Len(feedBox) < BoxSize
  <2>1. feedBox' = Append(feedBox, Panned) BY <1>5 DEF Put
  <2>2. /\ Len(feedBox') = Len(feedBox) + 1 /\ feedBox'[Len(feedBox) + 1] = Panned
        /\ \A i \in 1..Len(feedBox) : feedBox'[i] = feedBox[i]
    BY <1>1, <2>1
  <2>3. Reports' = 1..Len(feedBox) BY <1>2, <1>3, <1>p, <2>2 DEF Reports
  <2>4. LastReport' BY <1>4, <2>2, <2>3 DEF LastReport
  <2> QED BY <1>2, <1>4, <2>3, <2>4
<1>6. CASE ~(Len(feedBox) < BoxSize)
  <2>1. feedBox' = Append(Tail(feedBox), Panned) /\ Len(feedBox) >= 2 BY <1>2, <1>6, DriveAssumption DEF Put
  <2> DEFINE rest == Tail(feedBox)
  <2>2. rest \in Seq(S) /\ Len(rest) = Len(feedBox) - 1 /\ \A i \in 1..Len(rest) : rest[i] = feedBox[i + 1]
    BY <1>1, <2>1
  <2>3. feedBox' = Append(rest, Panned) BY <2>1
  <2> HIDE DEF rest
  <2>4. /\ Len(feedBox') = Len(rest) + 1 /\ feedBox'[Len(rest) + 1] = Panned
        /\ \A i \in 1..Len(rest) : feedBox'[i] = rest[i]
    BY <2>2, <2>3
  <2>5. \A i \in 1..Len(rest) : i + 1 \in 1..Len(feedBox) /\ feedBox'[i] = feedBox[i + 1]
    BY <1>2, <2>2, <2>4
  <2>6. Reports' = 1..Len(rest) BY <1>2, <1>3, <1>p, <2>2, <2>4, <2>5 DEF Reports
  <2>7. Len(rest) \in 1..Len(rest) /\ Len(rest) + 1 = Len(feedBox) BY <1>2, <2>1, <2>2
  <2>8. ASSUME NEW i \in Reports', \A j \in Reports' : j <= i PROVE i = Len(rest)
    BY <2>6, <2>7, <2>8
  <2>9. feedBox[Len(feedBox)].at = pos /\ feedBox[Len(feedBox)].facing = dir
    BY <1>2, <1>4, <2>1 DEF LastReport
  <2>10. LastReport' BY <2>5, <2>7, <2>8, <2>9 DEF LastReport
  <2> QED BY <1>2, <2>6, <2>7, <2>10
<1> QED BY <1>5, <1>6

\* A report is read: if it was the last, it is true.
LEMMA ReadKeepsReport ==
  ASSUME Known, LastReport, feedBox # <<>>, feedBox' = Tail(feedBox), UNCHANGED <<pos, dir>>
  PROVE  /\ Holds(feedBox', {"moved", "pan"}) /\ LastReport'
         /\ Reports' = {} /\ Head(feedBox).cmd = "moved" => Head(feedBox).at = pos /\ Head(feedBox).facing = dir
         /\ Reports' = {} /\ Head(feedBox).cmd = "pan" => Reports = {}
<1>1. /\ Holds(feedBox', {"moved", "pan"}) /\ Len(feedBox) \in Nat /\ 1 \in 1..Len(feedBox) /\ Head(feedBox) = feedBox[1]
      /\ Len(feedBox') = Len(feedBox) - 1 /\ \A i \in 1..Len(feedBox') : feedBox'[i] = feedBox[i + 1]
  BY TailHolds DEF Known
<1>2. \A i \in Reports' : i + 1 \in Reports /\ feedBox'[i] = feedBox[i + 1] BY <1>1 DEF Reports
<1>3. \A i \in Reports : i \in Int /\ (i = 1 \/ (i - 1 \in Reports' /\ i - 1 + 1 = i)) BY <1>1 DEF Reports
<1>4. ASSUME NEW i \in Reports', \A j \in Reports' : j <= i
      PROVE  feedBox'[i].at = pos /\ feedBox'[i].facing = dir
  <2>1. i \in Int /\ i >= 1 BY DEF Reports
  <2>2. \A j \in Reports : j <= i + 1 BY <1>3, <1>4, <2>1
  <2> QED BY <1>2, <2>2 DEF LastReport
<1>5. LastReport' BY <1>4 DEF LastReport
<1>6. Reports' = {} => Reports \subseteq {1} BY <1>3
<1>7. ASSUME Reports' = {}, Head(feedBox).cmd = "moved"
      PROVE  Head(feedBox).at = pos /\ Head(feedBox).facing = dir
  <2>1. 1 \in Reports /\ \A j \in Reports : j <= 1 BY <1>1, <1>6, <1>7 DEF Reports
  <2> QED BY <1>1, <2>1 DEF LastReport
<1>8. ASSUME Reports' = {}, Head(feedBox).cmd = "pan" PROVE Reports = {}
  BY <1>1, <1>6, <1>8 DEF Reports
<1> QED BY <1>1, <1>5, <1>7, <1>8

\* Init: nothing has been heard.
LEMMA DriveInit == ASSUME Init PROVE DriveInv
<1>1. /\ moveBox = <<>> /\ feedBox = <<>> /\ heard = FALSE
  BY DEF Init
<1>2. \A cmds : Holds(<<>>, cmds)
  <2>1. <<>> \in Seq({}) /\ 1..Len(<<>>) = {} OBVIOUS
  <2> QED BY <2>1 DEF Holds
<1>3. Reports = {}
  <2>1. 1..Len(<<>>) = {} OBVIOUS
  <2> QED BY <1>1, <2>1 DEF Reports
<1> QED BY <1>1, <1>2, <1>3, PanInit DEF DriveInv, Known, LastReport, Settling

\* A step that has nothing to do with movements.
LEMMA DriveSame ==
  ASSUME DriveInv, UNCHANGED <<loc, head, heard, moveBox, feedBox, pos, dir, doing>>
  PROVE  Known' /\ LastReport' /\ Settling'
BY DEF DriveInv, Known, LastReport, Settling, Reports, Answered

\* A command that will be reported goes to cmdMovement: until then nobody has
\* to agree.
LEMMA Tells ==
  ASSUME NEW box, Holds(box, Told \cup {""}), NEW m, m.cmd \in Told, moveBox' = Put(box, m)
  PROVE  Holds(moveBox', Told \cup {""}) /\ ~ Answered'
<1>1. m.cmd \in Told \cup {""} OBVIOUS
<1>2. /\ Holds(Put(box, m), Told \cup {""})
      /\ Len(Put(box, m)) \in 1..Len(Put(box, m)) /\ Put(box, m)[Len(Put(box, m))] = m
  BY <1>1, PutHolds
<1> QED BY <1>2 DEF Answered

LEMMA PutsEmpty ==
  ASSUME NEW box, Holds(box, Told \cup {""}) PROVE Holds(Put(box, Empty), Told \cup {""})
<1>1. Empty.cmd \in Told \cup {""} BY DEF Empty, Msg
<1> QED BY <1>1, PutHolds

LEMMA TowardsTold == ASSUME NEW h, NEW c PROVE Msg(Towards(h, c)).cmd \in Told
BY DEF Towards, Msg, Told

\* What newCmd does about a report m: it takes over what m says, or sends a
\* command that will be reported.
Heeded(m) ==
  /\ Holds(moveBox', Told \cup {""})
  /\ (loc' = m.at /\ head' = m.facing) \/ ~ Answered'

LEMMA FollowHeeds ==
  ASSUME Known, NEW m, NEW p, Follow(m.at, m.facing, p) PROVE Heeded(m)
<1>1. Holds(moveBox, Told \cup {""}) BY DEF Known
<1>2. CASE m.at = p[1]
  <2>1. loc' = m.at /\ head' = m.facing /\ moveBox' = Put(moveBox, Empty) BY <1>2 DEF Follow
  <2> QED BY <1>1, <2>1, PutsEmpty DEF Heeded
<1>3. CASE m.at # p[1]
  <2>1. moveBox' = Put(moveBox, Msg(Towards(m.facing, Course(m.at, p[1])))) BY <1>3 DEF Follow
  <2> QED BY <1>1, <2>1, Tells, TowardsTold DEF Heeded
<1> QED BY <1>2, <1>3

LEMMA SearchHeeds ==
  ASSUME Known, NEW m, Search(m.at, m.facing) PROVE Heeded(m)
<1>1. Holds(moveBox, Told \cup {""}) BY DEF Known
<1>2. loc' = m.at /\ head' = m.facing
      /\ \/ moveBox' = Put(Put(moveBox, Coord(m.at, m.facing)), Empty)
         \/ UNCHANGED moveBox
  BY DEF Search, Hang
<1>3. Coord(m.at, m.facing).cmd \in Told \cup {""} BY DEF Coord, Told
<1>4. Holds(Put(moveBox, Coord(m.at, m.facing)), Told \cup {""}) BY <1>1, <1>3, PutHolds
<1>5. Holds(moveBox', Told \cup {""}) BY <1>1, <1>2, <1>4, PutsEmpty
<1> QED BY <1>2, <1>5 DEF Heeded

LEMMA ReadHeeds ==
  ASSUME Known, ReadMoved PROVE Heeded(Head(feedBox))
<1> DEFINE m == Head(feedBox)
<1>1. Holds(moveBox, Told \cup {""}) BY DEF Known
<1> SUFFICES Heeded(m) OBVIOUS
<1>2. Stay(m) \/ Track(m) \/ Continue(m) \/ Replan(m) \/ Stuck(m) \/ Begin(m)
  BY DEF ReadMoved
<1> HIDE DEF m
<1>3. CASE Stay(m) BY <1>1, <1>3 DEF Stay, Heeded
<1>4. CASE Track(m) BY <1>1, <1>4, PutsEmpty DEF Track, Heeded
<1>5. CASE Continue(m) BY <1>5, FollowHeeds DEF Continue
<1>6. CASE Replan(m) BY <1>6, FollowHeeds DEF Replan
<1>7. CASE Stuck(m) BY <1>1, <1>7 DEF Stuck, Hang, Heeded
<1>8. CASE Begin(m) BY <1>8, SearchHeeds DEF Begin
<1> QED BY <1>2, <1>3, <1>4, <1>5, <1>6, <1>7, <1>8

\* Every step keeps the reports true and the controller informed.
LEMMA DriveStep == ASSUME DriveInv, [Next]_vars PROVE DriveInv'
<1> USE DEF controller, firmware, boxes
<1>i. Known /\ LastReport /\ Settling /\ PanInv BY DEF DriveInv
<1>m. Holds(moveBox, Told \cup {""}) /\ Holds(feedBox, {"moved", "pan"}) BY <1>i DEF Known
<1> SUFFICES Known' /\ LastReport' /\ Settling' BY PanStep, <1>i DEF DriveInv
<1>1. CASE Update \/ NothingRead \/ TakePan \/ UNCHANGED vars
  BY <1>1, DriveSame DEF Update, NothingRead, TakePan, vars
<1>2. CASE ReadPanned
  <2>1. /\ feedBox # <<>> /\ feedBox' = Tail(feedBox) /\ Head(feedBox).cmd = "pan"
        /\ UNCHANGED <<loc, head, heard, moveBox, pos, dir, doing>>
    BY <1>2 DEF ReadPanned
  <2>2. Holds(feedBox', {"moved", "pan"}) /\ LastReport' /\ (Reports' = {} => Reports = {})
    BY <1>i, <2>1, ReadKeepsReport
  <2> QED BY <1>i, <1>m, <2>1, <2>2 DEF Known, Settling, Answered
<1>3. CASE ReadMoved
  <2>1. /\ feedBox # <<>> /\ feedBox' = Tail(feedBox) /\ Head(feedBox).cmd = "moved"
        /\ UNCHANGED <<pos, dir, doing>>
    BY <1>3 DEF ReadMoved
  <2>2. /\ Holds(feedBox', {"moved", "pan"}) /\ LastReport'
        /\ Reports' = {} => Head(feedBox).at = pos /\ Head(feedBox).facing = dir
    BY <1>i, <2>1, ReadKeepsReport
  <2>3. Heeded(Head(feedBox)) BY <1>3, <1>i, ReadHeeds
  <2> QED BY <2>1, <2>2, <2>3 DEF Known, Settling, Heeded
<1>4. ASSUME NEW c \in Orders, Execute(c) PROVE Known' /\ LastReport' /\ Settling'
  <2>0. UNCHANGED <<loc, head, heard, feedBox, pos, dir, doing>> BY <1>4 DEF Execute
  <2>1. CASE c \in {"target", "pan", "pid"}
    <3>1. UNCHANGED moveBox BY <1>4, <2>1 DEF Execute
    <3> QED BY <2>0, <3>1, DriveSame
  <2>2. CASE c \notin {"target", "pan", "pid"}
    <3>1. moveBox' = Put(moveBox, Msg(c)) BY <1>4, <2>2 DEF Execute
    <3>2. Msg(c).cmd \in Told BY <2>2, DriveAssumption DEF Msg, Told
    <3>3. Holds(moveBox', Told \cup {""}) /\ ~ Answered' BY <1>m, <3>1, <3>2, Tells
    <3> QED BY <1>i, <1>m, <2>0, <3>3 DEF Known, LastReport, Settling, Reports
  <2> QED BY <2>1, <2>2
<1>5. ASSUME NEW m, m.cmd = "moved", m.at = pos', m.facing = dir', feedBox' = Put(feedBox, m),
             Holds(moveBox', Told \cup {""})
      PROVE  Known' /\ LastReport' /\ Settling'
  <2>1. Holds(feedBox', {"moved", "pan"}) /\ LastReport' /\ Reports' # {} BY <1>i, <1>5, ReportIsLast
  <2> QED BY <1>5, <2>1 DEF Known, Settling
<1>6. ASSUME NEW p, NEW d, NEW s PROVE /\ Moved(p, d, s).cmd = "moved" /\ Moved(p, d, s).at = p
                                       /\ Moved(p, d, s).facing = d
  BY DEF Moved
<1>7. CASE TakeMove \/ TakeOther
  <2>1. moveBox # <<>> /\ moveBox' = Tail(moveBox) BY <1>7 DEF TakeMove, TakeOther
  <2>2. Holds(moveBox', Told \cup {""}) BY <1>m, <2>1, TailHolds
  <2>3. PICK s : feedBox' = Put(feedBox, Moved(pos', dir', s)) BY <1>7 DEF TakeMove, TakeOther, Report
  <2> DEFINE m == Moved(pos', dir', s)
  <2>4. m.cmd = "moved" /\ m.at = pos' /\ m.facing = dir' /\ feedBox' = Put(feedBox, m) BY <1>6, <2>3
  <2> HIDE DEF m
  <2> QED BY <1>5, <2>2, <2>4
<1>8. CASE Finish
  <2>1. moveBox' = moveBox BY <1>8 DEF Finish
  <2>2. PICK s : feedBox' = Put(feedBox, Moved(pos', dir', s)) BY <1>8 DEF Finish, Report
  <2> DEFINE m == Moved(pos', dir', s)
  <2>3. m.cmd = "moved" /\ m.at = pos' /\ m.facing = dir' /\ feedBox' = Put(feedBox, m) BY <1>6, <2>2
  <2> HIDE DEF m
  <2> QED BY <1>5, <1>m, <2>1, <2>3
<1>9. CASE TakeEmpty
  <2>1. /\ moveBox # <<>> /\ moveBox' = Tail(moveBox) /\ Head(moveBox) = Empty
        /\ UNCHANGED <<loc, head, heard, feedBox, pos, dir, doing>>
    BY <1>9 DEF TakeEmpty
  <2>2. /\ Holds(moveBox', Told \cup {""}) /\ Len(moveBox) \in Nat /\ Head(moveBox) = moveBox[1]
        /\ Len(moveBox') = Len(moveBox) - 1 /\ \A i \in 1..Len(moveBox') : moveBox'[i] = moveBox[i + 1]
    BY <1>m, <2>1, TailHolds
  <2>3. Empty.cmd \notin Told BY DEF Empty, Msg, Told
  <2>4. ASSUME Answered' PROVE Answered
    <3> SUFFICES ASSUME NEW i \in 1..Len(moveBox) PROVE moveBox[i].cmd \notin Told BY DEF Answered
    <3>1. CASE i = 1 BY <2>1, <2>2, <2>3, <3>1
    <3>2. CASE i # 1
      <4>l. Len(moveBox) \in Nat /\ Len(moveBox') = Len(moveBox) - 1 BY <2>2
      <4>n. i \in Int /\ 1 <= i /\ i <= Len(moveBox) BY <4>l
      <4>1. i - 1 \in 1..Len(moveBox') /\ i - 1 + 1 = i BY <3>2, <4>l, <4>n
      <4>2. moveBox'[i - 1] = moveBox[i] BY <2>2, <4>1
      <4> QED BY <2>4, <4>1, <4>2 DEF Answered
    <3> QED BY <3>1, <3>2
  <2> QED BY <1>i, <1>m, <2>1, <2>2, <2>4 DEF Known, LastReport, Settling, Reports
<1>10. CASE FinishPan
  <2>1. /\ feedBox' = Put(feedBox, Panned)
        /\ UNCHANGED <<loc, head, heard, moveBox, pos, dir, doing>>
    BY <1>10 DEF FinishPan
  <2>2. Answers = {} BY <1>10, <1>i DEF FinishPan, PanInv, OnePan
  <2>3. /\ Holds(feedBox', {"moved", "pan"}) /\ LastReport' /\ (Reports' = {} => Reports = {})
    BY <1>i, <2>1, <2>2, AnswerKeepsReport
  <2> QED BY <1>i, <1>m, <2>1, <2>3 DEF Known, Settling, Answered
<1> QED BY <1>1, <1>2, <1>3, <1>4, <1>7, <1>8, <1>9, <1>10 DEF Next, RobotThread, Firmware

\* Once all is carried out and reported, controller and brick agree on where
\* the robot is, whatever the mailboxes have lost: every loss is followed by a
\* message that is reported, and the last report is never the one that is lost.
THEOREM SettlesAgreed == Spec => []SettledAgree
<1>1. DriveInv => SettledAgree
  <2> SUFFICES ASSUME DriveInv, heard, moveBox = <<>>, doing = "none", Reports = {}
               PROVE  loc = pos /\ head = dir
    BY DEF SettledAgree
  <2>1. Answered
    <3>1. 1..Len(<<>>) = {} OBVIOUS
    <3> QED BY <3>1 DEF Answered
  <2> QED BY <2>1 DEF DriveInv, Settling
<1>2. Init => DriveInv BY DriveInit
<1>3. DriveInv /\ [Next]_vars => DriveInv' BY DriveStep
<1> QED BY <1>1, <1>2, <1>3, PTL DEF Spec

-----------------------------------------------------------------------------
(* Types.  What is drawn by SearchObject is a way like any other, and no   *)
(* mailbox ever holds more than it can.                                    *)

Place == Int \X Int
Way   == Seq(Place) \ {<<>>}

Placed(m) == m.cmd \in {"coord", "moved"} => m.at \in Place /\ m.facing \in Heading

Boxed(box) ==
  (\E S : box \in Seq(S)) /\ Len(box) <= BoxSize /\ \A i \in 1..Len(box) : Placed(box[i])

BoxTypes  == Boxed(moveBox) /\ Boxed(panBox) /\ Boxed(feedBox)
RobTypes  == loc \in Place /\ head \in Heading
PlanTypes ==
  /\ path \in Seq(Place) /\ (hasPath => path # <<>>)
  /\ dest \in Place /\ alias \in {"none", "loc", "search"}
MindTypes == searchLoc \in Place /\ turn \in {"update", "read", "planning"}
BrickTypes == pos \in Place /\ dir \in Heading

DriveTypes == BoxTypes /\ RobTypes /\ PlanTypes /\ MindTypes /\ BrickTypes

LEMMA WayLast ==
  ASSUME NEW p \in Way
  PROVE  p \in Seq(Place) /\ \A c \in Place : Append(p, c) \in Way
BY DEF Way

LEMMA ConcreteCells == Cell \subseteq Place /\ Start \in Place /\ <<0, 0>> \in Place
BY GridAssumption DEF Cell, Place, Start

\* A leg makes a way longer.
LEMMA LengthenedType ==
  ASSUME NEW p \in Way, NEW leg \in Seq(Place)
  PROVE  Lengthened(p, leg) \in Way
<1> DEFINE N == Len(leg)
           add == [i \in 1..N |-> [w \in Way |-> IF Last(w) = leg[i] THEN w ELSE Append(w, leg[i])]]
           rec(f) == [i \in 0..Len(leg) |-> IF i = 0 THEN p
                        ELSE IF Last(f[i - 1]) = leg[i] THEN f[i - 1] ELSE Append(f[i - 1], leg[i])]
<1>1. N \in Nat /\ \A i \in 1..N : leg[i] \in Place
  OBVIOUS
<1>2. add \in [1..N -> [Way -> Way]]
  <2>1. ASSUME NEW i \in 1..N, NEW w \in Way
        PROVE  (IF Last(w) = leg[i] THEN w ELSE Append(w, leg[i])) \in Way
    BY <1>1, WayLast
  <2> QED BY <2>1
<1> HIDE DEF add
<1>3. PICK f \in [0..N -> Way] : f[0] = p /\ \A i \in 1..N : f[i] = add[i][f[i - 1]]
  <2>1. Recursions(Way, N, p, add) # {}
    BY <1>1, <1>2, RecursionExists
  <2> QED BY <2>1 DEF Recursions
<1>4. ASSUME NEW i \in 0..N PROVE f[i] = rec(f)[i]
  <2>1. CASE i = 0
    BY <2>1, <1>3
  <2>2. CASE i # 0
    <3>1. i \in 1..N /\ i - 1 \in 0..N
      BY <2>2, <1>1
    <3>2. f[i - 1] \in Way
      BY <3>1, <1>3
    <3> QED BY <3>1, <3>2, <1>3, <2>2 DEF add
  <2> QED BY <2>1, <2>2
<1>5. f = rec(f)
  <2> HIDE DEF N
  <2>1. f = [i \in 0..N |-> f[i]]
    BY <1>3
  <2> QED BY <1>4, <2>1 DEF N
<1> DEFINE g == CHOOSE h : h = rec(h)
<1>6. g = rec(g)
  <2> HIDE DEF rec
  <2> QED BY <1>5
<1>7. Lengthened(p, leg) = g[N]
  BY DEF Lengthened
<1> HIDE DEF g
<1> DEFINE T == {i \in 0..N : g[i] \in Way}
<1>8. 0..N \subseteq T
  <2>1. 0 \in T
    BY <1>1, <1>6
  <2>2. ASSUME NEW i \in 1..N, i - 1 \in T PROVE i \in T
    <3>1. g[i] = IF Last(g[i - 1]) = leg[i] THEN g[i - 1] ELSE Append(g[i - 1], leg[i])
      <4>1. i \in 0..Len(leg) /\ i # 0
        BY <1>1
      <4>2. rec(g)[i] = IF Last(g[i - 1]) = leg[i] THEN g[i - 1] ELSE Append(g[i - 1], leg[i])
        BY <4>1
      <4> HIDE DEF rec
      <4> QED BY <4>2, <1>6
    <3>2. g[i] \in Way
      BY <3>1, <2>2, <1>1, WayLast
    <3> QED BY <3>2
  <2> HIDE DEF T
  <2> QED BY <1>1, <2>1, <2>2, BoundedInduction
<1> QED BY <1>1, <1>7, <1>8

\* The legs of the spiral, and where they end.
LEMMA LegTypes ==
  ASSUME NEW n \in Nat, NEW c \in Place
  PROVE  Leg(n, c) \in Seq(Place) /\ Corner(n, c) \in Place
<1>1. LegSize(n) \in Nat
  BY DEF LegSize
<1>2. LegSign(n) \in {1, -1}
  BY DEF LegSign
<1>3. c[1] \in Int /\ c[2] \in Int /\ XMax \in Int /\ YMax \in Int
  BY GridAssumption DEF Place
<1>4. \A v \in Int, max \in Int : Clamp(v, max) \in Int
  BY DEF Clamp
<1>5. \A k \in Int : k * LegSign(n) \in Int
  <2>1. \A k \in Int : k * 1 \in Int /\ k * (-1) \in Int
    OBVIOUS
  <2> QED BY <1>2, <2>1
<1>6. Corner(n, c) \in Place
  <2>1. LegSize(n) * LegSign(n) \in Int
    BY <1>1, <1>5
  <2>2. PICK d \in Int : d = LegSize(n) * LegSign(n)
    BY <2>1
  <2>3. Clamp(c[1] + d, XMax) \in Int /\ Clamp(c[2] + d, YMax) \in Int
    <3>1. c[1] + d \in Int /\ c[2] + d \in Int
      BY <1>3
    <3> QED BY <1>3, <1>4, <3>1
  <2>4. Corner(n, c) = IF n % 2 = 1 THEN <<Clamp(c[1] + d, XMax), c[2]>>
                                    ELSE <<c[1], Clamp(c[2] + d, YMax)>>
    BY <2>2, Zenon DEF Corner
  <2> QED BY <1>3, <2>3, <2>4 DEF Place
<1>7. Leg(n, c) \in [1..LegSize(n) -> Place]
  <2>1. ASSUME NEW i \in 1..LegSize(n)
        PROVE  (IF n % 2 = 1 THEN <<c[1] + (i - 1) * LegSign(n), c[2]>>
                             ELSE <<c[1], c[2] + (i - 1) * LegSign(n)>>) \in Place
    <3>1. i - 1 \in Int
      BY <1>1
    <3>2. PICK d \in Int : d = (i - 1) * LegSign(n)
      BY <3>1, <1>5
    <3> QED BY <1>3, <3>2 DEF Place
  <2> QED BY <2>1 DEF Leg
<1> QED BY <1>1, <1>6, <1>7

LEMMA SpiralType ==
  ASSUME NEW p \in Way, NEW l \in Place
  PROVE  Spiral(p, l) \in Way
<1> DEFINE Drawn == [way : Way, at : Place]
           draw == [n \in 1..Legs |-> [d \in Drawn |->
                      [way |-> Lengthened(d.way, Leg(n, d.at)), at |-> Corner(n, d.at)]]]
           rec(f) == [n \in 0..Legs |-> IF n = 0 THEN [way |-> p, at |-> l]
                        ELSE [way |-> Lengthened(f[n - 1].way, Leg(n, f[n - 1].at)),
                              at |-> Corner(n, f[n - 1].at)]]
<1>1. Legs \in Nat
  <2>1. PICK m : m = (XMax + YMax) \div 2
    OBVIOUS
  <2>2. m \in Nat
    BY <2>1, GridAssumption
  <2> QED BY <2>1, <2>2 DEF Legs
<1>0. [way |-> p, at |-> l] \in Drawn
  OBVIOUS
<1>a. ASSUME NEW n \in 1..Legs, NEW d \in Drawn
      PROVE  [way |-> Lengthened(d.way, Leg(n, d.at)), at |-> Corner(n, d.at)] \in Drawn
  <2>1. n \in Nat /\ d.way \in Way /\ d.at \in Place
    BY <1>1
  <2>2. PICK leg : leg = Leg(n, d.at)
    OBVIOUS
  <2>3. leg \in Seq(Place) /\ Corner(n, d.at) \in Place
    BY <2>1, <2>2, LegTypes
  <2>4. Lengthened(d.way, leg) \in Way
    BY <2>1, <2>3, LengthenedType
  <2> QED BY <2>2, <2>3, <2>4
<1> HIDE DEF Drawn
<1>2. draw \in [1..Legs -> [Drawn -> Drawn]]
  BY <1>a
<1> HIDE DEF draw
<1>3. PICK f \in [0..Legs -> Drawn] :
        f[0] = [way |-> p, at |-> l] /\ \A n \in 1..Legs : f[n] = draw[n][f[n - 1]]
  <2>1. Recursions(Drawn, Legs, [way |-> p, at |-> l], draw) # {}
    BY <1>0, <1>1, <1>2, RecursionExists
  <2> QED BY <2>1 DEF Recursions
<1>4. ASSUME NEW n \in 0..Legs PROVE f[n] = rec(f)[n]
  <2>1. CASE n = 0
    BY <2>1, <1>3
  <2>2. CASE n # 0
    <3>1. n \in 1..Legs /\ n - 1 \in 0..Legs
      BY <2>2, <1>1
    <3>2. f[n - 1] \in Drawn
      BY <3>1, <1>3
    <3>3. f[n] = draw[n][f[n - 1]]
      BY <3>1, <1>3
    <3>4. draw[n][f[n - 1]] = [way |-> Lengthened(f[n - 1].way, Leg(n, f[n - 1].at)), at |-> Corner(n, f[n - 1].at)]
      BY <3>1, <3>2 DEF draw
    <3> QED BY <3>3, <3>4, <2>2
  <2> QED BY <2>1, <2>2
<1>5. f = rec(f)
  <2>1. f = [n \in 0..Legs |-> f[n]]
    BY <1>3
  <2> QED BY <1>4, <2>1
<1> DEFINE g == CHOOSE h : h = rec(h)
<1>6. g = rec(g)
  <2> HIDE DEF rec
  <2> QED BY <1>5
<1>7. Spiral(p, l) = g[Legs].way
  BY DEF Spiral
<1> HIDE DEF g
<1> DEFINE T == {n \in 0..Legs : g[n] \in Drawn}
<1>8. 0..Legs \subseteq T
  <2>1. 0 \in T
    BY <1>0, <1>1, <1>6
  <2>2. ASSUME NEW n \in 1..Legs, n - 1 \in T PROVE n \in T
    <3>1. n \in 0..Legs /\ n # 0
      BY <1>1
    <3>2. rec(g)[n] = [way |-> Lengthened(g[n - 1].way, Leg(n, g[n - 1].at)), at |-> Corner(n, g[n - 1].at)]
      BY <3>1
    <3>3. g[n - 1] \in Drawn
      BY <2>2
    <3> HIDE DEF rec
    <3> QED BY <1>6, <1>a, <3>1, <3>2, <3>3
  <2> HIDE DEF T
  <2> QED BY <1>1, <2>1, <2>2, BoundedInduction
<1>9. g[Legs] \in Drawn
  BY <1>1, <1>8
<1> QED BY <1>7, <1>9 DEF Drawn

\* What genPath returns is a way.
LEMMA WaysType ==
  ASSUME NEW a, NEW b, NEW p \in Ways(a, b)
  PROVE  p \in Way
<1> DEFINE n == IF a = b THEN 2 ELSE Dist(a, b)
<1>1. a \in Cell /\ b \in Cell /\ p \in [1..n -> Cell] /\ p # <<>>
  BY DEF Ways, IsWalk
<1>2. n \in Nat
  <2>1. a[1] \in Int /\ a[2] \in Int /\ b[1] \in Int /\ b[2] \in Int
    BY <1>1 DEF Cell
  <2> QED BY <2>1 DEF Dist, AbsOf
<1> HIDE DEF n
<1>3. p \in [1..n -> Place]
  BY <1>1, ConcreteCells
<1> QED BY <1>1, <1>2, <1>3 DEF Way

-----------------------------------------------------------------------------
(* The mailboxes.                                                          *)

LEMMA PutBoxed ==
  ASSUME NEW box, Boxed(box), NEW m, Placed(m)
  PROVE  Boxed(Put(box, m))
<1>1. PICK S : box \in Seq(S)
  BY DEF Boxed
<1> DEFINE put == Put(box, m)
<1>2. put \in Seq(S \cup {m}) /\ Len(put) <= BoxSize
      /\ \A i \in 1..Len(put) : put[i] = m \/ \E j \in 1..Len(box) : put[i] = box[j]
  <2>0. Len(box) \in Nat /\ Len(box) <= BoxSize /\ box \in Seq(S \cup {m}) /\ BoxSize \in Nat /\ BoxSize >= 2
    BY <1>1, DriveAssumption DEF Boxed
  <2>1. CASE Len(box) < BoxSize
    <3>1. put = Append(box, m)
      BY <2>1 DEF Put
    <3> QED BY <2>0, <2>1, <3>1
  <2>2. CASE ~ (Len(box) < BoxSize)
    <3>1. put = Append(Tail(box), m) /\ box # <<>>
      BY <2>0, <2>2 DEF Put
    <3>2. PICK rest : rest = Tail(box)
      OBVIOUS
    <3>3. rest \in Seq(S \cup {m}) /\ Len(rest) = Len(box) - 1 /\ \A i \in 1..Len(rest) : rest[i] = box[i + 1]
      BY <2>0, <3>1, <3>2
    <3>4. put = Append(rest, m)
      BY <3>1, <3>2
    <3>5. /\ put \in Seq(S \cup {m}) /\ Len(put) = Len(rest) + 1 /\ put[Len(rest) + 1] = m
          /\ \A i \in 1..Len(rest) : put[i] = rest[i]
      BY <3>3, <3>4
    <3>6. Len(put) = Len(box)
      BY <2>0, <3>3, <3>5
    <3>7. ASSUME NEW i \in 1..Len(put), i # Len(rest) + 1 PROVE i + 1 \in 1..Len(box) /\ put[i] = box[i + 1]
      <4>1. i \in 1..Len(rest)
        BY <2>0, <3>3, <3>5, <3>7
      <4> QED BY <2>0, <3>3, <3>5, <4>1
    <3> QED BY <2>0, <3>5, <3>6, <3>7
  <2> QED BY <2>1, <2>2
<1> HIDE DEF put
<1>3. Boxed(put)
  BY <1>2 DEF Boxed
<1> QED BY <1>3 DEF put

LEMMA TailBoxed ==
  ASSUME NEW box, Boxed(box), box # <<>>
  PROVE  Boxed(Tail(box)) /\ Placed(Head(box))
<1>1. PICK S : box \in Seq(S)
  BY DEF Boxed
<1>2. PICK rest : rest = Tail(box)
  OBVIOUS
<1>3. /\ rest \in Seq(S) /\ Len(rest) = Len(box) - 1 /\ Len(box) \in Nat /\ Len(box) > 0
      /\ \A i \in 1..Len(rest) : rest[i] = box[i + 1]
      /\ Head(box) = box[1]
  BY <1>1, <1>2
<1>4. Len(rest) <= BoxSize
  BY <1>3, DriveAssumption DEF Boxed
<1>5. \A i \in 1..Len(rest) : Placed(rest[i])
  BY <1>3 DEF Boxed
<1>6. Boxed(rest)
  BY <1>3, <1>4, <1>5 DEF Boxed
<1>7. Placed(box[1])
  BY <1>3 DEF Boxed
<1> QED BY <1>2, <1>3, <1>6, <1>7

LEMMA Unplaced ==
  /\ \A c : c \notin {"coord", "moved"} => Placed(Msg(c))
  /\ Placed(Empty) /\ Placed(Panned)
  /\ \A h, c : Placed(Msg(Towards(h, c)))
  /\ \A l \in Place, h \in Heading : Placed(Coord(l, h))
  /\ \A l \in Place, h \in Heading : \A s : Placed(Moved(l, h, s))
BY DEF Placed, Msg, Empty, Panned, Towards, Coord, Moved

-----------------------------------------------------------------------------
(* Each step keeps the types.                                              *)

LEMMA DriveTypesInit == ASSUME Init PROVE DriveTypes
<1>1. <<>> \in Seq(Place) /\ Len(<<>>) = 0 /\ 1..0 = {}
  OBVIOUS
<1>2. Boxed(<<>>)
  BY <1>1, DriveAssumption DEF Boxed
<1>3. searchLoc \in Place
  <2>1. XMax \div 2 \in Int /\ YMax \div 2 \in Int
    BY GridAssumption
  <2> QED BY <2>1 DEF Init, Place
<1>4. BoxTypes /\ PlanTypes
  BY <1>1, <1>2, ConcreteCells DEF Init, BoxTypes, PlanTypes
<1>5. RobTypes /\ BrickTypes
  BY ConcreteCells DEF Init, RobTypes, BrickTypes, Heading
<1>6. MindTypes
  BY <1>3 DEF Init, MindTypes
<1> QED BY <1>4, <1>5, <1>6 DEF DriveTypes

\* newCmd.
LEMMA FollowTyped ==
  ASSUME DriveTypes, NEW l \in Place, NEW h \in Heading, NEW p \in Way, Follow(l, h, p)
  PROVE  RobTypes' /\ PlanTypes' /\ Boxed(moveBox')
<1>1. p \in Seq(Place) /\ p # <<>> /\ p[1] \in Place /\ Tail(p) \in Seq(Place)
  BY DEF Way
<1>2. Course(l, p[1]) \in Heading
  BY DEF Course, Heading
<1>3. path' \in Seq(Place)
  BY <1>1 DEF Follow
<1>4. Boxed(moveBox)
  BY DEF DriveTypes, BoxTypes
<1>5. CASE l = p[1]
  <2>1. /\ loc' = l /\ head' = h /\ path' = p
        /\ moveBox' = Put(moveBox, Empty) /\ UNCHANGED <<dest, alias>>
    BY <1>5 DEF Follow
  <2> QED BY <1>1, <1>4, <2>1, PutBoxed, Unplaced DEF RobTypes, PlanTypes, DriveTypes
<1>6. CASE l # p[1]
  <2>1. /\ head' = Course(l, p[1]) /\ moveBox' = Put(moveBox, Msg(Towards(h, Course(l, p[1]))))
        /\ loc' \in {l, p[1]} /\ dest' \in {dest, l} /\ alias' \in {alias, "none"}
    BY <1>6 DEF Follow
  <2>2. hasPath' => path' # <<>>
    <3>1. CASE h = Course(l, p[1])
      BY <1>6, <3>1 DEF Follow, More
    <3>2. CASE h # Course(l, p[1])
      BY <1>1, <1>6, <3>2 DEF Follow
    <3> QED BY <3>1, <3>2
  <2>3. Boxed(moveBox')
    BY <1>4, <2>1, PutBoxed, Unplaced
  <2>4. RobTypes'
    BY <1>1, <1>2, <2>1 DEF RobTypes
  <2>5. PlanTypes'
    BY <1>3, <2>1, <2>2 DEF PlanTypes, DriveTypes
  <2> QED BY <2>3, <2>4, <2>5
<1> QED BY <1>5, <1>6

LEMMA HangTyped ==
  ASSUME DriveTypes, NEW l \in Place, NEW h \in Heading, Hang(l, h),
         dest' \in Place, alias' \in {"none", "loc", "search"}
  PROVE  RobTypes' /\ PlanTypes' /\ Boxed(moveBox') /\ turn' = "planning"
BY DEF Hang, RobTypes, PlanTypes, DriveTypes, BoxTypes

\* SearchObject.
LEMMA SearchTyped ==
  ASSUME DriveTypes, NEW l \in Place, NEW h \in Heading, Search(l, h)
  PROVE  RobTypes' /\ PlanTypes' /\ Boxed(moveBox') /\ turn' \in {"update", "planning"}
<1> DEFINE goal == IF searchLoc[2] = -1 THEN <<YMax \div 2, XMax \div 2>> ELSE searchLoc
<1>1. goal \in Place
  <2>1. XMax \div 2 \in Int /\ YMax \div 2 \in Int
    BY GridAssumption
  <2>2. searchLoc \in Place
    BY DEF DriveTypes, MindTypes
  <2> QED BY <2>1, <2>2 DEF Place
<1>2. /\ dest' = goal /\ alias' \in {"none", "loc", "search"}
      /\ \/ \E p \in Ways(l, goal) :
              /\ path' = Spiral(p, goal) /\ hasPath' = TRUE /\ turn' = "update"
              /\ loc' = l /\ head' = h /\ moveBox' = Put(Put(moveBox, Coord(l, h)), Empty)
         \/ Hang(l, h)
  BY DEF Search
<1> HIDE DEF goal
<1>3. CASE Hang(l, h)
  BY <1>1, <1>2, <1>3, HangTyped
<1>4. ASSUME NEW p \in Ways(l, goal), path' = Spiral(p, goal), hasPath' = TRUE, turn' = "update",
             loc' = l, head' = h, moveBox' = Put(Put(moveBox, Coord(l, h)), Empty)
      PROVE  RobTypes' /\ PlanTypes' /\ Boxed(moveBox') /\ turn' \in {"update", "planning"}
  <2>1. path' \in Way
    <3>1. PICK c : c = goal
      OBVIOUS
    <3>2. p \in Way
      BY WaysType
    <3> QED BY <1>1, <1>4, <3>1, <3>2, SpiralType
  <2>2. Boxed(Put(moveBox, Coord(l, h)))
    <3>1. Boxed(moveBox) /\ Placed(Coord(l, h))
      BY Unplaced DEF DriveTypes, BoxTypes
    <3> QED BY <3>1, PutBoxed
  <2>3. Boxed(moveBox')
    BY <1>4, <2>2, PutBoxed, Unplaced
  <2>4. RobTypes'
    BY <1>4 DEF RobTypes
  <2>5. PlanTypes'
    BY <1>1, <1>2, <2>1 DEF PlanTypes, Way
  <2> QED BY <1>4, <2>3, <2>4, <2>5
<1> QED BY <1>2, <1>3, <1>4

\* A report is answered.
LEMMA ReadTyped ==
  ASSUME DriveTypes, ReadMoved
  PROVE  DriveTypes'
<1> DEFINE m == Head(feedBox)
<1>0. Boxed(feedBox') /\ m.at \in Place /\ m.facing \in Heading
  <2>1. feedBox # <<>> /\ feedBox' = Tail(feedBox) /\ m.cmd = "moved"
    BY DEF ReadMoved
  <2>2. Boxed(Tail(feedBox)) /\ Placed(m)
    BY <2>1, TailBoxed DEF DriveTypes, BoxTypes
  <2> QED BY <2>1, <2>2 DEF Placed
<1>1. \/ (Stay(m) \/ Track(m) \/ Continue(m) \/ Replan(m)) /\ turn' = "update"
      \/ Stuck(m) \/ Begin(m)
  BY DEF ReadMoved
<1>2. UNCHANGED <<searchLoc, panBox, pos, dir>>
  BY DEF ReadMoved, firmware
<1> HIDE DEF m
<1>3. PICK l \in Place, h \in Heading : l = m.at /\ h = m.facing
  BY <1>0
<1>4. ASSUME Stay(m), turn' = "update" PROVE RobTypes' /\ PlanTypes' /\ Boxed(moveBox')
  BY <1>0, <1>4 DEF Stay, plan, RobTypes, PlanTypes, DriveTypes, BoxTypes
<1>5. ASSUME Track(m), turn' = "update" PROVE RobTypes' /\ PlanTypes' /\ Boxed(moveBox')
  <2>1. PICK b : b = moveBox
    OBVIOUS
  <2>2. Boxed(b) /\ Placed(Empty)
    BY <2>1, Unplaced DEF DriveTypes, BoxTypes
  <2>3. Boxed(Put(b, Empty))
    BY <2>2, PutBoxed
  <2>4. Boxed(moveBox')
    BY <1>5, <2>1, <2>3 DEF Track
  <2> QED BY <1>0, <1>2, <1>5, <2>4 DEF Track, plan, RobTypes, PlanTypes, DriveTypes, BoxTypes
<1>6. ASSUME Continue(m) PROVE RobTypes' /\ PlanTypes' /\ Boxed(moveBox')
  <2>1. path \in Way
    BY <1>6 DEF Continue, OnPath, DriveTypes, PlanTypes, Way
  <2>2. PICK p \in Way : p = path
    BY <2>1
  <2> QED BY <1>3, <1>6, <2>2, FollowTyped DEF Continue
<1>7. ASSUME Replan(m) PROVE RobTypes' /\ PlanTypes' /\ Boxed(moveBox')
  <2>1. PICK p \in Ways(m.at, Destination) : Follow(m.at, m.facing, p)
    BY <1>7 DEF Replan
  <2>2. PICK q \in Way : q = p
    BY <2>1, WaysType
  <2> QED BY <1>3, <2>1, <2>2, FollowTyped
<1>8. ASSUME Stuck(m) PROVE RobTypes' /\ PlanTypes' /\ Boxed(moveBox') /\ turn' = "planning"
  <2>1. dest' \in Place /\ alias' \in {"none", "loc", "search"} /\ Hang(m.at, m.facing)
    BY <1>8 DEF Stuck, DriveTypes, PlanTypes
  <2> QED BY <1>3, <2>1, HangTyped
<1>9. ASSUME Begin(m)
      PROVE  RobTypes' /\ PlanTypes' /\ Boxed(moveBox') /\ turn' \in {"update", "planning"}
  BY <1>3, <1>9, SearchTyped DEF Begin
<1>10. RobTypes' /\ PlanTypes' /\ Boxed(moveBox') /\ turn' \in {"update", "planning"}
  BY <1>1, <1>4, <1>5, <1>6, <1>7, <1>8, <1>9
<1>11. BoxTypes' /\ MindTypes' /\ BrickTypes'
  BY <1>0, <1>2, <1>10 DEF DriveTypes, BoxTypes, MindTypes, BrickTypes
<1> QED BY <1>10, <1>11 DEF DriveTypes

\* A pan is asked for, or nothing that has a type changes.
LEMMA PanTyped ==
  ASSUME DriveTypes, NEW c \in {"pan", "pid"}, Pan(c) PROVE Boxed(panBox')
<1>1. Placed(Msg(c))
  BY Unplaced
<1> QED BY <1>1, PutBoxed DEF Pan, DriveTypes, BoxTypes

\* A command from outside.
LEMMA ExecuteTyped ==
  ASSUME DriveTypes, NEW c \in Orders, Execute(c)
  PROVE  DriveTypes'
<1>1. UNCHANGED <<loc, head, path, hasPath, dest, alias, turn, feedBox, pos, dir>>
  BY DEF Execute, plan, firmware
<1>2. RobTypes' /\ PlanTypes' /\ BrickTypes'
  BY <1>1 DEF DriveTypes, RobTypes, PlanTypes, BrickTypes
<1>3. CASE c = "target"
  <2>1. UNCHANGED <<panBox, moveBox>> /\ searchLoc' \in Place
    BY <1>3, DriveAssumption DEF Execute, Place
  <2> QED BY <1>1, <1>2, <2>1 DEF DriveTypes, BoxTypes, MindTypes
<1>4. CASE c \in {"pan", "pid"}
  <2>1. Pan(c) /\ UNCHANGED <<moveBox, searchLoc>>
    BY <1>4 DEF Execute
  <2>2. Boxed(panBox')
    BY <1>4, <2>1, PanTyped
  <2> QED BY <1>1, <1>2, <2>1, <2>2 DEF DriveTypes, BoxTypes, MindTypes
<1>5. CASE c \notin {"target", "pan", "pid"}
  <2>1. moveBox' = Put(moveBox, Msg(c)) /\ UNCHANGED <<panBox, searchLoc>>
    BY <1>5 DEF Execute
  <2>2. Placed(Msg(c))
    BY DriveAssumption, Unplaced
  <2>3. Boxed(moveBox')
    BY <2>1, <2>2, PutBoxed DEF DriveTypes, BoxTypes
  <2> QED BY <1>1, <1>2, <2>1, <2>3 DEF DriveTypes, BoxTypes, MindTypes
<1> QED BY <1>3, <1>4, <1>5

\* The firmware.
LEMMA BrickTyped ==
  ASSUME DriveTypes, TakeMove \/ TakeOther \/ TakeEmpty \/ Finish
  PROVE  DriveTypes'
<1>1. UNCHANGED <<loc, head, path, hasPath, dest, alias, searchLoc, turn, panBox>>
  BY DEF TakeMove, TakeOther, TakeEmpty, Finish, controller
<1>2. Boxed(moveBox) /\ Boxed(feedBox) /\ Boxed(panBox) /\ BrickTypes
  BY DEF DriveTypes, BoxTypes
<1>3. Boxed(moveBox')
  BY <1>2, TailBoxed DEF TakeMove, TakeOther, TakeEmpty, Finish
<1>4. BrickTypes'
  <2>1. CASE TakeMove \/ TakeEmpty
    BY <1>2, <2>1 DEF TakeMove, TakeEmpty, firmware, BrickTypes
  <2>2. CASE TakeOther
    <3>1. Placed(Head(moveBox))
      BY <1>2, <2>2, TailBoxed DEF TakeOther
    <3> QED BY <1>2, <2>2, <3>1 DEF TakeOther, Placed, BrickTypes
  <2>3. CASE Finish
    <3>1. pos' \in Place
      BY <2>3, DriveAssumption DEF Finish, Place
    <3>2. dir' \in Heading
      <4>1. dir \in Heading
        BY <1>2 DEF BrickTypes
      <4>2. dir' \in {(dir + 1) % 4, (dir + 3) % 4, (dir + 2) % 4, dir}
        BY <2>3 DEF Finish
      <4> QED BY <4>1, <4>2 DEF Heading
    <3> QED BY <3>1, <3>2 DEF BrickTypes
  <2> QED BY <2>1, <2>2, <2>3
<1>5. Boxed(feedBox')
  <2>1. CASE TakeEmpty
    BY <1>2, <2>1 DEF TakeEmpty
  <2>2. CASE TakeMove \/ TakeOther \/ Finish
    <3>1. PICK s : feedBox' = Put(feedBox, Moved(pos', dir', s))
      <4>1. CASE TakeMove
        BY <4>1 DEF TakeMove, Report
      <4>2. CASE TakeOther
        BY <4>2 DEF TakeOther, Report
      <4>3. CASE Finish
        BY <4>3 DEF Finish, Report
      <4> QED BY <2>2, <4>1, <4>2, <4>3
    <3>2. PICK p \in Place, d \in Heading : p = pos' /\ d = dir'
      BY <1>4 DEF BrickTypes
    <3>3. Placed(Moved(p, d, s))
      BY <3>2, Unplaced
    <3> QED BY <1>2, <3>1, <3>2, <3>3, PutBoxed
  <2> QED BY <2>1, <2>2
<1> QED BY <1>1, <1>2, <1>3, <1>4, <1>5 DEF DriveTypes, BoxTypes, RobTypes, PlanTypes, MindTypes

\* A step that touches nothing but the mailboxes and the turn.
LEMMA TypesKept ==
  ASSUME DriveTypes, UNCHANGED <<loc, head, path, hasPath, dest, alias, searchLoc, pos, dir>>,
         turn' \in {"update", "read", "planning"}, Boxed(moveBox'), Boxed(panBox'), Boxed(feedBox')
  PROVE  DriveTypes'
BY DEF DriveTypes, BoxTypes, RobTypes, PlanTypes, MindTypes, BrickTypes

\* Every step keeps the types.
LEMMA DriveTypesStep == ASSUME DriveTypes, [Next]_vars PROVE DriveTypes'
<1>0. turn \in {"update", "read", "planning"} /\ Boxed(moveBox) /\ Boxed(panBox) /\ Boxed(feedBox)
  BY DEF DriveTypes, BoxTypes, MindTypes
<1>1. CASE Update
  <2>1. /\ UNCHANGED <<loc, head, path, hasPath, dest, alias, searchLoc, pos, dir, moveBox, feedBox>>
        /\ turn' = "read"
    BY <1>1 DEF Update, plan, firmware
  <2>2. Boxed(panBox')
    BY <1>0, <1>1, PanTyped DEF Update
  <2> QED BY <1>0, <2>1, <2>2, TypesKept
<1>2. CASE NothingRead
  BY <1>0, <1>2, TypesKept DEF NothingRead, plan, boxes, firmware
<1>3. CASE ReadPanned
  <2>1. Boxed(feedBox')
    BY <1>0, <1>3, TailBoxed DEF ReadPanned
  <2> QED BY <1>0, <1>3, <2>1, TypesKept DEF ReadPanned, plan, firmware
<1>4. CASE ReadMoved
  BY <1>4, ReadTyped
<1>5. CASE TakeMove \/ TakeOther \/ TakeEmpty \/ Finish
  BY <1>5, BrickTyped
<1>6. CASE TakePan
  <2>1. Boxed(panBox')
    BY <1>0, <1>6, TailBoxed DEF TakePan
  <2> QED BY <1>0, <1>6, <2>1, TypesKept DEF TakePan, controller
<1>7. CASE FinishPan
  <2>1. Boxed(feedBox')
    BY <1>0, <1>7, PutBoxed, Unplaced DEF FinishPan
  <2> QED BY <1>0, <1>7, <2>1, TypesKept DEF FinishPan, controller
<1>8. CASE \E c \in Orders : Execute(c)
  BY <1>8, ExecuteTyped
<1>9. CASE UNCHANGED vars
  BY <1>0, <1>9, TypesKept DEF vars, controller, boxes, firmware
<1> QED BY <1>1, <1>2, <1>3, <1>4, <1>5, <1>6, <1>7, <1>8, <1>9 DEF Next, RobotThread, Firmware

\* Wherever the robot is sent and whatever it reports, what it follows is a
\* list of places that is not empty while it has a path, it faces in one of the
\* four directions, and no mailbox holds more than it can.
THEOREM DriveTyped == Spec => []TypeOK
<1>1. DriveTypes => TypeOK
  BY DEF DriveTypes, BoxTypes, RobTypes, PlanTypes, MindTypes, BrickTypes, Boxed, Place, TypeOK
<1> QED BY <1>1, DriveTypesInit, DriveTypesStep, PTL DEF Spec

=============================================================================
