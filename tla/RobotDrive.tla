----------------------------- MODULE RobotDrive -----------------------------
(***************************************************************************)
(* One robot of the robot controller and the firmware on its brick.  The   *)
(* RobotThread of the controller, which reads reports and sends the next   *)
(* movement, the threads that execute commands (ClientThread, console),    *)
(* and the tasks cmdMovement and cmdPan of robot.nxc, over the mailboxes   *)
(* of the NXT.  What is done under the semaphore of the robot is a step.   *)
(* The NXT itself is external: a mailbox that is full loses its oldest     *)
(* message.                                                                *)
(***************************************************************************)
EXTENDS Grid

CONSTANTS BoxSize,      \* how many messages a mailbox holds
          Orders,       \* the commands that are executed from outside
          Targets,      \* where targets are searched for
          MaxOrders,    \* bound: commands from outside
          Room          \* bound: where a robot can drive

Start == <<0, -1>>
Heading == 0..3         \* NORTH, EAST, SOUTH, WEST

ASSUME DriveAssumption ==
  /\ BoxSize \in Nat /\ BoxSize >= 2 /\ MaxOrders \in Nat
  /\ Start \in Room /\ Room \subseteq Int \X Int /\ Targets \subseteq Int \X Int
  /\ Orders \subseteq {"forward", "left", "right", "turnaround", "calibrate", "other", "pan", "pid", "target"}

VARIABLES
  loc, head,            \* controller: loc, robotHeading_
  path, hasPath,        \* robPath, hasPath
  dest, hasDest,        \* the GridLoc dest points to, hasDest
  alias,                \* whether that is the object of loc or of searchLoc
  searchLoc,
  target, visible,      \* the camera has a target; targetVisible_
  panning,              \* cameraPanning_
  turn,                 \* what RobotThread does next
  heard,                \* a report has been read
  moveBox, panBox, feedBox,   \* the mailboxes
  pos, dir,             \* firmware: curX and curY, heading
  crossed,              \* INTERSECTION
  doing, panDoing,      \* the command each task carries out
  orders                \* how many commands came from outside

controller == <<loc, head, path, hasPath, dest, hasDest, alias, searchLoc, target, visible, panning, turn, heard>>
plan       == <<path, hasPath, dest, hasDest, alias>>
firmware   == <<pos, dir, crossed, doing, panDoing>>
boxes      == <<moveBox, panBox, feedBox>>
vars       == <<controller, boxes, firmware, orders>>

\* What is in the mailboxes.
Msg(c)         == [cmd |-> c]
Coord(l, h)    == [cmd |-> "coord", at |-> l, facing |-> h]
Empty          == Msg("")
Moved(p, d, s) == [cmd |-> "moved", at |-> p, facing |-> d, status |-> s]
Panned         == Msg("pan")

IsIdle == 2         \* Controller.h:21-22
IsCrossing == 8

Put(box, m) == Append(IF Len(box) < BoxSize THEN box ELSE Tail(box), m)

Init ==
  /\ loc = <<0, 0>> /\ head = 0 /\ path = <<>> /\ hasPath = FALSE
  /\ dest = <<0, 0>> /\ hasDest = FALSE /\ alias = "none"
  /\ searchLoc = <<XMax \div 2, YMax \div 2>> /\ target = FALSE /\ visible = FALSE /\ panning = FALSE
  /\ turn = "update" /\ heard = FALSE
  /\ moveBox = <<>> /\ panBox = <<>> /\ feedBox = <<>>
  /\ pos = Start /\ dir = 0 /\ crossed = FALSE /\ doing = "none" /\ panDoing = FALSE
  /\ orders = 0

-----------------------------------------------------------------------------
(* Planning.                                                               *)

\* The paths genPath may return (PathSearch): shortest ones.  At the
\* destination itself the order of the heap decides, and from beside the grid
\* it does not return.
Ways(a, b) == IF a \in Cell /\ b \in Cell
              THEN {p \in [1..(IF a = b THEN 2 ELSE Dist(a, b)) -> Cell] : IsWalk(p, a, b)}
              ELSE {}
MayNotReturn(a, b) == a = b \/ a \notin Cell \/ b \notin Cell

\* SpiralSearch adds a spiral around l to the path: legs of growing length, each
\* without a place that the path has just reached.
Clamp(v, max) == IF v >= max THEN max - 1 ELSE IF v < 0 THEN 0 ELSE v

Legs       == 2 * ((XMax + YMax) \div 2)
LegSize(n) == (n + 1) \div 2
LegSign(n) == IF LegSize(n) % 2 = 1 <=> n % 2 = 0 /\ XMax < YMax THEN -1 ELSE 1

Leg(n, c) == [i \in 1..LegSize(n) |-> IF n % 2 = 1 THEN <<c[1] + (i - 1) * LegSign(n), c[2]>>
                                                   ELSE <<c[1], c[2] + (i - 1) * LegSign(n)>>]

Corner(n, c) == IF n % 2 = 1 THEN <<Clamp(c[1] + LegSize(n) * LegSign(n), XMax), c[2]>>
                             ELSE <<c[1], Clamp(c[2] + LegSize(n) * LegSign(n), YMax)>>

Lengthened(p, leg) ==
  LET longer[i \in 0..Len(leg)] ==
        IF i = 0 THEN p
        ELSE IF Last(longer[i - 1]) = leg[i] THEN longer[i - 1] ELSE Append(longer[i - 1], leg[i])
  IN longer[Len(leg)]

Spiral(p, l) ==
  LET drawn[n \in 0..Legs] ==
        IF n = 0 THEN [way |-> p, at |-> l]
        ELSE [way |-> Lengthened(drawn[n - 1].way, Leg(n, drawn[n - 1].at)), at |-> Corner(n, drawn[n - 1].at)]
  IN drawn[Legs].way

Destination == CASE alias = "loc" -> loc [] alias = "search" -> searchLoc [] OTHER -> dest

-----------------------------------------------------------------------------
(* Controller::newCmd.                                                     *)

\* The heading of the next place p from l: first along x, then along y.
Course(l, p) == IF l[1] < p[1] THEN 1 ELSE IF l[1] > p[1] THEN 3 ELSE IF l[2] < p[2] THEN 0 ELSE 2

Towards(h, c) == CASE c = h -> "forward" [] c = (h + 1) % 4 -> "right"
                   [] c = (h + 3) % 4 -> "left" [] OTHER -> "turnaround"

\* Mutant of More: the last step of a path is not noticed.
MoreAlways(p) == TRUE

\* updateLocation: whether there is a path after the step.
More(p) == Tail(p) # <<>>

\* newCmd for a robot at l with the heading h that is to follow p.
Follow(l, h, p) ==
  /\ path' = IF l # p[1] /\ h = Course(l, p[1]) THEN Tail(p) ELSE p
  /\ IF l = p[1]
     THEN /\ loc' = l /\ head' = h /\ hasPath' = TRUE
          /\ moveBox' = Put(moveBox, Empty) /\ UNCHANGED <<dest, hasDest, alias>>
     ELSE LET c == Course(l, p[1])
          IN /\ head' = c /\ moveBox' = Put(moveBox, Msg(Towards(h, c)))
             /\ IF h = c
                THEN /\ loc' = p[1] /\ hasPath' = More(p) /\ hasDest' = (hasDest /\ hasPath')
                     /\ IF alias = "loc" THEN dest' = l /\ alias' = "none" ELSE UNCHANGED <<dest, alias>>
                ELSE loc' = l /\ hasPath' = TRUE /\ UNCHANGED <<dest, hasDest, alias>>

\* genPath does not come back, and the semaphore stays taken.
Hang(l, h) == turn' = "planning" /\ loc' = l /\ head' = h /\ UNCHANGED <<path, hasPath, moveBox>>

\* SearchObject: a way to where the target should be, on from there in a spiral,
\* and the brick is told where it is.
Search(l, h) ==
  LET lost == searchLoc[2] = -1
      goal == IF lost THEN <<YMax \div 2, XMax \div 2>> ELSE searchLoc
  IN /\ hasDest' = TRUE /\ dest' = goal
     /\ alias' = IF lost THEN "none" ELSE IF l = goal THEN "loc" ELSE "search"
     /\ \/ \E p \in Ways(l, goal) : path' = Spiral(p, goal) /\ hasPath' = TRUE /\ turn' = "update"
             /\ loc' = l /\ head' = h /\ moveBox' = Put(Put(moveBox, Coord(l, h)), Empty)
        \/ MayNotReturn(l, goal) /\ Hang(l, h)

-----------------------------------------------------------------------------
(* RobotThread.                                                            *)

\* Mutant of Pan: whether the camera pans is not asked.
PanAnyway(c) == panning' = TRUE /\ panBox' = Put(panBox, Msg(c))

Pan(c) == IF panning THEN UNCHANGED <<panning, panBox>>
          ELSE panning' = TRUE /\ panBox' = Put(panBox, Msg(c))

\* Robot::Update: where the camera sees the target it is centred, where it does
\* not it is panned on.
Update ==
  /\ turn = "update" /\ turn' = "read"
  /\ visible' \in (IF target THEN BOOLEAN ELSE {FALSE})
  /\ \/ target /\ Pan("pan")
     \/ (target => visible') /\ UNCHANGED <<panning, panBox>>
  /\ UNCHANGED <<loc, head, plan, searchLoc, target, heard, moveBox, feedBox, firmware, orders>>

NothingRead == turn = "read" /\ feedBox = <<>> /\ turn' = "update"
  /\ UNCHANGED <<loc, head, plan, searchLoc, target, visible, panning, heard, boxes, firmware, orders>>

ReadPanned ==
  /\ turn = "read" /\ feedBox # <<>> /\ Head(feedBox).cmd = "pan"
  /\ panning' = FALSE /\ feedBox' = Tail(feedBox) /\ turn' = "update"
  /\ UNCHANGED <<loc, head, plan, searchLoc, target, visible, heard, moveBox, panBox, firmware, orders>>

\* What a report m leads to; loc, robotHeading_ and a destination that is the
\* object of loc are overwritten first.
Ready(m)   == m.status \in {IsIdle, IsCrossing, IsIdle + IsCrossing}
Arrived(m) == ~hasDest \/ alias = "loc" \/ m.at = Destination
OnPath(m)  == hasPath /\ Dist(m.at, path[1]) = 1

Ignored(m)  == ~Ready(m) \/ (~visible /\ Arrived(m) /\ ~target)
Stay(m)     == Ignored(m) /\ loc' = m.at /\ head' = m.facing /\ UNCHANGED <<plan, moveBox>>
Track(m)    == /\ Ready(m) /\ visible /\ moveBox' = Put(moveBox, Empty)
               /\ loc' = m.at /\ head' = m.facing /\ UNCHANGED plan
Continue(m) == /\ Ready(m) /\ ~visible
               /\ IF Arrived(m) THEN target /\ hasPath ELSE OnPath(m)
               /\ Follow(m.at, m.facing, path)
Replan(m)   == /\ Ready(m) /\ ~visible /\ ~Arrived(m) /\ ~OnPath(m)
               /\ \E p \in Ways(m.at, Destination) : Follow(m.at, m.facing, p)
Stuck(m)    == /\ Ready(m) /\ ~visible /\ ~Arrived(m) /\ ~OnPath(m)
               /\ MayNotReturn(m.at, Destination) /\ Hang(m.at, m.facing) /\ UNCHANGED <<dest, hasDest, alias>>
Begin(m)    == Ready(m) /\ ~visible /\ Arrived(m) /\ target /\ ~hasPath /\ Search(m.at, m.facing)

ReadMoved ==
  /\ turn = "read" /\ feedBox # <<>> /\ Head(feedBox).cmd = "moved"
  /\ feedBox' = Tail(feedBox) /\ heard' = TRUE
  /\ LET m == Head(feedBox)
     IN \/ (Stay(m) \/ Track(m) \/ Continue(m) \/ Replan(m)) /\ turn' = "update"
        \/ Stuck(m) \/ Begin(m)
  /\ UNCHANGED <<searchLoc, target, visible, panning, panBox, firmware, orders>>

\* Robot::ExecuteCommand, which needs the semaphore.
Execute(c) ==
  /\ turn # "planning" /\ orders < MaxOrders /\ orders' = orders + 1
  /\ CASE c = "target" -> /\ \E t \in Targets : searchLoc' = t
                          /\ target' = TRUE /\ UNCHANGED <<panning, panBox, moveBox>>
       [] c \in {"pan", "pid"} -> Pan(c) /\ UNCHANGED <<searchLoc, target, moveBox>>
       [] OTHER -> moveBox' = Put(moveBox, Msg(c)) /\ UNCHANGED <<searchLoc, target, panning, panBox>>
  /\ UNCHANGED <<loc, head, plan, visible, turn, heard, feedBox, firmware>>

-----------------------------------------------------------------------------
(* The firmware.                                                           *)

Report(p, d, idle, x) == Put(feedBox, Moved(p, d, (IF idle THEN IsIdle ELSE 0) + (IF x THEN IsCrossing ELSE 0)))

\* cmdMovement takes a command that makes the robot move, and says so.
TakeMove ==
  /\ doing = "none" /\ moveBox # <<>>
  /\ Head(moveBox).cmd \in {"forward", "left", "right", "turnaround", "calibrate"}
  /\ doing' = Head(moveBox).cmd /\ moveBox' = Tail(moveBox)
  /\ crossed' = (crossed /\ doing' # "forward")
  /\ feedBox' = Report(pos, dir, FALSE, crossed')
  /\ UNCHANGED <<controller, panBox, pos, dir, panDoing, orders>>

\* It takes one that does not; newCoordinates is believed.
TakeOther ==
  /\ doing = "none" /\ moveBox # <<>> /\ Head(moveBox).cmd \in {"coord", "other"}
  /\ moveBox' = Tail(moveBox)
  /\ IF Head(moveBox).cmd = "coord" THEN pos' = Head(moveBox).at /\ dir' = Head(moveBox).facing
     ELSE UNCHANGED <<pos, dir>>
  /\ feedBox' = Report(pos', dir', TRUE, crossed)
  /\ UNCHANGED <<controller, panBox, crossed, doing, panDoing, orders>>

TakeEmpty ==
  /\ doing = "none" /\ moveBox # <<>> /\ Head(moveBox) = Empty /\ moveBox' = Tail(moveBox)
  /\ UNCHANGED <<controller, panBox, feedBox, firmware, orders>>

Ahead(p, d) == CASE d = 0 -> <<p[1], p[2] + 1>> [] d = 1 -> <<p[1] + 1, p[2]>>
                 [] d = 2 -> <<p[1], p[2] - 1>> [] OTHER -> <<p[1] - 1, p[2]>>

\* Mutant of Finish: a turn is not counted before it is reported.
FinishSilent ==
  /\ doing # "none" /\ doing' = "none"
  /\ pos' = IF doing = "forward" THEN Ahead(pos, dir) ELSE pos
  /\ pos' \in Room
  /\ dir' = CASE doing = "right" -> (dir + 1) % 4 [] doing = "left" -> (dir + 3) % 4
              [] doing = "turnaround" -> (dir + 2) % 4 [] OTHER -> dir
  /\ crossed' = (crossed \/ doing = "forward")
  /\ feedBox' = Report(pos', dir, TRUE, crossed')
  /\ UNCHANGED <<controller, moveBox, panBox, panDoing, orders>>

\* The movement is done: lineFollow and intersection, the turns.
Finish ==
  /\ doing # "none" /\ doing' = "none"
  /\ pos' = IF doing = "forward" THEN Ahead(pos, dir) ELSE pos
  /\ pos' \in Room
  /\ dir' = CASE doing = "right" -> (dir + 1) % 4 [] doing = "left" -> (dir + 3) % 4
              [] doing = "turnaround" -> (dir + 2) % 4 [] OTHER -> dir
  /\ crossed' = (crossed \/ doing = "forward")
  /\ feedBox' = Report(pos', dir', TRUE, crossed')
  /\ UNCHANGED <<controller, moveBox, panBox, panDoing, orders>>

\* cmdPan answers to pan and to nothing else.
TakePan ==
  /\ ~panDoing /\ panBox # <<>> /\ panBox' = Tail(panBox)
  /\ panDoing' = (Head(panBox).cmd = "pan")
  /\ UNCHANGED <<controller, moveBox, feedBox, pos, dir, crossed, doing, orders>>

FinishPan ==
  /\ panDoing /\ panDoing' = FALSE /\ feedBox' = Put(feedBox, Panned)
  /\ UNCHANGED <<controller, moveBox, panBox, pos, dir, crossed, doing, orders>>

Firmware == TakeMove \/ TakeOther \/ TakeEmpty \/ Finish \/ TakePan \/ FinishPan
RobotThread == Update \/ NothingRead \/ ReadPanned \/ ReadMoved

Next == RobotThread \/ Firmware \/ \E c \in Orders : Execute(c)

Spec == Init /\ [][Next]_vars

-----------------------------------------------------------------------------
Reports == {i \in 1..Len(feedBox) : feedBox[i].cmd = "moved"}

TypeOK ==
  /\ loc \in Int \X Int /\ head \in Heading /\ path \in Seq(Int \X Int) /\ (hasPath => path # <<>>)
  /\ turn \in {"update", "read", "planning"} /\ alias \in {"none", "loc", "search"}
  /\ pos \in Int \X Int /\ dir \in Heading
  /\ Len(moveBox) <= BoxSize /\ Len(panBox) <= BoxSize /\ Len(feedBox) <= BoxSize

\* Once everything sent has been carried out and every report read, the
\* controller knows where the robot believes to be and how it stands, whatever
\* newCmd assumed ahead of the reports and whatever full mailboxes have lost
\* (Controller.cpp:605-657, robot.nxc:498-555).
SettledAgree ==
  (heard /\ moveBox = <<>> /\ doing = "none" /\ Reports = {}) => (loc = pos /\ head = dir)

\* The camera is never asked to pan while a pan is under way, and no answer is
\* left over for the next one: the pan is on its way, or being done, or answered,
\* and cameraPanning_ is set until the answer is read (Robot.cpp:198-205,
\* Controller.cpp:600-604).
Answers == {i \in 1..Len(feedBox) : feedBox[i].cmd = "pan"}

OnePan ==
  /\ Len(panBox) <= 1
  /\ panBox # <<>> => panning /\ ~panDoing /\ Answers = {}
  /\ panDoing => panning /\ Answers = {}
  /\ \A i, j \in Answers : panning /\ i = j

=============================================================================
