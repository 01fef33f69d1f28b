------------------------------- MODULE Roster -------------------------------
(***************************************************************************)
(* The threads of the robot controller and the robots they share: the      *)
(* console (main.cpp: addrobot, removerobot, connect, command), the        *)
(* ClientThread that carries out what the server sends, the UpdateThread   *)
(* that walks the robots, and a RobotThread for every robot.               *)
(* robotSemaphore_ guards robots_, updateSemaphore_ of a robot guards the  *)
(* robot.  What RobotThread does with a robot is in RobotDrive; here it    *)
(* may also never come back.  The server is connected to once, and         *)
(* Disconnect, with which the program ends, is not part of the model.      *)
(***************************************************************************)
EXTENDS Integers, Sequences, SequencesExt

CONSTANTS
  Robot,                \* the robots that can be added, each of them once
  None

ASSUME NoneAssumption == None \notin Robot

VARIABLES
  robots,               \* robots_
  made, freed,          \* robots created, and deleted
  running, nxt, cam,    \* running_, nxtConnected_ and camConnected_ of a robot
  thread,               \* where the RobotThread of a robot is
  roster,               \* who holds robotSemaphore_
  guard,                \* who holds updateSemaphore_ of a robot
  connected,            \* connected_
  console,              \* what the console does, and to which robot
  client,               \* what ClientThread does, and to which robot
  update, at            \* where UpdateThread is, and at which robot

robot == <<running, nxt, cam, thread>>
rosterVars  == <<robots, made, freed, robot, roster, guard, connected, console, client, update, at>>

Do(what, r) == [what |-> what, robot |-> r]
Idle == Do("idle", None)

RosterInit ==
  /\ robots = <<>> /\ made = {} /\ freed = {}
  /\ running = [r \in Robot |-> FALSE] /\ nxt = running /\ cam = running
  /\ thread = [r \in Robot |-> "none"]
  /\ roster = "free" /\ guard = [r \in Robot |-> "free"] /\ connected = FALSE
  /\ console = Idle /\ client = Do("off", None) /\ update = "idle" /\ at = 0

-----------------------------------------------------------------------------
(* RobotThread, Controller.cpp:578-664.                                    *)

Move(r, from, to) == thread[r] = from /\ thread' = [thread EXCEPT ![r] = to]
Elsewhere == UNCHANGED <<robots, made, freed, roster, connected, console, client, update, at>>

\* Robot::Connect: the brick, then the camera; each may fail.
ConnectNxt(r) == /\ Move(r, "connect", "camera") /\ \E b \in BOOLEAN : nxt' = [nxt EXCEPT ![r] = b]
                 /\ UNCHANGED <<running, cam, guard>>
ConnectCam(r) == /\ Move(r, "camera", "loop") /\ \E b \in BOOLEAN : cam' = [cam EXCEPT ![r] = b]
                 /\ UNCHANGED <<running, nxt, guard>>

\* The loop; without a brick there is nothing to be read.
Want(r)  == running[r] /\ nxt[r] /\ Move(r, "loop", "want") /\ UNCHANGED <<running, nxt, cam, guard>>
Enter(r) == /\ guard[r] = "free" /\ guard' = [guard EXCEPT ![r] = "robot"] /\ Move(r, "want", "in")
            /\ UNCHANGED <<running, nxt, cam>>
Leave(r) == guard' = [guard EXCEPT ![r] = "free"] /\ Move(r, "in", "loop") /\ UNCHANGED <<running, nxt, cam>>

\* genPath does not return (RobotDrive!Stuck).
Hang(r)  == Elsewhere /\ r \notin freed /\ Move(r, "in", "hung") /\ UNCHANGED <<running, nxt, cam, guard>>

\* Robot::Disconnect: the brick, then the camera.
LeaveLoop(r) == ~running[r] /\ Move(r, "loop", "leave") /\ UNCHANGED <<running, nxt, cam, guard>>
DropNxt(r)   == nxt' = [nxt EXCEPT ![r] = FALSE] /\ Move(r, "leave", "half") /\ UNCHANGED <<running, cam, guard>>
DropCam(r)   == cam' = [cam EXCEPT ![r] = FALSE] /\ Move(r, "half", "end") /\ UNCHANGED <<running, nxt, guard>>

\* The thread comes back to a robot that is no more: it is not followed.
Stray(r) == /\ r \in freed /\ thread[r] \notin {"none", "end", "lost", "hung"}
            /\ thread' = [thread EXCEPT ![r] = "lost"] /\ UNCHANGED <<running, nxt, cam, guard>>

RobotThread(r) ==
  /\ Elsewhere
  /\ \/ Stray(r)
     \/ /\ r \notin freed
        /\ \/ ConnectNxt(r) \/ ConnectCam(r) \/ Want(r) \/ Enter(r) \/ Leave(r)
           \/ LeaveLoop(r) \/ DropNxt(r) \/ DropCam(r)

-----------------------------------------------------------------------------
(* The console.                                                            *)

Still == UNCHANGED <<update, at>>

AddRobot(r) ==
  /\ console = Idle /\ r \notin made
  /\ made' = made \cup {r} /\ running' = [running EXCEPT ![r] = TRUE] /\ Move(r, "none", "connect")
  /\ console' = Do("push", r)
  /\ Still /\ UNCHANGED <<robots, freed, nxt, cam, roster, guard, connected, client>>

Push ==
  /\ console.what = "push" /\ roster = "free"
  /\ robots' = Append(robots, console.robot) /\ console' = Do("announce", console.robot)
  /\ Still /\ UNCHANGED <<made, freed, robot, roster, guard, connected, client>>

\* SendRobot reads the robot under the semaphore, when there is a server.
Announce ==
  /\ console.what = "announce" /\ (connected => roster = "free") /\ console' = Idle
  /\ Still /\ UNCHANGED <<robots, made, freed, robot, roster, guard, connected, client>>

\* Connect announces all robots, under the semaphore if there are any.
Connect ==
  /\ console = Idle /\ ~connected /\ client.what = "off"
  /\ robots # <<>> => roster = "free"
  /\ connected' = TRUE /\ client' = Idle
  /\ Still /\ UNCHANGED <<robots, made, freed, robot, roster, guard, console>>

RemoveRobot(r) ==
  /\ console = Idle /\ r \in made /\ r \notin freed /\ console' = Do("remove", r)
  /\ Still /\ UNCHANGED <<robots, made, freed, robot, roster, guard, connected, client>>

\* Mutant of Stop: running_ stays set.
StopNot(r) == UNCHANGED running

Stop(r) == running' = [running EXCEPT ![r] = FALSE]

\* Mutant of RemoveTake: the semaphore is released before the wait.
RemoveTakeFree ==
  /\ console.what = "remove" /\ roster = "free" /\ console' = Do("await", console.robot)
  /\ Stop(console.robot)
  /\ Still /\ UNCHANGED <<robots, made, freed, nxt, cam, thread, roster, guard, connected, client>>

RemoveTake ==
  /\ console.what = "remove" /\ roster = "free"
  /\ roster' = "console" /\ console' = Do("await", console.robot) /\ Stop(console.robot)
  /\ Still /\ UNCHANGED <<robots, made, freed, nxt, cam, thread, guard, connected, client>>

\* "wait for disconnection"
Gone(r) == ~(cam[r] /\ nxt[r])

Delete ==
  /\ console.what = "await" /\ Gone(console.robot)
  /\ freed' = freed \cup {console.robot} /\ console' = Do("erase", console.robot)
  /\ Still /\ UNCHANGED <<robots, made, robot, roster, guard, connected, client>>

\* Mutant of Erase: who has found its robot returns with the semaphore.
EraseKeeps ==
  /\ console.what = "erase" /\ console' = Idle
  /\ \E i \in DOMAIN robots : robots[i] = console.robot /\ robots' = RemoveAt(robots, i)
  /\ Still /\ UNCHANGED <<made, freed, robot, roster, guard, connected, client>>

Erase ==
  /\ console.what = "erase" /\ roster' = "free" /\ console' = Idle
  /\ \E i \in DOMAIN robots : robots[i] = console.robot /\ robots' = RemoveAt(robots, i)
  /\ Still /\ UNCHANGED <<made, freed, robot, guard, connected, client>>

-----------------------------------------------------------------------------
(* ExecuteCommand, from the console and from ClientThread: GetRobot does   *)
(* not ask for robotSemaphore_.                                            *)

Others == UNCHANGED <<robots, made, freed, robot, roster, connected, update, at>>

ConsoleCommand(r) ==
  /\ console = Idle /\ r \in ToSet(robots) \ freed /\ console' = Do("command", r)
  /\ Others /\ UNCHANGED <<guard, client>>

ConsoleExecute ==
  /\ console.what = "command" /\ (nxt[console.robot] => guard[console.robot] = "free") /\ console' = Idle
  /\ Others /\ UNCHANGED <<guard, client>>

ClientCommand(r) ==
  /\ client = Idle /\ connected /\ r \in ToSet(robots) \ freed /\ client' = Do("command", r)
  /\ Others /\ UNCHANGED <<guard, console>>

ClientExecute ==
  /\ client.what = "command" /\ client.robot \notin freed
  /\ (nxt[client.robot] => guard[client.robot] = "free") /\ client' = Idle
  /\ Others /\ UNCHANGED <<guard, console>>

\* The robot is deleted meanwhile: the thread is not followed.
ClientStray ==
  /\ client.what = "command" /\ client.robot \in freed /\ client' = Do("lost", None)
  /\ Others /\ UNCHANGED <<guard, console>>

-----------------------------------------------------------------------------
(* UpdateThread, Controller.cpp:472-576.                                   *)

Apart == UNCHANGED <<robots, made, freed, robot, connected, console, client>>

Due      == update = "idle" /\ connected /\ robots # <<>> /\ update' = "due" /\ Apart /\ UNCHANGED <<roster, guard, at>>
WalkTake == update = "due" /\ roster = "free" /\ roster' = "update" /\ update' = "walk" /\ at' = 1 /\ Apart /\ UNCHANGED guard

WalkEnter ==
  /\ update = "walk" /\ at <= Len(robots) /\ guard[robots[at]] = "free"
  /\ guard' = [guard EXCEPT ![robots[at]] = "update"] /\ update' = "in"
  /\ Apart /\ UNCHANGED <<roster, at>>

WalkLeave ==
  /\ update = "in" /\ guard' = [r \in Robot |-> IF guard[r] = "update" THEN "free" ELSE guard[r]]
  /\ update' = "walk" /\ at' = at + 1
  /\ Apart /\ UNCHANGED roster

WalkEnd ==
  /\ update = "walk" /\ at > Len(robots) /\ roster' = "free" /\ update' = "send" /\ at' = 0
  /\ Apart /\ UNCHANGED guard

\* The server is lost when the update cannot be sent.
Send ==
  /\ update = "send" /\ update' = "idle" /\ connected' \in {connected, FALSE}
  /\ UNCHANGED <<robots, made, freed, robot, roster, guard, console, client, at>>

-----------------------------------------------------------------------------
Console == Push \/ Announce \/ RemoveTake \/ Delete \/ Erase \/ ConsoleExecute
Client  == ClientExecute \/ ClientStray
Update  == WalkTake \/ WalkEnter \/ WalkLeave \/ WalkEnd \/ Send

RosterNext ==
  \/ \E r \in Robot : AddRobot(r) \/ RemoveRobot(r) \/ ConsoleCommand(r) \/ ClientCommand(r)
  \/ Connect \/ Console \/ Client \/ Due \/ Update
  \/ \E r \in Robot : RobotThread(r) \/ Hang(r)

\* Windows serves those who wait for a semaphore in turn, and runs every thread.
Fairness == SF_rosterVars(Console) /\ SF_rosterVars(Update) /\ \A r \in Robot : WF_rosterVars(RobotThread(r))

RosterSpec == RosterInit /\ [][RosterNext]_rosterVars /\ Fairness

-----------------------------------------------------------------------------
Walking == update \in {"walk", "in"}

RosterTypes ==
  /\ robots \in Seq(Robot) /\ freed \subseteq made /\ made \subseteq Robot
  /\ console \in [what : {"idle", "push", "announce", "remove", "await", "erase", "command"}, robot : Robot \cup {None}]
  /\ roster \in {"free", "console", "update"}

\* The strengthening of RosterStable that every step preserves: who holds
\* robotSemaphore_, and where a deleted robot may still be seen.
IInv ==
  /\ RosterTypes
  /\ roster = "update" <=> Walking
  /\ roster = "console" <=> console.what \in {"await", "erase"}
  /\ console.what = "push" => console.robot \in made \ freed /\ \A i \in DOMAIN robots : robots[i] # console.robot
  /\ console.what \in {"remove", "await"} => console.robot \in made
  /\ \A i, j \in DOMAIN robots : robots[i] = robots[j] => i = j
  /\ \A i \in DOMAIN robots : robots[i] \in made
  /\ \A i \in DOMAIN robots : robots[i] \in freed => console.what = "erase" /\ robots[i] = console.robot

\* While UpdateThread walks over robots_ nobody changes it, and no robot in it
\* is deleted: none during the walk and none before (RemoveRobot deletes before
\* it erases, Controller.cpp:375-376; the walk is 490-555).
RosterStable ==
  [][Walking => ToSet(robots) \cap freed = {} /\ robots' = robots /\ freed' = freed]_rosterVars

\* A robot that is removed leaves the program, unless a RobotThread never comes
\* back from genPath (then removing its robot, or any once UpdateThread waits
\* for it, never ends).
RemovalCompletes ==
  \A r \in Robot : console = Do("remove", r) ~>
    (r \in freed /\ r \notin ToSet(robots)) \/ \E q \in Robot : thread[q] = "hung"

\* Every update that is due is sent, however many robots come and go meanwhile,
\* unless a RobotThread never comes back.
UpdateSent == update = "due" ~> update = "idle" \/ \E q \in Robot : thread[q] = "hung"

=============================================================================
