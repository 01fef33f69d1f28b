------------------------------ MODULE MCRoster ------------------------------
(* Two robots, each added and removed at most once: two RobotThreads, the   *)
(* console, ClientThread and UpdateThread.                                  *)
EXTENDS Roster

CONSTANTS r1, r2

TheRobots == {r1, r2}
=============================================================================
