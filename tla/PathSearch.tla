----------------------------- MODULE PathSearch -----------------------------
(***************************************************************************)
(* Controller::genPath: the search for the way from a robot to its         *)
(* destination, best path first.  Each turn of the loop is a step; the     *)
(* order of paths with equal metrics is left open.  The heap is a set: no  *)
(* path is pushed twice, each extends another that has left the heap.      *)
(***************************************************************************)
EXTENDS Grid

CONSTANT Starts      \* where the robot may be

ASSUME SearchAssumption == Starts \subseteq Cell

VARIABLES loc, dest,   \* the inputs
          pathHeap, best, pc

vars == <<loc, dest, pathHeap, best, pc>>

\* A robot that is where it should be is not sent here by RobotThread.
Init ==
  /\ loc \in Starts /\ dest \in Cell \ {loc}
  /\ pathHeap = {<<c>> : c \in ValidMoves(loc)} /\ best = <<>> /\ pc = "first"

-----------------------------------------------------------------------------
(* Path::calcMetric and the order of the heap.  The metric of a path is    *)
(* 1/Covered + Estimate; it is infinite for a path that is back at loc.    *)

Covered(p)  == Dist(loc, Last(p))
Estimate(p) == Dist(dest, Last(p)) + Len(p)

\* Mutant of Better: what has been covered is left out.
BetterLevel(p, q) == Covered(p) # 0 /\ (Covered(q) = 0 \/ Estimate(p) < Estimate(q))

Better(p, q) ==
  /\ Covered(p) # 0
  /\ \/ Covered(q) = 0
     \/ Covered(q) * (1 + Covered(p) * Estimate(p)) < Covered(p) * (1 + Covered(q) * Estimate(q))

Top(heap) == {p \in heap : \A q \in heap : ~Better(q, p)}

-----------------------------------------------------------------------------
Pop(heap) == \E p \in Top(heap) : best' = p /\ pathHeap' = heap \ {p}

First ==
  /\ pc = "first" /\ pathHeap # {}
  /\ Pop(pathHeap) /\ pc' = "extend" /\ UNCHANGED <<loc, dest>>

\* Mutant of Extensions: the path itself is pushed again in place of its extensions to one side.
ExtensionsOneSide(p) == {Append(p, c) : c \in {d \in ValidMoves(Last(p)) : d[1] >= Last(p)[1]}} \cup {p}

Extensions(p) == {Append(p, c) : c \in ValidMoves(Last(p))}

Extend ==
  /\ pc = "extend" /\ Last(best) # dest
  /\ Pop(pathHeap \cup Extensions(best)) /\ UNCHANGED <<loc, dest, pc>>

Return == pc = "extend" /\ Last(best) = dest /\ pc' = "done" /\ UNCHANGED <<loc, dest, pathHeap, best>>

Next == First \/ Extend \/ Return

Spec     == Init /\ [][Next]_vars
FairSpec == Spec /\ WF_vars(Next)

-----------------------------------------------------------------------------
TypeOK ==
  /\ loc \in Starts /\ dest \in Cell /\ pc \in {"first", "extend", "done"}
  /\ best \in Seq(Cell) /\ pathHeap \subseteq Seq(Cell)

\* The search never goes back to a path it had left aside: the path it takes
\* next is one place longer and one place nearer to the destination, since
\* 1/Covered decides between paths that promise the same (Path.cpp:61-77).  So
\* it takes no more turns than the way has places.
Advances ==
  [][pc = "extend" /\ pc' = "extend" =>
       Len(best') = Len(best) + 1 /\ Dist(dest, Last(best')) = Dist(dest, Last(best)) - 1]_vars

\* genPath returns a way along lines of the grid from the robot to its
\* destination, and none is shorter.
Shortest == pc = "done" => IsWalk(best, loc, dest) /\ Len(best) = Dist(loc, dest)

\* genPath, which runs under the semaphore of the robot, returns.
Returns == <>(pc = "done")

=============================================================================
