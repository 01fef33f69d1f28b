-------------------------------- MODULE Grid --------------------------------
(***************************************************************************)
(* The floor of the robots: lines that cross at whole coordinates, GridLoc *)
(* as a pair, the moves Controller::getValidMoves allows.  A robot starts  *)
(* beside the grid, at <<0, -1>>.                                          *)
(***************************************************************************)
EXTENDS Integers, Sequences, SequencesExt

CONSTANTS XMax, YMax        \* the largest coordinates

ASSUME GridAssumption == XMax \in Nat \ {0} /\ YMax \in Nat \ {0}

Cell == (0..XMax) \X (0..YMax)

AbsOf(n) == IF n < 0 THEN -n ELSE n
Dist(a, b) == AbsOf(a[1] - b[1]) + AbsOf(a[2] - b[2])

\* A coordinate that is off the grid has no neighbour: from <<0, -1>> the only
\* moves are along the row -1.
Beside(v, max) == {w \in {v - 1, v + 1} : v \in 0..max /\ w \in 0..max}

\* Mutant of ValidMoves: diagonal moves.
ValidMovesDiagonal(c) == {<<x, y>> : x \in Beside(c[1], XMax), y \in Beside(c[2], YMax)}

\* illMoves takes nothing away: the code compares addresses, and every move is
\* a new object.
ValidMoves(c) == {<<x, c[2]>> : x \in Beside(c[1], XMax)} \cup {<<c[1], y>> : y \in Beside(c[2], YMax)}

\* p leads from a to b along lines, a itself left out.
IsWalk(p, a, b) ==
  /\ p # <<>> /\ Last(p) = b /\ p[1] \in ValidMoves(a)
  /\ \A i \in 1..(Len(p) - 1) : p[i + 1] \in ValidMoves(p[i])
=============================================================================
