-------------------------- MODULE ControllerProof --------------------------
(***************************************************************************)
(* Proofs about Controller.cpp of the robot controller.                    *)
(* genPath finds shortest ways, on every grid.  The invariant: the heap,   *)
(* or the path just taken from it, always holds a Straight path, one that  *)
(* can be made part of a shortest way; such a path is Better than every    *)
(* other, since its Estimate is at least 1 smaller and 1/Covered at most 1.*)
(* Of the straight paths the longest is the best, so that the search goes  *)
(* on with the path it has just extended.  That no way is shorter than the *)
(* distance is shown by induction over the way.                            *)
(* The robots it finds them for (Roster): for every set of robots,         *)
(* while UpdateThread walks over robots_ (it then holds robotSemaphore_)   *)
(* robots_ does not change and holds no deleted robot.  The invariant says *)
(* who holds the semaphore, and that a deleted robot is still in robots_   *)
(* only between delete and erase in RemoveRobot.                           *)
(***************************************************************************)
EXTENDS PathSearch, Roster, Induction

\* A path the search builds: along lines, inside the grid.
Way(p) ==
  /\ p \in Seq(Cell) /\ p # <<>> /\ p[1] \in ValidMoves(loc)
  /\ \A i \in 1..(Len(p) - 1) : p[i + 1] \in ValidMoves(p[i])
  /\ Covered(p) <= Len(p)

Straight(p) == Estimate(p) = Dist(loc, dest)

SearchInv ==
  /\ loc \in Cell /\ dest \in Cell /\ loc \in Starts /\ loc # dest
  /\ pc \in {"first", "extend", "done"}
  /\ \A p \in pathHeap : Way(p)
  /\ pc = "first" => best = <<>> /\ \E p \in pathHeap : Straight(p)
  /\ pc # "first" => Way(best) /\ Straight(best)
  /\ pc = "done" => Last(best) = dest
  /\ pc = "extend" => \A p \in pathHeap : Straight(p) => Len(p) <= Len(best)
  /\ pc = "first" => \A p \in pathHeap : Len(p) = 1

-----------------------------------------------------------------------------
(* Distances and moves.                                                    *)

LEMMA DistNat ==
  ASSUME NEW a \in Cell, NEW b \in Cell
  PROVE  Dist(a, b) \in Nat /\ Dist(a, b) = Dist(b, a) /\ (Dist(a, b) = 0 <=> a = b)
BY GridAssumption DEF Cell, Dist, AbsOf

LEMMA Triangle ==
  ASSUME NEW a \in Cell, NEW b \in Cell, NEW c \in Cell
  PROVE  Dist(a, c) <= Dist(a, b) + Dist(b, c)
BY GridAssumption DEF Cell, Dist, AbsOf

\* A move leads to a neighbour on the grid.
LEMMA MoveIsStep ==
  ASSUME NEW a \in Cell, NEW c \in ValidMoves(a)
  PROVE  c \in Cell /\ Dist(a, c) = 1
<1>1. CASE \E x \in Beside(a[1], XMax) : c = <<x, a[2]>>
  BY <1>1, GridAssumption DEF Cell, Dist, AbsOf, Beside
<1>2. CASE \E y \in Beside(a[2], YMax) : c = <<a[1], y>>
  BY <1>2, GridAssumption DEF Cell, Dist, AbsOf, Beside
<1> QED BY <1>1, <1>2 DEF ValidMoves

\* Some move leads nearer to every other cell.
LEMMA NearerMove ==
  ASSUME NEW a \in Cell, NEW b \in Cell, a # b
  PROVE  \E c \in ValidMoves(a) : Dist(b, c) + 1 = Dist(b, a)
<1> DEFINE x == IF a[1] < b[1] THEN a[1] + 1 ELSE a[1] - 1
           y == IF a[2] < b[2] THEN a[2] + 1 ELSE a[2] - 1
<1>1. a \in Int \X Int /\ b \in Int \X Int BY GridAssumption DEF Cell
<1>2. CASE a[1] # b[1]
  <2>1. x \in Beside(a[1], XMax) BY <1>1, <1>2, GridAssumption DEF Cell, Beside
  <2>2. <<x, a[2]>> \in ValidMoves(a) BY <2>1 DEF ValidMoves
  <2>3. Dist(b, <<x, a[2]>>) + 1 = Dist(b, a) BY <1>1, <1>2 DEF Dist, AbsOf
  <2> QED BY <2>2, <2>3
<1>3. CASE a[1] = b[1]
  <2>0. a[2] # b[2] BY <1>3 DEF Cell
  <2>1. y \in Beside(a[2], YMax) BY <1>1, <2>0, GridAssumption DEF Cell, Beside
  <2>2. <<a[1], y>> \in ValidMoves(a) BY <2>1 DEF ValidMoves
  <2>3. Dist(b, <<a[1], y>>) + 1 = Dist(b, a) BY <1>1, <1>3, <2>0 DEF Dist, AbsOf
  <2> QED BY <2>2, <2>3
<1> QED BY <1>2, <1>3

-----------------------------------------------------------------------------
(* Paths.                                                                  *)

LEMMA LastOfWay ==
  ASSUME loc \in Cell, NEW p, Way(p)
  PROVE  Last(p) \in Cell /\ Len(p) \in Nat \ {0}
BY DEF Way, Last

LEMMA ExtendWay ==
  ASSUME loc \in Cell, NEW p, Way(p), NEW c \in ValidMoves(Last(p))
  PROVE  /\ Way(Append(p, c)) /\ Last(Append(p, c)) = c /\ Len(Append(p, c)) = Len(p) + 1
<1> DEFINE q == Append(p, c)
<1>0. p \in Seq(Cell) /\ p # <<>> BY DEF Way
<1>1. Last(p) \in Cell /\ Len(p) \in Nat \ {0} BY LastOfWay
<1>2. c \in Cell /\ Dist(Last(p), c) = 1 BY <1>1, MoveIsStep
<1>3. q \in Seq(Cell) /\ Len(q) = Len(p) + 1 /\ q[Len(p) + 1] = c BY <1>0, <1>2
<1>4. \A i \in 1..Len(p) : q[i] = p[i] BY <1>0
<1>5. Last(q) = c /\ q # <<>> BY <1>1, <1>3 DEF Last
<1>6. q[1] \in ValidMoves(loc) BY <1>1, <1>4 DEF Way
<1>7. ASSUME NEW i \in 1..(Len(q) - 1) PROVE q[i + 1] \in ValidMoves(q[i])
  <2>1. CASE i < Len(p) BY <2>1, <1>1, <1>3, <1>4 DEF Way
  <2>2. CASE i = Len(p) BY <2>2, <1>1, <1>3, <1>4 DEF Last
  <2> QED BY <2>1, <2>2, <1>1, <1>3
<1>8. Covered(q) <= Len(q)
  <2>1. Dist(loc, c) <= Dist(loc, Last(p)) + Dist(Last(p), c) BY <1>1, <1>2, Triangle
  <2>2. Dist(loc, Last(p)) <= Len(p) BY DEF Way, Covered
  <2>3. Dist(loc, c) \in Nat /\ Dist(loc, Last(p)) \in Nat BY <1>1, <1>2, DistNat
  <2> QED BY <1>1, <1>2, <1>3, <1>5, <2>1, <2>2, <2>3 DEF Covered
<1> HIDE DEF q
<1>9. Way(q) BY <1>3, <1>5, <1>6, <1>7, <1>8 DEF Way
<1> QED BY <1>3, <1>5, <1>9 DEF q

\* What a path is still short of: never less than the way there is.
LEMMA EstimateBound ==
  ASSUME loc \in Cell, dest \in Cell, NEW p, Way(p)
  PROVE  Covered(p) \in Nat /\ Estimate(p) \in Nat /\ Estimate(p) >= Dist(loc, dest)
<1>1. Last(p) \in Cell /\ Len(p) \in Nat \ {0} BY LastOfWay
<1>2. Dist(loc, dest) <= Dist(loc, Last(p)) + Dist(Last(p), dest) BY <1>1, Triangle
<1>3. Dist(Last(p), dest) = Dist(dest, Last(p)) /\ Dist(dest, Last(p)) \in Nat
      /\ Dist(loc, Last(p)) \in Nat /\ Dist(loc, dest) \in Nat BY <1>1, DistNat
<1>4. Dist(loc, Last(p)) <= Len(p) BY DEF Way, Covered
<1> QED BY <1>1, <1>2, <1>3, <1>4 DEF Covered, Estimate

LEMMA StraightCovers ==
  ASSUME loc \in Cell, dest \in Cell, NEW p, Way(p), Straight(p)
  PROVE  Covered(p) # 0
<1>1. Last(p) \in Cell /\ Len(p) \in Nat \ {0} BY LastOfWay
<1>2. Dist(loc, dest) <= Dist(loc, Last(p)) + Dist(Last(p), dest) BY <1>1, Triangle
<1>3. Dist(Last(p), dest) = Dist(dest, Last(p)) /\ Dist(dest, Last(p)) \in Nat
      /\ Dist(loc, Last(p)) \in Nat BY <1>1, DistNat
<1> QED BY <1>1, <1>2, <1>3 DEF Covered, Estimate, Straight

-----------------------------------------------------------------------------
(* The order of the heap.                                                  *)

LEMMA SmallerEstimateWins ==
  ASSUME NEW c \in Nat \ {0}, NEW d \in Nat \ {0}, NEW e \in Nat, NEW f \in Nat, e < f
  PROVE  d * (1 + c * e) < c * (1 + d * f)
<1>1. c * d \in Nat /\ c * d >= d
  <2>1. c * d = (c - 1) * d + d BY SMT
  <2>2. (c - 1) * d >= 0 BY SMT
  <2> QED BY <2>1, <2>2
<1>2. d * (1 + c * e) = d + (c * d) * e BY SMT
<1>3. c * (1 + d * f) = c + (c * d) * f BY SMT
<1>4. (c * d) * f >= (c * d) * e + c * d
  <2> DEFINE m == c * d
  <2>1. m \in Nat BY <1>1
  <2> HIDE DEF m
  <2>2. m * f = m * e + m + m * (f - e - 1) BY <2>1, SMT
  <2>3. m * (f - e - 1) >= 0 BY <2>1, SMT
  <2>4. m * e \in Nat /\ m * f \in Nat BY <2>1, SMT
  <2>5. m * f >= m * e + m BY <2>1, <2>2, <2>3, <2>4
  <2> QED BY <2>5 DEF m
<1>5. (c * d) * e \in Nat /\ (c * d) * f \in Nat BY <1>1, SMT
<1>6. PICK m, u, v : m = c * d /\ u = (c * d) * e /\ v = (c * d) * f OBVIOUS
<1>7. m \in Nat /\ m >= d /\ u \in Nat /\ v \in Nat /\ v >= u + m BY <1>1, <1>4, <1>5, <1>6
<1>8. d + u < c + v BY <1>7
<1> QED BY <1>2, <1>3, <1>6, <1>8

\* The best of a heap that holds a straight path is straight.
LEMMA TopIsStraight ==
  ASSUME loc \in Cell, dest \in Cell, NEW heap, \A p \in heap : Way(p),
         NEW s \in heap, Straight(s), NEW q \in Top(heap)
  PROVE  Straight(q)
<1>1. q \in heap /\ ~Better(s, q) BY DEF Top
<1>2. Way(s) /\ Way(q) BY <1>1
<1>3. Covered(s) \in Nat /\ Covered(q) \in Nat /\ Estimate(s) \in Nat /\ Estimate(q) \in Nat
      /\ Estimate(q) >= Dist(loc, dest) BY <1>2, EstimateBound
<1>4. Covered(s) # 0 BY <1>2, StraightCovers
<1>5. Covered(q) # 0 BY <1>1, <1>4 DEF Better
<1>6. ~(Estimate(s) < Estimate(q))
  <2> SUFFICES ASSUME Estimate(s) < Estimate(q) PROVE FALSE OBVIOUS
  <2>1. Covered(q) * (1 + Covered(s) * Estimate(s)) < Covered(s) * (1 + Covered(q) * Estimate(q))
    BY <1>3, <1>4, <1>5, SmallerEstimateWins
  <2> QED BY <1>1, <1>4, <2>1 DEF Better
<1> QED BY <1>3, <1>6 DEF Straight

\* A straight path has covered as much as it has places.
LEMMA StraightLength ==
  ASSUME loc \in Cell, dest \in Cell, NEW p, Way(p), Straight(p)
  PROVE  Covered(p) = Len(p) /\ Dist(dest, Last(p)) + Len(p) = Dist(loc, dest)
<1>1. Last(p) \in Cell /\ Len(p) \in Nat \ {0} BY LastOfWay
<1>2. Dist(loc, dest) <= Dist(loc, Last(p)) + Dist(Last(p), dest) BY <1>1, Triangle
<1>3. Dist(Last(p), dest) = Dist(dest, Last(p)) /\ Dist(dest, Last(p)) \in Nat
      /\ Dist(loc, Last(p)) \in Nat BY <1>1, DistNat
<1>4. Dist(loc, Last(p)) <= Len(p) BY DEF Way, Covered
<1> QED BY <1>1, <1>2, <1>3, <1>4 DEF Covered, Estimate, Straight

LEMMA MoreCoveredWins ==
  ASSUME NEW c \in Nat, NEW d \in Nat, NEW e \in Nat, d < c
  PROVE  d * (1 + c * e) < c * (1 + d * e)
<1>1. d * (1 + c * e) = d + (c * d) * e BY SMT
<1>2. c * (1 + d * e) = c + (c * d) * e BY SMT
<1>3. PICK u : u = (c * d) * e OBVIOUS
<1>4. u \in Nat
  <2>1. c * d \in Nat BY SMT
  <2>2. PICK m \in Nat : m = c * d BY <2>1
  <2>3. m * e \in Nat BY SMT
  <2> QED BY <1>3, <2>2, <2>3
<1>5. d + u < c + u BY <1>4
<1> QED BY <1>1, <1>2, <1>3, <1>5

\* A straight path that is as long as any is among the best of a heap.
LEMMA LongestIsTop ==
  ASSUME loc \in Cell, dest \in Cell, NEW heap, \A p \in heap : Way(p),
         NEW s \in heap, Straight(s), \A p \in heap : Straight(p) => Len(p) <= Len(s)
  PROVE  s \in Top(heap)
<1>1. Covered(s) \in Nat \ {0} /\ Estimate(s) \in Nat /\ Covered(s) = Len(s) /\ Estimate(s) = Dist(loc, dest)
  BY EstimateBound, StraightCovers, StraightLength DEF Straight
<1>2. ASSUME NEW p \in heap, Better(p, s) PROVE FALSE
  <2>1. Covered(p) \in Nat \ {0} /\ Estimate(p) \in Nat /\ Estimate(p) >= Estimate(s)
    BY <1>1, <1>2, EstimateBound DEF Better
  <2>2. Covered(s) * (1 + Covered(p) * Estimate(p)) < Covered(p) * (1 + Covered(s) * Estimate(s))
    BY <1>1, <1>2 DEF Better
  <2>3. PICK c \in Nat \ {0}, d \in Nat \ {0}, e \in Nat, f \in Nat :
          c = Covered(s) /\ d = Covered(p) /\ e = Estimate(s) /\ f = Estimate(p)
    BY <1>1, <2>1
  <2>4. c * (1 + d * f) \in Int /\ d * (1 + c * e) \in Int /\ c * (1 + d * f) < d * (1 + c * e)
    <3>1. d * f \in Int /\ c * e \in Int
      OBVIOUS
    <3>2. PICK u \in Int, v \in Int : u = 1 + d * f /\ v = 1 + c * e
      BY <3>1
    <3>3. c * u \in Int /\ d * v \in Int
      OBVIOUS
    <3> QED BY <2>2, <2>3, <3>2, <3>3
  <2>5. CASE e < f
    BY <2>4, <2>5, SmallerEstimateWins
  <2>6. CASE e = f
    <3>1. Straight(p) /\ Covered(p) = Len(p) /\ Len(p) <= Len(s)
      BY <1>1, <2>3, <2>6, StraightLength DEF Straight
    <3>2. d <= c
      BY <1>1, <2>3, <3>1
    <3>3. CASE d = c
      BY <2>4, <2>6, <3>3
    <3>4. CASE d < c
      BY <2>4, <2>6, <3>4, MoreCoveredWins
    <3> QED BY <3>2, <3>3, <3>4
  <2> QED BY <1>1, <2>1, <2>3, <2>5, <2>6
<1> QED BY <1>2 DEF Top

\* No straight path is longer than the best of a heap.
LEMMA TopIsLongest ==
  ASSUME loc \in Cell, dest \in Cell, NEW heap, \A p \in heap : Way(p),
         NEW s \in heap, Straight(s), NEW q \in Top(heap)
  PROVE  Len(s) <= Len(q)
<1>1. q \in heap /\ ~Better(s, q) BY DEF Top
<1>2. Way(s) /\ Way(q) /\ Straight(q) BY <1>1, TopIsStraight
<1>3. Covered(s) = Len(s) /\ Covered(q) = Len(q) BY <1>2, StraightLength
<1>4. Covered(s) \in Nat /\ Covered(q) \in Nat /\ Estimate(s) \in Nat /\ Estimate(s) = Estimate(q)
  BY <1>2, EstimateBound DEF Straight
<1>5. Covered(s) # 0 BY <1>2, StraightCovers
<1>6. ~(Covered(q) < Covered(s))
  <2> SUFFICES ASSUME Covered(q) < Covered(s) PROVE FALSE OBVIOUS
  <2>1. Covered(q) * (1 + Covered(s) * Estimate(s)) < Covered(s) * (1 + Covered(q) * Estimate(s))
    BY <1>4, MoreCoveredWins
  <2> QED BY <1>1, <1>4, <1>5, <2>1 DEF Better
<1> QED BY <1>3, <1>4, <1>6
-----------------------------------------------------------------------------
(* The invariant.                                                          *)

\* A move away from loc is a path of its own.
LEMMA FirstMove ==
  ASSUME loc \in Cell, dest \in Cell, NEW c \in ValidMoves(loc)
  PROVE  Way(<<c>>) /\ Estimate(<<c>>) = Dist(dest, c) + 1 /\ Len(<<c>>) = 1
<1>1. c \in Cell /\ Dist(loc, c) = 1 BY MoveIsStep
<1>2. Last(<<c>>) = c /\ Len(<<c>>) = 1 BY DEF Last
<1>3. <<c>> \in Seq(Cell) /\ <<c>> # <<>> /\ <<c>>[1] = c BY <1>1
<1>4. Covered(<<c>>) <= Len(<<c>>) BY <1>1, <1>2 DEF Covered
<1>5. 1..(Len(<<c>>) - 1) = {} BY <1>2
<1>6. Way(<<c>>) BY <1>3, <1>4, <1>5 DEF Way
<1> QED BY <1>2, <1>6 DEF Estimate

LEMMA SearchInit == Init => SearchInv
<1> SUFFICES ASSUME Init PROVE SearchInv OBVIOUS
<1>1. loc \in Cell /\ dest \in Cell /\ loc # dest /\ loc \in Starts
  BY SearchAssumption DEF Init
<1>2. \A p \in pathHeap : Way(p) /\ Len(p) = 1 BY <1>1, FirstMove DEF Init
<1>3. PICK c \in ValidMoves(loc) : Dist(dest, c) + 1 = Dist(dest, loc) BY <1>1, NearerMove
<1>4. Straight(<<c>>)
  <2>1. Estimate(<<c>>) = Dist(dest, c) + 1 BY <1>1, FirstMove
  <2>2. Dist(dest, loc) = Dist(loc, dest) BY <1>1, DistNat
  <2> QED BY <1>3, <2>1, <2>2 DEF Straight
<1>5. <<c>> \in pathHeap BY DEF Init
<1> QED BY <1>1, <1>2, <1>4, <1>5 DEF Init, SearchInv

\* What is taken from a heap that holds a straight path.
LEMMA PopKeeps ==
  ASSUME loc \in Cell, dest \in Cell, NEW heap, \A p \in heap : Way(p),
         \E s \in heap : Straight(s), Pop(heap)
  PROVE  Way(best') /\ Straight(best') /\ \A p \in pathHeap' : Way(p)
<1>1. PICK q \in Top(heap) : best' = q /\ pathHeap' = heap \ {q} BY DEF Pop
<1>2. PICK s \in heap : Straight(s) OBVIOUS
<1>3. Straight(q) BY <1>2, TopIsStraight
<1>4. q \in heap BY DEF Top
<1> QED BY <1>1, <1>3, <1>4

\* It is as long as the longest straight path of that heap.
LEMMA PopAdvances ==
  ASSUME loc \in Cell, dest \in Cell, NEW heap, \A p \in heap : Way(p), Pop(heap),
         NEW n \in Nat, \A p \in heap : Straight(p) => Len(p) <= n,
         NEW s \in heap, Straight(s), Len(s) = n
  PROVE  Len(best') = n /\ \A p \in pathHeap' : Straight(p) => Len(p) <= Len(best')
<1>1. PICK q \in Top(heap) : best' = q /\ pathHeap' = heap \ {q} BY DEF Pop
<1>2. q \in heap /\ Straight(q) BY <1>1, TopIsStraight DEF Top
<1>3. Len(q) \in Nat BY <1>2 DEF Way
<1>4. n <= Len(q) BY TopIsLongest
<1>5. Len(q) = n BY <1>2, <1>3, <1>4
<1> QED BY <1>1, <1>5

\* The straight path taken last has a straight extension, and that is the
\* longest straight path.
LEMMA ExtendKeeps ==
  ASSUME SearchInv, pc = "extend", Last(best) # dest
  PROVE  /\ \A p \in pathHeap \cup Extensions(best) : Way(p)
         /\ \A p \in pathHeap \cup Extensions(best) : Straight(p) => Len(p) <= Len(best) + 1
         /\ \E s \in pathHeap \cup Extensions(best) : Straight(s) /\ Len(s) = Len(best) + 1
<1>0. loc \in Cell /\ dest \in Cell /\ Way(best) /\ Straight(best) BY DEF SearchInv
<1>1. Last(best) \in Cell /\ Len(best) \in Nat \ {0} BY <1>0, LastOfWay
<1>2. \A p \in pathHeap \cup Extensions(best) : Way(p) BY <1>0, ExtendWay DEF SearchInv, Extensions
<1>3. PICK c \in ValidMoves(Last(best)) : Dist(dest, c) + 1 = Dist(dest, Last(best))
  BY <1>0, <1>1, NearerMove
<1>4. Straight(Append(best, c)) /\ Len(Append(best, c)) = Len(best) + 1
  <2>1. Last(Append(best, c)) = c /\ Len(Append(best, c)) = Len(best) + 1 BY <1>0, ExtendWay
  <2>2. c \in Cell BY <1>1, MoveIsStep
  <2>3. Dist(dest, c) \in Nat /\ Dist(dest, Last(best)) \in Nat BY <1>0, <1>1, <2>2, DistNat
  <2> QED BY <1>0, <1>1, <1>3, <2>1, <2>3 DEF Straight, Estimate
<1>5. \A p \in Extensions(best) : Len(p) = Len(best) + 1
  BY <1>0, ExtendWay DEF Extensions
<1>6. \A p \in pathHeap : Straight(p) => Len(p) <= Len(best) + 1
  <2>1. \A p \in pathHeap : Len(p) \in Nat BY DEF SearchInv, Way
  <2> QED BY <1>1, <2>1 DEF SearchInv
<1>7. Append(best, c) \in Extensions(best)
  BY DEF Extensions
<1>8. \A p \in Extensions(best) : Len(p) <= Len(best) + 1
  BY <1>1, <1>5
<1> QED BY <1>2, <1>4, <1>6, <1>7, <1>8

\* A turn of the loop lengthens the path by one.
LEMMA ExtendAdvances ==
  ASSUME SearchInv, Extend
  PROVE  Len(best') = Len(best) + 1 /\ \A p \in pathHeap' : Straight(p) => Len(p) <= Len(best')
<1> DEFINE heap == pathHeap \cup Extensions(best)
<1>0. loc \in Cell /\ dest \in Cell /\ Len(best) + 1 \in Nat
  BY LastOfWay DEF SearchInv, Extend
<1>1. pc = "extend" /\ Last(best) # dest /\ Pop(heap) BY DEF Extend
<1>2. /\ \A p \in heap : Way(p) /\ (Straight(p) => Len(p) <= Len(best) + 1)
      /\ \E s \in heap : Straight(s) /\ Len(s) = Len(best) + 1
  BY <1>1, ExtendKeeps
<1>3. PICK s \in heap : Straight(s) /\ Len(s) = Len(best) + 1 BY <1>2
<1>4. PICK n \in Nat : n = Len(best) + 1 BY <1>0
<1>5. PICK h : h = heap OBVIOUS
<1> HIDE DEF heap
<1>6. /\ \A p \in h : Way(p)
      /\ \A p \in h : Straight(p) => Len(p) <= n
      /\ s \in h /\ Len(s) = n /\ Pop(h)
  BY <1>1, <1>2, <1>3, <1>4, <1>5
<1> QED BY <1>0, <1>3, <1>4, <1>6, PopAdvances

LEMMA SearchStep == SearchInv /\ [Next]_vars => SearchInv'
<1> SUFFICES ASSUME SearchInv, [Next]_vars PROVE SearchInv' OBVIOUS
<1>0. loc \in Cell /\ dest \in Cell BY DEF SearchInv
<1>1. CASE First
  <2>1. UNCHANGED <<loc, dest>> /\ pc' = "extend" /\ Pop(pathHeap) BY <1>1 DEF First
  <2>2. \A p \in pathHeap : Way(p) BY DEF SearchInv
  <2>3. \E s \in pathHeap : Straight(s) BY <1>1 DEF SearchInv, First
  <2>4. Way(best') /\ Straight(best') /\ \A p \in pathHeap' : Way(p)
    BY <1>0, <2>1, <2>2, <2>3, PopKeeps
  <2>5. \A p \in pathHeap : Len(p) = 1 BY <1>1 DEF SearchInv, First
  <2>6. \A p \in pathHeap' : Straight(p) => Len(p) <= Len(best')
    <3>1. PICK s \in pathHeap : Straight(s) BY <2>3
    <3>2. \A p \in pathHeap : Straight(p) => Len(p) <= 1
      <4>1. 1 <= 1 OBVIOUS
      <4>2. ASSUME NEW p \in pathHeap PROVE Len(p) <= 1
        <5>1. Len(p) = 1 BY <2>5
        <5> QED BY <4>1, <5>1
      <4> QED BY <4>2
    <3>3. Len(s) = 1 /\ 1 \in Nat BY <2>5
    <3> QED BY <1>0, <2>1, <2>2, <3>1, <3>2, <3>3, PopAdvances
  <2> QED BY <2>1, <2>4, <2>6 DEF SearchInv, Way, Straight, Covered, Estimate
<1>2. CASE Extend
  <2>1. UNCHANGED <<loc, dest, pc>> /\ pc = "extend" /\ Pop(pathHeap \cup Extensions(best)) BY <1>2 DEF Extend
  <2>2. /\ \A p \in pathHeap \cup Extensions(best) : Way(p)
        /\ \E s \in pathHeap \cup Extensions(best) : Straight(s) BY <1>2, ExtendKeeps DEF Extend
  <2>3. Way(best') /\ Straight(best') /\ \A p \in pathHeap' : Way(p) BY <1>0, <2>1, <2>2, PopKeeps
  <2>4. \A p \in pathHeap' : Straight(p) => Len(p) <= Len(best') BY <1>2, ExtendAdvances
  <2> QED BY <2>1, <2>3, <2>4 DEF SearchInv, Way, Straight, Covered, Estimate
<1>3. CASE Return
  BY <1>3 DEF Return, SearchInv, Way, Straight, Covered, Estimate
<1>4. CASE UNCHANGED vars
  BY <1>4 DEF vars, SearchInv, Way, Straight, Covered, Estimate
<1> QED BY <1>1, <1>2, <1>3, <1>4 DEF Next

\* The strengthening that the theorems below follow from.
THEOREM SearchInductive == Spec => []SearchInv
<1>1. Init => SearchInv BY SearchInit
<1>2. SearchInv /\ [Next]_vars => SearchInv' BY SearchStep
<1> QED BY <1>1, <1>2, PTL DEF Spec

\* The types of genPath's variables (Controller.cpp:666-670).
THEOREM TypeCorrect == Spec => []TypeOK
<1>1. SearchInv => TypeOK
  <2> SUFFICES ASSUME SearchInv PROVE TypeOK OBVIOUS
  <2>1. pc = "first" => best \in Seq(Cell) BY DEF SearchInv
  <2>2. pc # "first" => best \in Seq(Cell) BY DEF SearchInv, Way
  <2> QED BY <2>1, <2>2 DEF SearchInv, Way, TypeOK
<1> QED BY <1>1, SearchInductive, PTL

\* genPath goes on with the path it has just extended, one place nearer to the
\* destination, and never back to one left aside (Controller.cpp:701-726).
THEOREM SearchAdvances == Spec => Advances
<1>1. ASSUME SearchInv, SearchInv', [Next]_vars, pc = "extend", pc' = "extend", ~UNCHANGED vars
      PROVE  Len(best') = Len(best) + 1 /\ Dist(dest, Last(best')) = Dist(dest, Last(best)) - 1
  <2>1. Extend
    BY <1>1 DEF Next, First, Return
  <2>2. Len(best') = Len(best) + 1 /\ UNCHANGED <<loc, dest>>
    BY <1>1, <2>1, ExtendAdvances DEF Extend
  <2>3. loc \in Cell /\ dest \in Cell /\ Way(best) /\ Straight(best) /\ Way(best') /\ Straight(best')
    BY <1>1, <2>2 DEF SearchInv, Way, Straight, Covered, Estimate
  <2>4. PICK q : q = best'
    OBVIOUS
  <2>5. Dist(dest, Last(best)) + Len(best) = Dist(loc, dest) /\ Dist(dest, Last(q)) + Len(q) = Dist(loc, dest)
    BY <2>3, <2>4, StraightLength
  <2>6. Dist(dest, Last(best)) \in Nat /\ Dist(dest, Last(q)) \in Nat /\ Len(best) \in Nat
    BY <2>3, <2>4, LastOfWay, DistNat
  <2> QED BY <2>2, <2>4, <2>5, <2>6
<1>2. SearchInv /\ SearchInv' /\ [Next]_vars
      => [pc = "extend" /\ pc' = "extend" =>
            Len(best') = Len(best) + 1 /\ Dist(dest, Last(best')) = Dist(dest, Last(best)) - 1]_vars
  BY <1>1
<1> QED BY <1>2, SearchInductive, PTL DEF Spec, Advances

\* At each turn of genPath the heap holds a path to take, so that the returns for
\* an empty heap are never reached (Controller.cpp:716-723 and 728-729).  With
\* SearchAdvances, which bounds the turns, this is why it returns a way.
THEOREM SearchGoesOn ==
  Spec => [](/\ pc = "first" => Top(pathHeap) # {}
             /\ pc = "extend" /\ Last(best) # dest => Top(pathHeap \cup Extensions(best)) # {})
<1>1. ASSUME SearchInv, pc = "first" PROVE Top(pathHeap) # {}
  <2>1. loc \in Cell /\ dest \in Cell /\ \A p \in pathHeap : Way(p)
    BY <1>1 DEF SearchInv
  <2>2. PICK s \in pathHeap : Straight(s)
    BY <1>1 DEF SearchInv
  <2>3. ASSUME NEW p \in pathHeap PROVE Len(p) <= Len(s)
    <3>1. Len(p) = 1 /\ Len(s) = 1 /\ 1 <= 1
      BY <1>1 DEF SearchInv
    <3> QED BY <3>1
  <2> QED BY <2>1, <2>2, <2>3, LongestIsTop
<1>2. ASSUME SearchInv, pc = "extend", Last(best) # dest PROVE Top(pathHeap \cup Extensions(best)) # {}
  <2>1. loc \in Cell /\ dest \in Cell
    BY <1>2 DEF SearchInv
  <2>2. PICK h : h = pathHeap \cup Extensions(best)
    OBVIOUS
  <2>3. /\ \A p \in h : Way(p) /\ (Straight(p) => Len(p) <= Len(best) + 1)
        /\ \E s \in h : Straight(s) /\ Len(s) = Len(best) + 1
    BY <1>2, <2>2, ExtendKeeps
  <2>4. PICK s \in h : Straight(s) /\ Len(s) = Len(best) + 1
    BY <2>3
  <2>5. \A p \in h : Straight(p) => Len(p) <= Len(s)
    BY <2>3, <2>4
  <2> QED BY <2>1, <2>2, <2>3, <2>4, <2>5, LongestIsTop
<1> QED BY <1>1, <1>2, SearchInductive, PTL

\* What genPath returns leads from the robot to its destination, and nothing
\* shorter does (Controller.cpp:724-727).
THEOREM ShortestWay == Spec => []Shortest
<1>1. SearchInv => Shortest
  <2> SUFFICES ASSUME SearchInv, pc = "done" PROVE IsWalk(best, loc, dest) /\ Len(best) = Dist(loc, dest)
    BY DEF Shortest
  <2>1. Way(best) /\ Straight(best) /\ Last(best) = dest /\ dest \in Cell BY DEF SearchInv
  <2>2. Dist(dest, dest) = 0 BY <2>1, DistNat
  <2>3. Len(best) \in Nat BY <2>1 DEF Way
  <2>4. Len(best) = Dist(loc, dest) BY <2>1, <2>2, <2>3 DEF Straight, Estimate
  <2> QED BY <2>1, <2>4 DEF IsWalk, Way
<1> QED BY <1>1, SearchInductive, PTL

\* A walk has at least as many places as its ends are apart.
LEMMA NoShorter ==
  ASSUME NEW a \in Cell, NEW b, NEW p \in Seq(Cell), IsWalk(p, a, b)
  PROVE  Dist(a, b) <= Len(p)
<1> DEFINE stop(n) == IF n = 0 THEN a ELSE p[n]
           T == {n \in 0..Len(p) : Dist(a, stop(n)) <= n}
<1>0. Len(p) \in Nat /\ \A n \in 1..Len(p) : p[n] \in Cell
  OBVIOUS
<1>1. 0 \in T
  BY <1>0, DistNat
<1>2. ASSUME NEW n \in 1..Len(p), n - 1 \in T PROVE n \in T
  <2>1. stop(n - 1) \in Cell /\ stop(n) = p[n] /\ p[n] \in Cell
    BY <1>0
  <2>2. p[n] \in ValidMoves(stop(n - 1))
    <3>1. CASE n = 1
      BY <3>1 DEF IsWalk
    <3>2. CASE n # 1
      <4>1. n - 1 \in 1..(Len(p) - 1) /\ (n - 1) + 1 = n
        BY <3>2, <1>0
      <4> QED BY <4>1 DEF IsWalk
    <3> QED BY <3>1, <3>2
  <2>3. Dist(a, stop(n - 1)) <= n - 1
    BY <1>2
  <2> HIDE DEF stop
  <2>4. Dist(stop(n - 1), p[n]) = 1
    BY <2>1, <2>2, MoveIsStep
  <2>5. Dist(a, p[n]) <= Dist(a, stop(n - 1)) + Dist(stop(n - 1), p[n])
    BY <2>1, Triangle
  <2>6. Dist(a, p[n]) \in Nat /\ Dist(a, stop(n - 1)) \in Nat
    BY <2>1, DistNat
  <2>7. Dist(a, stop(n)) <= n /\ n \in 0..Len(p)
    BY <2>1, <2>3, <2>4, <2>5, <2>6, <1>0
  <2> QED BY <2>7
<1>3. Len(p) \in T /\ Len(p) # 0
  <2> HIDE DEF T
  <2>1. 0..Len(p) \subseteq T
    BY <1>0, <1>1, <1>2, BoundedInduction
  <2>2. p # <<>>
    BY DEF IsWalk
  <2> QED BY <1>0, <2>1, <2>2
<1>4. stop(Len(p)) = b
  BY <1>3 DEF IsWalk, Last
<1> QED BY <1>3, <1>4

\* What genPath returns is a walk from the robot to its destination, and no walk
\* at all is shorter (Controller.cpp:724-727).
THEOREM NoShorterWay ==
  Spec => [](pc = "done" => /\ best \in Seq(Cell) /\ IsWalk(best, loc, dest)
                            /\ \A p \in Seq(Cell) : IsWalk(p, loc, dest) => Len(best) <= Len(p))
<1>1. SearchInv /\ Shortest /\ pc = "done"
      => /\ best \in Seq(Cell) /\ IsWalk(best, loc, dest)
         /\ \A p \in Seq(Cell) : IsWalk(p, loc, dest) => Len(best) <= Len(p)
  <2> SUFFICES ASSUME SearchInv, Shortest, pc = "done", NEW p \in Seq(Cell), IsWalk(p, loc, dest)
               PROVE  best \in Seq(Cell) /\ IsWalk(best, loc, dest) /\ Len(best) <= Len(p)
    BY DEF SearchInv, Shortest, Way
  <2>1. loc \in Cell /\ Way(best) /\ IsWalk(best, loc, dest) /\ Len(best) = Dist(loc, dest)
    BY DEF SearchInv, Shortest
  <2>2. Dist(loc, dest) <= Len(p)
    BY <2>1, NoShorter
  <2> QED BY <2>1, <2>2 DEF Way
<1> QED BY <1>1, SearchInductive, ShortestWay, PTL

-----------------------------------------------------------------------------
(* Roster: the robots and the threads that share them.                     *)

\* What vector::erase leaves: the others, in their order.
LEMMA Erased ==
  ASSUME NEW S, NEW s \in Seq(S), NEW i \in DOMAIN s
  PROVE  /\ RemoveAt(s, i) \in Seq(S)
         /\ DOMAIN RemoveAt(s, i) = 1..(Len(s) - 1)
         /\ \A j \in 1..(Len(s) - 1) : RemoveAt(s, i)[j] = IF j < i THEN s[j] ELSE s[j + 1]
<1>1. i \in 1..Len(s) /\ Len(s) \in Nat
  OBVIOUS
<1> DEFINE a == SubSeq(s, 1, i - 1)
           b == SubSeq(s, i + 1, Len(s))
<1>2. a \in Seq(S) /\ Len(a) = i - 1 /\ \A j \in 1..(i - 1) : a[j] = s[j]
  BY <1>1
<1>3. b \in Seq(S) /\ Len(b) = Len(s) - i /\ \A j \in 1..(Len(s) - i) : b[j] = s[i + j]
  BY <1>1
<1>4. RemoveAt(s, i) = a \o b
  BY DEF RemoveAt
<1> HIDE DEF a, b
<1>5. Len(a \o b) = Len(s) - 1 /\ a \o b \in Seq(S)
  BY <1>1, <1>2, <1>3
<1>6. \A j \in 1..(Len(s) - 1) : (a \o b)[j] = IF j < i THEN s[j] ELSE s[j + 1]
  <2> TAKE j \in 1..(Len(s) - 1)
  <2>1. CASE j < i
    BY <1>1, <1>2, <1>3, <2>1
  <2>2. CASE j >= i
    <3>1. (a \o b)[j] = b[j - (i - 1)]
      BY <1>1, <1>2, <1>3, <2>2
    <3>2. b[j - (i - 1)] = s[i + (j - (i - 1))]
      BY <1>1, <1>3, <2>2
    <3> QED BY <3>1, <3>2, <1>1, <2>2
  <2>3. j < i \/ j >= i
    BY <1>1
  <2> QED BY <2>1, <2>2, <2>3
<1> QED BY <1>4, <1>5, <1>6

LEMMA RosterStarts == RosterInit => IInv
  BY DEF RosterInit, IInv, RosterTypes, Walking, Idle, Do

\* A step that leaves the roster and the console alone.
LEMMA Keeps ==
  ASSUME IInv, UNCHANGED <<robots, made, freed, console>>,
         roster' \in {"free", "console", "update"},
         roster' = "update" <=> Walking',
         roster' = "console" <=> roster = "console"
  PROVE  IInv'
  BY DEF IInv, RosterTypes

\* Nothing a RobotThread or ClientThread does is seen here.
LEMMA Apart1 ==
  ASSUME IInv, UNCHANGED <<robots, made, freed, console, roster, update>>
  PROVE  IInv'
  BY DEF IInv, RosterTypes, Walking

LEMMA RosterSteps ==
  ASSUME IInv, [RosterNext]_rosterVars
  PROVE  IInv'
<1>1. CASE UNCHANGED rosterVars
  BY <1>1, Apart1 DEF rosterVars
<1>2. ASSUME NEW r \in Robot, AddRobot(r)
      PROVE  IInv'
  BY <1>2 DEF AddRobot, IInv, RosterTypes, Walking, Still, Do, Idle
<1>3. ASSUME NEW r \in Robot, RemoveRobot(r)
      PROVE  IInv'
  BY <1>3 DEF RemoveRobot, IInv, RosterTypes, Walking, Still, Do, Idle
<1>4. ASSUME NEW r \in Robot, ConsoleCommand(r)
      PROVE  IInv'
  BY <1>4 DEF ConsoleCommand, IInv, RosterTypes, Walking, Others, Do, Idle
<1>5. ASSUME NEW r \in Robot, ClientCommand(r)
      PROVE  IInv'
  BY <1>5, Apart1 DEF ClientCommand, Others
<1>6. CASE Connect
  BY <1>6, Apart1 DEF Connect, Still
<1>7. CASE Push
  BY <1>7 DEF Push, IInv, RosterTypes, Walking, Still, Do, Idle
<1>8. CASE Announce
  BY <1>8 DEF Announce, IInv, RosterTypes, Walking, Still, Do, Idle
<1>9. CASE RemoveTake
  BY <1>9 DEF RemoveTake, IInv, RosterTypes, Walking, Still, Do, Idle
<1>10. CASE Delete
  BY <1>10 DEF Delete, IInv, RosterTypes, Walking, Still, Do, Idle
<1>11. CASE Erase
  <2>1. PICK i \in DOMAIN robots : robots[i] = console.robot /\ robots' = RemoveAt(robots, i)
    BY <1>11 DEF Erase
  <2> DEFINE s == robots
             t == robots'
  <2>2. /\ t \in Seq(Robot) /\ DOMAIN t = 1..(Len(s) - 1)
        /\ \A j \in DOMAIN t : t[j] = IF j < i THEN s[j] ELSE s[j + 1]
    <3>1. s \in Seq(Robot)
      BY DEF IInv, RosterTypes
    <3> QED BY <2>1, <3>1, Erased, Zenon
  <2>3. s \in Seq(Robot) /\ DOMAIN s = 1..Len(s) /\ Len(s) \in Nat
    BY DEF IInv, RosterTypes
  <2>4. \A j \in DOMAIN t : \E k \in DOMAIN s : k = (IF j < i THEN j ELSE j + 1) /\ k # i /\ t[j] = s[k]
    BY <2>2, <2>3
  <2>5. \A j \in DOMAIN t : t[j] \in made /\ t[j] \notin freed
    BY <2>1, <2>4 DEF IInv
  <2>6. \A j, k \in DOMAIN t : t[j] = t[k] => j = k
    <3> SUFFICES ASSUME NEW j \in DOMAIN t, NEW k \in DOMAIN t, t[j] = t[k] PROVE j = k
      OBVIOUS
    <3>1. PICK p \in DOMAIN s : p = (IF j < i THEN j ELSE j + 1) /\ t[j] = s[p]
      BY <2>4
    <3>2. PICK q \in DOMAIN s : q = (IF k < i THEN k ELSE k + 1) /\ t[k] = s[q]
      BY <2>4
    <3>3. p = q
      BY <3>1, <3>2 DEF IInv
    <3> QED BY <3>1, <3>2, <3>3, <2>2, <2>3
  <2> QED BY <1>11, <2>2, <2>5, <2>6 DEF Erase, IInv, RosterTypes, Walking, Still, Do, Idle
<1>12. CASE ConsoleExecute
  BY <1>12 DEF ConsoleExecute, IInv, RosterTypes, Walking, Others, Do, Idle
<1>13. CASE Client
  BY <1>13, Apart1 DEF Client, ClientExecute, ClientStray, Others
<1>14. CASE Due
  BY <1>14, Keeps DEF Due, Apart, IInv, RosterTypes, Walking
<1>15. CASE Update
  BY <1>15, Keeps DEF Update, WalkTake, WalkEnter, WalkLeave, WalkEnd, Send, Apart, IInv, RosterTypes, Walking
<1>16. ASSUME NEW r \in Robot, RobotThread(r) \/ Hang(r)
       PROVE  IInv'
  BY <1>16, Apart1 DEF RobotThread, Hang, Elsewhere
<1> QED BY <1>1, <1>2, <1>3, <1>4, <1>5, <1>6, <1>7, <1>8, <1>9, <1>10, <1>11, <1>12, <1>13,
           <1>14, <1>15, <1>16 DEF RosterNext, Console

\* Who holds robotSemaphore_ when, and that a deleted robot is in robots_ only
\* until RemoveRobot has erased it, for any robots.
THEOREM RosterInductive == RosterSpec => []IInv
  BY RosterStarts, RosterSteps, PTL DEF RosterSpec

\* Who walks over robots_ as UpdateThread does follows no pointer to a deleted
\* robot and no iterator that was invalidated (Controller.cpp:490-555 against
\* 342-344 and 362-378).
THEOREM RosterStays == RosterSpec => RosterStable
<1>1. ASSUME IInv, [RosterNext]_rosterVars, Walking
      PROVE  ToSet(robots) \cap freed = {} /\ robots' = robots /\ freed' = freed
  <2>1. roster = "update" /\ console.what \notin {"await", "erase"} /\ roster # "free"
    BY <1>1 DEF IInv
  <2> SUFFICES robots' = robots /\ freed' = freed
    BY <1>1, <2>1 DEF IInv, ToSet
  <2>2. CASE UNCHANGED rosterVars
    BY <2>2 DEF rosterVars
  <2>3. CASE \E r \in Robot : AddRobot(r) \/ RemoveRobot(r) \/ ConsoleCommand(r) \/ ClientCommand(r)
    BY <2>3 DEF AddRobot, RemoveRobot, ConsoleCommand, ClientCommand, Others
  <2>4. CASE Connect \/ Client \/ Due \/ Update
    BY <2>4 DEF Connect, Client, ClientExecute, ClientStray, Due, Update, WalkTake, WalkEnter, WalkLeave,
                WalkEnd, Send, Others, Apart
  <2>5. CASE Console
    BY <2>1, <2>5 DEF Console, Push, Announce, RemoveTake, Delete, Erase, ConsoleExecute, Others
  <2>6. CASE \E r \in Robot : RobotThread(r) \/ Hang(r)
    BY <2>6 DEF RobotThread, Hang, Elsewhere
  <2> QED BY <1>1, <2>2, <2>3, <2>4, <2>5, <2>6 DEF RosterNext
<1>2. IInv /\ [RosterNext]_rosterVars => [Walking => ToSet(robots) \cap freed = {} /\ robots' = robots /\ freed' = freed]_rosterVars
  BY <1>1
<1> QED BY <1>2, RosterInductive, PTL DEF RosterSpec, RosterStable

-----------------------------------------------------------------------------
(* No circle of waiting threads over robotSemaphore_ and the semaphores of *)
(* the robots.                                                             *)

Labels == {"none", "connect", "camera", "loop", "want", "in", "hung", "leave", "half", "end", "lost"}

GuardTypes ==
  /\ running \in [Robot -> BOOLEAN] /\ nxt \in [Robot -> BOOLEAN] /\ cam \in [Robot -> BOOLEAN]
  /\ thread \in [Robot -> Labels] /\ guard \in [Robot -> {"free", "robot", "update"}]
  /\ update \in {"idle", "due", "walk", "in", "send"}

\* Who holds the semaphore of a robot, and where the thread of a robot that is
\* not deleted can be.
GuardHeld ==
  /\ Walking => at \in Nat \ {0}
  /\ update = "in" => at \in DOMAIN robots
  /\ \A r \in Robot : guard[r] = "update" <=> update = "in" /\ robots[at] = r
  /\ \A r \in Robot \ freed :
       /\ guard[r] = "robot" <=> thread[r] \in {"in", "hung"}
       /\ thread[r] # "lost" /\ (thread[r] = "none" <=> r \notin made)
       /\ thread[r] \in {"half", "end"} => ~nxt[r]

Removed ==
  /\ console.what \in {"remove", "await"} => console.robot \notin freed
  /\ console.what = "await" => ~running[console.robot]

GuardInv == GuardTypes /\ GuardHeld /\ Removed

LEMMA GuardStarts == RosterInit => GuardInv
<1> SUFFICES ASSUME RosterInit PROVE GuardInv
  OBVIOUS
<1>1. GuardTypes
  BY DEF RosterInit, GuardTypes, Labels
<1>2. GuardHeld /\ Removed
  BY DEF RosterInit, GuardHeld, Removed, Walking, Idle, Do
<1> QED BY <1>1, <1>2 DEF GuardInv

\* The thread of one robot goes on.
LEMMA GuardThread ==
  ASSUME IInv, GuardInv, NEW q \in Robot, RobotThread(q) \/ Hang(q)
  PROVE  GuardInv'
<1>1. UNCHANGED <<robots, made, freed, roster, console, update, at>>
  BY DEF RobotThread, Hang, Elsewhere
<1>2. GuardTypes /\ GuardHeld /\ Removed
  BY DEF GuardInv
<1>3. CASE q \in freed
  <2>1. UNCHANGED <<running, nxt, cam, guard>> /\ thread' = [thread EXCEPT ![q] = "lost"]
    BY <1>3 DEF RobotThread, Hang, Stray
  <2>2. GuardTypes'
    BY <1>1, <1>2, <2>1 DEF GuardTypes, Labels
  <2>3. GuardHeld' /\ Removed'
    BY <1>1, <1>2, <1>3, <2>1 DEF GuardTypes, GuardHeld, Removed, Walking
  <2> QED BY <2>2, <2>3 DEF GuardInv
<1>4. CASE q \notin freed
  <2>0. \/ ConnectNxt(q) \/ ConnectCam(q) \/ Want(q) \/ Enter(q) \/ Leave(q)
        \/ LeaveLoop(q) \/ DropNxt(q) \/ DropCam(q) \/ Hang(q)
    BY <1>4 DEF RobotThread, Stray
  <2>1. CASE ConnectNxt(q) \/ ConnectCam(q)
    BY <1>1, <1>2, <1>4, <2>1 DEF ConnectNxt, ConnectCam, GuardTypes, GuardHeld, Removed,
       GuardInv, Labels, Walking, Move
  <2>2. CASE Want(q) \/ LeaveLoop(q)
    BY <1>1, <1>2, <1>4, <2>2 DEF Want, LeaveLoop, GuardTypes, GuardHeld, Removed,
       GuardInv, Labels, Walking, Move
  <2>3. CASE Enter(q)
    BY <1>1, <1>2, <1>4, <2>3 DEF Enter, GuardTypes, GuardHeld, Removed,
       GuardInv, Labels, Walking, Move
  <2>4. CASE Leave(q)
    BY <1>1, <1>2, <1>4, <2>4 DEF Leave, GuardTypes, GuardHeld, Removed,
       GuardInv, Labels, Walking, Move
  <2>5. CASE DropNxt(q) \/ DropCam(q)
    <3>1. GuardTypes' /\ Removed'
      BY <1>1, <1>2, <2>5 DEF DropNxt, DropCam, GuardTypes, Removed, Labels, Move
    <3>2. ASSUME DropNxt(q) PROVE GuardHeld'
      BY <1>1, <1>2, <1>4, <3>2 DEF DropNxt, GuardTypes, GuardHeld, Walking, Move
    <3>3. ASSUME DropCam(q) PROVE GuardHeld'
      BY <1>1, <1>2, <1>4, <3>3 DEF DropCam, GuardTypes, GuardHeld, Walking, Move
    <3> QED BY <2>5, <3>1, <3>2, <3>3 DEF GuardInv
  <2>6. CASE Hang(q)
    BY <1>1, <1>2, <1>4, <2>6 DEF Hang, GuardTypes, GuardHeld, Removed,
       GuardInv, Labels, Walking, Move
  <2> QED BY <2>0, <2>1, <2>2, <2>3, <2>4, <2>5, <2>6
<1> QED BY <1>3, <1>4

\* Something goes on that no semaphore of a robot is about.
LEMMA GuardElsewhere ==
  ASSUME GuardInv, UNCHANGED <<nxt, cam, thread, guard, update, at, made>>,
         freed \subseteq freed', running' \in [Robot -> BOOLEAN],
         update = "in" => robots' = robots, Removed'
  PROVE  GuardInv'
  BY DEF GuardInv, GuardTypes, GuardHeld, Walking

\* The console.
LEMMA GuardConsole ==
  ASSUME IInv, GuardInv, \/ Console \/ Connect
                         \/ \E q \in Robot : AddRobot(q) \/ RemoveRobot(q) \/ ConsoleCommand(q)
  PROVE  GuardInv'
<1>0. GuardTypes /\ GuardHeld /\ Removed
  BY DEF GuardInv
<1>1. ASSUME NEW q \in Robot, AddRobot(q) PROVE GuardInv'
  <2>1. /\ UNCHANGED <<robots, freed, nxt, cam, guard, update, at>> /\ q \notin made /\ made' = made \cup {q}
        /\ running' = [running EXCEPT ![q] = TRUE] /\ thread[q] = "none" /\ thread' = [thread EXCEPT ![q] = "connect"]
        /\ console'.what = "push"
    BY <1>1 DEF AddRobot, Still, Move, Do
  <2>2. GuardTypes'
    BY <1>0, <2>1 DEF GuardTypes, Labels
  <2>3. GuardHeld' /\ Removed'
    BY <1>0, <2>1 DEF GuardTypes, GuardHeld, Removed, Walking
  <2> QED BY <2>2, <2>3 DEF GuardInv
<1>2. CASE RemoveTake
  <2>1. /\ UNCHANGED <<robots, made, freed, nxt, cam, thread, guard, update, at>> /\ console.what = "remove"
        /\ console' = Do("await", console.robot) /\ running' = [running EXCEPT ![console.robot] = FALSE]
    BY <1>2 DEF RemoveTake, Still, Stop
  <2>2. console.robot \in Robot
    BY <2>1 DEF IInv, RosterTypes
  <2>3. Removed' /\ running' \in [Robot -> BOOLEAN]
    BY <1>0, <2>1, <2>2 DEF Removed, GuardTypes, Do
  <2> QED BY <2>1, <2>3, GuardElsewhere
<1>3. CASE Push
  <2>1. /\ UNCHANGED <<made, freed, running, nxt, cam, thread, guard, update, at>> /\ console'.what = "announce"
        /\ roster = "free"
    BY <1>3 DEF Push, Still, robot, Do
  <2>2. update # "in"
    BY <2>1 DEF IInv, Walking
  <2> QED BY <1>0, <2>1, <2>2, GuardElsewhere DEF Removed, GuardTypes
<1>4. CASE Delete
  <2>1. /\ UNCHANGED <<robots, made, running, nxt, cam, thread, guard, update, at>> /\ freed \subseteq freed'
        /\ console'.what = "erase"
    BY <1>4 DEF Delete, Still, robot, Do
  <2> QED BY <1>0, <2>1, GuardElsewhere DEF Removed, GuardTypes
<1>5. CASE Erase
  <2>1. /\ UNCHANGED <<made, freed, running, nxt, cam, thread, guard, update, at>> /\ console'.what = "idle"
        /\ console.what = "erase"
    BY <1>5 DEF Erase, Still, robot, Idle, Do
  <2>2. update # "in"
    BY <2>1 DEF IInv, Walking
  <2> QED BY <1>0, <2>1, <2>2, GuardElsewhere DEF Removed, GuardTypes
<1>6. ASSUME NEW q \in Robot, RemoveRobot(q) PROVE GuardInv'
  <2>1. /\ UNCHANGED <<robots, made, freed, running, nxt, cam, thread, guard, update, at>>
        /\ console' = Do("remove", q) /\ q \notin freed
    BY <1>6 DEF RemoveRobot, Still, robot
  <2> QED BY <1>0, <2>1, GuardElsewhere DEF Removed, GuardTypes, Do
<1>7. ASSUME NEW q \in Robot, ConsoleCommand(q) PROVE GuardInv'
  <2>1. UNCHANGED <<robots, made, freed, running, nxt, cam, thread, guard, update, at>> /\ console'.what = "command"
    BY <1>7 DEF ConsoleCommand, Others, robot, Do
  <2> QED BY <1>0, <2>1, GuardElsewhere DEF Removed, GuardTypes
<1>8. CASE Announce \/ ConsoleExecute
  <2>1. UNCHANGED <<robots, made, freed, running, nxt, cam, thread, guard, update, at>> /\ console'.what = "idle"
    BY <1>8 DEF Announce, ConsoleExecute, Others, Still, robot, Idle, Do
  <2> QED BY <1>0, <2>1, GuardElsewhere DEF Removed, GuardTypes
<1>9. CASE Connect
  <2>1. UNCHANGED <<robots, made, freed, running, nxt, cam, thread, guard, update, at, console>>
    BY <1>9 DEF Connect, Still, robot
  <2> QED BY <1>0, <2>1, GuardElsewhere DEF Removed, GuardTypes
<1> QED BY <1>1, <1>2, <1>3, <1>4, <1>5, <1>6, <1>7, <1>8, <1>9 DEF Console

\* UpdateThread.
LEMMA GuardUpdate ==
  ASSUME IInv, GuardInv, Due \/ Update
  PROVE  GuardInv'
<1>1. UNCHANGED <<made, freed, running, nxt, cam, thread, console, robots>>
  BY DEF Due, Update, WalkTake, WalkEnter, WalkLeave, WalkEnd, Send, Apart, robot
<1>2. GuardTypes /\ GuardHeld /\ Removed /\ robots \in Seq(Robot)
  BY DEF GuardInv, IInv, RosterTypes
<1>3. Removed'
  BY <1>1, <1>2 DEF Removed
<1>4. CASE Due \/ WalkTake \/ WalkEnd \/ Send
  <2>1. /\ guard' = guard /\ update # "in" /\ update' \in {"due", "walk", "send", "idle"}
        /\ update' = "walk" => at' = 1
    BY <1>4 DEF Due, WalkTake, WalkEnd, Send
  <2> QED BY <1>1, <1>2, <1>3, <2>1 DEF GuardInv, GuardTypes, GuardHeld, Walking
<1>5. CASE WalkEnter
  <2>1. /\ update = "walk" /\ at <= Len(robots) /\ guard[robots[at]] = "free" /\ at' = at
        /\ guard' = [guard EXCEPT ![robots[at]] = "update"] /\ update' = "in"
    BY <1>5 DEF WalkEnter
  <2>2. at \in DOMAIN robots /\ at \in Nat \ {0}
    BY <1>2, <2>1 DEF GuardHeld, Walking
  <2>3. PICK q \in Robot : q = robots[at]
    BY <1>2, <2>2
  <2>4. GuardTypes'
    BY <1>1, <1>2, <2>1, <2>3 DEF GuardTypes
  <2>5. \A r \in Robot : guard'[r] = "update" <=> r = q
    BY <1>2, <2>1, <2>3 DEF GuardTypes, GuardHeld
  <2>6. \A r \in Robot \ freed : guard'[r] = "robot" <=> guard[r] = "robot"
    BY <1>2, <2>1, <2>3 DEF GuardTypes
  <2>7. GuardHeld'
    BY <1>1, <1>2, <2>1, <2>2, <2>3, <2>5, <2>6 DEF GuardHeld, Walking
  <2> QED BY <1>3, <2>4, <2>7 DEF GuardInv
<1>6. CASE WalkLeave
  <2>1. /\ update = "in" /\ update' = "walk" /\ at' = at + 1
        /\ guard' = [r \in Robot |-> IF guard[r] = "update" THEN "free" ELSE guard[r]]
    BY <1>6 DEF WalkLeave
  <2>2. at' \in Nat \ {0}
    BY <1>2, <2>1 DEF GuardHeld, Walking
  <2>3. GuardTypes' /\ (\A r \in Robot : guard'[r] # "update" /\ (guard'[r] = "robot" <=> guard[r] = "robot"))
    BY <1>1, <1>2, <2>1 DEF GuardTypes
  <2>4. GuardHeld'
    BY <1>1, <1>2, <2>1, <2>2, <2>3 DEF GuardHeld, Walking
  <2> QED BY <1>3, <2>3, <2>4 DEF GuardInv
<1> QED BY <1>4, <1>5, <1>6 DEF Update

LEMMA GuardStep ==
  ASSUME IInv, GuardInv, [RosterNext]_rosterVars
  PROVE  GuardInv'
<1>1. CASE UNCHANGED rosterVars
  <2>1. UNCHANGED <<robots, made, freed, running, nxt, cam, thread, guard, update, at, console>>
    BY <1>1 DEF rosterVars, robot
  <2> QED BY <2>1, GuardElsewhere DEF GuardInv, GuardTypes, Removed
<1>2. CASE Client \/ \E q \in Robot : ClientCommand(q)
  <2>1. UNCHANGED <<robots, made, freed, running, nxt, cam, thread, guard, update, at, console>>
    BY <1>2 DEF Client, ClientExecute, ClientStray, ClientCommand, Others, robot
  <2> QED BY <2>1, GuardElsewhere DEF GuardInv, GuardTypes, Removed
<1>3. CASE \/ Console \/ Connect
           \/ \E q \in Robot : AddRobot(q) \/ RemoveRobot(q) \/ ConsoleCommand(q)
  BY <1>3, GuardConsole
<1>4. CASE Due \/ Update
  BY <1>4, GuardUpdate
<1>5. ASSUME NEW q \in Robot, RobotThread(q) \/ Hang(q) PROVE GuardInv'
  BY <1>5, GuardThread
<1> QED BY <1>1, <1>2, <1>3, <1>4, <1>5 DEF RosterNext

\* The thread of a robot waits for no semaphore: it can take its next step.
Unblocked(r) ==
  /\ r \notin freed
  /\ \/ thread[r] \in {"connect", "camera", "in", "leave", "half"}
     \/ thread[r] = "loop" /\ (running[r] => nxt[r])
     \/ thread[r] = "want" /\ guard[r] = "free"

\* Who holds robotSemaphore_ waits for nobody who waits for another semaphore,
\* unless a RobotThread never comes back from genPath: UpdateThread in its walk
\* waits at most for a thread that has the semaphore of its robot and gives it
\* back (Controller.cpp:490-550), RemoveRobot at most for the thread of the robot it
\* has stopped, which nobody keeps from ending (362-378).
THEOREM HolderGoesOn ==
  RosterSpec => []((\A q \in Robot : thread[q] # "hung") =>
    /\ update = "walk" /\ at \in DOMAIN robots => guard[robots[at]] = "free" \/ Unblocked(robots[at])
    /\ console.what = "await" => Gone(console.robot) \/ Unblocked(console.robot))
<1>0. RosterSpec => []GuardInv
  <2>1. RosterInit => IInv /\ GuardInv
    BY RosterStarts, GuardStarts
  <2>2. IInv /\ GuardInv /\ [RosterNext]_rosterVars => (IInv /\ GuardInv)'
    BY RosterSteps, GuardStep
  <2> QED BY <2>1, <2>2, PTL DEF RosterSpec
<1>1. ASSUME IInv, GuardInv, \A q \in Robot : thread[q] # "hung", update = "walk", at \in DOMAIN robots
      PROVE  guard[robots[at]] = "free" \/ Unblocked(robots[at])
  <2>1. robots[at] \in Robot /\ robots[at] \notin freed
    BY <1>1 DEF IInv, RosterTypes, Walking
  <2> QED BY <1>1, <2>1 DEF GuardInv, GuardTypes, GuardHeld, Unblocked
<1>2. ASSUME IInv, GuardInv, \A q \in Robot : thread[q] # "hung", console.what = "await"
      PROVE  Gone(console.robot) \/ Unblocked(console.robot)
  <2>1. PICK c \in Robot : c = console.robot /\ c \in made \ freed /\ ~running[c]
    BY <1>2 DEF IInv, RosterTypes, GuardInv, Removed
  <2>2. update # "in"
    BY <1>2 DEF IInv, Walking
  <2>3. guard[c] # "update"
    BY <1>2, <2>2 DEF GuardInv, GuardHeld
  <2>4. /\ thread[c] \in Labels \ {"none", "lost", "hung"}
        /\ thread[c] = "want" => guard[c] = "free"
        /\ thread[c] = "end" => ~nxt[c]
    BY <1>2, <2>1, <2>3 DEF GuardInv, GuardTypes, GuardHeld, Labels
  <2> QED BY <2>1, <2>4 DEF Gone, Unblocked, Labels
<1>3. IInv /\ GuardInv /\ (\A q \in Robot : thread[q] # "hung")
      => /\ update = "walk" /\ at \in DOMAIN robots => guard[robots[at]] = "free" \/ Unblocked(robots[at])
         /\ console.what = "await" => Gone(console.robot) \/ Unblocked(console.robot)
  BY <1>1, <1>2
<1> QED BY <1>0, <1>3, RosterInductive, PTL
=============================================================================
