---------------------------- MODULE MCAssignment ----------------------------
(* Robots and objects on a few crossings: some at the same place, next to   *)
(* each other, at the best distance and beyond it.                          *)
EXTENDS Assignment

Crossings == {<<0, 0>>, <<1, 0>>, <<2, 1>>}
=============================================================================
