---------------------------- MODULE MCPathSearch ----------------------------
(* The grid of main.cpp:208, every start on it and every destination.        *)
EXTENDS PathSearch

MCStarts == Cell
=============================================================================
