---------------------------- MODULE MCVidControl ----------------------------
(* Two cameras; what may go wrong is a constant of each run.                 *)
EXTENDS VidControl
=============================================================================
