--------------------------- MODULE MCVideoHandler ---------------------------
(* The handlers on one thread (until main joins the worker) or on two.      *)
EXTENDS VideoHandler
=============================================================================
