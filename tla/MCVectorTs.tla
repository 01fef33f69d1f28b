----------------------------- MODULE MCVectorTs -----------------------------
(* Four threads: two readers, a writer and one that arrives late are the    *)
(* smallest set that shows overtaking.                                      *)
EXTENDS VectorTs
=============================================================================
