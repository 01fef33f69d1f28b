---------------------------- MODULE MCServerCore ----------------------------
(* Two robot controllers, so that one connects, changes or leaves while the *)
(* other is in the middle of something; the runs differ in the messages and *)
(* commands that arrive.  Addresses and controllers are interchangeable.    *)
EXTENDS ServerCore, TLC

Interchangeable == Permutations(Listener) \cup Permutations(Address)

=============================================================================
