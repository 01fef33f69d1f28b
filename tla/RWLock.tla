------------------------------- MODULE RWLock -------------------------------
(***************************************************************************)
(* What a Vector_ts promises the threads of the controller: shared readers *)
(* or one writer, and a writer that has started to wait keeps every later  *)
(* caller out until it has been let in.  VectorTs shows that the three     *)
(* mutexes of Vector_ts.h implement this lock; ServerCore composes three   *)
(* of these locks, and the threads that use them.                          *)
(***************************************************************************)

CONSTANT Thread     \* the threads that call the lock

VARIABLE rw         \* which threads wait at, read under, write under the lock

RWState == [waiting : SUBSET Thread,
            reading : SUBSET Thread,
            writing : SUBSET Thread]

Free == [waiting |-> {}, reading |-> {}, writing |-> {}]

RWInit == rw = Free

-----------------------------------------------------------------------------

\* readLock(): neither a writer inside nor one waiting.
ReadLock(t) ==
  /\ rw.waiting = {} /\ rw.writing = {}
  /\ t \notin rw.reading
  /\ rw' = [rw EXCEPT !.reading = @ \cup {t}]

\* readUnlock().
ReadUnlock(t) ==
  /\ t \in rw.reading
  /\ rw' = [rw EXCEPT !.reading = @ \ {t}]

\* lock(), first half: the writer takes the gate and starts to wait.
WriteWait(t) ==
  /\ rw.waiting = {}
  /\ rw' = [rw EXCEPT !.waiting = {t}]

\* lock(), second half: the vector is free and the gate reopens.
WriteEnter(t) ==
  /\ t \in rw.waiting
  /\ rw.reading = {} /\ rw.writing = {}
  /\ rw' = [waiting |-> {}, reading |-> {}, writing |-> {t}]

\* unlock().
WriteUnlock(t) ==
  /\ t \in rw.writing
  /\ rw' = [rw EXCEPT !.writing = @ \ {t}]

RWNext ==
  \E t \in Thread :
    \/ ReadLock(t)
    \/ ReadUnlock(t)
    \/ WriteWait(t)
    \/ WriteEnter(t)
    \/ WriteUnlock(t)

RWSpec == RWInit /\ [][RWNext]_rw

=============================================================================
