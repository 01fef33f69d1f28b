------------------------------ MODULE VectorTs ------------------------------
(***************************************************************************)
(* Server/Controller/Vector_ts.h: a vector guarded by three mutexes and a  *)
(* count of readers.  Every mutex call and every access to the count is a  *)
(* step of its own, so all interleavings of the callers are checked.       *)
(*                                                                         *)
(* A mutex is its holder or NoThread.  vectorMutex is taken by the first   *)
(* reader and given back by the last one, which may be another thread.     *)
(***************************************************************************)
EXTENDS Integers, FiniteSets

CONSTANTS Thread,    \* the threads that share the vector
          NoThread   \* the holder of a free mutex

ASSUME ThreadAssumption == IsFiniteSet(Thread) /\ NoThread \notin Thread

VARIABLES writerMutex,   \* the gate every lock() and readLock() goes through
          readMutex,     \* protects readers
          vectorMutex,   \* held by the writer, or by the readers together
          readers,       \* number of readers counted in
          pc             \* where each thread is

vars == <<writerMutex, readMutex, vectorMutex, readers, pc>>

\* "idle" is outside the vector; a thread at "reading" or "writing" is in the
\* section its caller runs; every other label is inside one of the four calls.
Label == {"idle",
          "wVector", "wOpen", "writing",
          "rCount", "rIncrement", "rTest", "rOpenCount", "rOpenGate", "reading",
          "xDecrement", "xTest", "xOpen"}

Init ==
  /\ writerMutex = NoThread
  /\ readMutex = NoThread
  /\ vectorMutex = NoThread
  /\ readers = 0
  /\ pc = [t \in Thread |-> "idle"]

Goto(t, from, to) ==
  /\ pc[t] = from
  /\ pc' = [pc EXCEPT ![t] = to]

-----------------------------------------------------------------------------
(* lock() and unlock()                                                     *)

LockGate(t) ==
  /\ Goto(t, "idle", "wVector")
  /\ writerMutex = NoThread /\ writerMutex' = t
  /\ UNCHANGED <<readMutex, vectorMutex, readers>>

LockVector(t) ==
  /\ Goto(t, "wVector", "wOpen")
  /\ vectorMutex = NoThread /\ vectorMutex' = t
  /\ UNCHANGED <<writerMutex, readMutex, readers>>

LockOpenGate(t) ==
  /\ Goto(t, "wOpen", "writing")
  /\ writerMutex' = NoThread
  /\ UNCHANGED <<readMutex, vectorMutex, readers>>

Unlock(t) ==
  /\ Goto(t, "writing", "idle")
  /\ vectorMutex' = NoThread
  /\ UNCHANGED <<writerMutex, readMutex, readers>>

-----------------------------------------------------------------------------
(* readLock()                                                              *)

\* Mutant of ReadGate: readers do not go through the gate.
ReadGateOpen(t) ==
  /\ Goto(t, "idle", "rCount")
  /\ UNCHANGED <<writerMutex, readMutex, vectorMutex, readers>>

ReadGate(t) ==
  /\ Goto(t, "idle", "rCount")
  /\ writerMutex = NoThread /\ writerMutex' = t
  /\ UNCHANGED <<readMutex, vectorMutex, readers>>

ReadLockCount(t) ==
  /\ Goto(t, "rCount", "rIncrement")
  /\ readMutex = NoThread /\ readMutex' = t
  /\ UNCHANGED <<writerMutex, vectorMutex, readers>>

ReadIncrement(t) ==
  /\ Goto(t, "rIncrement", "rTest")
  /\ readers' = readers + 1
  /\ UNCHANGED <<writerMutex, readMutex, vectorMutex>>

\* The first reader takes the vector, and waits for it holding both mutexes.
ReadTest(t) ==
  /\ Goto(t, "rTest", "rOpenCount")
  /\ IF readers = 1
     THEN vectorMutex = NoThread /\ vectorMutex' = t
     ELSE UNCHANGED vectorMutex
  /\ UNCHANGED <<writerMutex, readMutex, readers>>

ReadOpenCount(t) ==
  /\ Goto(t, "rOpenCount", "rOpenGate")
  /\ readMutex' = NoThread
  /\ UNCHANGED <<writerMutex, vectorMutex, readers>>

ReadOpenGate(t) ==
  /\ Goto(t, "rOpenGate", "reading")
  /\ writerMutex' = NoThread
  /\ UNCHANGED <<readMutex, vectorMutex, readers>>

-----------------------------------------------------------------------------
(* readUnlock()                                                            *)

LeaveLockCount(t) ==
  /\ Goto(t, "reading", "xDecrement")
  /\ readMutex = NoThread /\ readMutex' = t
  /\ UNCHANGED <<writerMutex, vectorMutex, readers>>

LeaveDecrement(t) ==
  /\ Goto(t, "xDecrement", "xTest")
  /\ readers' = readers - 1
  /\ UNCHANGED <<writerMutex, readMutex, vectorMutex>>

\* Mutants of LeaveTest: the vector is given back with one reader left, or never.
LeaveTestEarly(t) ==
  /\ Goto(t, "xTest", "xOpen")
  /\ vectorMutex' = IF readers <= 1 THEN NoThread ELSE vectorMutex
  /\ UNCHANGED <<writerMutex, readMutex, readers>>

LeaveTestNever(t) ==
  /\ Goto(t, "xTest", "xOpen")
  /\ UNCHANGED <<writerMutex, readMutex, vectorMutex, readers>>

\* The last reader gives the vector back.
LeaveTest(t) ==
  /\ Goto(t, "xTest", "xOpen")
  /\ vectorMutex' = IF readers = 0 THEN NoThread ELSE vectorMutex
  /\ UNCHANGED <<writerMutex, readMutex, readers>>

LeaveOpenCount(t) ==
  /\ Goto(t, "xOpen", "idle")
  /\ readMutex' = NoThread
  /\ UNCHANGED <<writerMutex, vectorMutex, readers>>

-----------------------------------------------------------------------------

\* The steps inside a call, or that end a section: a thread always takes them.
Proceed(t) ==
  \/ LockVector(t) \/ LockOpenGate(t) \/ Unlock(t)
  \/ ReadLockCount(t) \/ ReadIncrement(t) \/ ReadTest(t)
  \/ ReadOpenCount(t) \/ ReadOpenGate(t)
  \/ LeaveLockCount(t) \/ LeaveDecrement(t) \/ LeaveTest(t) \/ LeaveOpenCount(t)

Next == \E t \in Thread : LockGate(t) \/ ReadGate(t) \/ Proceed(t)

Spec == Init /\ [][Next]_vars

\* No thread has to call the lock, and no mutex is fair among its callers;
\* what is assumed is that a thread whose next step stays enabled takes it,
\* and that every section ends.
FairSpec == Spec /\ \A t \in Thread : WF_vars(Proceed(t))

-----------------------------------------------------------------------------

\* Threads between obtaining the vector to write and giving it back.
InWrite == {t \in Thread : pc[t] \in {"wOpen", "writing"}}

\* Threads between being let in as readers and being counted out.
InRead == {t \in Thread :
             pc[t] \in {"rOpenCount", "rOpenGate", "reading", "xDecrement"}}

\* A writer holding the gate.
WaitingWriter == {t \in Thread : pc[t] = "wVector"}

TypeOK ==
  /\ writerMutex \in Thread \cup {NoThread}
  /\ readMutex \in Thread \cup {NoThread}
  /\ vectorMutex \in Thread \cup {NoThread}
  /\ readers \in Int
  /\ pc \in [Thread -> Label]

-----------------------------------------------------------------------------
(* The inductive invariant: who holds each mutex, what readers counts, and *)
(* that the readers as a group hold the vector exactly while one is inside *)
(* or the last one is about to give it back.                               *)

GateInv ==
  \A t \in Thread : writerMutex = t <=>
    pc[t] \in {"wVector", "wOpen", "rCount", "rIncrement", "rTest",
               "rOpenCount", "rOpenGate"}

CountMutexInv ==
  \A t \in Thread : readMutex = t <=>
    pc[t] \in {"rIncrement", "rTest", "rOpenCount", "xDecrement", "xTest", "xOpen"}

\* Threads counted in: past the increment, not yet past the decrement.
Counted == {t \in Thread : pc[t] = "rTest"} \cup InRead

ReadersInv == readers = Cardinality(Counted)

\* Someone is inside as a reader, or the last reader is leaving.
ReadersHoldVector == InRead # {} \/ \E t \in Thread : pc[t] = "xTest"

VectorInv ==
  /\ \A t \in InWrite : vectorMutex = t
  /\ ReadersHoldVector => vectorMutex # NoThread /\ InWrite = {}
  /\ vectorMutex # NoThread => InWrite # {} \/ ReadersHoldVector

\* The strengthening of Exclusion and NeverStuck that every step
\* preserves; it says which calls of Vector_ts.h:68-94 hold what.
IInv == TypeOK /\ GateInv /\ CountMutexInv /\ ReadersInv /\ VectorInv

-----------------------------------------------------------------------------

\* While one thread changes the vector no other thread reads or changes it
\* (Vector_ts.h:15-20: the three mutexes together).
Exclusion ==
  /\ \A t, u \in InWrite : t = u
  /\ InWrite = {} \/ InRead = {}

\* A writer that waits for the vector is not overtaken: no reader is let in
\* before it (the comment of Vector_ts.h:19).
WriterNotOvertaken ==
  [][WaitingWriter \cap WaitingWriter' # {} => InRead' \subseteq InRead]_vars

\* The thread is in a call or a section and waits for no mutex.
GoesOn(t) ==
  CASE pc[t] = "wVector"               -> vectorMutex = NoThread
    [] pc[t] = "rTest"                 -> readers = 1 => vectorMutex = NoThread
    [] pc[t] \in {"rCount", "reading"} -> readMutex = NoThread
    [] OTHER                           -> pc[t] # "idle"

\* The three mutexes, taken and given back in different orders and by different
\* threads, neither deadlock nor leak: as long as a thread is in a call or a
\* section some thread waits for nobody, and when all are outside everything is
\* free (Vector_ts.h:70-72, 79-85 and 88-93).
NeverStuck ==
  IF \A t \in Thread : pc[t] = "idle"
  THEN readers = 0 /\ vectorMutex = NoThread /\ readMutex = NoThread /\ writerMutex = NoThread
  ELSE \E t \in Thread : GoesOn(t)

\* A thread that has passed the gate gets in, however many readers are
\* inside, with no fairness of the mutexes (Vector_ts.h:70-71 and 79-83).
GateHolderEnters ==
  \A t \in Thread :
    /\ (pc[t] = "wVector") ~> (pc[t] = "writing")
    /\ (pc[t] = "rCount") ~> (pc[t] = "reading")

\* Vector_ts implements the lock its callers rely on.
RW == INSTANCE RWLock WITH
        rw <- [waiting |-> WaitingWriter, reading |-> InRead, writing |-> InWrite]

ImplementsRWLock == RW!RWSpec

=============================================================================
