--------------------------- MODULE VectorTsProof ---------------------------
(***************************************************************************)
(* Proofs about VectorTs, for every finite set of threads.  IInv is the    *)
(* inductive invariant; mutual exclusion, the absence of deadlocks, the    *)
(* comment of Vector_ts.h:19 and the refinement of RWLock follow from it.  *)
(***************************************************************************)
EXTENDS VectorTs, FiniteSetTheorems, TLAPS

-----------------------------------------------------------------------------
(* What the value of readers tells a thread that holds readMutex.          *)

\* Counted is a finite set, so counting readers in or out is by one.
LEMMA CountedFinite == IsFiniteSet(Counted) /\ Counted \subseteq Thread
<1>1. Counted \subseteq Thread
  BY DEF Counted, InRead
<1>2. QED
  BY <1>1, ThreadAssumption, FS_Subset

\* A reader that finds readers = 1 after its increment is alone, and one that
\* finds another value is not (Vector_ts.h:82).
LEMMA FirstReader ==
  ASSUME IInv, NEW t \in Thread, pc[t] = "rTest"
  PROVE  (readers = 1) <=> (InRead = {})
<1>1. \A u \in Thread : pc[u] = "rTest" => u = t
  BY DEF IInv, CountMutexInv
<1>2. Counted = InRead \cup {t} /\ t \notin InRead /\ t \in Counted
  BY <1>1 DEF Counted, InRead
<1>3. IsFiniteSet(Counted) /\ readers = Cardinality(Counted)
  BY CountedFinite DEF IInv, ReadersInv
<1>4. InRead = {} => readers = 1
  BY <1>2, <1>3, FS_Singleton
<1>5. ASSUME readers = 1 PROVE InRead = {}
  <2>1. PICK c : Counted = {c}
    BY <1>3, <1>5, FS_Singleton
  <2>2. QED
    BY <2>1, <1>2
<1>6. QED
  BY <1>4, <1>5

\* A reader that finds readers = 0 after its decrement was the last one
\* (Vector_ts.h:90).
LEMMA LastReader ==
  ASSUME IInv, NEW t \in Thread, pc[t] = "xTest"
  PROVE  (readers = 0) <=> (InRead = {})
<1>1. \A u \in Thread : pc[u] # "rTest"
  BY DEF IInv, CountMutexInv
<1>2. Counted = InRead
  BY <1>1 DEF Counted, InRead
<1>3. QED
  BY <1>2, CountedFinite, FS_EmptySet DEF IInv, ReadersInv

-----------------------------------------------------------------------------
(* Each part of IInv is preserved by every step.                           *)

\* Initially no thread has called the lock.
LEMMA InitIInv == Init => IInv
<1> SUFFICES ASSUME Init PROVE IInv
  OBVIOUS
<1>1. TypeOK /\ GateInv /\ CountMutexInv
  BY ThreadAssumption DEF Init, TypeOK, Label, GateInv, CountMutexInv
<1>2. Counted = {} /\ InRead = {} /\ InWrite = {}
  BY DEF Init, Counted, InRead, InWrite
<1>3. ReadersInv
  BY <1>2, FS_EmptySet DEF Init, ReadersInv
<1>4. VectorInv
  BY <1>2 DEF Init, VectorInv, ReadersHoldVector
<1>5. QED
  BY <1>1, <1>3, <1>4 DEF IInv

\* Every variable keeps its type.
LEMMA StepTypeOK == TypeOK /\ [Next]_vars => TypeOK'
<1> SUFFICES ASSUME TypeOK, [Next]_vars PROVE TypeOK'
  OBVIOUS
<1>1. CASE UNCHANGED vars
  BY <1>1 DEF vars, TypeOK
<1>2. ASSUME NEW t \in Thread, LockGate(t) \/ ReadGate(t) PROVE TypeOK'
  BY <1>2 DEF TypeOK, Label, Goto, LockGate, ReadGate
<1>3. ASSUME NEW t \in Thread, LockVector(t) \/ LockOpenGate(t) \/ Unlock(t)
      PROVE  TypeOK'
  BY <1>3 DEF TypeOK, Label, Goto, LockVector, LockOpenGate, Unlock
<1>4. ASSUME NEW t \in Thread, ReadLockCount(t) \/ ReadIncrement(t) \/ ReadTest(t)
                               \/ ReadOpenCount(t) \/ ReadOpenGate(t)
      PROVE  TypeOK'
  BY <1>4 DEF TypeOK, Label, Goto, ReadLockCount, ReadIncrement, ReadTest,
              ReadOpenCount, ReadOpenGate
<1>5. ASSUME NEW t \in Thread, LeaveLockCount(t) \/ LeaveDecrement(t)
                               \/ LeaveTest(t) \/ LeaveOpenCount(t)
      PROVE  TypeOK'
  BY <1>5 DEF TypeOK, Label, Goto, LeaveLockCount, LeaveDecrement, LeaveTest,
              LeaveOpenCount
<1>6. QED
  BY <1>1, <1>2, <1>3, <1>4, <1>5 DEF Next, Proceed

\* The gate and the readers' mutex are each held by the thread that is
\* between their lock and their unlock.
LEMMA StepMutexes ==
  TypeOK /\ GateInv /\ CountMutexInv /\ [Next]_vars => GateInv' /\ CountMutexInv'
<1> SUFFICES ASSUME TypeOK, GateInv, CountMutexInv, [Next]_vars
             PROVE  GateInv' /\ CountMutexInv'
  OBVIOUS
<1> USE ThreadAssumption DEF TypeOK, GateInv, CountMutexInv, Goto
<1>1. CASE UNCHANGED vars
  BY <1>1 DEF vars
<1>2. ASSUME NEW t \in Thread, LockGate(t) \/ ReadGate(t)
      PROVE  GateInv' /\ CountMutexInv'
  BY <1>2 DEF LockGate, ReadGate
<1>3. ASSUME NEW t \in Thread, LockVector(t) \/ LockOpenGate(t) \/ Unlock(t)
      PROVE  GateInv' /\ CountMutexInv'
  BY <1>3 DEF LockVector, LockOpenGate, Unlock
<1>4. ASSUME NEW t \in Thread, ReadLockCount(t) \/ ReadIncrement(t) \/ ReadTest(t)
                               \/ ReadOpenCount(t) \/ ReadOpenGate(t)
      PROVE  GateInv' /\ CountMutexInv'
  BY <1>4 DEF ReadLockCount, ReadIncrement, ReadTest, ReadOpenCount, ReadOpenGate
<1>5. ASSUME NEW t \in Thread, LeaveLockCount(t) \/ LeaveDecrement(t)
                               \/ LeaveTest(t) \/ LeaveOpenCount(t)
      PROVE  GateInv' /\ CountMutexInv'
  BY <1>5 DEF LeaveLockCount, LeaveDecrement, LeaveTest, LeaveOpenCount
<1>6. QED
  BY <1>1, <1>2, <1>3, <1>4, <1>5 DEF Next, Proceed

\* readers keeps counting the threads between the increment and the decrement.
LEMMA StepReadersInv == IInv /\ [Next]_vars => ReadersInv'
<1> SUFFICES ASSUME IInv, [Next]_vars PROVE ReadersInv'
  OBVIOUS
<1> USE DEF Goto
<1>1. pc \in [Thread -> Label] /\ readers = Cardinality(Counted)
  BY DEF IInv, TypeOK, ReadersInv
<1>2. ASSUME NEW t \in Thread, ReadIncrement(t) PROVE ReadersInv'
  <2>1. Counted' = Counted \cup {t} /\ t \notin Counted
    BY <1>1, <1>2 DEF ReadIncrement, Counted, InRead
  <2>2. Cardinality(Counted \cup {t}) = Cardinality(Counted) + 1
    BY <2>1, CountedFinite, FS_AddElement
  <2>3. QED
    BY <1>1, <1>2, <2>1, <2>2 DEF ReadIncrement, ReadersInv
<1>3. ASSUME NEW t \in Thread, LeaveDecrement(t) PROVE ReadersInv'
  <2>1. Counted' = Counted \ {t} /\ t \in Counted
    BY <1>1, <1>3 DEF LeaveDecrement, Counted, InRead
  <2>2. Cardinality(Counted \ {t}) = Cardinality(Counted) - 1
    BY <2>1, CountedFinite, FS_RemoveElement
  <2>3. QED
    BY <1>1, <1>3, <2>1, <2>2 DEF LeaveDecrement, ReadersInv
<1>4. ASSUME Counted' = Counted, readers' = readers PROVE ReadersInv'
  BY <1>1, <1>4 DEF ReadersInv
<1>5. ASSUME NEW t \in Thread,
             LockGate(t) \/ LockVector(t) \/ LockOpenGate(t) \/ Unlock(t)
             \/ ReadGate(t) \/ ReadLockCount(t) \/ ReadTest(t) \/ ReadOpenCount(t)
             \/ ReadOpenGate(t)
      PROVE  Counted' = Counted /\ readers' = readers
  BY <1>1, <1>5 DEF Counted, InRead, LockGate, LockVector, LockOpenGate, Unlock,
     ReadGate, ReadLockCount, ReadTest, ReadOpenCount, ReadOpenGate
<1>6. ASSUME NEW t \in Thread,
             LeaveLockCount(t) \/ LeaveTest(t) \/ LeaveOpenCount(t)
      PROVE  Counted' = Counted /\ readers' = readers
  BY <1>1, <1>6 DEF Counted, InRead, LeaveLockCount, LeaveTest, LeaveOpenCount
<1>7. UNCHANGED vars => Counted' = Counted /\ readers' = readers
  BY DEF vars, Counted, InRead
<1>8. QED
  BY <1>2, <1>3, <1>4, <1>5, <1>6, <1>7 DEF Next, Proceed

\* The vector stays with the writer, or with the readers until the last leaves.
LEMMA StepVectorInv == IInv /\ [Next]_vars => VectorInv'
<1> SUFFICES ASSUME IInv, [Next]_vars PROVE VectorInv'
  OBVIOUS
<1> USE DEF Goto, VectorInv, ReadersHoldVector, InRead, InWrite
<1>1. /\ pc \in [Thread -> Label] /\ VectorInv /\ NoThread \notin Thread
      /\ \A t, u \in Thread :
            /\ pc[t] \in {"rIncrement", "rTest", "rOpenCount", "xDecrement", "xTest", "xOpen"}
            /\ pc[u] \in {"rIncrement", "rTest", "rOpenCount", "xDecrement", "xTest", "xOpen"}
            => t = u
  BY ThreadAssumption DEF IInv, TypeOK, CountMutexInv
<1>2. CASE UNCHANGED vars
  BY <1>1, <1>2 DEF vars
<1>3. ASSUME NEW t \in Thread, LockVector(t) PROVE VectorInv'
  BY <1>1, <1>3 DEF LockVector
<1>4. ASSUME NEW t \in Thread, Unlock(t) PROVE VectorInv'
  BY <1>1, <1>4 DEF Unlock
<1>5. ASSUME NEW t \in Thread, ReadTest(t) PROVE VectorInv'
  <2>1. pc[t] = "rTest" /\ pc' = [pc EXCEPT ![t] = "rOpenCount"]
    BY <1>5 DEF ReadTest
  <2>2. \A u \in Thread : pc[u] # "xTest"
    BY <1>1, <2>1
  <2>3. CASE InRead = {}
    <3>1. vectorMutex = NoThread /\ vectorMutex' = t
      BY <1>5, <2>1, <2>3, FirstReader DEF ReadTest
    <3>2. QED
      BY <1>1, <2>1, <2>2, <3>1
  <2>4. CASE InRead # {}
    <3>1. vectorMutex' = vectorMutex
      BY <1>5, <2>1, <2>4, FirstReader DEF ReadTest
    <3>2. QED
      BY <1>1, <2>1, <2>4, <3>1
  <2>5. QED
    BY <2>3, <2>4
<1>6. ASSUME NEW t \in Thread, LeaveTest(t) PROVE VectorInv'
  <2>1. pc[t] = "xTest" /\ pc' = [pc EXCEPT ![t] = "xOpen"]
    BY <1>6 DEF LeaveTest
  <2>2. \A u \in Thread : pc'[u] # "xTest"
    BY <1>1, <2>1
  <2>3. InRead' = InRead /\ InWrite' = InWrite /\ InWrite = {}
    BY <1>1, <2>1
  <2>4. vectorMutex' = IF InRead = {} THEN NoThread ELSE vectorMutex
    BY <1>6, <2>1, LastReader DEF LeaveTest
  <2>5. QED
    BY <1>1, <2>1, <2>2, <2>3, <2>4
<1>7. ASSUME NEW t \in Thread, LeaveDecrement(t) PROVE VectorInv'
  BY <1>1, <1>7 DEF LeaveDecrement
<1>8. ASSUME NEW t \in Thread,
             LockGate(t) \/ LockOpenGate(t) \/ ReadGate(t) \/ ReadLockCount(t)
             \/ ReadIncrement(t)
      PROVE  VectorInv'
  BY <1>1, <1>8 DEF LockGate, LockOpenGate, ReadGate, ReadLockCount, ReadIncrement
<1>9. ASSUME NEW t \in Thread,
             ReadOpenCount(t) \/ ReadOpenGate(t) \/ LeaveLockCount(t)
             \/ LeaveOpenCount(t)
      PROVE  VectorInv'
  BY <1>1, <1>9 DEF ReadOpenCount, ReadOpenGate, LeaveLockCount, LeaveOpenCount
<1>10. QED
  BY <1>2, <1>3, <1>4, <1>5, <1>6, <1>7, <1>8, <1>9 DEF Next, Proceed

-----------------------------------------------------------------------------

\* The inductive invariant holds in every reachable state: which call of
\* Vector_ts.h:68-94 holds which mutex, and what readers counts.
THEOREM Inductive == Spec => []IInv
<1>1. Init => IInv
  BY InitIInv
<1>2. IInv /\ [Next]_vars => IInv'
  BY StepTypeOK, StepMutexes, StepReadersInv, StepVectorInv DEF IInv
<1>3. QED
  BY <1>1, <1>2, PTL DEF Spec

\* While one thread changes the vector no other thread is inside
\* (Vector_ts.h:15-20).
THEOREM MutualExclusion == Spec => []Exclusion
<1>1. IInv => Exclusion
  <2> SUFFICES ASSUME IInv PROVE Exclusion
    OBVIOUS
  <2>1. VectorInv
    BY DEF IInv
  <2>2. QED
    BY <2>1 DEF VectorInv, ReadersHoldVector, Exclusion
<1>2. QED
  BY <1>1, Inductive, PTL

\* Whoever holds a mutex goes on or waits for one who does: the threads never
\* wait for each other in a circle, and no order of leaving leaks a mutex.
THEOREM NobodyStuck == Spec => []NeverStuck
<1>1. ASSUME IInv, \A t \in Thread : pc[t] = "idle"
      PROVE  readers = 0 /\ vectorMutex = NoThread /\ readMutex = NoThread /\ writerMutex = NoThread
  <2>1. Counted = {} /\ InRead = {} /\ InWrite = {}
    BY <1>1 DEF Counted, InRead, InWrite
  <2>2. readers = 0
    BY <1>1, <2>1, FS_EmptySet DEF IInv, ReadersInv
  <2>3. readMutex = NoThread /\ writerMutex = NoThread
    BY <1>1 DEF IInv, TypeOK, GateInv, CountMutexInv
  <2>4. vectorMutex = NoThread
    BY <1>1, <2>1 DEF IInv, VectorInv, ReadersHoldVector
  <2> QED BY <2>2, <2>3, <2>4
<1>2. ASSUME IInv, NEW u \in Thread, pc[u] # "idle", \A t \in Thread : ~GoesOn(t)
      PROVE  FALSE
  <2>1. \A t \in Thread : /\ pc[t] \in {"idle", "wVector", "rCount", "rTest", "reading"}
                          /\ pc[t] = "wVector" => vectorMutex # NoThread
                          /\ pc[t] = "rTest" => readers = 1 /\ vectorMutex # NoThread
                          /\ pc[t] \in {"rCount", "reading"} => readMutex # NoThread
    BY <1>2 DEF GoesOn
  \* The vector is held, so a reader has it.
  <2>2. vectorMutex # NoThread => InRead # {}
    BY <1>2, <2>1 DEF IInv, VectorInv, ReadersHoldVector, InWrite
  \* The holder of the readers' mutex can only be about to test the count, and
  \* is then the first reader.
  <2>3. readMutex = NoThread
    <3> SUFFICES ASSUME readMutex # NoThread PROVE FALSE
      OBVIOUS
    <3>1. PICK h \in Thread : readMutex = h
      BY <1>2 DEF IInv, TypeOK
    <3>2. pc[h] = "rTest"
      BY <1>2, <2>1, <3>1 DEF IInv, CountMutexInv
    <3>3. InRead = {}
      BY <1>2, <2>1, <3>2, FirstReader
    <3> QED BY <2>1, <2>2, <3>2, <3>3
  <2>4. InRead = {}
    BY <2>1, <2>3 DEF InRead
  <2>5. pc[u] = "rTest" \/ pc[u] = "wVector"
    BY <1>2, <2>1, <2>3
  <2> QED BY <2>1, <2>2, <2>4, <2>5
<1>3. IInv => NeverStuck
  BY <1>1, <1>2 DEF NeverStuck
<1> QED BY <1>3, Inductive, PTL

-----------------------------------------------------------------------------
(* Refinement: five steps of the code are steps of RWLock, the other nine  *)
(* move only the mutexes.                                                  *)

\* The state RWLock sees, and what IInv says about it at the gate.
LEMMA AbstractState ==
  ASSUME IInv
  PROVE  /\ pc \in [Thread -> Label]
         /\ \A t, u \in Thread :
              /\ pc[t] \in {"wVector", "wOpen", "rCount", "rIncrement", "rTest",
                            "rOpenCount", "rOpenGate"}
              /\ pc[u] = "wVector"
              => t = u
         /\ writerMutex = NoThread => WaitingWriter = {}
         /\ vectorMutex = NoThread => InRead = {} /\ InWrite = {}
         /\ InRead # {} => InWrite = {}
  BY ThreadAssumption DEF IInv, TypeOK, GateInv, VectorInv, ReadersHoldVector,
     WaitingWriter, InWrite

\* The mapped lock: the threads that wait, read and write.
Mapped == [waiting |-> WaitingWriter, reading |-> InRead, writing |-> InWrite]

\* Every step of Vector_ts is a step of RWLock or leaves it alone.
LEMMA StepRefines == IInv /\ [Next]_vars => RW!RWNext \/ UNCHANGED Mapped
<1> SUFFICES ASSUME IInv, [Next]_vars PROVE RW!RWNext \/ UNCHANGED Mapped
  OBVIOUS
<1> USE DEF Goto
<1>0. pc \in [Thread -> Label]
  BY AbstractState
<1>1. CASE UNCHANGED vars
  BY <1>1 DEF vars, Mapped, WaitingWriter, InRead, InWrite
<1>2. ASSUME NEW t \in Thread, LockGate(t) PROVE RW!WriteWait(t)
  <2>1. WaitingWriter = {}
    BY <1>2, AbstractState DEF LockGate
  <2>2. WaitingWriter' = WaitingWriter \cup {t}
    BY <1>0, <1>2 DEF LockGate, WaitingWriter
  <2>3. InRead' = InRead /\ InWrite' = InWrite
    BY <1>0, <1>2 DEF LockGate, InRead, InWrite
  <2>4. QED
    BY <2>1, <2>2, <2>3 DEF RW!WriteWait
<1>3. ASSUME NEW t \in Thread, LockVector(t) PROVE RW!WriteEnter(t)
  <2>1. InRead = {} /\ InWrite = {}
    BY <1>3, AbstractState DEF LockVector
  <2>2. WaitingWriter = {t}
    BY <1>3, AbstractState DEF LockVector, WaitingWriter
  <2>3. WaitingWriter' = WaitingWriter \ {t}
    BY <1>0, <1>3 DEF LockVector, WaitingWriter
  <2>4. InRead' = InRead /\ InWrite' = InWrite \cup {t}
    BY <1>0, <1>3 DEF LockVector, InRead, InWrite
  <2>5. WaitingWriter' = {} /\ InWrite' = {t} /\ t \in WaitingWriter
    BY <2>1, <2>2, <2>3, <2>4
  <2>6. QED
    BY <2>1, <2>4, <2>5 DEF RW!WriteEnter
<1>4. ASSUME NEW t \in Thread, Unlock(t) PROVE RW!WriteUnlock(t)
  <2>1. t \in InWrite /\ InWrite' = InWrite \ {t}
    BY <1>0, <1>4 DEF Unlock, InWrite
  <2>2. WaitingWriter' = WaitingWriter /\ InRead' = InRead
    BY <1>0, <1>4 DEF Unlock, InRead, WaitingWriter
  <2>3. QED
    BY <2>1, <2>2 DEF RW!WriteUnlock
<1>5. ASSUME NEW t \in Thread, ReadTest(t) PROVE RW!ReadLock(t)
  <2>1. pc[t] = "rTest" /\ pc' = [pc EXCEPT ![t] = "rOpenCount"]
    BY <1>5 DEF ReadTest
  <2>2. WaitingWriter = {}
    BY <2>1, AbstractState DEF WaitingWriter
  <2>3. InWrite = {}
    BY <1>5, <2>1, FirstReader, AbstractState DEF ReadTest
  <2>4. InRead' = InRead \cup {t} /\ t \notin InRead
    BY <1>0, <2>1 DEF InRead
  <2>5. WaitingWriter' = WaitingWriter /\ InWrite' = InWrite
    BY <1>0, <2>1 DEF WaitingWriter, InWrite
  <2>6. QED
    BY <2>2, <2>3, <2>4, <2>5 DEF RW!ReadLock
<1>6. ASSUME NEW t \in Thread, LeaveDecrement(t) PROVE RW!ReadUnlock(t)
  <2>1. t \in InRead /\ InRead' = InRead \ {t}
    BY <1>0, <1>6 DEF LeaveDecrement, InRead
  <2>2. WaitingWriter' = WaitingWriter /\ InWrite' = InWrite
    BY <1>0, <1>6 DEF LeaveDecrement, InWrite, WaitingWriter
  <2>3. QED
    BY <2>1, <2>2 DEF RW!ReadUnlock
<1>7. ASSUME NEW t \in Thread,
             LockOpenGate(t) \/ ReadGate(t) \/ ReadLockCount(t) \/ ReadIncrement(t)
             \/ ReadOpenCount(t) \/ ReadOpenGate(t)
      PROVE  UNCHANGED Mapped
  BY <1>0, <1>7 DEF Mapped, WaitingWriter, InRead, InWrite, LockOpenGate, ReadGate,
     ReadLockCount, ReadIncrement, ReadOpenCount, ReadOpenGate
<1>8. ASSUME NEW t \in Thread,
             LeaveLockCount(t) \/ LeaveTest(t) \/ LeaveOpenCount(t)
      PROVE  UNCHANGED Mapped
  BY <1>0, <1>8 DEF Mapped, WaitingWriter, InRead, InWrite, LeaveLockCount,
     LeaveTest, LeaveOpenCount
<1>9. QED
  BY <1>1, <1>2, <1>3, <1>4, <1>5, <1>6, <1>7, <1>8 DEF Next, Proceed, RW!RWNext

\* Vector_ts implements the lock that the rest of the controller is modelled
\* with: one writer or many readers, and no overtaking of a waiting writer.
THEOREM Refinement == Spec => ImplementsRWLock
<1>1. Init => RW!RWInit
  BY DEF Init, RW!RWInit, RW!Free, WaitingWriter, InRead, InWrite
<1>2. IInv /\ [Next]_vars => [RW!RWNext]_Mapped
  BY StepRefines
<1>3. QED
  BY <1>1, <1>2, Inductive, PTL DEF Spec, ImplementsRWLock, RW!RWSpec, Mapped

\* No reader is let in while the same writer keeps waiting
\* (the comment of Vector_ts.h:19).
THEOREM NoOvertaking == Spec => WriterNotOvertaken
<1>1. IInv /\ [Next]_vars =>
        [WaitingWriter \cap WaitingWriter' # {} => InRead' \subseteq InRead]_vars
  <2> SUFFICES ASSUME IInv, [Next]_vars, ~ UNCHANGED vars,
                      NEW w \in WaitingWriter \cap WaitingWriter'
               PROVE  InRead' \subseteq InRead
    OBVIOUS
  <2>1. CASE UNCHANGED Mapped
    BY <2>1 DEF Mapped
  <2>2. ASSUME NEW t \in Thread, RW!ReadLock(t) PROVE FALSE
    BY <2>2 DEF RW!ReadLock
  <2>3. ASSUME NEW t \in Thread,
               RW!ReadUnlock(t) \/ RW!WriteWait(t) \/ RW!WriteEnter(t)
               \/ RW!WriteUnlock(t)
        PROVE  InRead' \subseteq InRead
    BY <2>3 DEF RW!ReadUnlock, RW!WriteWait, RW!WriteEnter, RW!WriteUnlock
  <2>4. QED
    BY <2>1, <2>2, <2>3, StepRefines DEF RW!RWNext
<1>2. QED
  BY <1>1, Inductive, PTL DEF Spec, WriterNotOvertaken

=============================================================================
