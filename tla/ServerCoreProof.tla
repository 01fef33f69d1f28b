-------------------------- MODULE ServerCoreProof --------------------------
(***************************************************************************)
(* Proofs about ServerCore, for any numbers of controllers, administrators *)
(* and addresses: the vector of robots never changes under a walk, holds   *)
(* no deleted robot and no robot twice, and the subject of a command stays *)
(* in it.  The vector's lock is the abstract one of RWLock, which VectorTs *)
(* implements.                                                             *)
(***************************************************************************)
EXTENDS ServerCore, FiniteSetTheorems, TLAPS

-----------------------------------------------------------------------------
(* Sequences.                                                              *)

\* Erasing an element moves the later ones forward.
LEMMA EraseShifts ==
  ASSUME NEW S, NEW s \in Seq(S), NEW i \in DOMAIN s
  PROVE  /\ RemoveAt(s, i) \in Seq(S)
         /\ DOMAIN RemoveAt(s, i) = 1..(Len(s) - 1)
         /\ \A j \in 1..(Len(s) - 1) :
              RemoveAt(s, i)[j] = IF j < i THEN s[j] ELSE s[j + 1]
<1>1. i \in 1..Len(s) /\ Len(s) \in Nat
  OBVIOUS
<1> DEFINE front == SubSeq(s, 1, i - 1)
           back  == SubSeq(s, i + 1, Len(s))
<1>2. front \in Seq(S) /\ Len(front) = i - 1 /\ \A j \in 1..(i - 1) : front[j] = s[j]
  BY <1>1
<1>3. back \in Seq(S) /\ Len(back) = Len(s) - i /\ \A j \in 1..(Len(s) - i) : back[j] = s[i + j]
  BY <1>1
<1>4. RemoveAt(s, i) = front \o back
  BY DEF RemoveAt
<1> HIDE DEF front, back
<1>5. /\ front \o back \in Seq(S)
      /\ Len(front \o back) = Len(s) - 1
      /\ \A j \in 1..(Len(s) - 1) :
           (front \o back)[j] = IF j <= i - 1 THEN front[j] ELSE back[j - (i - 1)]
  BY <1>1, <1>2, <1>3
<1>6. ASSUME NEW j \in 1..(Len(s) - 1)
      PROVE  (front \o back)[j] = IF j < i THEN s[j] ELSE s[j + 1]
  <2>1. CASE j < i
    BY <1>1, <1>2, <1>5, <2>1
  <2>2. CASE j >= i
    <3>1. (front \o back)[j] = back[j - (i - 1)]
      BY <1>1, <1>5, <2>2
    <3>2. j - (i - 1) \in 1..(Len(s) - i) /\ i + (j - (i - 1)) = j + 1
      BY <1>1, <2>2
    <3>3. QED
      BY <1>1, <1>3, <2>2, <3>1, <3>2
  <2>3. j < i \/ j >= i
    BY <1>1
  <2>4. QED
    BY <2>1, <2>2, <2>3
<1>7. DOMAIN (front \o back) = 1..(Len(s) - 1)
  BY <1>5
<1>8. QED
  BY <1>4, <1>5, <1>6, <1>7

\* So what was in the vector once is in it once, but for the erased element.
LEMMA EraseKeeps ==
  ASSUME NEW S, NEW s \in Seq(S), NEW i \in DOMAIN s, IsInjective(s)
  PROVE  /\ RemoveAt(s, i) \in Seq(S) /\ IsInjective(RemoveAt(s, i))
         /\ ToSet(RemoveAt(s, i)) = ToSet(s) \ {s[i]}
<1>1. i \in 1..Len(s) /\ Len(s) \in Nat /\ DOMAIN s = 1..Len(s)
  OBVIOUS
<1> DEFINE e == RemoveAt(s, i)
<1>2. /\ e \in Seq(S) /\ DOMAIN e = 1..(Len(s) - 1)
      /\ \A j \in 1..(Len(s) - 1) : e[j] = IF j < i THEN s[j] ELSE s[j + 1]
  BY EraseShifts
<1> HIDE DEF e
<1> DEFINE from(j) == IF j < i THEN j ELSE j + 1
<1>a. ASSUME NEW j \in DOMAIN e
      PROVE  from(j) \in DOMAIN s /\ from(j) # i /\ e[j] = s[from(j)]
  BY <1>1, <1>2
<1>b. \A j, k \in DOMAIN e : from(j) = from(k) => j = k
  BY <1>1, <1>2
<1> HIDE DEF from
<1>3. IsInjective(e)
  BY <1>a, <1>b DEF IsInjective
<1>4. \A j \in DOMAIN e : e[j] \in ToSet(s) \ {s[i]}
  BY <1>a DEF IsInjective, ToSet
<1>5. ASSUME NEW j \in DOMAIN s, j # i PROVE s[j] \in ToSet(e)
  <2>1. CASE j < i
    BY <1>1, <1>2, <2>1 DEF ToSet
  <2>2. CASE j > i
    <3>1. j - 1 \in DOMAIN e /\ e[j - 1] = s[j]
      BY <1>1, <1>2, <2>2
    <3>2. QED
      BY <3>1 DEF ToSet
  <2>3. QED
    BY <1>1, <1>5, <2>1, <2>2
<1>6. ToSet(e) = ToSet(s) \ {s[i]}
  BY <1>4, <1>5 DEF ToSet
<1>7. QED
  BY <1>2, <1>3, <1>6 DEF e

\* push_back adds its argument.
LEMMA PushAdds ==
  ASSUME NEW S, NEW s \in Seq(S), NEW a \in S, IsInjective(s), a \notin ToSet(s)
  PROVE  /\ Append(s, a) \in Seq(S) /\ IsInjective(Append(s, a))
         /\ ToSet(Append(s, a)) = ToSet(s) \cup {a}
<1>1. /\ Append(s, a) \in Seq(S) /\ DOMAIN s = 1..Len(s) /\ Len(s) \in Nat
      /\ DOMAIN Append(s, a) = 1..(Len(s) + 1)
      /\ \A j \in 1..Len(s) : Append(s, a)[j] = s[j]
      /\ Append(s, a)[Len(s) + 1] = a
  OBVIOUS
<1>2. IsInjective(Append(s, a))
  BY <1>1 DEF IsInjective, ToSet
<1>3. ToSet(Append(s, a)) = ToSet(s) \cup {a}
  BY <1>1 DEF ToSet
<1>4. QED
  BY <1>1, <1>2, <1>3

-----------------------------------------------------------------------------
(* The lock of robots: RobotsLocked through each call.                     *)

\* A step of t that does not touch the lock and does not leave its section.
LEMMA Elsewhere ==
  ASSUME TypeInv, RobotsLocked, NEW t \in Thread, NEW to,
         pc' = [pc EXCEPT ![t] = to], robotsLk' = robotsLk,
         Reads(t, pc[t]) <=> Reads(t, to),
         pc[t] = "rGate" <=> to = "rGate", pc[t] = "rWriting" <=> to = "rWriting"
  PROVE  RobotsLocked'
<1>1. \A u \in Thread : pc'[u] = IF u = t THEN to ELSE pc[u]
  BY DEF TypeInv
<1>2. \A u \in Thread : Reads(u, pc[u]) <=> Reads(u, pc'[u])
  BY <1>1
<1>3. \A u \in Thread : /\ pc[u] = "rGate" <=> pc'[u] = "rGate"
                        /\ pc[u] = "rWriting" <=> pc'[u] = "rWriting"
  BY <1>1
<1>4. QED
  BY <1>2, <1>3 DEF RobotsLocked

\* readLock() on robots.
LEMMA EntersAsReader ==
  ASSUME TypeInv, RobotsLocked, NEW t \in Thread, NEW to,
         pc' = [pc EXCEPT ![t] = to], Robots!ReadLock(t),
         Reads(t, to), ~ Reads(t, pc[t]),
         pc[t] \notin {"rGate", "rWriting"}, to \notin {"rGate", "rWriting"}
  PROVE  RobotsLocked'
<1>1. \A u \in Thread : pc'[u] = IF u = t THEN to ELSE pc[u]
  BY DEF TypeInv
<1>2. /\ robotsLk.writing = {} /\ robotsLk' = [robotsLk EXCEPT !.reading = @ \cup {t}]
  BY DEF Robots!ReadLock
<1>3. {u \in Thread : Reads(u, pc'[u])} = {u \in Thread : Reads(u, pc[u])} \cup {t}
  BY <1>1
<1>4. /\ {u \in Thread : pc'[u] = "rGate"} = {u \in Thread : pc[u] = "rGate"}
      /\ {u \in Thread : pc'[u] = "rWriting"} = {u \in Thread : pc[u] = "rWriting"}
  BY <1>1
<1>5. QED
  BY <1>2, <1>3, <1>4 DEF RobotsLocked

\* readUnlock() on robots.
LEMMA LeavesAsReader ==
  ASSUME TypeInv, RobotsLocked, NEW t \in Thread, NEW to,
         pc' = [pc EXCEPT ![t] = to], Robots!ReadUnlock(t),
         ~ Reads(t, to),
         pc[t] \notin {"rGate", "rWriting"}, to \notin {"rGate", "rWriting"}
  PROVE  RobotsLocked'
<1>1. \A u \in Thread : pc'[u] = IF u = t THEN to ELSE pc[u]
  BY DEF TypeInv
<1>2. robotsLk' = [robotsLk EXCEPT !.reading = @ \ {t}] /\ robotsLk.writing = {}
  BY DEF Robots!ReadUnlock, RobotsLocked
<1>3. {u \in Thread : Reads(u, pc'[u])} = {u \in Thread : Reads(u, pc[u])} \ {t}
  BY <1>1
<1>4. /\ {u \in Thread : pc'[u] = "rGate"} = {u \in Thread : pc[u] = "rGate"}
      /\ {u \in Thread : pc'[u] = "rWriting"} = {u \in Thread : pc[u] = "rWriting"}
  BY <1>1
<1>5. QED
  BY <1>2, <1>3, <1>4 DEF RobotsLocked

\* lock() on robots: its first half,
LEMMA WaitsAsWriter ==
  ASSUME TypeInv, RobotsLocked, NEW t \in Thread,
         pc' = [pc EXCEPT ![t] = "rGate"], Robots!WriteWait(t),
         pc[t] # "rWriting", ~ Reads(t, pc[t])
  PROVE  RobotsLocked'
<1>1. \A u \in Thread : pc'[u] = IF u = t THEN "rGate" ELSE pc[u]
  BY DEF TypeInv
<1>2. robotsLk.waiting = {} /\ robotsLk' = [robotsLk EXCEPT !.waiting = {t}]
  BY DEF Robots!WriteWait
<1>3. ~ Reads(t, "rGate")
  BY DEF Reads
<1>4. /\ {u \in Thread : Reads(u, pc'[u])} = {u \in Thread : Reads(u, pc[u])}
      /\ {u \in Thread : pc'[u] = "rGate"} = {u \in Thread : pc[u] = "rGate"} \cup {t}
      /\ {u \in Thread : pc'[u] = "rWriting"} = {u \in Thread : pc[u] = "rWriting"}
  BY <1>1, <1>3
<1>5. QED
  BY <1>2, <1>4 DEF RobotsLocked

\* and its second.
LEMMA EntersAsWriter ==
  ASSUME TypeInv, RobotsLocked, NEW t \in Thread,
         pc' = [pc EXCEPT ![t] = "rWriting"], Robots!WriteEnter(t), pc[t] = "rGate"
  PROVE  RobotsLocked'
<1>1. \A u \in Thread : pc'[u] = IF u = t THEN "rWriting" ELSE pc[u]
  BY DEF TypeInv
<1>2. /\ robotsLk.reading = {} /\ robotsLk.writing = {} /\ t \in robotsLk.waiting
      /\ robotsLk' = [waiting |-> {}, reading |-> {}, writing |-> {t}]
  BY DEF Robots!WriteEnter
<1>3. ~ Reads(t, "rWriting")
  BY DEF Reads
<1>4. \A u \in Thread : pc[u] = "rGate" => u = t
  BY DEF RobotsLocked
<1>5. /\ {u \in Thread : Reads(u, pc'[u])} = {u \in Thread : Reads(u, pc[u])}
      /\ {u \in Thread : pc'[u] = "rGate"} = {}
      /\ {u \in Thread : pc'[u] = "rWriting"} = {u \in Thread : pc[u] = "rWriting"} \cup {t}
  <2>1. ~ Reads(t, "rGate")
    BY DEF Reads
  <2>2. QED
    BY <1>1, <1>3, <1>4, <2>1
<1>6. QED
  BY <1>2, <1>5 DEF RobotsLocked

\* unlock() on robots.
LEMMA LeavesAsWriter ==
  ASSUME TypeInv, RobotsLocked, NEW t \in Thread, NEW to,
         pc' = [pc EXCEPT ![t] = to], Robots!WriteUnlock(t), pc[t] = "rWriting",
         ~ Reads(t, to), to \notin {"rGate", "rWriting"}
  PROVE  RobotsLocked'
<1>1. \A u \in Thread : pc'[u] = IF u = t THEN to ELSE pc[u]
  BY DEF TypeInv
<1>2. t \in robotsLk.writing /\ robotsLk' = [robotsLk EXCEPT !.writing = @ \ {t}]
  BY DEF Robots!WriteUnlock
<1>3. ~ Reads(t, "rWriting")
  BY DEF Reads
<1>4. /\ {u \in Thread : Reads(u, pc'[u])} = {u \in Thread : Reads(u, pc[u])}
      /\ {u \in Thread : pc'[u] = "rGate"} = {u \in Thread : pc[u] = "rGate"}
      /\ {u \in Thread : pc'[u] = "rWriting"} = {u \in Thread : pc[u] = "rWriting"} \ {t}
  BY <1>1, <1>3
<1>5. QED
  BY <1>2, <1>4 DEF RobotsLocked

\* The lock is at every step where the labels say.
LEMMA StepLocked == TypeInv /\ RobotsLocked /\ [Next]_vars => RobotsLocked'
<1> SUFFICES ASSUME TypeInv, RobotsLocked, [Next]_vars PROVE RobotsLocked'
  OBVIOUS
<1> USE DEF Goto
<1>t. /\ Qos \in Thread /\ Listener \subseteq Thread /\ Admin \subseteq Thread
      /\ \A l \in Listener : l # Qos /\ l \notin Admin
      /\ \A a \in Admin : a # Qos
  BY ServerAssumption DEF Thread
<1>0. CASE UNCHANGED vars
  BY <1>0 DEF vars, locks, RobotsLocked
<1>1. ASSUME NEW t \in Thread, CamsRead(t) PROVE RobotsLocked'
  <2>1. pc[t] = "cams" /\ pc' = [pc EXCEPT ![t] = "camsScan"] /\ Robots!ReadLock(t)
    BY <1>1 DEF CamsRead
  <2>2. Reads(t, "camsScan") /\ ~ Reads(t, "cams")
    BY <1>t DEF Reads
  <2>3. QED
    BY <1>t, <2>1, <2>2, EntersAsReader
<1>2. ASSUME NEW t \in Thread, CamsVisit(t) PROVE RobotsLocked'
  BY <1>2 DEF CamsVisit, locks, RobotsLocked
<1>3. ASSUME NEW t \in Thread, CamsDone(t) PROVE RobotsLocked'
  <2>1. PICK to \in {"idle", "objects", "listen"} : pc[t] = "camsScan" /\ pc' = [pc EXCEPT ![t] = to]
    BY <1>3 DEF CamsDone
  <2>2. QED
    BY <1>3, <2>1, LeavesAsReader DEF CamsDone, Reads
<1>4. ASSUME NEW t \in Thread, ReadObjects(t) PROVE RobotsLocked'
  BY <1>4, Elsewhere DEF ReadObjects, locks, Reads
<1>5. CASE RoundStart \/ RoundObjects \/ RoundEnd
  BY <1>5, <1>t, Elsewhere DEF RoundStart, RoundObjects, RoundEnd, ObjectsOnly, locks, Reads
<1>6. CASE RoundRobots
  <2>1. pc[Qos] = "roundRobots" /\ pc' = [pc EXCEPT ![Qos] = "test"] /\ Robots!ReadLock(Qos)
    BY <1>6 DEF RoundRobots
  <2>2. Reads(Qos, "test") /\ ~ Reads(Qos, "roundRobots")
    BY <1>t DEF Reads
  <2>3. QED
    BY <1>t, <2>1, <2>2, EntersAsReader
<1>7. CASE SkipUsed \/ AddUnused \/ LockRobot \/ AllAdded
  BY <1>7, <1>t, Elsewhere DEF SkipUsed, AddUnused, LockRobot, AllAdded, locks, Reads, RobotsLocked
<1>8. CASE Calc \/ UnlockRobot
  BY <1>8, <1>t, Elsewhere DEF Calc, UnlockRobot, locks, Reads, RobotsLocked
<1>9. CASE RoundLeave
  <2>1. PICK to \in {"roundEnd"} : pc[Qos] = "unlock" /\ pc' = [pc EXCEPT ![Qos] = to]
    BY <1>9 DEF RoundLeave
  <2>2. QED
    BY <1>9, <1>t, <2>1, LeavesAsReader DEF RoundLeave, Reads
<1>10. ASSUME NEW l \in Listener, LockRobots(l) PROVE RobotsLocked'
  <2>1. pc[l] \in {"off", "listen"}
    BY <1>10 DEF LockRobots, Registering
  <2>2. QED
    BY <1>10, <1>t, <2>1, WaitsAsWriter DEF LockRobots, Reads
<1>11. ASSUME NEW l \in Listener, ConnectEmpty(l) \/ UpdateObjects(l) \/ AnnounceObject(l)
       PROVE  RobotsLocked'
  BY <1>11, <1>t, Elsewhere DEF ConnectEmpty, UpdateObjects, AnnounceObject, ObjectsOnly, locks, Reads
<1>12. ASSUME NEW l \in Listener, EnterRobots(l) PROVE RobotsLocked'
  BY <1>12, <1>t, EntersAsWriter DEF EnterRobots
<1>13. ASSUME NEW l \in Listener,
              PushRobot(l) \/ AddRobot(l) \/ RemoveRobot(l) \/ CleanupDone(l)
       PROVE  RobotsLocked'
  BY <1>13, <1>t, LeavesAsWriter DEF PushRobot, AddRobot, RemoveRobot, CleanupDone, Reads
<1>14. ASSUME NEW l \in Listener, DeleteRobot(l) PROVE RobotsLocked'
  BY <1>14 DEF DeleteRobot, locks, RobotsLocked
<1>15. ASSUME NEW l \in Listener, UpdateRobots(l) PROVE RobotsLocked'
  <2>1. pc[l] = "updateRobots" /\ pc' = [pc EXCEPT ![l] = "update"] /\ Robots!ReadLock(l)
    BY <1>15 DEF UpdateRobots
  <2>2. Reads(l, "update") /\ ~ Reads(l, "updateRobots")
    BY <1>t DEF Reads
  <2>3. QED
    BY <1>t, <2>1, <2>2, EntersAsReader
<1>16. ASSUME NEW l \in Listener, UpdateRobot(l) PROVE RobotsLocked'
  <2>1. PICK to \in {"updateEnd"} : pc[l] = "update" /\ pc' = [pc EXCEPT ![l] = to]
    BY <1>16 DEF UpdateRobot
  <2>2. QED
    BY <1>16, <1>t, <2>1, LeavesAsReader DEF UpdateRobot, Reads
<1>17. ASSUME NEW l \in Listener, UpdateEnd(l) \/ SearchObject(l) \/ PushObject(l)
       PROVE  RobotsLocked'
  BY <1>17, <1>t, Elsewhere DEF UpdateEnd, SearchObject, PushObject, ObjectsOnly, locks, Reads
<1>18. ASSUME NEW t \in Thread, LockObjects(t) \/ EnterObjects(t) PROVE RobotsLocked'
  BY <1>18, <1>t, Elsewhere DEF LockObjects, EnterObjects, ObjectsOnly, Reads
<1>19. ASSUME NEW a \in Admin, Command(a) PROVE RobotsLocked'
  <2>1. PICK to \in {"scan", "iWait", "oWait"} : pc[a] = "idle" /\ pc' = [pc EXCEPT ![a] = to]
    BY <1>19 DEF Command
  <2>2. QED
    BY <1>19, <1>t, <2>1, EntersAsReader DEF Command, Reads
<1>20. ASSUME NEW a \in Admin, ScanRobot(a) PROVE RobotsLocked'
  <2>1. CASE UNCHANGED pc
    BY <1>20, <2>1 DEF ScanRobot, locks, RobotsLocked
  <2>2. CASE pc[a] = "scan" /\ pc' = [pc EXCEPT ![a] = "iWait"]
    BY <1>20, <1>t, <2>2, Elsewhere DEF ScanRobot, locks, Reads
  <2>3. QED
    BY <1>20, <2>1, <2>2 DEF ScanRobot
<1>21. ASSUME NEW a \in Admin, NotFound(a) \/ LockInUse(a) \/ EnterInUse(a) PROVE RobotsLocked'
  BY <1>21, <1>t, Elsewhere DEF NotFound, LockInUse, EnterInUse, InUseOnly, locks, Reads
<1>22. ASSUME NEW a \in Admin,
              TakeRobot(a) \/ ReleaseRobot(a) \/ SendCommand(a) \/ EraseObject(a)
       PROVE  RobotsLocked'
  BY <1>22, <1>t, Elsewhere DEF TakeRobot, ReleaseRobot, SendCommand, EraseObject, locks, Reads
<1>23. ASSUME NEW a \in Admin, CommandDone(a) PROVE RobotsLocked'
  <2>1. PICK to \in {"idle"} : pc[a] = "leave" /\ pc' = [pc EXCEPT ![a] = to]
    BY <1>23 DEF CommandDone
  <2>2. QED
    BY <1>23, <1>t, <2>1, LeavesAsReader DEF CommandDone, Reads
<1>24. CASE QosSteps
  BY <1>24, <1>t, <1>1, <1>2, <1>3, <1>4, <1>5, <1>6, <1>7, <1>8, <1>9 DEF QosSteps
<1>25. ASSUME NEW l \in Listener, Arrival(l) \/ ListenerSteps(l) PROVE RobotsLocked'
  BY <1>25, <1>t, <1>1, <1>2, <1>3, <1>4, <1>10, <1>11, <1>12, <1>13, <1>14, <1>15, <1>16,
     <1>17, <1>18 DEF Arrival, ListenerSteps
<1>26. ASSUME NEW a \in Admin, Command(a) \/ AdminSteps(a) PROVE RobotsLocked'
  BY <1>26, <1>t, <1>18, <1>19, <1>20, <1>21, <1>22, <1>23 DEF AdminSteps
<1>27. QED
  BY <1>0, <1>24, <1>25, <1>26 DEF Next

-----------------------------------------------------------------------------
(* The vector of robots.                                                   *)

Changes(l) == PushRobot(l) \/ AddRobot(l) \/ RemoveRobot(l) \/ DeleteRobot(l)

\* Only a listener that registers, removes or cleans up changes what is in
\* robots or at an address.
LEMMA OnlyChanges ==
  [Next]_vars => UNCHANGED <<robots, ident>> \/ \E l \in Listener : Changes(l)
<1> SUFFICES ASSUME [Next]_vars PROVE UNCHANGED <<robots, ident>> \/ \E l \in Listener : Changes(l)
  OBVIOUS
<1> USE DEF data, heap, RobotsOnly, ObjectsOnly, InUseOnly
<1>0. CASE UNCHANGED vars
  BY <1>0 DEF vars
<1>1. ASSUME NEW t \in Thread, CamsRead(t) \/ CamsVisit(t) \/ CamsDone(t) \/ ReadObjects(t)
                               \/ LockObjects(t) \/ EnterObjects(t)
      PROVE  UNCHANGED <<robots, ident>>
  BY <1>1 DEF CamsRead, CamsVisit, CamsDone, ReadObjects, LockObjects, EnterObjects
<1>2. CASE RoundStart \/ RoundObjects \/ RoundRobots \/ RoundLeave \/ RoundEnd \/ Calc
  BY <1>2 DEF RoundStart, RoundObjects, RoundRobots, RoundLeave, RoundEnd, Calc
<1>3. CASE SkipUsed \/ AddUnused \/ LockRobot \/ AllAdded \/ UnlockRobot
  BY <1>3 DEF SkipUsed, AddUnused, LockRobot, AllAdded, UnlockRobot
<1>4. ASSUME NEW l \in Listener, Arrival(l) PROVE UNCHANGED <<robots, ident>>
  BY <1>4 DEF Arrival, LockRobots, ConnectEmpty, UpdateObjects, AnnounceObject
<1>5. ASSUME NEW l \in Listener,
             EnterRobots(l) \/ CleanupDone(l) \/ UpdateRobots(l) \/ UpdateRobot(l)
             \/ UpdateEnd(l) \/ SearchObject(l) \/ PushObject(l)
      PROVE  UNCHANGED <<robots, ident>>
  BY <1>5 DEF EnterRobots, CleanupDone, UpdateRobots, UpdateRobot, UpdateEnd, SearchObject, PushObject
<1>6. ASSUME NEW a \in Admin,
             Command(a) \/ ScanRobot(a) \/ NotFound(a) \/ LockInUse(a) \/ EnterInUse(a)
             \/ TakeRobot(a) \/ ReleaseRobot(a) \/ SendCommand(a) \/ CommandDone(a)
             \/ EraseObject(a)
      PROVE  UNCHANGED <<robots, ident>>
  BY <1>6 DEF Command, ScanRobot, NotFound, LockInUse, EnterInUse, TakeRobot, ReleaseRobot,
     SendCommand, CommandDone, EraseObject
<1>7. QED
  BY <1>0, <1>1, <1>2, <1>3, <1>4, <1>5, <1>6
     DEF Next, QosSteps, ListenerSteps, AdminSteps, Changes, Thread

\* Who changes robots writes it, so nobody reads it.
LEMMA ChangesAlone ==
  ASSUME RobotsLocked, NEW l \in Listener, Changes(l)
  PROVE  /\ pc[l] = "rWriting"
         /\ robotsLk.reading = {} /\ robotsLk.writing # {}
<1>1. pc[l] = "rWriting"
  BY DEF Changes, PushRobot, AddRobot, RemoveRobot, DeleteRobot, Goto
<1>2. QED
  BY <1>1 DEF RobotsLocked, Thread

\* What the properties say of positions, said of addresses.
LEMMA ByAddress ==
  ASSUME NEW v, NEW id, IsInjective(v)
  PROVE  /\ (\A i, j \in DOMAIN v : id[v[i]] = id[v[j]] => i = j)
              <=> (\A a, b \in ToSet(v) : id[a] = id[b] => a = b)
         /\ \A l : {i \in DOMAIN v : id[v[i]] # Freed /\ id[v[i]].conn = l} = {}
              <=> \A a \in ToSet(v) : id[a] # Freed => id[a].conn # l
  BY DEF IsInjective, ToSet

Ids == [conn : Listener, rid : RID]

\* What RobotsLive and UniqueRobots say, of a vector and the identities.
Sound(v, id) ==
  /\ v \in Seq(Address) /\ id \in [Address -> Ids \cup {Freed}]
  /\ IsInjective(v) /\ \A a \in ToSet(v) : id[a] # Freed
  /\ \A a, b \in ToSet(v) : id[a] = id[b] => a = b

\* The invariants are that, before a step,
LEMMA SoundInv == TypeInv /\ RobotsLive /\ UniqueRobots => Sound(robots, ident)
  BY ByAddress DEF TypeInv, RobotsLive, UniqueRobots, Registered, Sound, Ids

\* and after it.
LEMMA SoundInvNext ==
  Sound(robots, ident)' => RobotsLive' /\ UniqueRobots' /\ robots' \in Seq(Address)
                           /\ ident' \in [Address -> Ids \cup {Freed}]
  BY ByAddress DEF RobotsLive, UniqueRobots, Registered, Sound

\* A new robot whose identity no other has, as Push adds it.
LEMMA SoundPush ==
  ASSUME TypeInv, RobotsLive, UniqueRobots, NEW l \in Listener, NEW a \in Address,
         Push(l, a), job[l].key \in RID,
         \A b \in Registered : ident[b] # [conn |-> l, rid |-> job[l].key]
  PROVE  /\ Sound(robots, ident)'
         /\ \A m \in Listener \ {l} : RobotsOf(m) = {} => RobotsOf(m)' = {}
<1> DEFINE me == [conn |-> l, rid |-> job[l].key]
<1>1. Sound(robots, ident)
  BY SoundInv
<1>2. /\ ident[a] = Freed /\ ident' = [ident EXCEPT ![a] = me] /\ robots' = Append(robots, a)
      /\ me \in Ids /\ me # Freed
  BY ServerAssumption DEF Push, Ids
<1>3. a \notin Registered
  BY <1>1, <1>2 DEF Sound, Registered
<1>4. /\ robots' \in Seq(Address) /\ IsInjective(robots') /\ Registered' = Registered \cup {a}
  BY <1>1, <1>2, <1>3, PushAdds DEF Sound, Registered
<1>5. /\ ident' \in [Address -> Ids \cup {Freed}] /\ ident'[a] = me
      /\ \A b \in Registered : ident'[b] = ident[b]
  BY <1>1, <1>2, <1>3 DEF Sound
<1> HIDE DEF me
<1>6. \A b \in Registered : ident[b] # me /\ ident[b] # Freed
  BY <1>1 DEF Sound, Registered, me
<1>7. Sound(robots, ident)'
  BY <1>1, <1>2, <1>4, <1>5, <1>6 DEF Sound, Registered
<1>8. ASSUME NEW m \in Listener \ {l}, RobotsOf(m) = {} PROVE RobotsOf(m)' = {}
  <2>1. \A b \in Registered : ident[b].conn # m
    BY <1>1, <1>8, ByAddress DEF RobotsOf, Sound, Registered
  <2>2. me.conn = l
    BY DEF me
  <2>3. \A b \in Registered' : ident'[b].conn # m
    BY <1>4, <1>5, <1>8, <2>1, <2>2
  <2>4. QED
    BY <1>4, <2>3, ByAddress DEF RobotsOf, Registered
<1>9. QED
  BY <1>7, <1>8

\* RemoveAt and the destructor take one robot away and leave the others alone.
LEMMA SoundErase ==
  ASSUME TypeInv, RobotsLive, UniqueRobots, NEW i \in DOMAIN robots,
         robots' = RemoveAt(robots, i),
         ident' = ident \/ ident' = [ident EXCEPT ![robots[i]] = Freed]
  PROVE  /\ Sound(robots, ident)'
         /\ \A m \in Listener : RobotsOf(m) = {} => RobotsOf(m)' = {}
<1>1. Sound(robots, ident)
  BY SoundInv
<1> DEFINE x == robots[i]
<1>2. /\ robots' \in Seq(Address) /\ IsInjective(robots')
      /\ ToSet(robots') = ToSet(robots) \ {x}
  BY <1>1, EraseKeeps DEF Sound
<1>3. /\ x \in Address /\ ToSet(robots) \subseteq Address
  BY <1>1 DEF Sound, ToSet
<1> HIDE DEF x
<1>4. /\ ident' \in [Address -> Ids \cup {Freed}]
      /\ \A b \in ToSet(robots') : b \in ToSet(robots) /\ ident'[b] = ident[b]
  <2>1. ident' = ident \/ ident' = [ident EXCEPT ![x] = Freed]
    BY DEF x
  <2>2. ident \in [Address -> Ids \cup {Freed}]
    BY <1>1 DEF Sound
  <2>3. \A b \in ToSet(robots') : b \in ToSet(robots) /\ b # x /\ b \in Address
    BY <1>2, <1>3
  <2>4. QED
    BY <2>1, <2>2, <2>3, <1>3
<1>5. /\ \A a \in ToSet(robots') : ident'[a] # Freed
      /\ \A a, b \in ToSet(robots') : ident'[a] = ident'[b] => a = b
  BY <1>1, <1>4 DEF Sound
<1>6. Sound(robots, ident)'
  BY <1>2, <1>4, <1>5 DEF Sound
<1>7. ASSUME NEW m \in Listener, RobotsOf(m) = {} PROVE RobotsOf(m)' = {}
  <2>1. \A b \in ToSet(robots) : ident[b] # Freed => ident[b].conn # m
    BY <1>7, <1>1, ByAddress DEF RobotsOf, Sound
  <2>2. \A b \in ToSet(robots') : ident'[b] # Freed => ident'[b].conn # m
    BY <1>4, <2>1
  <2>3. QED
    BY <2>2, <1>2, ByAddress DEF RobotsOf
<1>8. QED
  BY <1>6, <1>7

\* A connection without a robot of that RID has none with that identity.
LEMMA NotThere ==
  ASSUME NEW l, NEW k, RobotsOf(l) = {} \/ RobotAt(l, k) = {}
  PROVE  \A b \in Registered : ident[b] # Freed => ident[b] # [conn |-> l, rid |-> k]
<1>1. RobotAt(l, k) = {}
  BY DEF RobotAt
<1> SUFFICES ASSUME NEW i \in DOMAIN robots, ident[robots[i]] # Freed,
                    ident[robots[i]] = [conn |-> l, rid |-> k]
             PROVE  FALSE
  BY DEF Registered, ToSet
<1>2. i \in RobotAt(l, k)
  BY DEF RobotAt, RobotsOf
<1>3. QED
  BY <1>1, <1>2

\* Whatever a listener does to robots, they stay sound, and it gives no other
\* connection a robot.
LEMMA ChangeSound ==
  ASSUME IInv, NEW l \in Listener, Changes(l)
  PROVE  /\ Sound(robots, ident)'
         /\ \A m \in Listener \ {l} : RobotsOf(m) = {} => RobotsOf(m)' = {}
<1> USE DEF IInv
<1>0. \A b \in Registered : ident[b] # Freed
  BY DEF RobotsLive
<1>1. CASE PushRobot(l)
  <2>1. PICK a \in Address : Push(l, a)
    BY <1>1 DEF PushRobot
  <2>2. job[l].what = "connect" /\ pc[l] = "rWriting"
    BY <1>1 DEF PushRobot, Goto
  <2>3. RobotsOf(l) = {} /\ job[l].key \in RID
    BY <2>2 DEF FreshConnections, Fresh, TypeInv
  <2>4. \A b \in Registered : ident[b] # [conn |-> l, rid |-> job[l].key]
    BY <1>0, <2>3, NotThere
  <2>5. QED
    BY <2>1, <2>3, <2>4, SoundPush
<1>2. CASE AddRobot(l)
  <2>1. CASE RobotAt(l, job[l].key) = {}
    <3>1. PICK a \in Address : Push(l, a)
      BY <1>2, <2>1 DEF AddRobot
    <3>2. job[l].key \in RID
      BY <1>2 DEF AddRobot, TypeInv
    <3>3. \A b \in Registered : ident[b] # [conn |-> l, rid |-> job[l].key]
      BY <1>0, <2>1, NotThere
    <3>4. QED
      BY <3>1, <3>2, <3>3, SoundPush
  <2>2. CASE RobotAt(l, job[l].key) # {}
    <3>1. robots' = robots /\ ident' = ident
      BY <1>2, <2>2 DEF AddRobot, heap
    <3>2. QED
      BY <3>1, SoundInv DEF RobotsOf, Sound
  <2>3. QED
    BY <2>1, <2>2
<1>3. CASE RemoveRobot(l)
  <2>1. ident' = ident /\ Erase(robots, RobotAt(l, job[l].key))
    BY <1>3 DEF RemoveRobot, heap
  <2>2. CASE robots' = robots
    BY <2>1, <2>2, SoundInv DEF RobotsOf, Sound
  <2>3. ASSUME NEW i \in First(RobotAt(l, job[l].key)), robots' = RemoveAt(robots, i)
        PROVE  /\ Sound(robots, ident)'
               /\ \A m \in Listener : RobotsOf(m) = {} => RobotsOf(m)' = {}
    <3>1. i \in DOMAIN robots
      BY DEF First, RobotAt, RobotsOf
    <3>2. QED
      BY <2>1, <2>3, <3>1, SoundErase
  <2>4. QED
    BY <2>1, <2>2, <2>3 DEF Erase
<1>4. CASE DeleteRobot(l)
  <2>1. PICK i \in First(RobotsOf(l)) :
          ident' = [ident EXCEPT ![robots[i]] = Freed] /\ robots' = RemoveAt(robots, i)
    BY <1>4 DEF DeleteRobot
  <2>2. i \in DOMAIN robots
    BY DEF First, RobotsOf
  <2>3. QED
    BY <2>1, <2>2, SoundErase
<1>5. QED
  BY <1>1, <1>2, <1>3, <1>4 DEF Changes

-----------------------------------------------------------------------------
(* Where a step takes the threads.                                         *)

\* Only a connection without robots becomes a fresh one, and only a robot that
\* is registered becomes the subject of a command.
Moves ==
  /\ DOMAIN pc' = Thread /\ DOMAIN job' = Thread /\ DOMAIN at' = Thread
  /\ \A l \in Listener : job'[l].what \in {"connect", "init"} => job'[l].key \in RID
  /\ \A a \in Admin : pc'[a] \in {"oWait", "oGate", "oWriting"} => job'[a].what = "DEL_OBJ"
  /\ \A l \in Listener : Fresh(l)' => Fresh(l) \/ RobotsOf(l) = {}
  /\ \A a \in Admin : HasSubject(a)' =>
       (HasSubject(a) /\ job'[a].key = job[a].key) \/ job'[a].key \in Registered

\* What a step of one thread has to show.
Moved(t, to, j) ==
  /\ pc' = [pc EXCEPT ![t] = to]
  /\ DOMAIN job' = Thread /\ \A u \in Thread : job'[u] = IF u = t THEN j ELSE job[u]
  /\ DOMAIN at' = Thread
  /\ t \in Listener /\ j.what \in {"connect", "init"} => j.key \in RID
  /\ t \in Listener /\ (to = "off" \/ (j.what = "connect" /\ to \in {"rGate", "rWriting"}))
       => Fresh(t) \/ RobotsOf(t) = {}
  /\ t \in Admin /\ to \in {"oWait", "oGate", "oWriting"} => j.what = "DEL_OBJ"
  /\ t \in Admin /\ j.what = "FWD" /\ to \in {"iWait", "iGate", "iWriting", "send"}
       => (HasSubject(t) /\ j.key = job[t].key) \/ j.key \in Registered

\* One thread moved, all threads are where they may be.
LEMMA OneMoves ==
  ASSUME TypeInv, NEW t \in Thread, NEW to, NEW j, Moved(t, to, j)
  PROVE  Moves
<1>1. DOMAIN pc' = Thread /\ \A u \in Thread : pc'[u] = IF u = t THEN to ELSE pc[u]
  BY DEF TypeInv, Moved
<1>2. \A u \in Thread : job'[u] = IF u = t THEN j ELSE job[u]
  BY DEF Moved
<1>3. Listener \subseteq Thread /\ Admin \subseteq Thread
  BY DEF Thread
<1>4. \A l \in Listener : job'[l].what \in {"connect", "init"} => job'[l].key \in RID
  BY <1>2, <1>3 DEF TypeInv, Moved
<1>5. \A l \in Listener : Fresh(l)' => Fresh(l) \/ RobotsOf(l) = {}
  BY <1>1, <1>2, <1>3 DEF Fresh, Moved
<1>6. \A a \in Admin : HasSubject(a)' =>
        (HasSubject(a) /\ job'[a].key = job[a].key) \/ job'[a].key \in Registered
  BY <1>1, <1>2, <1>3 DEF HasSubject, Moved
<1>7. \A a \in Admin : pc'[a] \in {"oWait", "oGate", "oWriting"} => job'[a].what = "DEL_OBJ"
  BY <1>1, <1>2, <1>3 DEF TypeInv, Moved
<1>8. QED
  BY <1>1, <1>4, <1>5, <1>6, <1>7 DEF Moves, Moved

\* Every step does: the walks and the steps of the QoS thread,
LEMMA QosMoves ==
  ASSUME TypeInv, NEW t \in Thread,
         \/ CamsRead(t) \/ CamsVisit(t) \/ CamsDone(t) \/ ReadObjects(t)
         \/ LockObjects(t) \/ EnterObjects(t)
         \/ t = Qos /\ QosSteps
  PROVE  Moves
<1> USE DEF Goto
<1>q. Qos \notin Listener /\ Qos \notin Admin /\ Idle.what = "none"
  BY ServerAssumption DEF Idle, Job
<1>1. ASSUME CamsRead(t) \/ LockObjects(t) \/ EnterObjects(t) PROVE Moves
  <2>1. \E to \in {"camsScan", "oGate", "oWriting"} : Moved(t, to, job[t])
    BY <1>1 DEF CamsRead, LockObjects, EnterObjects, Moved, TypeInv
  <2>2. QED
    BY <2>1, OneMoves
<1>2. ASSUME CamsVisit(t) PROVE Moves
  BY <1>2 DEF CamsVisit, Advance, Moves, Fresh, HasSubject, TypeInv
<1>3. ASSUME CamsDone(t) PROVE Moves
  <2>1. PICK to \in {"idle", "objects", "listen"} :
          /\ pc' = [pc EXCEPT ![t] = to] /\ Restart(t)
          /\ IF to = "objects" THEN UNCHANGED job ELSE Finish(t)
    BY <1>3 DEF CamsDone
  <2>2. Moved(t, to, IF to = "objects" THEN job[t] ELSE Idle)
    BY <1>q, <2>1 DEF Finish, Take, Restart, Moved, TypeInv
  <2>3. QED
    BY <2>2, OneMoves
<1>4. ASSUME ReadObjects(t) PROVE Moves
  <2>1. \E to \in {"roundObjects", "listen"} : Moved(t, to, Idle)
    BY <1>4, <1>q DEF ReadObjects, Finish, Take, Moved, TypeInv
  <2>2. QED
    BY <2>1, OneMoves
<1>5. ASSUME t = Qos,
             \/ RoundStart \/ RoundObjects \/ RoundRobots \/ RoundEnd \/ AllAdded
             \/ RoundLeave \/ AddUnused \/ LockRobot \/ Calc
      PROVE  Moves
  <2>1. \E to \in {"cams", "roundRobots", "test", "idle", "calc", "roundEnd", "crashed", "lock", "unlock"} :
          Moved(Qos, to, job[Qos])
    BY <1>5, <1>q DEF RoundStart, RoundObjects, RoundRobots, RoundEnd, AllAdded, RoundLeave,
       AddUnused, LockRobot, Calc, Restart, Advance, Moved, TypeInv
  <2>2. QED
    BY <1>5, <2>1, OneMoves
<1>6. ASSUME SkipUsed \/ UnlockRobot PROVE Moves
  BY <1>6 DEF SkipUsed, UnlockRobot, Advance, Moves, Fresh, HasSubject, TypeInv
<1>7. QED
  BY <1>1, <1>2, <1>3, <1>4, <1>5, <1>6 DEF QosSteps

\* those of a listener,
LEMMA ListenerMoves ==
  ASSUME TypeInv, NEW l \in Listener, Arrival(l) \/ ListenerSteps(l)
  PROVE  Moves
<1> USE DEF Goto
<1>l. l \in Thread /\ l \notin Admin /\ Idle.what = "none"
  BY ServerAssumption DEF Thread, Idle, Job
<1>1. ASSUME LockRobots(l) PROVE Moves
  <2>1. ASSUME NEW what, NEW k, Take(l, Job(what, k)),
               what \in {"connect", "init"} => k \in RID, what = "connect" => pc[l] = "off"
        PROVE  Moved(l, "rGate", Job(what, k))
    <3>1. pc' = [pc EXCEPT ![l] = "rGate"] /\ at' = at
      BY <1>1 DEF LockRobots
    <3>2. what = "connect" => Fresh(l)
      BY <2>1 DEF Fresh
    <3>3. Job(what, k).what = what /\ Job(what, k).key = k
      BY DEF Job
    <3>4. QED
      BY <1>l, <2>1, <3>1, <3>2, <3>3 DEF Take, Moved, TypeInv
  <2>2. \E what, k : Moved(l, "rGate", Job(what, k))
    <3>1. ASSUME NEW k \in RID, Take(l, Job("connect", k)), pc[l] = "off"
          PROVE  Moved(l, "rGate", Job("connect", k))
      BY <2>1, <3>1
    <3>2. ASSUME NEW k \in RID, Take(l, Job("init", k)) PROVE Moved(l, "rGate", Job("init", k))
      BY <2>1, <3>2
    <3>3. ASSUME NEW k, Take(l, Job("rm", k)) PROVE Moved(l, "rGate", Job("rm", k))
      BY <2>1, <3>3
    <3>4. ASSUME NEW k, Take(l, Job("cleanup", k)) PROVE Moved(l, "rGate", Job("cleanup", k))
      BY <2>1, <3>4
    <3>5. QED
      BY <1>1, <3>1, <3>2, <3>3, <3>4 DEF LockRobots, Registering
  <2>3. QED
    BY <1>l, <2>2, OneMoves
<1>2. ASSUME \/ ConnectEmpty(l) \/ EnterRobots(l) \/ PushRobot(l) \/ AddRobot(l)
             \/ UpdateRobots(l) \/ UpdateRobot(l)
      PROVE  Moves
  <2>1. \E to \in {"objects", "rWriting", "cams", "update", "updateEnd"} : Moved(l, to, job[l])
    BY <1>2, <1>l DEF ConnectEmpty, EnterRobots, PushRobot, AddRobot, UpdateRobots, UpdateRobot, Fresh, Moved, TypeInv
  <2>2. QED
    BY <1>l, <2>1, OneMoves
<1>3. ASSUME UpdateObjects(l) \/ AnnounceObject(l) PROVE Moves
  <2>1. ASSUME NEW what \in {"update", "object"}, NEW k, Take(l, Job(what, k)),
               NEW to \in {"updateRobots", "search"}, pc' = [pc EXCEPT ![l] = to], at' = at
        PROVE  Moved(l, to, Job(what, k))
    BY <1>l, <2>1 DEF Take, Job, Moved, TypeInv
  <2>2. \E what, k, to : Moved(l, to, Job(what, k))
    BY <1>3, <2>1 DEF UpdateObjects, AnnounceObject
  <2>3. QED
    BY <1>l, <2>2, OneMoves
<1>4. ASSUME RemoveRobot(l) \/ CleanupDone(l) \/ UpdateEnd(l) \/ PushObject(l) PROVE Moves
  <2>1. \E to \in {"listen", "off"} : Moved(l, to, Idle)
    BY <1>4, <1>l DEF RemoveRobot, CleanupDone, UpdateEnd, PushObject, Finish, Take, Moved, TypeInv
  <2>2. QED
    BY <1>l, <2>1, OneMoves
<1>5. ASSUME DeleteRobot(l) PROVE Moves
  BY <1>5 DEF DeleteRobot, Moves, Fresh, HasSubject, TypeInv
<1>6. ASSUME SearchObject(l) PROVE Moves
  <2>1. \E to \in {"listen", "oWait", "crashed"}, j \in {Idle, job[l]} : Moved(l, to, j)
    BY <1>6, <1>l DEF SearchObject, Finish, Take, Moved, TypeInv
  <2>2. QED
    BY <1>l, <2>1, OneMoves
<1>7. QED
  BY <1>l, <1>1, <1>2, <1>3, <1>4, <1>5, <1>6, QosMoves DEF Arrival, ListenerSteps

\* and those of an administrator.
LEMMA AdminMoves ==
  ASSUME TypeInv, NEW a \in Admin, Command(a) \/ AdminSteps(a)
  PROVE  Moves
<1> USE DEF Goto
<1>a. a \in Thread /\ a \notin Listener /\ Idle.what = "none"
  BY ServerAssumption DEF Thread, Idle, Job
<1>1. ASSUME Command(a) PROVE Moves
  <2>1. ASSUME NEW what \in {"FWD", "RLS_RBT", "DEL_OBJ"}, NEW k, Take(a, Job(what, k)),
               NEW to \in {"scan", "iWait", "oWait"}, pc' = [pc EXCEPT ![a] = to], at' = at,
               what = "FWD" => to = "scan", to = "oWait" => what = "DEL_OBJ"
        PROVE  Moved(a, to, Job(what, k))
    BY <1>a, <2>1 DEF Take, Job, Moved, TypeInv
  <2>2. \E what, k, to : Moved(a, to, Job(what, k))
    BY <1>1, <2>1 DEF Command
  <2>3. QED
    BY <1>a, <2>2, OneMoves
<1>2. ASSUME ScanRobot(a) PROVE Moves
  <2>1. CASE UNCHANGED pc /\ Advance(a) /\ UNCHANGED job
    BY <2>1 DEF Advance, Moves, Fresh, HasSubject, TypeInv
  <2>2. CASE /\ pc' = [pc EXCEPT ![a] = "iWait"] /\ Restart(a) /\ UNCHANGED job
             /\ at[a] \in DOMAIN robots /\ robots[at[a]] = job[a].key
    <3>1. job[a].key \in Registered
      BY <2>2 DEF Registered, ToSet
    <3>2. Moved(a, "iWait", job[a])
      BY <1>a, <2>2, <3>1 DEF Restart, Moved, TypeInv
    <3>3. QED
      BY <1>a, <3>2, OneMoves
  <2>3. QED
    BY <1>2, <2>1, <2>2 DEF ScanRobot
<1>3. ASSUME \/ NotFound(a) \/ LockInUse(a) \/ EnterInUse(a) \/ TakeRobot(a)
             \/ ReleaseRobot(a) \/ SendCommand(a)
      PROVE  Moves
  <2>1. \E to \in {"leave", "iGate", "iWriting", "send"} : Moved(a, to, job[a])
    BY <1>3, <1>a DEF NotFound, LockInUse, EnterInUse, TakeRobot, ReleaseRobot, SendCommand,
       Restart, HasSubject, Moved, TypeInv
  <2>2. QED
    BY <1>a, <2>1, OneMoves
<1>4. ASSUME EraseObject(a) PROVE Moves
  <2>1. Moved(a, "send", job[a])
    BY <1>4, <1>a DEF EraseObject, Moved, TypeInv
  <2>2. QED
    BY <1>a, <2>1, OneMoves
<1>5. ASSUME CommandDone(a) PROVE Moves
  <2>1. Moved(a, "idle", Idle)
    BY <1>5, <1>a DEF CommandDone, Finish, Take, Moved, TypeInv
  <2>2. QED
    BY <1>a, <2>1, OneMoves
<1>6. QED
  BY <1>a, <1>1, <1>2, <1>3, <1>4, <1>5, QosMoves DEF AdminSteps

\* So every step does.
LEMMA StepMoves == TypeInv /\ [Next]_vars => Moves
<1> SUFFICES ASSUME TypeInv, [Next]_vars PROVE Moves
  OBVIOUS
<1>1. CASE UNCHANGED vars
  BY <1>1 DEF vars, TypeInv, Moves, Fresh, HasSubject
<1>2. CASE QosSteps
  BY <1>2, QosMoves DEF Thread
<1>3. QED
  BY <1>1, <1>2, ListenerMoves, AdminMoves DEF Next


-----------------------------------------------------------------------------
(* The theorems.                                                           *)

\* At the start nothing is registered, locked or under way.
LEMMA InitIInv == Init => IInv
<1> SUFFICES ASSUME Init PROVE IInv
  OBVIOUS
<1>1. robots = <<>> /\ Registered = {}
  BY DEF Init, Registered, ToSet
<1>2. /\ DOMAIN pc = Thread /\ DOMAIN job = Thread /\ DOMAIN at = Thread
      /\ \A t \in Thread : pc[t] \in {"off", "idle"} /\ job[t].what = "none"
  BY DEF Init, Idle, Job
<1>3. Listener \subseteq Thread /\ Admin \subseteq Thread
  BY DEF Thread
<1>4. TypeInv
  BY <1>1, <1>2, <1>3 DEF Init, TypeInv
<1>5. RobotsLocked
  <2>1. robotsLk = [waiting |-> {}, reading |-> {}, writing |-> {}]
    BY DEF Init, Robots!Free
  <2>2. \A t \in Thread : ~ Reads(t, pc[t])
    BY <1>2 DEF Reads
  <2>3. QED
    BY <1>2, <2>1, <2>2 DEF RobotsLocked
<1>6. RobotsLive /\ UniqueRobots /\ FreshConnections
  BY <1>1 DEF RobotsLive, UniqueRobots, FreshConnections, RobotsOf, IsInjective
<1>7. SubjectLive
  BY <1>2, <1>3 DEF SubjectLive, HasSubject
<1>8. QED
  BY <1>4, <1>5, <1>6, <1>7 DEF IInv

\* Every step keeps the invariant.
LEMMA StepIInv == IInv /\ [Next]_vars => IInv'
<1> SUFFICES ASSUME IInv, [Next]_vars PROVE IInv'
  OBVIOUS
<1>1. Moves /\ RobotsLocked'
  BY StepMoves, StepLocked DEF IInv
<1>2. CASE UNCHANGED <<robots, ident>>
  <2>1. TypeInv'
    BY <1>1, <1>2 DEF IInv, TypeInv, Moves
  <2>2. RobotsLive' /\ UniqueRobots'
    BY <1>2 DEF IInv, RobotsLive, UniqueRobots, Registered
  <2>3. FreshConnections'
    BY <1>1, <1>2 DEF IInv, FreshConnections, Moves, RobotsOf
  <2>4. SubjectLive'
    BY <1>1, <1>2 DEF IInv, SubjectLive, Moves, Registered
  <2>5. QED
    BY <1>1, <2>1, <2>2, <2>3, <2>4 DEF IInv
<1>3. ASSUME NEW l \in Listener, Changes(l) PROVE IInv'
  <2>1. Sound(robots, ident)' /\ \A m \in Listener \ {l} : RobotsOf(m) = {} => RobotsOf(m)' = {}
    BY <1>3, ChangeSound
  <2>2. /\ RobotsLive' /\ UniqueRobots' /\ robots' \in Seq(Address)
        /\ ident' \in [Address -> Ids \cup {Freed}]
    BY <2>1, SoundInvNext
  <2>3. TypeInv'
    BY <1>1, <2>2 DEF TypeInv, Moves, Ids
  <2>4. ~ Fresh(l)'
    BY <1>3 DEF Changes, PushRobot, AddRobot, RemoveRobot, DeleteRobot, Goto, Fresh, IInv, TypeInv, Thread
  <2>5. FreshConnections'
    BY <1>1, <2>1, <2>4 DEF IInv, FreshConnections, Moves
  <2>6. SubjectLive'
    <3>1. robotsLk.reading = {} /\ pc[l] = "rWriting"
      BY <1>3, ChangesAlone DEF IInv
    <3>2. \A a \in Admin : ~ HasSubject(a)
      BY <3>1 DEF IInv, RobotsLocked, Reads, HasSubject, Thread
    <3>3. \A a \in Admin : pc'[a] = pc[a] /\ job'[a] = job[a]
      BY <1>3, ServerAssumption DEF Changes, PushRobot, AddRobot, RemoveRobot, DeleteRobot, Goto,
         Finish, Take, IInv, TypeInv, Thread
    <3>4. QED
      BY <3>2, <3>3 DEF SubjectLive, HasSubject
  <2>7. QED
    BY <1>1, <2>2, <2>3, <2>5, <2>6 DEF IInv
<1>4. QED
  BY <1>2, <1>3, OnlyChanges

\* The invariant of the threads that share robots: the lock of the vector is
\* where their labels say, and no thread meets a deleted robot.
THEOREM Inductive == Spec => []IInv
  BY InitIInv, StepIInv, PTL DEF Spec

\* cleanupConn, P_ROBOT_RM and the announcements leave robots without a pointer
\* to a deleted Robot and without one pointer twice.
THEOREM NoDeletedRobot == Spec => []RobotsLive
<1>1. IInv => RobotsLive
  BY DEF IInv
<1>2. QED
  BY <1>1, Inductive, PTL

\* No two registered robots share endpoint and RID, for any interleaving of
\* connections, INIT, RM and cleanupConn.
THEOREM NoDuplicateRobot == Spec => []UniqueRobots
<1>1. IInv => UniqueRobots
  BY DEF IInv
<1>2. QED
  BY <1>1, Inductive, PTL

\* An administrator's command is sent while its robot is registered.
THEOREM SubjectStays == Spec => []SubjectLive
<1>1. IInv => SubjectLive
  BY DEF IInv
<1>2. QED
  BY <1>1, Inductive, PTL

\* robots changes only while no thread reads it.
THEOREM IterationIsStable == Spec => StableIteration
<1>1. IInv /\ [Next]_vars =>
        [robots' # robots => robotsLk.reading = {} /\ robotsLk.writing # {}]_vars
  BY OnlyChanges, ChangesAlone DEF IInv
<1>2. QED
  BY <1>1, Inductive, PTL DEF Spec, StableIteration

-----------------------------------------------------------------------------
(* The lock of objects, like that of robots.                               *)

\* Where a thread at this label is in the section of objects.
Section(t, label) ==
  CASE \/ label \in {"roundRobots", "test", "lock", "calc", "unlock", "roundEnd",
                     "updateRobots", "update", "updateEnd"}
       \/ t = Qos /\ label = "crashed" -> "read"
    [] label = "oGate" -> "wait"
    [] label = "oWriting" -> "write"
    [] OTHER -> "out"

ObjectsLocked ==
  /\ objectsLk = [waiting |-> {t \in Thread : Section(t, pc[t]) = "wait"},
                  reading |-> {t \in Thread : Section(t, pc[t]) = "read"},
                  writing |-> {t \in Thread : Section(t, pc[t]) = "write"}]
  /\ objectsLk.writing # {} => objectsLk.reading = {}
  /\ \A t, u \in objectsLk.writing : t = u
  /\ \A t, u \in objectsLk.waiting : t = u

\* What a step of t to a label has to do with the lock.
ObjectsCall(t, to) ==
  LET from == Section(t, pc[t])
      now  == Section(t, to)
  IN \/ from = now /\ UNCHANGED objectsLk
     \/ from = "out"   /\ now = "read"  /\ Objects!ReadLock(t)
     \/ from = "read"  /\ now = "out"   /\ Objects!ReadUnlock(t)
     \/ from = "out"   /\ now = "wait"  /\ Objects!WriteWait(t)
     \/ from = "wait"  /\ now = "write" /\ Objects!WriteEnter(t)
     \/ from = "write" /\ now = "out"   /\ Objects!WriteUnlock(t)

\* Each call of the lock moves its caller from one section to another.
LEMMA ObjectsCalled ==
  ASSUME TypeInv, ObjectsLocked, NEW t \in Thread, NEW to,
         pc' = [pc EXCEPT ![t] = to], ObjectsCall(t, to)
  PROVE  ObjectsLocked'
<1> DEFINE from == Section(t, pc[t])
           now  == Section(t, to)
           In(s) == {u \in Thread : Section(u, pc[u]) = s}
<1>1. \A u \in Thread : Section(u, pc'[u]) = IF u = t THEN now ELSE Section(u, pc[u])
  BY DEF TypeInv
<1>2. \A s : {u \in Thread : Section(u, pc'[u]) = s}
               = IF now = s THEN In(s) \cup {t} ELSE In(s) \ {t}
  BY <1>1
<1>3. /\ objectsLk = [waiting |-> In("wait"), reading |-> In("read"), writing |-> In("write")]
      /\ In("write") # {} => In("read") = {}
      /\ \A u, v \in In("write") : u = v
      /\ \A u, v \in In("wait") : u = v
  BY DEF ObjectsLocked
<1>4. /\ t \in In(from) /\ \A s : s # from => t \notin In(s)
  OBVIOUS
<1> SUFFICES /\ objectsLk' = [waiting |-> IF now = "wait" THEN In("wait") \cup {t} ELSE In("wait") \ {t},
                              reading |-> IF now = "read" THEN In("read") \cup {t} ELSE In("read") \ {t},
                              writing |-> IF now = "write" THEN In("write") \cup {t} ELSE In("write") \ {t}]
             /\ objectsLk'.writing # {} => objectsLk'.reading = {}
             /\ \A u, v \in objectsLk'.writing : u = v
             /\ \A u, v \in objectsLk'.waiting : u = v
  BY <1>2 DEF ObjectsLocked
<1> HIDE DEF In, from, now
<1>5. CASE from = now /\ UNCHANGED objectsLk
  BY <1>3, <1>4, <1>5
<1>6. CASE from = "out" /\ now = "read" /\ Objects!ReadLock(t)
  BY <1>3, <1>4, <1>6 DEF Objects!ReadLock
<1>7. CASE from = "read" /\ now = "out" /\ Objects!ReadUnlock(t)
  BY <1>3, <1>4, <1>7 DEF Objects!ReadUnlock
<1>8. CASE from = "out" /\ now = "wait" /\ Objects!WriteWait(t)
  BY <1>3, <1>4, <1>8 DEF Objects!WriteWait
<1>9. CASE from = "wait" /\ now = "write" /\ Objects!WriteEnter(t)
  BY <1>3, <1>4, <1>9 DEF Objects!WriteEnter
<1>10. CASE from = "write" /\ now = "out" /\ Objects!WriteUnlock(t)
  BY <1>3, <1>4, <1>10 DEF Objects!WriteUnlock
<1>11. QED
  BY <1>5, <1>6, <1>7, <1>8, <1>9, <1>10 DEF ObjectsCall, from, now

\* Every step is one of these calls, or leaves the labels alone.
LEMMA StepObjectsLocked == TypeInv /\ ObjectsLocked /\ [Next]_vars => ObjectsLocked'
<1> SUFFICES ASSUME TypeInv, ObjectsLocked, [Next]_vars PROVE ObjectsLocked'
  OBVIOUS
<1> DEFINE Calls(t) == \E to : pc' = [pc EXCEPT ![t] = to] /\ ObjectsCall(t, to)
<1> USE DEF Goto, RobotsOnly, ObjectsOnly, InUseOnly, locks
<1>t. /\ Qos \in Thread /\ Listener \subseteq Thread /\ Admin \subseteq Thread
      /\ \A l \in Listener : l # Qos /\ l \notin Admin
      /\ \A a \in Admin : a # Qos
  BY ServerAssumption DEF Thread
<1>0. CASE UNCHANGED <<pc, objectsLk>>
  BY <1>0 DEF ObjectsLocked
<1>1. ASSUME NEW t \in Thread, Calls(t) PROVE ObjectsLocked'
  BY <1>1, ObjectsCalled
<1> HIDE DEF Calls
<1>2. ASSUME NEW t \in Thread, CamsRead(t) \/ CamsDone(t) \/ ReadObjects(t) PROVE Calls(t)
  BY <1>2 DEF CamsRead, CamsDone, ReadObjects, Calls, ObjectsCall, Section
<1>3. ASSUME NEW t \in Thread, LockObjects(t) \/ EnterObjects(t) PROVE Calls(t)
  BY <1>3 DEF LockObjects, EnterObjects, Calls, ObjectsCall, Section
<1>4. ASSUME RoundStart \/ RoundObjects \/ RoundRobots \/ RoundLeave \/ RoundEnd PROVE Calls(Qos)
  BY <1>4 DEF RoundStart, RoundObjects, RoundRobots, RoundLeave, RoundEnd, Calls, ObjectsCall, Section
<1>5. ASSUME AddUnused \/ LockRobot \/ AllAdded \/ Calc PROVE Calls(Qos)
  BY <1>5 DEF AddUnused, LockRobot, AllAdded, Calc, Calls, ObjectsCall, Section
<1>6. ASSUME NEW t \in Thread, CamsVisit(t) \/ SkipUsed \/ UnlockRobot \/ DeleteRobot(t)
      PROVE  UNCHANGED <<pc, objectsLk>>
  BY <1>6 DEF CamsVisit, SkipUsed, UnlockRobot, DeleteRobot
<1>7. ASSUME NEW l \in Listener, Arrival(l) PROVE Calls(l)
  <2>1. CASE LockRobots(l)
    <3>1. pc[l] \in {"off", "listen"} /\ pc' = [pc EXCEPT ![l] = "rGate"] /\ UNCHANGED objectsLk
      BY <2>1 DEF LockRobots, Registering
    <3>2. ObjectsCall(l, "rGate")
      BY <1>t, <3>1 DEF ObjectsCall, Section
    <3>3. QED
      BY <3>1, <3>2 DEF Calls
  <2>2. CASE UpdateObjects(l)
    <3>1. pc[l] = "listen" /\ pc' = [pc EXCEPT ![l] = "updateRobots"] /\ Objects!ReadLock(l)
      BY <2>2 DEF UpdateObjects
    <3>2. ObjectsCall(l, "updateRobots")
      BY <1>t, <3>1 DEF ObjectsCall, Section
    <3>3. QED
      BY <3>1, <3>2 DEF Calls
  <2>3. CASE ConnectEmpty(l) \/ AnnounceObject(l)
    <3>1. PICK to \in {"objects", "search"} :
            pc[l] \in {"off", "listen"} /\ pc' = [pc EXCEPT ![l] = to] /\ UNCHANGED objectsLk
      BY <2>3 DEF ConnectEmpty, AnnounceObject
    <3>2. ObjectsCall(l, to)
      BY <1>t, <3>1 DEF ObjectsCall, Section
    <3>3. QED
      BY <3>1, <3>2 DEF Calls
  <2>4. QED
    BY <1>7, <2>1, <2>2, <2>3 DEF Arrival
<1>8. ASSUME NEW l \in Listener,
             EnterRobots(l) \/ PushRobot(l) \/ AddRobot(l) \/ RemoveRobot(l) \/ CleanupDone(l)
      PROVE  Calls(l)
  BY <1>t, <1>8 DEF EnterRobots, PushRobot, AddRobot, RemoveRobot, CleanupDone, Calls, ObjectsCall, Section
<1>9. ASSUME NEW l \in Listener, UpdateRobots(l) \/ UpdateRobot(l) \/ UpdateEnd(l) PROVE Calls(l)
  BY <1>t, <1>9 DEF UpdateRobots, UpdateRobot, UpdateEnd, Calls, ObjectsCall, Section
<1>10. ASSUME NEW l \in Listener, SearchObject(l) \/ PushObject(l) PROVE Calls(l)
  <2>1. CASE SearchObject(l)
    <3>1. PICK to \in {"listen", "oWait", "crashed"} :
            pc[l] = "search" /\ pc' = [pc EXCEPT ![l] = to] /\ UNCHANGED objectsLk
      BY <2>1 DEF SearchObject
    <3>2. ObjectsCall(l, to)
      BY <1>t, <3>1 DEF ObjectsCall, Section
    <3>3. QED
      BY <3>1, <3>2 DEF Calls
  <2>2. CASE PushObject(l)
    <3>1. pc[l] = "oWriting" /\ pc' = [pc EXCEPT ![l] = "listen"] /\ Objects!WriteUnlock(l)
      BY <2>2 DEF PushObject
    <3>2. ObjectsCall(l, "listen")
      BY <1>t, <3>1 DEF ObjectsCall, Section
    <3>3. QED
      BY <3>1, <3>2 DEF Calls
  <2>3. QED
    BY <1>10, <2>1, <2>2
<1>11. ASSUME NEW a \in Admin, Command(a) \/ CommandDone(a) \/ NotFound(a) PROVE Calls(a)
  BY <1>t, <1>11 DEF Command, CommandDone, NotFound, Calls, ObjectsCall, Section
<1>12. ASSUME NEW a \in Admin, ScanRobot(a) PROVE UNCHANGED <<pc, objectsLk>> \/ Calls(a)
  BY <1>t, <1>12 DEF ScanRobot, Calls, ObjectsCall, Section
<1>13. ASSUME NEW a \in Admin,
              LockInUse(a) \/ EnterInUse(a) \/ TakeRobot(a) \/ ReleaseRobot(a) \/ SendCommand(a)
       PROVE  Calls(a)
  BY <1>t, <1>13 DEF LockInUse, EnterInUse, TakeRobot, ReleaseRobot, SendCommand, Calls, ObjectsCall, Section
<1>14. ASSUME NEW a \in Admin, EraseObject(a) PROVE Calls(a)
  <2>1. pc[a] = "oWriting" /\ pc' = [pc EXCEPT ![a] = "send"] /\ Objects!WriteUnlock(a)
    BY <1>14 DEF EraseObject
  <2>2. ObjectsCall(a, "send")
    BY <1>t, <2>1 DEF ObjectsCall, Section
  <2>3. QED
    BY <2>1, <2>2 DEF Calls
<1>15. CASE QosSteps
  BY <1>15, <1>t, <1>0, <1>1, <1>2, <1>4, <1>5, <1>6 DEF QosSteps
<1>16. ASSUME NEW l \in Listener, Arrival(l) \/ ListenerSteps(l) PROVE ObjectsLocked'
  BY <1>16, <1>t, <1>0, <1>1, <1>2, <1>3, <1>6, <1>7, <1>8, <1>9, <1>10 DEF ListenerSteps
<1>17. ASSUME NEW a \in Admin, Command(a) \/ AdminSteps(a) PROVE ObjectsLocked'
  BY <1>17, <1>t, <1>0, <1>1, <1>3, <1>11, <1>12, <1>13, <1>14 DEF AdminSteps
<1>18. QED
  BY <1>0, <1>15, <1>16, <1>17 DEF Next, vars

\* Only a writer of objects changes it.
LEMMA OnlyWritersChange ==
  [Next]_vars => \/ UNCHANGED objects
                 \/ \E t \in Thread : PushObject(t) \/ EraseObject(t)
<1> SUFFICES ASSUME [Next]_vars PROVE UNCHANGED objects \/ \E t \in Thread : PushObject(t) \/ EraseObject(t)
  OBVIOUS
<1> USE DEF data, RobotsOnly, ObjectsOnly, InUseOnly
<1>0. CASE UNCHANGED vars
  BY <1>0 DEF vars
<1>1. ASSUME NEW t \in Thread, CamsRead(t) \/ CamsVisit(t) \/ CamsDone(t) \/ ReadObjects(t)
                               \/ LockObjects(t) \/ EnterObjects(t)
      PROVE  UNCHANGED objects
  BY <1>1 DEF CamsRead, CamsVisit, CamsDone, ReadObjects, LockObjects, EnterObjects
<1>2. CASE RoundStart \/ RoundObjects \/ RoundRobots \/ RoundLeave \/ RoundEnd \/ Calc
  BY <1>2 DEF RoundStart, RoundObjects, RoundRobots, RoundLeave, RoundEnd, Calc
<1>3. CASE SkipUsed \/ AddUnused \/ LockRobot \/ AllAdded \/ UnlockRobot
  BY <1>3 DEF SkipUsed, AddUnused, LockRobot, AllAdded, UnlockRobot
<1>4. ASSUME NEW l \in Listener, Arrival(l) PROVE UNCHANGED objects
  BY <1>4 DEF Arrival, LockRobots, ConnectEmpty, UpdateObjects, AnnounceObject
<1>5. ASSUME NEW l \in Listener,
             EnterRobots(l) \/ PushRobot(l) \/ AddRobot(l) \/ RemoveRobot(l) \/ DeleteRobot(l)
             \/ CleanupDone(l)
      PROVE  UNCHANGED objects
  BY <1>5 DEF EnterRobots, PushRobot, AddRobot, RemoveRobot, DeleteRobot, CleanupDone
<1>6. ASSUME NEW l \in Listener, UpdateRobots(l) \/ UpdateRobot(l) \/ UpdateEnd(l) \/ SearchObject(l)
      PROVE  UNCHANGED objects
  BY <1>6 DEF UpdateRobots, UpdateRobot, UpdateEnd, SearchObject
<1>7. ASSUME NEW a \in Admin,
             Command(a) \/ ScanRobot(a) \/ NotFound(a) \/ LockInUse(a) \/ EnterInUse(a)
             \/ TakeRobot(a) \/ ReleaseRobot(a) \/ SendCommand(a) \/ CommandDone(a)
      PROVE  UNCHANGED objects
  BY <1>7 DEF Command, ScanRobot, NotFound, LockInUse, EnterInUse, TakeRobot, ReleaseRobot,
     SendCommand, CommandDone
<1>8. QED
  BY <1>0, <1>1, <1>2, <1>3, <1>4, <1>5, <1>6, <1>7
     DEF Next, QosSteps, ListenerSteps, AdminSteps, Thread

-----------------------------------------------------------------------------
(* The round of the QoS thread.                                            *)

\* A thread at this label walks over robots by position; the QoS thread may
\* have crashed in its walk.
Walks(t, label) ==
  label \in {"camsScan", "test", "lock", "unlock", "scan"} \/ (t = Qos /\ label = "crashed")

\* Nobody is further than one past the end, and who does not walk is at the
\* beginning.
Positions ==
  /\ at \in [Thread -> Nat \ {0}]
  /\ \A t \in Thread : at[t] = 1 \/ (Walks(t, pc[t]) /\ at[t] <= Len(robots) + 1)

InRound == {"test", "lock", "calc", "unlock", "crashed"}

\* What doQOS has copied is what is in robots, as far as it has come.
RoundCopy ==
  /\ r \in Seq(Address \cup {NoRobot}) /\ rNull \in BOOLEAN
  /\ pc[Qos] \notin InRound => r = <<>> /\ rNull = FALSE
  /\ pc[Qos] \in InRound =>
       Len(r) <= Len(robots) /\ \A i \in DOMAIN r : r[i] \in {robots[i], NoRobot}
  /\ pc[Qos] = "test" => Len(r) = at[Qos] - 1
  /\ pc[Qos] = "lock" => Len(r) = at[Qos] /\ r[at[Qos]] = robots[at[Qos]]
  /\ pc[Qos] \in {"calc", "unlock"} => Len(r) = Len(robots)

RoundInv == Positions /\ RoundCopy

\* The round is the QoS thread's own.
LEMMA OthersLeaveRound ==
  TypeInv /\ [Next]_vars =>
    \/ QosSteps
    \/ UNCHANGED <<r, rNull>> /\ at'[Qos] = at[Qos] /\ pc'[Qos] = pc[Qos]
<1> SUFFICES ASSUME TypeInv, [Next]_vars, ~ QosSteps
             PROVE  UNCHANGED <<r, rNull>> /\ at'[Qos] = at[Qos] /\ pc'[Qos] = pc[Qos]
  OBVIOUS
<1> DEFINE Left == UNCHANGED <<r, rNull>> /\ at'[Qos] = at[Qos] /\ pc'[Qos] = pc[Qos]
<1> USE DEF Goto, Advance, Restart, round, RobotsOnly, ObjectsOnly, InUseOnly
<1>t. /\ DOMAIN pc = Thread /\ DOMAIN at = Thread /\ Qos \in Thread
      /\ \A t \in Listener \cup Admin : t # Qos
  BY ServerAssumption DEF TypeInv, Thread
<1>0. CASE UNCHANGED vars
  BY <1>0 DEF vars
<1>1. ASSUME NEW t \in Listener \cup Admin,
             CamsRead(t) \/ CamsVisit(t) \/ CamsDone(t) \/ ReadObjects(t) \/ LockObjects(t) \/ EnterObjects(t)
      PROVE  Left
  BY <1>1, <1>t DEF CamsRead, CamsVisit, CamsDone, ReadObjects, LockObjects, EnterObjects
<1>2. ASSUME NEW l \in Listener, Arrival(l) PROVE Left
  BY <1>2, <1>t DEF Arrival, LockRobots, ConnectEmpty, UpdateObjects, AnnounceObject
<1>3. ASSUME NEW l \in Listener,
             EnterRobots(l) \/ PushRobot(l) \/ AddRobot(l) \/ RemoveRobot(l) \/ DeleteRobot(l)
             \/ CleanupDone(l)
      PROVE  Left
  BY <1>3, <1>t DEF EnterRobots, PushRobot, AddRobot, RemoveRobot, DeleteRobot, CleanupDone
<1>4. ASSUME NEW l \in Listener,
             UpdateRobots(l) \/ UpdateRobot(l) \/ UpdateEnd(l) \/ SearchObject(l) \/ PushObject(l)
      PROVE  Left
  BY <1>4, <1>t DEF UpdateRobots, UpdateRobot, UpdateEnd, SearchObject, PushObject
<1>5. ASSUME NEW a \in Admin,
             Command(a) \/ ScanRobot(a) \/ NotFound(a) \/ LockInUse(a) \/ EnterInUse(a)
      PROVE  Left
  BY <1>5, <1>t DEF Command, ScanRobot, NotFound, LockInUse, EnterInUse
<1>6. ASSUME NEW a \in Admin,
             TakeRobot(a) \/ ReleaseRobot(a) \/ SendCommand(a) \/ CommandDone(a) \/ EraseObject(a)
      PROVE  Left
  BY <1>6, <1>t DEF TakeRobot, ReleaseRobot, SendCommand, CommandDone, EraseObject
<1>7. QED
  BY <1>0, <1>1, <1>2, <1>3, <1>4, <1>5, <1>6 DEF Next, ListenerSteps, AdminSteps

\* t goes to a label, or stays at its own.
Labelled(t, to) == pc' = [pc EXCEPT ![t] = to] \/ (pc' = pc /\ to = pc[t])

\* A step of t over robots: it stays where it is, goes one on, or is through.
Stepped(t, to) ==
  \/ at' = at /\ (Walks(t, pc[t]) => Walks(t, to))
  \/ Advance(t) /\ Walks(t, to) /\ at[t] \in DOMAIN robots
  \/ Restart(t)

LEMMA PositionStep ==
  ASSUME TypeInv, Positions, UNCHANGED robots, NEW t \in Thread, NEW to,
         Labelled(t, to), Stepped(t, to)
  PROVE  Positions'
<1>1. \A u \in Thread : pc'[u] = IF u = t THEN to ELSE pc[u]
  BY DEF TypeInv, Labelled
<1>2. at' \in [Thread -> Nat \ {0}] /\ \A u \in Thread \ {t} : at'[u] = at[u]
  BY DEF Positions, Stepped, Advance, Restart
<1>3. at'[t] = 1 \/ (Walks(t, to) /\ at'[t] <= Len(robots) + 1)
  <2>1. Len(robots) \in Nat /\ DOMAIN robots = 1..Len(robots)
    BY DEF TypeInv
  <2>2. QED
    BY <2>1 DEF Positions, Stepped, Advance, Restart
<1>4. QED
  BY <1>1, <1>2, <1>3 DEF Positions

\* Every step is such a step, or changes robots while nobody walks.
LEMMA StepPositions == IInv /\ RoundInv /\ [Next]_vars => Positions'
<1> SUFFICES ASSUME IInv, RoundInv, [Next]_vars PROVE Positions'
  OBVIOUS
<1> DEFINE Steps(t) == \E to : Labelled(t, to) /\ Stepped(t, to)
<1> USE DEF Goto, Labelled, RobotsOnly, ObjectsOnly, InUseOnly, data
<1>t. /\ Qos \in Thread /\ Listener \subseteq Thread /\ Admin \subseteq Thread /\ DOMAIN pc = Thread
      /\ \A l \in Listener : l # Qos /\ l \notin Admin
      /\ \A a \in Admin : a # Qos
  BY ServerAssumption DEF Thread, IInv, TypeInv
<1>i. TypeInv /\ Positions /\ RoundCopy
  BY DEF IInv, RoundInv
<1>0. CASE UNCHANGED <<pc, at, robots>>
  BY <1>0, <1>i DEF Positions
<1>1. ASSUME UNCHANGED robots, NEW t \in Thread, Steps(t) PROVE Positions'
  BY <1>i, <1>1, PositionStep
<1>2. ASSUME NEW t \in Thread, pc' = pc, Advance(t), at[t] \in DOMAIN robots, Walks(t, pc[t])
      PROVE  Steps(t)
  BY <1>2 DEF Stepped
<1> HIDE DEF Steps
<1>3. ASSUME NEW t \in Thread, CamsRead(t) \/ CamsDone(t) \/ ReadObjects(t) PROVE Steps(t)
  BY <1>3 DEF CamsRead, CamsDone, ReadObjects, Steps, Stepped, Walks
<1>4. ASSUME NEW t \in Thread, LockObjects(t) \/ EnterObjects(t) PROVE Steps(t)
  BY <1>4 DEF LockObjects, EnterObjects, Steps, Stepped, Walks
<1>5. ASSUME NEW t \in Thread, CamsVisit(t) PROVE Steps(t)
  BY <1>2, <1>5 DEF CamsVisit, Walks
<1>6. ASSUME SkipUsed \/ UnlockRobot PROVE Steps(Qos)
  BY <1>2, <1>6, <1>t DEF SkipUsed, UnlockRobot, Walks
<1>7. ASSUME RoundStart \/ RoundObjects \/ RoundRobots \/ RoundEnd PROVE Steps(Qos)
  BY <1>7 DEF RoundStart, RoundObjects, RoundRobots, RoundEnd, Steps, Stepped, Walks
<1>8. ASSUME AddUnused \/ AllAdded \/ Calc \/ RoundLeave PROVE Steps(Qos)
  BY <1>8 DEF AddUnused, AllAdded, Calc, RoundLeave, Steps, Stepped, Walks
<1>9. ASSUME LockRobot PROVE Steps(Qos)
  <2>1. at[Qos] \in DOMAIN robots
    <3>1. Len(r) = at[Qos] /\ Len(r) <= Len(robots) /\ at[Qos] \in Nat \ {0}
      BY <1>9, <1>i, <1>t DEF LockRobot, RoundCopy, InRound, Positions
    <3>2. QED
      BY <3>1, <1>i DEF TypeInv
  <2>2. QED
    BY <1>9, <2>1 DEF LockRobot, Steps, Stepped, Walks
<1>10. ASSUME NEW l \in Listener, Arrival(l) PROVE Steps(l)
  <2>1. PICK to : pc' = [pc EXCEPT ![l] = to] /\ at' = at
    BY <1>10 DEF Arrival, LockRobots, ConnectEmpty, UpdateObjects, AnnounceObject
  <2>2. pc[l] \in {"off", "listen"}
    BY <1>10 DEF Arrival, LockRobots, Registering, ConnectEmpty, UpdateObjects, AnnounceObject
  <2>3. QED
    BY <1>t, <2>1, <2>2 DEF Steps, Stepped, Walks
<1>11. ASSUME NEW l \in Listener,
              \/ EnterRobots(l) \/ CleanupDone(l) \/ UpdateRobots(l) \/ UpdateRobot(l) \/ UpdateEnd(l)
              \/ SearchObject(l) \/ PushObject(l)
       PROVE  Steps(l)
  <2>1. PICK to : pc' = [pc EXCEPT ![l] = to] /\ at' = at
    BY <1>11 DEF EnterRobots, CleanupDone, UpdateRobots, UpdateRobot, UpdateEnd, SearchObject, PushObject
  <2>2. pc[l] \in {"rGate", "rWriting", "updateRobots", "update", "updateEnd", "search", "oWriting"}
    BY <1>11 DEF EnterRobots, CleanupDone, UpdateRobots, UpdateRobot, UpdateEnd, SearchObject, PushObject
  <2>3. QED
    BY <1>t, <2>1, <2>2 DEF Steps, Stepped, Walks
<1>12. ASSUME NEW l \in Listener, Changes(l) PROVE Positions'
  <2>1. pc[l] = "rWriting" /\ robotsLk.reading = {}
    BY <1>12, ChangesAlone DEF IInv
  <2>2. \A t \in Thread : ~ Reads(t, pc[t])
    BY <2>1 DEF IInv, RobotsLocked
  <2>3. \A t \in Thread : at[t] = 1
    BY <1>i, <2>2 DEF Positions, Walks, Reads
  <2>4. at' = at
    BY <1>12 DEF Changes, PushRobot, AddRobot, RemoveRobot, DeleteRobot
  <2>5. QED
    BY <1>i, <2>3, <2>4 DEF Positions
<1>13. ASSUME NEW a \in Admin, Command(a) \/ CommandDone(a) \/ NotFound(a) PROVE Steps(a)
  BY <1>t, <1>13 DEF Command, CommandDone, NotFound, Steps, Stepped, Walks
<1>14. ASSUME NEW a \in Admin, ScanRobot(a) PROVE Steps(a)
  <2>1. CASE Advance(a) /\ UNCHANGED pc
    BY <1>2, <1>14, <1>t, <2>1 DEF ScanRobot, Walks
  <2>2. CASE pc' = [pc EXCEPT ![a] = "iWait"] /\ Restart(a)
    BY <2>2 DEF Steps, Stepped
  <2>3. QED
    BY <1>14, <2>1, <2>2 DEF ScanRobot
<1>15. ASSUME NEW a \in Admin,
              \/ LockInUse(a) \/ EnterInUse(a) \/ TakeRobot(a) \/ ReleaseRobot(a) \/ SendCommand(a)
              \/ EraseObject(a)
       PROVE  Steps(a)
  BY <1>t, <1>15 DEF LockInUse, EnterInUse, TakeRobot, ReleaseRobot, SendCommand, EraseObject, Steps,
     Stepped, Walks
<1>16. CASE UNCHANGED vars
  BY <1>0, <1>16 DEF vars
<1>17. CASE UNCHANGED robots
  <2>1. CASE QosSteps
    BY <1>17, <2>1, <1>t, <1>1, <1>3, <1>5, <1>6, <1>7, <1>8, <1>9 DEF QosSteps
  <2>2. ASSUME NEW l \in Listener, Arrival(l) \/ ListenerSteps(l) PROVE Positions'
    BY <1>17, <2>2, <1>t, <1>1, <1>3, <1>4, <1>5, <1>10, <1>11, <1>12 DEF ListenerSteps, Changes
  <2>3. ASSUME NEW a \in Admin, Command(a) \/ AdminSteps(a) PROVE Positions'
    BY <1>17, <2>3, <1>t, <1>1, <1>4, <1>13, <1>14, <1>15 DEF AdminSteps
  <2>4. QED
    BY <1>16, <2>1, <2>2, <2>3 DEF Next
<1>18. QED
  BY <1>12, <1>17, OnlyChanges

\* What doQOS writes and reads of its copy.
LEMMA QosRound == IInv /\ RoundInv /\ QosSteps => RoundCopy'
<1> SUFFICES ASSUME IInv, RoundInv, QosSteps PROVE RoundCopy'
  OBVIOUS
<1> USE DEF Goto, RobotsOnly, ObjectsOnly, InUseOnly, data, round
<1>t. Qos \in Thread /\ DOMAIN pc = Thread /\ Qos \notin Listener
  BY ServerAssumption DEF Thread, IInv, TypeInv
<1>i. /\ r \in Seq(Address \cup {NoRobot}) /\ robots \in Seq(Address)
      /\ Len(r) \in Nat /\ DOMAIN r = 1..Len(r)
      /\ Len(robots) \in Nat /\ DOMAIN robots = 1..Len(robots)
      /\ at \in [Thread -> Nat \ {0}] /\ at[Qos] \in Nat \ {0}
  BY <1>t DEF IInv, TypeInv, RoundInv, Positions, RoundCopy
<1>c. RoundCopy
  BY DEF RoundInv
<1>0. ASSUME UNCHANGED <<r, rNull, robots>>, pc[Qos] \notin InRound, pc'[Qos] \notin InRound
      PROVE  RoundCopy'
  BY <1>0, <1>c DEF RoundCopy, InRound
<1>1. CASE CamsRead(Qos) \/ CamsVisit(Qos) \/ CamsDone(Qos) \/ ReadObjects(Qos)
  BY <1>0, <1>1, <1>t DEF CamsRead, CamsVisit, CamsDone, ReadObjects, InRound
<1>2. CASE RoundStart \/ RoundObjects \/ RoundEnd
  BY <1>0, <1>2, <1>t DEF RoundStart, RoundObjects, RoundEnd, InRound
<1>3. CASE RoundRobots
  <2>1. pc[Qos] = "roundRobots" /\ pc'[Qos] = "test" /\ r' = r /\ rNull' \in BOOLEAN /\ at' = at
    BY <1>3, <1>t DEF RoundRobots
  <2>2. r = <<>> /\ at[Qos] = 1
    BY <1>c, <1>t, <2>1 DEF RoundCopy, InRound, RoundInv, Positions, Walks
  <2>3. QED
    BY <1>i, <2>1, <2>2 DEF RoundCopy, InRound
<1>4. ASSUME NEW e \in Address \cup {NoRobot}, r' = Append(r, e), UNCHANGED <<rNull, robots>>,
             pc[Qos] = "test", at[Qos] \in DOMAIN robots, e \in {robots[at[Qos]], NoRobot},
             \/ pc'[Qos] = "test" /\ at'[Qos] = at[Qos] + 1
             \/ pc'[Qos] = "lock" /\ at'[Qos] = at[Qos] /\ e = robots[at[Qos]]
      PROVE  RoundCopy'
  <2>1. Len(r) = at[Qos] - 1
    BY <1>4, <1>c DEF RoundCopy
  <2>2. /\ r' \in Seq(Address \cup {NoRobot}) /\ Len(r') = Len(r) + 1 /\ DOMAIN r' = 1..(Len(r) + 1)
        /\ \A i \in 1..Len(r) : r'[i] = r[i]
        /\ r'[Len(r) + 1] = e
    BY <1>4, <1>i
  <2>3. Len(r') <= Len(robots) /\ Len(r') = at[Qos] /\ r'[at[Qos]] = e
    BY <1>4, <1>i, <2>1, <2>2
  <2>4. \A i \in DOMAIN r' : r'[i] \in {robots[i], NoRobot}
    BY <1>4, <1>c, <1>i, <2>1, <2>2 DEF RoundCopy, InRound
  <2>5. rNull' \in BOOLEAN /\ pc'[Qos] \in InRound /\ pc'[Qos] \notin {"calc", "unlock"}
    BY <1>4, <1>c DEF RoundCopy, InRound
  <2>6. pc'[Qos] = "test" => Len(r') = at'[Qos] - 1
    BY <1>4, <1>i, <2>3
  <2>7. pc'[Qos] = "lock" => Len(r') = at'[Qos] /\ r'[at'[Qos]] = robots'[at'[Qos]]
    BY <1>4, <2>3
  <2>8. QED
    BY <1>4, <2>2, <2>3, <2>4, <2>5, <2>6, <2>7 DEF RoundCopy
<1>5. CASE SkipUsed
  <2>1. at'[Qos] = at[Qos] + 1
    BY <1>5, <1>i, <1>t DEF SkipUsed, Advance
  <2>2. QED
    BY <1>4, <1>5, <2>1 DEF SkipUsed
<1>6. CASE AddUnused
  <2>1. CASE rNull
    <3>1. pc[Qos] = "test" /\ pc'[Qos] = "crashed" /\ UNCHANGED <<r, rNull, robots>>
      BY <1>6, <1>t, <2>1 DEF AddUnused
    <3>2. QED
      BY <3>1, <1>c DEF RoundCopy, InRound
  <2>2. CASE ~ rNull
    <3>1. /\ pc[Qos] = "test" /\ pc'[Qos] = "lock" /\ r' = Append(r, robots[at[Qos]])
          /\ UNCHANGED <<rNull, robots, at>> /\ at[Qos] \in DOMAIN robots
      BY <1>6, <1>t, <2>2 DEF AddUnused
    <3>2. robots[at[Qos]] \in Address
      BY <3>1, <1>i
    <3>3. QED
      BY <3>1, <3>2, <1>4
  <2>3. QED
    BY <2>1, <2>2
<1>7. CASE LockRobot
  <2>1. /\ pc[Qos] = "lock" /\ pc'[Qos] = "test" /\ UNCHANGED <<r, rNull, robots>>
        /\ at'[Qos] = at[Qos] + 1
    BY <1>7, <1>i, <1>t DEF LockRobot, Advance
  <2>2. QED
    BY <2>1, <1>c, <1>i DEF RoundCopy, InRound
<1>8. CASE AllAdded
  <2>1. pc[Qos] = "test" /\ pc'[Qos] = "calc" /\ UNCHANGED <<r, rNull, robots>> /\ at[Qos] \notin DOMAIN robots
    BY <1>8, <1>t DEF AllAdded
  <2>2. Len(r) = at[Qos] - 1 /\ Len(r) <= Len(robots)
    BY <2>1, <1>c DEF RoundCopy, InRound
  <2>3. Len(r) = Len(robots)
    BY <2>1, <2>2, <1>i
  <2>4. QED
    BY <2>1, <2>3, <1>c DEF RoundCopy, InRound
<1>9. CASE Calc \/ UnlockRobot
  <2>1. /\ pc[Qos] \in {"calc", "unlock"} /\ pc'[Qos] \in {"unlock", "crashed"}
        /\ UNCHANGED <<r, rNull, robots>>
    BY <1>9, <1>t DEF Calc, UnlockRobot
  <2>2. QED
    BY <2>1, <1>c DEF RoundCopy, InRound
<1>10. CASE RoundLeave
  <2>1. pc'[Qos] = "roundEnd" /\ r' = <<>> /\ rNull' = FALSE
    BY <1>10, <1>t DEF RoundLeave
  <2>2. <<>> \in Seq(Address \cup {NoRobot})
    OBVIOUS
  <2>3. QED
    BY <2>1, <2>2 DEF RoundCopy, InRound
<1>11. QED
  BY <1>1, <1>2, <1>3, <1>5, <1>6, <1>7, <1>8, <1>9, <1>10 DEF QosSteps

\* Every step keeps the copy: robots does not change while there is one.
LEMMA StepRound == IInv /\ RoundInv /\ [Next]_vars => RoundInv'
<1> SUFFICES ASSUME IInv, RoundInv, [Next]_vars PROVE RoundInv'
  OBVIOUS
<1>1. Positions'
  BY StepPositions
<1>2. CASE QosSteps
  BY <1>1, <1>2, QosRound DEF RoundInv
<1>3. CASE UNCHANGED <<r, rNull>> /\ at'[Qos] = at[Qos] /\ pc'[Qos] = pc[Qos]
  <2>1. CASE UNCHANGED robots
    BY <1>1, <1>3, <2>1 DEF RoundInv, RoundCopy
  <2>2. ASSUME NEW l \in Listener, Changes(l) PROVE RoundInv'
    <3>1. robotsLk.reading = {} /\ Qos \in Thread
      BY <2>2, ChangesAlone DEF IInv, Thread
    <3>2. pc[Qos] \notin InRound
      BY <3>1 DEF IInv, RobotsLocked, Reads, InRound
    <3>3. QED
      BY <1>1, <1>3, <3>2 DEF RoundInv, RoundCopy, InRound
  <2>3. QED
    BY <2>1, <2>2, OnlyChanges
<1>4. QED
  BY <1>2, <1>3, OthersLeaveRound DEF IInv

-----------------------------------------------------------------------------
(* Types.                                                                  *)

LabelsOf(t) ==
  CASE t = Qos -> {"idle", "cams", "camsScan", "objects", "roundObjects", "roundRobots",
                   "test", "lock", "calc", "unlock", "roundEnd", "crashed"}
    [] t \in Listener -> {"off", "listen", "objects", "cams", "camsScan", "rGate", "rWriting",
                          "updateRobots", "update", "updateEnd", "search", "oWait", "oGate",
                          "oWriting", "crashed"}
    [] OTHER -> {"idle", "scan", "iWait", "iGate", "iWriting", "send", "leave",
                 "oWait", "oGate", "oWriting"}

\* Where a thread may be with a job, and what the job is about.
Placed(t, label, j) ==
  /\ label \in LabelsOf(t)
  /\ t \in Listener /\ label \in {"search", "oWait", "oGate", "oWriting"} => j.what = "object"
  /\ t \in Listener /\ j.what = "object" => j.key \in ObjectId
  /\ t \in Admin /\ j.what \in {"FWD", "RLS_RBT"} => j.key \in Address

Places == \A t \in Thread : Placed(t, pc[t], job[t])

DataTypes ==
  /\ Places
  /\ objects \in Seq(ObjectId) /\ inUse \subseteq Address
  /\ inUseLk \in InUse!RWState
  /\ mutex \in [Address -> Thread \cup {NoThread}]

\* t takes a job, or keeps its own.
Employed(t, j) == Take(t, j) \/ (job' = job /\ j = job[t])

\* Every step puts one thread where it may be.
LEMMA StepPlaces == TypeInv /\ Places /\ [Next]_vars => Places'
<1> SUFFICES ASSUME TypeInv, Places, [Next]_vars PROVE Places'
  OBVIOUS
<1> DEFINE Puts(t) == \E to, j : Labelled(t, to) /\ Employed(t, j) /\ Placed(t, to, j)
<1> USE DEF Goto, Labelled, Employed, Finish
<1>t. /\ Qos \in Thread /\ Listener \subseteq Thread /\ Admin \subseteq Thread
      /\ \A l \in Listener : l # Qos /\ l \notin Admin
      /\ \A a \in Admin : a # Qos /\ a \notin Listener
      /\ Qos \notin Listener /\ Qos \notin Admin
      /\ Idle.what = "none" /\ \A what, k : Job(what, k).what = what /\ Job(what, k).key = k
  BY ServerAssumption DEF Thread, Idle, Job
<1>p. \A t \in Thread : Placed(t, pc[t], job[t])
  BY DEF Places
<1>0. CASE UNCHANGED <<pc, job>>
  BY <1>0 DEF Places
<1>1. ASSUME NEW t \in Thread, Puts(t) PROVE Places'
  <2>1. PICK to, j : Labelled(t, to) /\ Employed(t, j) /\ Placed(t, to, j)
    BY <1>1
  <2>2. \A u \in Thread : /\ pc'[u] = IF u = t THEN to ELSE pc[u]
                          /\ job'[u] = IF u = t THEN j ELSE job[u]
    BY <2>1 DEF TypeInv, Take
  <2>3. QED
    BY <1>p, <2>1, <2>2 DEF Places
<1> HIDE DEF Puts
<1>2. ASSUME NEW t \in Thread, NEW to \in LabelsOf(t), Labelled(t, to),
             \/ /\ UNCHANGED job /\ to # "search"
                /\ to \in {"oWait", "oGate", "oWriting"} => pc[t] \in {"search", "oWait", "oGate"}
             \/ Finish(t) /\ to \notin {"search", "oWait", "oGate", "oWriting"}
      PROVE  Puts(t)
  <2>1. CASE UNCHANGED job
    <3>1. Placed(t, to, job[t])
      BY <1>2, <2>1, <1>p, <1>t DEF Placed
    <3>2. QED
      BY <1>2, <2>1, <3>1 DEF Puts
  <2>2. CASE Finish(t) /\ to \notin {"search", "oWait", "oGate", "oWriting"}
    <3>1. Placed(t, to, Idle)
      BY <1>2, <2>2, <1>t DEF Placed
    <3>2. QED
      BY <1>2, <2>2, <3>1 DEF Puts
  <2>3. QED
    BY <1>2, <2>1, <2>2
<1>4. ASSUME NEW t \in {Qos} \cup Listener, CamsRead(t) \/ CamsVisit(t) \/ CamsDone(t) \/ ReadObjects(t)
      PROVE  Puts(t) \/ UNCHANGED <<pc, job>>
  <2>1. CASE CamsRead(t)
    BY <1>2, <1>t, <2>1 DEF CamsRead, LabelsOf
  <2>2. CASE CamsVisit(t)
    BY <2>2 DEF CamsVisit
  <2>3. CASE CamsDone(t)
    <3>1. PICK to \in {"idle", "objects", "listen"} :
            /\ to \in LabelsOf(t) /\ pc' = [pc EXCEPT ![t] = to]
            /\ UNCHANGED job \/ Finish(t)
      BY <1>t, <2>3 DEF CamsDone, LabelsOf
    <3>2. QED
      BY <1>2, <1>t, <3>1
  <2>4. CASE ReadObjects(t)
    <3>1. PICK to \in {"roundObjects", "listen"} :
            to \in LabelsOf(t) /\ pc' = [pc EXCEPT ![t] = to] /\ Finish(t)
      BY <1>t, <2>4 DEF ReadObjects, LabelsOf
    <3>2. QED
      BY <1>2, <1>t, <3>1
  <2>5. QED
    BY <1>4, <2>1, <2>2, <2>3, <2>4
<1>5. ASSUME NEW t \in Listener \cup Admin, LockObjects(t) \/ EnterObjects(t) PROVE Puts(t)
  <2>1. PICK to \in {"oGate", "oWriting"} :
          /\ pc[t] \in {"oWait", "oGate"} /\ pc' = [pc EXCEPT ![t] = to] /\ UNCHANGED job
    BY <1>5 DEF LockObjects, EnterObjects
  <2>2. to \in LabelsOf(t)
    BY <1>t DEF LabelsOf
  <2>3. QED
    BY <1>2, <1>t, <2>1, <2>2
<1>6. ASSUME QosSteps PROVE Puts(Qos) \/ UNCHANGED <<pc, job>>
  <2>1. CASE SkipUsed \/ UnlockRobot
    BY <2>1 DEF SkipUsed, UnlockRobot
  <2>2. CASE \/ RoundStart \/ RoundObjects \/ RoundRobots \/ AddUnused \/ LockRobot \/ AllAdded \/ Calc
             \/ RoundLeave \/ RoundEnd
    <3>1. PICK to \in {"cams", "roundRobots", "test", "crashed", "lock", "calc", "unlock", "roundEnd", "idle"} :
            pc' = [pc EXCEPT ![Qos] = to] /\ UNCHANGED job
      BY <2>2 DEF RoundStart, RoundObjects, RoundRobots, AddUnused, LockRobot, AllAdded, Calc,
         RoundLeave, RoundEnd
    <3>2. to \in LabelsOf(Qos)
      BY <1>t DEF LabelsOf
    <3>3. QED
      BY <1>2, <1>t, <3>1, <3>2
  <2>3. QED
    BY <1>4, <1>6, <2>1, <2>2 DEF QosSteps
<1>7. ASSUME NEW l \in Listener, Arrival(l) PROVE Puts(l)
  <2>1. ASSUME NEW what \in {"connect", "init", "rm", "cleanup", "update", "object"}, NEW k,
               Take(l, Job(what, k)), what = "object" => k \in ObjectId,
               NEW to \in {"rGate", "updateRobots", "search"}, pc' = [pc EXCEPT ![l] = to],
               to = "search" => what = "object"
        PROVE  Puts(l)
    <3>1. Placed(l, to, Job(what, k))
      BY <1>t, <2>1 DEF Placed, LabelsOf
    <3>2. QED
      BY <2>1, <3>1 DEF Puts
  <2>2. CASE LockRobots(l)
    <3>1. pc' = [pc EXCEPT ![l] = "rGate"]
      BY <2>2 DEF LockRobots
    <3>2. \E what \in {"connect", "init", "rm", "cleanup"} : \E k : Take(l, Job(what, k))
      BY <2>2 DEF LockRobots, Registering
    <3>3. QED
      BY <2>1, <3>1, <3>2
  <2>3. CASE ConnectEmpty(l)
    <3>1. "objects" \in LabelsOf(l)
      BY <1>t DEF LabelsOf
    <3>2. QED
      BY <1>2, <1>t, <2>3, <3>1 DEF ConnectEmpty
  <2>4. CASE UpdateObjects(l)
    <3>1. PICK k \in RID : Take(l, Job("update", k))
      BY <2>4 DEF UpdateObjects
    <3>2. QED
      BY <2>1, <2>4, <3>1 DEF UpdateObjects
  <2>5. CASE AnnounceObject(l)
    <3>1. PICK k \in ObjectId : Take(l, Job("object", k))
      BY <2>5 DEF AnnounceObject
    <3>2. QED
      BY <2>1, <2>5, <3>1 DEF AnnounceObject
  <2>6. QED
    BY <1>7, <2>2, <2>3, <2>4, <2>5 DEF Arrival
<1>8. ASSUME NEW l \in Listener,
             \/ EnterRobots(l) \/ PushRobot(l) \/ AddRobot(l) \/ RemoveRobot(l) \/ CleanupDone(l)
             \/ UpdateRobots(l) \/ UpdateRobot(l) \/ UpdateEnd(l) \/ PushObject(l)
      PROVE  Puts(l)
  <2>1. PICK to \in {"rWriting", "cams", "listen", "off", "update", "updateEnd"} :
          pc' = [pc EXCEPT ![l] = to] /\ (UNCHANGED job \/ Finish(l))
    BY <1>8 DEF EnterRobots, PushRobot, AddRobot, RemoveRobot, CleanupDone, UpdateRobots, UpdateRobot,
       UpdateEnd, PushObject
  <2>2. to \in LabelsOf(l)
    BY <1>t DEF LabelsOf
  <2>3. QED
    BY <1>2, <1>t, <2>1, <2>2
<1>9. ASSUME NEW l \in Listener, SearchObject(l) PROVE Puts(l)
  <2>1. pc[l] = "search" /\ \E to \in {"oWait", "listen", "crashed"} :
          /\ pc' = [pc EXCEPT ![l] = to]
          /\ UNCHANGED job \/ (Finish(l) /\ to = "listen")
    BY <1>9 DEF SearchObject
  <2>2. {"oWait", "listen", "crashed"} \subseteq LabelsOf(l)
    BY <1>t DEF LabelsOf
  <2>3. QED
    BY <1>2, <1>t, <2>1, <2>2
<1>10. ASSUME NEW a \in Admin, Command(a) PROVE Puts(a)
  <2>1. ASSUME NEW what, NEW k, Take(a, Job(what, k)), what \in {"FWD", "RLS_RBT"} => k \in Address,
               NEW to \in {"scan", "iWait", "oWait"}, pc' = [pc EXCEPT ![a] = to]
        PROVE  Puts(a)
    <3>1. Placed(a, to, Job(what, k))
      BY <1>t, <2>1 DEF Placed, LabelsOf
    <3>2. QED
      BY <2>1, <3>1 DEF Puts
  <2>2. QED
    BY <1>10, <2>1 DEF Command
<1>11. ASSUME NEW a \in Admin, ScanRobot(a) PROVE Puts(a) \/ UNCHANGED <<pc, job>>
  <2>1. "iWait" \in LabelsOf(a)
    BY <1>t DEF LabelsOf
  <2>2. QED
    BY <1>2, <1>11, <1>t, <2>1 DEF ScanRobot
<1>12. ASSUME NEW a \in Admin,
              \/ NotFound(a) \/ LockInUse(a) \/ EnterInUse(a) \/ TakeRobot(a) \/ ReleaseRobot(a)
              \/ SendCommand(a) \/ CommandDone(a) \/ EraseObject(a)
       PROVE  Puts(a)
  <2>1. PICK to \in {"leave", "iGate", "iWriting", "send", "idle"} :
          pc' = [pc EXCEPT ![a] = to] /\ (UNCHANGED job \/ Finish(a))
    BY <1>12 DEF NotFound, LockInUse, EnterInUse, TakeRobot, ReleaseRobot, SendCommand, CommandDone,
       EraseObject
  <2>2. to \in LabelsOf(a)
    BY <1>t DEF LabelsOf
  <2>3. QED
    BY <1>2, <1>t, <2>1, <2>2
<1>13. ASSUME NEW l \in Listener, Arrival(l) \/ ListenerSteps(l)
       PROVE  Puts(l) \/ UNCHANGED <<pc, job>>
  BY <1>13, <1>t, <1>4, <1>5, <1>7, <1>8, <1>9 DEF ListenerSteps, DeleteRobot
<1>14. ASSUME NEW a \in Admin, Command(a) \/ AdminSteps(a)
       PROVE  Puts(a) \/ UNCHANGED <<pc, job>>
  BY <1>14, <1>t, <1>5, <1>10, <1>11, <1>12 DEF AdminSteps
<1>15. QED
  BY <1>0, <1>1, <1>6, <1>13, <1>14, <1>t DEF Next, vars

\* So objects holds objects,
LEMMA StepObjects == TypeInv /\ DataTypes /\ [Next]_vars => objects' \in Seq(ObjectId)
<1> SUFFICES ASSUME TypeInv, DataTypes, [Next]_vars PROVE objects' \in Seq(ObjectId)
  OBVIOUS
<1>1. objects \in Seq(ObjectId)
  BY DEF DataTypes
<1>2. ASSUME NEW l \in Thread, PushObject(l) PROVE objects' \in Seq(ObjectId)
  <2>1. l \in Listener /\ pc[l] = "oWriting" /\ objects' = Append(objects, job[l].key)
    BY <1>2 DEF PushObject, Goto
  <2>2. job[l].key \in ObjectId
    BY <2>1 DEF DataTypes, Places, Placed
  <2>3. QED
    BY <1>1, <2>1, <2>2
<1>3. ASSUME NEW a \in Thread, EraseObject(a) PROVE objects' \in Seq(ObjectId)
  <2>1. CASE UNCHANGED objects
    BY <1>1, <2>1
  <2>2. ASSUME NEW i \in First({j \in DOMAIN objects : objects[j] = job[a].key}),
               objects' = RemoveAt(objects, i)
        PROVE  objects' \in Seq(ObjectId)
    <3>1. i \in DOMAIN objects
      BY DEF First
    <3>2. QED
      BY <1>1, <2>2, <3>1, EraseShifts
  <2>3. QED
    BY <1>3, <2>1, <2>2 DEF EraseObject, Erase
<1>4. QED
  BY <1>1, <1>2, <1>3, OnlyWritersChange

\* inUse robots, and its lock threads,
LEMMA StepInUse ==
  TypeInv /\ DataTypes /\ [Next]_vars => inUse' \subseteq Address /\ inUseLk' \in InUse!RWState
<1> SUFFICES ASSUME TypeInv, DataTypes, [Next]_vars
             PROVE  inUse' \subseteq Address /\ inUseLk' \in InUse!RWState
  OBVIOUS
<1> DEFINE Typed == inUse' \subseteq Address /\ inUseLk' \in InUse!RWState
<1> USE DEF data, locks, RobotsOnly, ObjectsOnly, InUseOnly
<1>i. inUse \subseteq Address /\ inUseLk \in InUse!RWState
  BY DEF DataTypes
<1>0. CASE UNCHANGED <<inUse, inUseLk>>
  BY <1>i, <1>0
<1>1. CASE QosSteps
  <2>1. CASE CamsRead(Qos) \/ CamsVisit(Qos) \/ CamsDone(Qos) \/ ReadObjects(Qos)
    BY <1>0, <2>1 DEF CamsRead, CamsVisit, CamsDone, ReadObjects
  <2>2. CASE RoundStart \/ RoundObjects \/ RoundRobots \/ RoundLeave \/ RoundEnd \/ Calc
    BY <1>0, <2>2 DEF RoundStart, RoundObjects, RoundRobots, RoundLeave, RoundEnd, Calc
  <2>3. CASE SkipUsed \/ AddUnused \/ LockRobot \/ AllAdded \/ UnlockRobot
    BY <1>0, <2>3 DEF SkipUsed, AddUnused, LockRobot, AllAdded, UnlockRobot
  <2>4. QED
    BY <1>1, <2>1, <2>2, <2>3 DEF QosSteps
<1>2. ASSUME NEW l \in Listener, Arrival(l) \/ ListenerSteps(l) PROVE Typed
  <2>1. CASE Arrival(l)
    BY <1>0, <2>1 DEF Arrival, LockRobots, ConnectEmpty, UpdateObjects, AnnounceObject
  <2>2. CASE CamsRead(l) \/ CamsVisit(l) \/ CamsDone(l) \/ ReadObjects(l) \/ LockObjects(l) \/ EnterObjects(l)
    BY <1>0, <2>2 DEF CamsRead, CamsVisit, CamsDone, ReadObjects, LockObjects, EnterObjects
  <2>3. CASE EnterRobots(l) \/ PushRobot(l) \/ AddRobot(l) \/ RemoveRobot(l) \/ DeleteRobot(l) \/ CleanupDone(l)
    BY <1>0, <2>3 DEF EnterRobots, PushRobot, AddRobot, RemoveRobot, DeleteRobot, CleanupDone
  <2>4. CASE UpdateRobots(l) \/ UpdateRobot(l) \/ UpdateEnd(l) \/ SearchObject(l) \/ PushObject(l)
    BY <1>0, <2>4 DEF UpdateRobots, UpdateRobot, UpdateEnd, SearchObject, PushObject
  <2>5. QED
    BY <1>2, <2>1, <2>2, <2>3, <2>4 DEF ListenerSteps
<1>3. ASSUME NEW a \in Admin, Command(a) \/ AdminSteps(a) PROVE Typed
  <2>a. a \in Thread
    BY DEF Thread
  <2>1. CASE Command(a) \/ ScanRobot(a) \/ NotFound(a) \/ SendCommand(a) \/ CommandDone(a)
    BY <1>0, <2>1 DEF Command, ScanRobot, NotFound, SendCommand, CommandDone
  <2>2. CASE LockObjects(a) \/ EnterObjects(a) \/ EraseObject(a)
    BY <1>0, <2>2 DEF LockObjects, EnterObjects, EraseObject
  <2>3. CASE LockInUse(a) \/ EnterInUse(a)
    BY <1>i, <2>a, <2>3 DEF LockInUse, EnterInUse, InUse!WriteWait, InUse!WriteEnter, InUse!RWState
  <2>4. CASE TakeRobot(a) \/ ReleaseRobot(a)
    <3>1. InUse!WriteUnlock(a)
      BY <2>4 DEF TakeRobot, ReleaseRobot
    <3>2. inUseLk' \in InUse!RWState
      BY <1>i, <3>1 DEF InUse!WriteUnlock, InUse!RWState
    <3>3. TakeRobot(a) => job[a].key \in Address
      BY <2>a DEF TakeRobot, DataTypes, Places, Placed
    <3>4. inUse' \subseteq Address
      BY <1>i, <2>4, <3>3 DEF TakeRobot, ReleaseRobot
    <3>5. QED
      BY <3>2, <3>4
  <2>5. QED
    BY <1>3, <2>1, <2>2, <2>3, <2>4 DEF AdminSteps
<1>4. QED
  BY <1>0, <1>1, <1>2, <1>3 DEF Next, vars

\* and a mutex its holder.
LEMMA StepMutex == DataTypes /\ [Next]_vars => mutex' \in [Address -> Thread \cup {NoThread}]
<1> SUFFICES ASSUME DataTypes, [Next]_vars PROVE mutex' \in [Address -> Thread \cup {NoThread}]
  OBVIOUS
<1> DEFINE Typed == mutex' \in [Address -> Thread \cup {NoThread}]
<1> USE DEF heap, RobotsOnly, ObjectsOnly, InUseOnly
<1>i. mutex \in [Address -> Thread \cup {NoThread}] /\ Qos \in Thread /\ Admin \subseteq Thread
  BY DEF DataTypes, Thread
<1>0. CASE UNCHANGED mutex
  BY <1>i, <1>0
<1>1. ASSUME NEW x, NEW h \in Thread \cup {NoThread}, mutex' = [mutex EXCEPT ![x] = h] PROVE Typed
  BY <1>i, <1>1
<1>2. CASE QosSteps
  <2>1. CASE CamsRead(Qos) \/ CamsVisit(Qos) \/ CamsDone(Qos) \/ ReadObjects(Qos)
    BY <1>0, <2>1 DEF CamsRead, CamsVisit, CamsDone, ReadObjects
  <2>2. CASE RoundStart \/ RoundObjects \/ RoundRobots \/ RoundLeave \/ RoundEnd \/ Calc
    BY <1>0, <2>2 DEF RoundStart, RoundObjects, RoundRobots, RoundLeave, RoundEnd, Calc
  <2>3. CASE SkipUsed \/ AddUnused \/ AllAdded
    BY <1>0, <2>3 DEF SkipUsed, AddUnused, AllAdded
  <2>4. CASE LockRobot
    BY <1>1, <1>i, <2>4 DEF LockRobot
  <2>5. CASE UnlockRobot
    BY <1>0, <1>1, <2>5 DEF UnlockRobot
  <2>6. QED
    BY <1>2, <2>1, <2>2, <2>3, <2>4, <2>5 DEF QosSteps
<1>3. ASSUME NEW l \in Listener, Arrival(l) \/ ListenerSteps(l) PROVE Typed
  <2>1. CASE Arrival(l)
    BY <1>0, <2>1 DEF Arrival, LockRobots, ConnectEmpty, UpdateObjects, AnnounceObject
  <2>2. CASE CamsRead(l) \/ CamsVisit(l) \/ CamsDone(l) \/ ReadObjects(l) \/ LockObjects(l) \/ EnterObjects(l)
    BY <1>0, <2>2 DEF CamsRead, CamsVisit, CamsDone, ReadObjects, LockObjects, EnterObjects
  <2>3. CASE EnterRobots(l) \/ RemoveRobot(l) \/ DeleteRobot(l) \/ CleanupDone(l)
    BY <1>0, <2>3 DEF EnterRobots, RemoveRobot, DeleteRobot, CleanupDone
  <2>4. CASE PushRobot(l) \/ AddRobot(l)
    BY <1>0, <1>1, <2>4 DEF PushRobot, AddRobot, Push
  <2>5. CASE UpdateRobots(l) \/ UpdateRobot(l) \/ UpdateEnd(l) \/ SearchObject(l) \/ PushObject(l)
    BY <1>0, <2>5 DEF UpdateRobots, UpdateRobot, UpdateEnd, SearchObject, PushObject
  <2>6. QED
    BY <1>3, <2>1, <2>2, <2>3, <2>4, <2>5 DEF ListenerSteps
<1>4. ASSUME NEW a \in Admin, Command(a) \/ AdminSteps(a) PROVE Typed
  <2>1. CASE Command(a) \/ NotFound(a) \/ CommandDone(a) \/ LockInUse(a) \/ EnterInUse(a)
    BY <1>0, <2>1 DEF Command, NotFound, CommandDone, LockInUse, EnterInUse
  <2>2. CASE LockObjects(a) \/ EnterObjects(a) \/ EraseObject(a) \/ TakeRobot(a) \/ ReleaseRobot(a)
    BY <1>0, <2>2 DEF LockObjects, EnterObjects, EraseObject, TakeRobot, ReleaseRobot
  <2>3. CASE ScanRobot(a)
    BY <1>0, <1>1, <1>i, <2>3 DEF ScanRobot
  <2>4. CASE SendCommand(a)
    BY <1>0, <1>1, <2>4 DEF SendCommand
  <2>5. QED
    BY <1>4, <2>1, <2>2, <2>3, <2>4 DEF AdminSteps
<1>5. QED
  BY <1>0, <1>2, <1>3, <1>4 DEF Next, vars

LEMMA StepTypes == TypeInv /\ DataTypes /\ [Next]_vars => DataTypes'
  BY StepPlaces, StepObjects, StepInUse, StepMutex DEF DataTypes

-----------------------------------------------------------------------------
(* Without the commands of administrators.                                 *)

\* The positions of the robots that doQOS has locked.
LockedPart ==
  CASE pc[Qos] \in {"test", "lock"} -> 1..(at[Qos] - 1)
    [] pc[Qos] = "calc" -> DOMAIN robots
    [] pc[Qos] = "unlock" -> at[Qos]..Len(robots)
    [] OTHER -> {}

\* Then no robot is commandeered: doQOS copies every robot and locks exactly
\* what it has copied.
Uncommanded ==
  /\ \A a \in Admin : pc[a] = "idle"
  /\ inUse = {}
  /\ pc[Qos] # "crashed"
  /\ pc[Qos] \in InRound => (rNull <=> robots = <<>>)
  /\ NoRobot \notin ToSet(r)
  /\ mutex \in [Address -> {Qos, NoThread}]
  /\ \A a \in Address : mutex[a] = Qos <=> \E i \in LockedPart : a = robots[i]

\* What the other threads may change of this.
LEMMA OthersLeaveAdmins ==
  TypeInv /\ [Next]_vars =>
    \/ \E a \in Admin : Command(a) \/ AdminSteps(a)
    \/ inUse' = inUse /\ \A a \in Admin : pc'[a] = pc[a]
<1> SUFFICES ASSUME TypeInv, [Next]_vars, ~ \E a \in Admin : Command(a) \/ AdminSteps(a)
             PROVE  inUse' = inUse /\ \A a \in Admin : pc'[a] = pc[a]
  OBVIOUS
<1> DEFINE Left == inUse' = inUse /\ \A a \in Admin : pc'[a] = pc[a]
<1> USE DEF Goto, data, RobotsOnly, ObjectsOnly, InUseOnly
<1>t. /\ DOMAIN pc = Thread /\ Admin \subseteq Thread
      /\ \A t \in {Qos} \cup Listener, a \in Admin : t # a
  BY ServerAssumption DEF TypeInv, Thread
<1>0. CASE UNCHANGED vars
  BY <1>0 DEF vars
<1>1. ASSUME NEW t \in {Qos} \cup Listener,
             CamsRead(t) \/ CamsVisit(t) \/ CamsDone(t) \/ ReadObjects(t) \/ LockObjects(t) \/ EnterObjects(t)
      PROVE  Left
  BY <1>1, <1>t DEF CamsRead, CamsVisit, CamsDone, ReadObjects, LockObjects, EnterObjects
<1>2. CASE RoundStart \/ RoundObjects \/ RoundRobots \/ RoundLeave \/ RoundEnd \/ Calc
  BY <1>2, <1>t DEF RoundStart, RoundObjects, RoundRobots, RoundLeave, RoundEnd, Calc
<1>3. CASE SkipUsed \/ AddUnused \/ LockRobot \/ AllAdded \/ UnlockRobot
  BY <1>3, <1>t DEF SkipUsed, AddUnused, LockRobot, AllAdded, UnlockRobot
<1>4. ASSUME NEW l \in Listener, Arrival(l) PROVE Left
  BY <1>4, <1>t DEF Arrival, LockRobots, ConnectEmpty, UpdateObjects, AnnounceObject
<1>5. ASSUME NEW l \in Listener,
             EnterRobots(l) \/ PushRobot(l) \/ AddRobot(l) \/ RemoveRobot(l) \/ DeleteRobot(l)
             \/ CleanupDone(l)
      PROVE  Left
  BY <1>5, <1>t DEF EnterRobots, PushRobot, AddRobot, RemoveRobot, DeleteRobot, CleanupDone
<1>6. ASSUME NEW l \in Listener,
             UpdateRobots(l) \/ UpdateRobot(l) \/ UpdateEnd(l) \/ SearchObject(l) \/ PushObject(l)
      PROVE  Left
  BY <1>6, <1>t DEF UpdateRobots, UpdateRobot, UpdateEnd, SearchObject, PushObject
<1>7. QED
  BY <1>0, <1>1, <1>2, <1>3, <1>4, <1>5, <1>6 DEF Next, QosSteps, ListenerSteps

\* A listener changes a mutex only where it makes a robot.
LEMMA OthersLeaveMutexes ==
  [Next]_vars =>
    \/ QosSteps
    \/ \E a \in Admin : Command(a) \/ AdminSteps(a)
    \/ \E l \in Listener : Changes(l)
    \/ UNCHANGED mutex
<1> SUFFICES ASSUME [Next]_vars,
                    ~ (\E a \in Admin : Command(a) \/ AdminSteps(a)),
                    ~ QosSteps, ~ \E l \in Listener : Changes(l)
             PROVE  UNCHANGED mutex
  OBVIOUS
<1> USE DEF heap, RobotsOnly, ObjectsOnly
<1>1. CASE UNCHANGED vars
  BY <1>1 DEF vars
<1>2. ASSUME NEW l \in Listener, Arrival(l) PROVE UNCHANGED mutex
  BY <1>2 DEF Arrival, LockRobots, ConnectEmpty, UpdateObjects, AnnounceObject
<1>3. ASSUME NEW l \in Listener,
             \/ CamsRead(l) \/ CamsVisit(l) \/ CamsDone(l) \/ ReadObjects(l) \/ LockObjects(l) \/ EnterObjects(l)
      PROVE  UNCHANGED mutex
  BY <1>3 DEF CamsRead, CamsVisit, CamsDone, ReadObjects, LockObjects, EnterObjects
<1>4. ASSUME NEW l \in Listener,
             \/ EnterRobots(l) \/ CleanupDone(l) \/ UpdateRobots(l) \/ UpdateRobot(l) \/ UpdateEnd(l)
             \/ SearchObject(l) \/ PushObject(l)
      PROVE  UNCHANGED mutex
  BY <1>4 DEF EnterRobots, CleanupDone, UpdateRobots, UpdateRobot, UpdateEnd, SearchObject, PushObject
<1>5. QED
  BY <1>1, <1>2, <1>3, <1>4 DEF Next, ListenerSteps, Changes

\* No used robot, no skipped robot.
LEMMA NoneUsed == inUse = {} => Cardinality(inUse) = 0 /\ \A i : ~ UsedTest(i)
<1> SUFFICES ASSUME inUse = {} PROVE Cardinality(inUse) = 0 /\ \A i : ~ UsedTest(i)
  OBVIOUS
<1>1. Cardinality(inUse) = 0
  BY FS_EmptySet
<1>2. 1..0 = {}
  OBVIOUS
<1>3. QED
  BY <1>1, <1>2 DEF UsedTest

\* A round locks what it copies, and unlocks what it has locked.
LEMMA QosUncommanded ==
  ASSUME IInv, RoundInv, Uncommanded, QosSteps, inUse' = inUse, \A a \in Admin : pc'[a] = pc[a]
  PROVE  Uncommanded'
<1> USE DEF Goto, heap, RobotsOnly, ObjectsOnly, data, round
<1>t. Qos \in Thread /\ DOMAIN pc = Thread /\ DOMAIN at = Thread /\ Qos \notin Listener /\ NoRobot \notin Address
      /\ NoThread # Qos
  BY ServerAssumption DEF Thread, IInv, TypeInv
<1>i. /\ robots \in Seq(Address) /\ Len(robots) \in Nat /\ DOMAIN robots = 1..Len(robots)
      /\ \A i \in DOMAIN robots : robots[i] \in Address
      /\ \A i, j \in DOMAIN robots : robots[i] = robots[j] => i = j
      /\ at[Qos] \in Nat \ {0} /\ at[Qos] <= Len(robots) + 1
  BY <1>t DEF IInv, TypeInv, RobotsLive, IsInjective, RoundInv, Positions
<1>u. /\ \A a \in Admin : pc'[a] = "idle"
      /\ inUse' = {} /\ Cardinality(inUse) = 0 /\ \A i : ~ UsedTest(i)
  BY NoneUsed DEF Uncommanded
<1>c. /\ mutex \in [Address -> {Qos, NoThread}]
      /\ \A a \in Address : mutex[a] = Qos <=> \E i \in LockedPart : a = robots[i]
      /\ NoRobot \notin ToSet(r) /\ pc[Qos] # "crashed"
      /\ pc[Qos] \in InRound => (rNull <=> robots = <<>>)
  BY DEF Uncommanded
<1>0. ASSUME UNCHANGED <<r, rNull, robots, mutex>>, pc'[Qos] # "crashed",
             pc'[Qos] \in InRound => pc[Qos] \in InRound, LockedPart' = LockedPart
      PROVE  Uncommanded'
  BY <1>0, <1>u, <1>c DEF Uncommanded
<1>1. CASE CamsRead(Qos) \/ CamsVisit(Qos) \/ CamsDone(Qos) \/ ReadObjects(Qos)
  <2>1. /\ UNCHANGED <<r, rNull, robots, mutex>> /\ pc[Qos] \notin InRound /\ pc'[Qos] \notin InRound
    BY <1>1, <1>t DEF CamsRead, CamsVisit, CamsDone, ReadObjects, InRound
  <2>2. QED
    BY <2>1, <1>0 DEF LockedPart, InRound
<1>2. CASE RoundStart \/ RoundObjects \/ RoundEnd
  <2>1. /\ UNCHANGED <<r, rNull, robots, mutex>> /\ pc[Qos] \notin InRound /\ pc'[Qos] \notin InRound
    BY <1>2, <1>t DEF RoundStart, RoundObjects, RoundEnd, InRound
  <2>2. QED
    BY <2>1, <1>0 DEF LockedPart, InRound
<1>3. CASE RoundRobots
  <2>1. /\ pc[Qos] = "roundRobots" /\ pc'[Qos] = "test" /\ UNCHANGED <<r, robots, mutex, at>>
        /\ rNull' = (Len(robots) - 0 <= 0)
    BY <1>3, <1>t, <1>u DEF RoundRobots
  <2>2. at[Qos] = 1
    BY <1>t, <2>1 DEF RoundInv, Positions, Walks
  <2>3. LockedPart = {} /\ LockedPart' = {}
    BY <2>1, <2>2 DEF LockedPart
  <2>4. rNull' <=> robots' = <<>>
    <3>1. Len(robots) - 0 <= 0 <=> Len(robots) = 0
      BY <1>i
    <3>2. Len(robots) = 0 <=> robots = <<>>
      BY <1>i
    <3>3. QED
      BY <2>1, <3>1, <3>2
  <2>5. QED
    BY <2>1, <2>3, <2>4, <1>u, <1>c DEF Uncommanded
<1>4. CASE SkipUsed
  BY <1>4, <1>u DEF SkipUsed
<1>5. CASE AddUnused
  <2>1. pc[Qos] = "test" /\ at[Qos] \in DOMAIN robots
    BY <1>5 DEF AddUnused
  <2>2. ~ rNull
    BY <2>1, <1>c, <1>i DEF InRound
  <2>3. /\ pc'[Qos] = "lock" /\ r' = Append(r, robots[at[Qos]])
        /\ UNCHANGED <<rNull, robots, mutex, at>>
    BY <1>5, <1>t, <2>2 DEF AddUnused
  <2>4. LockedPart' = LockedPart
    BY <2>1, <2>3 DEF LockedPart
  <2>5. NoRobot \notin ToSet(r')
    <3>1. r \in Seq(Address \cup {NoRobot}) /\ robots[at[Qos]] \in Address
      BY <2>1, <1>i DEF RoundInv, RoundCopy
    <3>2. \A i \in DOMAIN r' : (i \in DOMAIN r /\ r'[i] = r[i]) \/ r'[i] = robots[at[Qos]]
      BY <2>3, <3>1
    <3>3. QED
      BY <3>1, <3>2, <1>c, <1>t DEF ToSet
  <2>6. QED
    BY <2>1, <2>3, <2>4, <2>5, <1>u, <1>c DEF Uncommanded, InRound
<1>6. CASE LockRobot
  <2>1. /\ pc[Qos] = "lock" /\ pc'[Qos] = "test" /\ UNCHANGED <<r, rNull, robots>>
        /\ mutex' = [mutex EXCEPT ![r[at[Qos]]] = Qos] /\ at'[Qos] = at[Qos] + 1
    BY <1>6, <1>i, <1>t DEF LockRobot, Advance
  <2>2. r[at[Qos]] = robots[at[Qos]] /\ at[Qos] \in DOMAIN robots
    BY <2>1, <1>i DEF RoundInv, RoundCopy, InRound
  <2>3. LockedPart = 1..(at[Qos] - 1) /\ LockedPart' = 1..at[Qos]
    BY <2>1, <1>i DEF LockedPart
  <2>4. LockedPart' = LockedPart \cup {at[Qos]}
    BY <2>3, <1>i
  <2>5. mutex' \in [Address -> {Qos, NoThread}]
    BY <2>1, <1>c
  <2>6. \A a \in Address : mutex'[a] = Qos <=> \E i \in LockedPart' : a = robots[i]
    BY <2>1, <2>2, <2>4, <1>c
  <2>7. QED
    BY <2>1, <2>5, <2>6, <1>u, <1>c DEF Uncommanded, InRound
<1>7. CASE AllAdded
  <2>1. /\ pc[Qos] = "test" /\ pc'[Qos] = "calc" /\ UNCHANGED <<r, rNull, robots, mutex>>
        /\ at[Qos] \notin DOMAIN robots
    BY <1>7, <1>t DEF AllAdded
  <2>2. LockedPart = 1..(at[Qos] - 1) /\ LockedPart' = DOMAIN robots
    BY <2>1 DEF LockedPart
  <2>3. at[Qos] = Len(robots) + 1
    BY <2>1, <1>i
  <2>4. QED
    BY <2>1, <2>2, <2>3, <1>0, <1>i DEF InRound
<1>8. CASE Calc
  <2>1. /\ pc[Qos] = "calc" /\ pc'[Qos] = "unlock" /\ UNCHANGED <<r, rNull, robots, mutex, at>>
    BY <1>8, <1>t, <1>c DEF Calc
  <2>2. at[Qos] = 1
    BY <1>t, <2>1 DEF RoundInv, Positions, Walks
  <2>3. LockedPart = DOMAIN robots /\ LockedPart' = 1..Len(robots)
    BY <2>1, <2>2 DEF LockedPart
  <2>4. QED
    BY <2>1, <2>3, <1>0, <1>i DEF InRound
<1>9. CASE UnlockRobot
  <2>1. /\ pc[Qos] = "unlock" /\ at[Qos] \in DOMAIN robots /\ UNCHANGED <<r, rNull, robots, pc>>
        /\ mutex' = [mutex EXCEPT ![robots[at[Qos]]] = NoThread] /\ at'[Qos] = at[Qos] + 1
    BY <1>9, <1>i, <1>t, <1>u DEF UnlockRobot, Advance
  <2>2. LockedPart = at[Qos]..Len(robots) /\ LockedPart' = (at[Qos] + 1)..Len(robots)
    BY <2>1 DEF LockedPart
  <2>3. LockedPart' = LockedPart \ {at[Qos]} /\ LockedPart \subseteq DOMAIN robots
    BY <2>2, <1>i
  <2>4. mutex' \in [Address -> {Qos, NoThread}]
    BY <2>1, <1>c
  <2>5. \A a \in Address : mutex'[a] = Qos <=> \E i \in LockedPart' : a = robots[i]
    BY <2>1, <2>3, <1>c, <1>i, <1>t
  <2>6. QED
    BY <2>1, <2>4, <2>5, <1>u, <1>c DEF Uncommanded, InRound
<1>10. CASE RoundLeave
  <2>1. /\ pc[Qos] = "unlock" /\ pc'[Qos] = "roundEnd" /\ at[Qos] \notin DOMAIN robots
        /\ UNCHANGED <<robots, mutex>> /\ r' = <<>>
    BY <1>10, <1>t DEF RoundLeave
  <2>2. at[Qos] = Len(robots) + 1
    BY <2>1, <1>i
  <2>3. LockedPart = at[Qos]..Len(robots) /\ LockedPart' = {}
    BY <2>1 DEF LockedPart
  <2>4. LockedPart = {}
    BY <2>2, <2>3, <1>i
  <2>5. NoRobot \notin ToSet(r')
    BY <2>1 DEF ToSet
  <2>6. QED
    BY <2>1, <2>3, <2>4, <2>5, <1>u, <1>c DEF Uncommanded, InRound
<1>11. QED
  BY <1>1, <1>2, <1>3, <1>4, <1>5, <1>6, <1>7, <1>8, <1>9, <1>10 DEF QosSteps

\* Every step does, of whichever thread.
LEMMA StepUncommanded ==
  ASSUME Commands = {}, IInv, RoundInv, Uncommanded, [Next]_vars
  PROVE  Uncommanded'
<1>1. ASSUME NEW a \in Admin PROVE ~ Command(a) /\ ~ AdminSteps(a)
  BY <1>1 DEF Uncommanded, Command, AdminSteps, ScanRobot, NotFound, LockInUse, EnterInUse, TakeRobot,
     ReleaseRobot, SendCommand, CommandDone, LockObjects, EnterObjects, EraseObject, Goto
<1>2. inUse' = inUse /\ \A a \in Admin : pc'[a] = pc[a]
  BY <1>1, OthersLeaveAdmins DEF IInv
<1>3. CASE QosSteps
  BY <1>2, <1>3, QosUncommanded
<1>4. CASE /\ UNCHANGED <<r, rNull>> /\ at'[Qos] = at[Qos] /\ pc'[Qos] = pc[Qos]
           /\ ~ QosSteps
  <2>1. ASSUME NEW l \in Listener, Changes(l) PROVE Uncommanded'
    <3>1. robotsLk.reading = {} /\ Qos \in Thread
      BY <2>1, ChangesAlone DEF IInv, Thread
    <3>2. pc[Qos] \notin InRound
      BY <3>1 DEF IInv, RobotsLocked, Reads, InRound
    <3>3. LockedPart = {} /\ LockedPart' = {}
      BY <1>4, <3>2 DEF LockedPart, InRound
    <3>4. mutex' = mutex \/ \E a \in Address : mutex' = [mutex EXCEPT ![a] = NoThread]
      BY <2>1 DEF Changes, PushRobot, AddRobot, RemoveRobot, DeleteRobot, Push, heap
    <3>5. NoThread # Qos
      BY ServerAssumption DEF Thread
    <3>6. /\ mutex' \in [Address -> {Qos, NoThread}]
          /\ \A a \in Address : mutex'[a] # Qos
      BY <3>3, <3>4, <3>5 DEF Uncommanded
    <3>7. QED
      BY <1>2, <1>4, <3>2, <3>3, <3>6 DEF Uncommanded
  <2>2. CASE \A l \in Listener : ~ Changes(l)
    <3>1. UNCHANGED <<robots, mutex>>
      BY <1>1, <1>4, <2>2, OnlyChanges, OthersLeaveMutexes
    <3>2. LockedPart' = LockedPart
      BY <1>4, <3>1 DEF LockedPart
    <3>3. QED
      BY <1>2, <1>4, <3>1, <3>2 DEF Uncommanded
  <2>3. QED
    BY <2>1, <2>2
<1>5. QED
  BY <1>3, <1>4, OthersLeaveRound DEF IInv

-----------------------------------------------------------------------------
(* The theorems about rounds, objects and waiting.                         *)

Layers == RoundInv /\ ObjectsLocked /\ DataTypes

LEMMA InitLayers == Init => Layers /\ Uncommanded
<1> SUFFICES ASSUME Init PROVE Layers /\ Uncommanded
  OBVIOUS
<1>1. /\ Qos \in Thread /\ Listener \subseteq Thread /\ Admin \subseteq Thread
      /\ Qos \notin Listener /\ Qos \notin Admin /\ \A a \in Admin : a \notin Listener
      /\ NoThread # Qos
  BY ServerAssumption DEF Thread
<1>2. /\ \A t \in Thread : pc[t] = IF t \in Listener THEN "off" ELSE "idle"
      /\ \A t \in Thread : job[t].what = "none"
      /\ robots = <<>> /\ r = <<>> /\ rNull = FALSE /\ objects = <<>> /\ inUse = {}
      /\ at = [t \in Thread |-> 1] /\ mutex = [a \in Address |-> NoThread]
      /\ objectsLk = [waiting |-> {}, reading |-> {}, writing |-> {}]
      /\ inUseLk = [waiting |-> {}, reading |-> {}, writing |-> {}]
  BY DEF Init, Idle, Job, Objects!Free, InUse!Free
<1>3. pc[Qos] = "idle"
  BY <1>1, <1>2
<1>4. <<>> \in Seq(ObjectId) /\ <<>> \in Seq(Address \cup {NoRobot})
  OBVIOUS
<1>5. Positions
  BY <1>2 DEF Positions
<1>6. RoundCopy
  BY <1>2, <1>3, <1>4 DEF RoundCopy, InRound
<1>7. ObjectsLocked
  <2>1. \A t \in Thread : Section(t, pc[t]) = "out"
    BY <1>2 DEF Section
  <2>2. QED
    BY <1>2, <2>1 DEF ObjectsLocked
<1>8. Places
  BY <1>1, <1>2 DEF Places, Placed, LabelsOf
<1>9. DataTypes
  BY <1>2, <1>4, <1>8 DEF DataTypes, InUse!RWState
<1>10. Uncommanded
  <2>1. NoRobot \notin ToSet(r)
    BY <1>2 DEF ToSet
  <2>2. LockedPart = {}
    BY <1>3 DEF LockedPart
  <2>3. QED
    BY <1>1, <1>2, <1>3, <2>1, <2>2 DEF Uncommanded, InRound
<1>11. QED
  BY <1>5, <1>6, <1>7, <1>9, <1>10 DEF Layers, RoundInv

LEMMA StepLayers == IInv /\ Layers /\ [Next]_vars => Layers'
  BY StepRound, StepObjectsLocked, StepTypes DEF Layers, IInv

\* On top of IInv: the lock of objects is where the labels say, the copy of
\* doQOS is a copy, and everything has its type.
THEOREM InductiveLayers == Spec => []Layers
  BY Inductive, InitLayers, StepLayers, PTL DEF Spec

\* robots is no longer than there are addresses.
LEMMA AtMostAddresses == TypeInv /\ RobotsLive => Len(robots) <= Cardinality(Address)
<1> SUFFICES ASSUME TypeInv, RobotsLive PROVE Len(robots) <= Cardinality(Address)
  OBVIOUS
<1>1. robots \in Seq(Address) /\ Len(robots) \in Nat
  BY DEF TypeInv
<1>2. robots \in Injection(1..Len(robots), Address)
  BY <1>1 DEF RobotsLive, IsInjective, Injection
<1>3. Cardinality(1..Len(robots)) <= Cardinality(Address)
  BY <1>2, FS_Injection, ServerAssumption
<1>4. Cardinality(1..Len(robots)) = Len(robots)
  BY <1>1, FS_Interval
<1>5. QED
  BY <1>3, <1>4

\* Every variable keeps its type.
THEOREM TypesCorrect == Spec => []TypeOK
<1>1. ASSUME IInv, Layers PROVE TypeOK
  <2>1. ident \in [Address -> [conn : Listener, rid : RID] \cup {Freed}]
    BY <1>1 DEF IInv, TypeInv
  <2>2. mutex \in [Address -> Thread \cup {NoThread}] /\ inUse \subseteq Address
    BY <1>1 DEF Layers, DataTypes
  <2>3. Registered \subseteq Address /\ ToSet(objects) \subseteq ObjectId
    BY <1>1 DEF IInv, TypeInv, Layers, DataTypes, Registered, ToSet
  <2>4. ToSet(r) \subseteq Address \cup {NoRobot} /\ rNull \in BOOLEAN
    BY <1>1 DEF Layers, RoundInv, RoundCopy, ToSet
  <2>5. {robotsLk, inUseLk, objectsLk} \subseteq Robots!RWState
    <3>1. robotsLk \in Robots!RWState
      BY <1>1 DEF IInv, RobotsLocked, Robots!RWState
    <3>2. objectsLk \in Robots!RWState
      BY <1>1 DEF Layers, ObjectsLocked, Robots!RWState
    <3>3. inUseLk \in Robots!RWState
      BY <1>1 DEF Layers, DataTypes, InUse!RWState, Robots!RWState
    <3>4. QED
      BY <3>1, <3>2, <3>3
  <2>6. at \in [Thread -> 1..(Cardinality(Address) + 1)]
    <3>1. Cardinality(Address) \in Nat /\ Len(robots) \in Nat
      BY <1>1, FS_CardinalityType, ServerAssumption DEF IInv, TypeInv
    <3>2. Len(robots) <= Cardinality(Address)
      BY <1>1, AtMostAddresses DEF IInv
    <3>3. at \in [Thread -> Nat \ {0}] /\ \A t \in Thread : at[t] = 1 \/ at[t] <= Len(robots) + 1
      BY <1>1 DEF Layers, RoundInv, Positions
    <3>4. \A t \in Thread : at[t] \in 1..(Cardinality(Address) + 1)
      BY <3>1, <3>2, <3>3
    <3>5. QED
      BY <3>3, <3>4
  <2>7. QED
    BY <2>1, <2>2, <2>3, <2>4, <2>5, <2>6 DEF TypeOK
<1>2. QED
  BY <1>1, Inductive, InductiveLayers, PTL

\* While doQOS works on its copy, robots keeps the robots it was made from at
\* their positions, so that unlocking by position unlocks what was locked.
THEOREM CopyStable == Spec => []RoundStable
<1>1. ASSUME IInv, Layers PROVE RoundStable
  <2>1. /\ r \in Seq(Address \cup {NoRobot}) /\ robots \in Seq(Address)
        /\ pc[Qos] \in InRound =>
             Len(r) <= Len(robots) /\ \A i \in DOMAIN r : r[i] \in {robots[i], NoRobot}
    BY <1>1 DEF IInv, TypeInv, Layers, RoundInv, RoundCopy
  <2>2. Len(r) <= Len(robots) => DOMAIN r \subseteq DOMAIN robots
    BY <2>1
  <2>3. QED
    BY <2>1, <2>2 DEF RoundStable, InRound
<1>2. QED
  BY <1>1, Inductive, InductiveLayers, PTL

\* objects changes only while no thread reads it.
THEOREM ObjectsStay == Spec => ObjectsStable
<1>1. ASSUME Layers, [Next]_vars, objects' # objects
      PROVE  objectsLk.reading = {} /\ objectsLk.writing # {}
  <2>1. PICK t \in Thread : pc[t] = "oWriting"
    BY <1>1, OnlyWritersChange DEF PushObject, EraseObject, Goto
  <2>2. t \in objectsLk.writing
    BY <1>1, <2>1 DEF Layers, ObjectsLocked, Section
  <2>3. QED
    BY <1>1, <2>2 DEF Layers, ObjectsLocked
<1>2. Layers /\ [Next]_vars =>
        [objects' # objects => objectsLk.reading = {} /\ objectsLk.writing # {}]_vars
  BY <1>1
<1>3. QED
  BY <1>2, InductiveLayers, PTL DEF Spec, ObjectsStable

-----------------------------------------------------------------------------
(* Where no administrator commands.                                        *)

LEMMA InductiveUncommanded == ASSUME Commands = {} PROVE Spec => []Uncommanded
<1>1. IInv /\ Layers /\ Uncommanded /\ [Next]_vars => Uncommanded'
  BY StepUncommanded DEF Layers
<1>2. QED
  BY <1>1, Inductive, InductiveLayers, InitLayers, PTL DEF Spec

\* doQOS locks the robots it has copied and no other, and lets go of all of
\* them: between rounds it holds neither a robot nor a vector.
THEOREM RoundsBalance == ASSUME Commands = {} PROVE Spec => []Balanced
<1>1. ASSUME IInv, Layers, Uncommanded PROVE Balanced
  <2> DEFINE held == {a \in Address : mutex[a] = Qos}
  <2>t. Qos \in Thread
    BY DEF Thread
  <2>h. held = {a \in Address : \E i \in LockedPart : a = robots[i]}
    BY <1>1 DEF Uncommanded
  <2>1. ASSUME pc[Qos] \in {"idle", "cams", "objects"}
        PROVE  held = {} /\ Qos \notin robotsLk.reading \cup objectsLk.reading
    <3>1. LockedPart = {}
      BY <2>1 DEF LockedPart
    <3>2. Qos \notin robotsLk.reading
      BY <1>1, <2>1, ServerAssumption DEF IInv, RobotsLocked, Reads
    <3>3. Qos \notin objectsLk.reading
      BY <1>1, <2>1 DEF Layers, ObjectsLocked, Section
    <3>4. QED
      BY <2>h, <3>1, <3>2, <3>3
  <2>2. ASSUME pc[Qos] = "calc" PROVE held = ToSet(r) \ {NoRobot}
    <3>1. /\ robots \in Seq(Address) /\ r \in Seq(Address \cup {NoRobot}) /\ Len(r) = Len(robots)
          /\ \A i \in DOMAIN r : r[i] \in {robots[i], NoRobot}
      BY <1>1, <2>2 DEF IInv, TypeInv, Layers, RoundInv, RoundCopy, InRound
    <3>2. NoRobot \notin ToSet(r)
      BY <1>1 DEF Uncommanded
    <3>3. DOMAIN r = DOMAIN robots
      BY <3>1
    <3>4. \A i \in DOMAIN robots : r[i] = robots[i]
      BY <3>1, <3>2, <3>3 DEF ToSet
    <3>5. ToSet(r) = ToSet(robots) /\ ToSet(robots) \subseteq Address
      BY <3>1, <3>3, <3>4 DEF ToSet
    <3>6. held = ToSet(robots)
      BY <2>2, <2>h, <3>5 DEF LockedPart, ToSet
    <3>7. QED
      BY <3>2, <3>5, <3>6
  <2>3. QED
    BY <2>1, <2>2 DEF Balanced
<1>2. QED
  BY <1>1, Inductive, InductiveLayers, InductiveUncommanded, PTL

\* Then whoever waits for a robot waits for the QoS thread, and the QoS thread
\* in the middle of its round waits for nobody.
LEMMA QosGoesOn ==
  ASSUME IInv, Layers, Uncommanded
  PROVE  /\ pc[Qos] \in InRound => WaitsFor(Qos) = {}
         /\ \A t \in Thread : \A u \in {mutex[a] : a \in MutexWanted(t)} \ {NoThread} :
              u = Qos /\ pc[Qos] \in InRound
<1>i. /\ robots \in Seq(Address) /\ Len(robots) \in Nat /\ DOMAIN robots = 1..Len(robots)
      /\ \A i \in DOMAIN robots : robots[i] \in Address
      /\ \A i, j \in DOMAIN robots : robots[i] = robots[j] => i = j
      /\ at \in [Thread -> Nat \ {0}] /\ Qos \in Thread
      /\ mutex \in [Address -> {Qos, NoThread}] /\ NoThread # Qos
      /\ \A a \in Address : mutex[a] = Qos <=> \E i \in LockedPart : a = robots[i]
      /\ pc[Qos] # "crashed"
  BY ServerAssumption DEF IInv, TypeInv, RobotsLive, IsInjective, Layers, RoundInv, Positions, Uncommanded, Thread
<1>l. pc[Qos] = "lock" => at[Qos] \in DOMAIN robots /\ r[at[Qos]] = robots[at[Qos]]
  <2>1. pc[Qos] = "lock" => Len(r) = at[Qos] /\ r[at[Qos]] = robots[at[Qos]] /\ Len(r) <= Len(robots)
    BY DEF Layers, RoundInv, RoundCopy, InRound
  <2>2. at[Qos] \in Nat \ {0}
    BY <1>i
  <2>3. QED
    BY <1>i, <2>1, <2>2
<1>1. ASSUME pc[Qos] \in InRound PROVE WaitsFor(Qos) = {}
  <2>1. pc[Qos] \in {"test", "lock", "calc", "unlock"}
    BY <1>1, <1>i DEF InRound
  <2>2. CASE pc[Qos] = "lock"
    <3>1. LockedPart = 1..(at[Qos] - 1)
      BY <2>2 DEF LockedPart
    <3>2. at[Qos] \notin LockedPart /\ LockedPart \subseteq DOMAIN robots
      BY <3>1, <2>2, <1>i, <1>l
    <3>3. mutex[robots[at[Qos]]] # Qos
      BY <3>2, <2>2, <1>i, <1>l
    <3>4. mutex[robots[at[Qos]]] = NoThread
      BY <3>3, <2>2, <1>i, <1>l
    <3>5. MutexWanted(Qos) = {robots[at[Qos]]}
      BY <2>2, <1>l DEF MutexWanted
    <3>6. WaitsFor(Qos) = {mutex[a] : a \in MutexWanted(Qos)} \ {NoThread}
      BY <2>2 DEF WaitsFor
    <3>7. QED
      BY <3>4, <3>5, <3>6
  <2>3. CASE pc[Qos] \in {"test", "calc", "unlock"}
    <3>1. MutexWanted(Qos) = {}
      BY <2>3 DEF MutexWanted
    <3>2. WaitsFor(Qos) = {mutex[a] : a \in MutexWanted(Qos)} \ {NoThread}
      BY <2>3 DEF WaitsFor
    <3>3. QED
      BY <3>1, <3>2
  <2>4. QED
    BY <2>1, <2>2, <2>3
<1>2. ASSUME NEW t \in Thread PROVE MutexWanted(t) \subseteq Address
  <2>1. \A i \in First(RobotAt(t, job[t].key)) \cup First(RobotsOf(t)) : robots[i] \in Address
    BY <1>i DEF First, RobotAt, RobotsOf
  <2>2. pc[t] = "lock" => r[at[t]] \in Address
    <3>1. pc[t] = "lock" => t = Qos
      <4>1. Placed(t, pc[t], job[t])
        BY DEF Layers, DataTypes, Places
      <4>2. QED
        BY <4>1 DEF Placed, LabelsOf
    <3>2. QED
      BY <1>i, <1>l, <3>1
  <2>3. QED
    BY <1>i, <2>1, <2>2 DEF MutexWanted
<1>3. ASSUME NEW t \in Thread, NEW u \in {mutex[a] : a \in MutexWanted(t)} \ {NoThread}
      PROVE  u = Qos /\ pc[Qos] \in InRound
  <2>1. PICK a \in Address : u = mutex[a]
    BY <1>2
  <2>2. u = Qos
    BY <2>1, <1>i
  <2>3. LockedPart # {}
    BY <2>1, <2>2, <1>i
  <2>4. QED
    BY <2>2, <2>3 DEF LockedPart, InRound
<1>4. QED
  BY <1>1, <1>3

\* The labels of a thread that waits for a vector.
Gates == {"cams", "updateRobots", "roundRobots", "roundObjects", "objects", "rGate",
          "oWait", "oGate", "iWait", "iGate"}

\* The threads never wait for each other in a circle: a robot is waited for
\* only while the QoS thread can go on, robots only behind readers that wait
\* for nothing else, and objects behind readers that wait for robots.
THEOREM NoCircle == ASSUME Commands = {} PROVE Spec => []NoCircularWait
<1>1. ASSUME IInv, Layers, Uncommanded PROVE NoCircularWait
  <2> SUFFICES ASSUME NEW S \in SUBSET Thread, \A t \in S : WaitsFor(t) \cap S # {}
               PROVE  S = {}
    BY DEF NoCircularWait
  <2>r. /\ robotsLk.waiting = {t \in Thread : pc[t] = "rGate"}
        /\ robotsLk.reading = {t \in Thread : Reads(t, pc[t])}
        /\ robotsLk.writing = {t \in Thread : pc[t] = "rWriting"}
    BY <1>1 DEF IInv, RobotsLocked
  <2>o. /\ objectsLk.waiting = {t \in Thread : Section(t, pc[t]) = "wait"}
        /\ objectsLk.reading = {t \in Thread : Section(t, pc[t]) = "read"}
        /\ objectsLk.writing = {t \in Thread : Section(t, pc[t]) = "write"}
    BY <1>1 DEF Layers, ObjectsLocked
  <2>1. \A t \in S : pc[t] \in Gates
    <3> SUFFICES ASSUME NEW t \in S, pc[t] \notin Gates PROVE FALSE
      OBVIOUS
    <3>1. WaitsFor(t) = {mutex[a] : a \in MutexWanted(t)} \ {NoThread}
      BY DEF WaitsFor, Gates
    <3>2. PICK u \in S : u \in {mutex[a] : a \in MutexWanted(t)} \ {NoThread}
      BY <3>1
    <3>3. u = Qos /\ WaitsFor(Qos) = {}
      BY <1>1, <3>2, QosGoesOn
    <3>4. QED
      BY <3>3
  <2>2. \A t \in S : pc[t] \notin {"iWait", "iGate"} /\ ~ Reads(t, pc[t])
    <3>1. \A t \in Admin : pc[t] = "idle"
      BY <1>1 DEF Uncommanded
    <3>2. \A t \in Thread : pc[t] \in LabelsOf(t)
      BY <1>1 DEF Layers, DataTypes, Places, Placed
    <3>3. \A t \in S : pc[t] \notin {"iWait", "iGate"}
      BY <3>1, <3>2 DEF LabelsOf, Thread
    <3>4. QED
      BY <2>1, <3>1, <3>3 DEF Reads, Gates
  <2>3. \A t \in S : pc[t] # "rGate"
    <3> SUFFICES ASSUME NEW t \in S, pc[t] = "rGate" PROVE FALSE
      OBVIOUS
    <3>1. WaitsFor(t) = robotsLk.reading \cup robotsLk.writing
      BY DEF WaitsFor
    <3>2. PICK u \in S : Reads(u, pc[u]) \/ pc[u] = "rWriting"
      BY <2>r, <3>1
    <3>3. QED
      BY <2>1, <2>2, <3>2 DEF Gates
  <2>4. \A t \in S : pc[t] \notin {"cams", "updateRobots", "roundRobots"}
    <3> SUFFICES ASSUME NEW t \in S, pc[t] \in {"cams", "updateRobots", "roundRobots"} PROVE FALSE
      OBVIOUS
    <3>1. WaitsFor(t) = robotsLk.waiting \cup robotsLk.writing
      BY DEF WaitsFor, Keeping
    <3>2. PICK u \in S : pc[u] \in {"rGate", "rWriting"}
      BY <2>r, <3>1
    <3>3. QED
      BY <2>1, <2>3, <3>2 DEF Gates
  <2>5. \A t \in S : Section(t, pc[t]) \notin {"read", "write"}
    BY <2>1, <2>4 DEF Section, Gates
  <2>6. \A t \in S : pc[t] # "oGate"
    <3> SUFFICES ASSUME NEW t \in S, pc[t] = "oGate" PROVE FALSE
      OBVIOUS
    <3>1. WaitsFor(t) = objectsLk.reading \cup objectsLk.writing
      BY DEF WaitsFor
    <3>2. QED
      BY <2>o, <2>5, <3>1
  <2>7. \A t \in S : Section(t, pc[t]) # "wait"
    BY <2>6, <2>1 DEF Section, Gates
  <2>8. \A t \in S : pc[t] \notin {"roundObjects", "objects", "oWait"}
    <3> SUFFICES ASSUME NEW t \in S, pc[t] \in {"roundObjects", "objects", "oWait"} PROVE FALSE
      OBVIOUS
    <3>1. WaitsFor(t) \subseteq objectsLk.waiting \cup objectsLk.writing
      BY DEF WaitsFor, Keeping
    <3>2. QED
      BY <2>o, <2>5, <2>7, <3>1
  <2>9. QED
    BY <2>1, <2>2, <2>3, <2>4, <2>6, <2>8 DEF Gates
<1>2. QED
  BY <1>1, Inductive, InductiveLayers, InductiveUncommanded, PTL

=============================================================================
