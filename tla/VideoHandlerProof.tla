-------------------------- MODULE VideoHandlerProof --------------------------
(***************************************************************************)
(* Types for any number of io threads; for one thread, which is where the  *)
(* order of the messages and the one write hold, the rest of what the run  *)
(* video_losses checks, for any writers, messages and connections.         *)
(*                                                                         *)
(* The invariant HandlerInv has a part for each thing the handlers leave   *)
(* to one another: no two accepts and no greeting for a later connection   *)
(* (Accepting); before the first close everything that is under way is of  *)
(* the client (ServesFirst), and whoever closes has a reason to            *)
(* (ClosesFirst); do_close runs once (ClosesOnce); each message, wherever  *)
(* it is between write and the client, is in front of those of its sender  *)
(* that were written later (Ordered), and numbers are only taken from what *)
(* was written (Numbered); one write, of the front of the queue            *)
(* (OneWrite), which is followed by the next (GoesOn).                     *)
(***************************************************************************)
EXTENDS VideoHandler, SequenceTheorems, FiniteSetTheorems, TLAPS

\* Every handler is where it can be.
Fits(t) ==
  /\ at[t] \in {"accept", "greet"} => \E c \in Conn : job[t] = Accept(c)
  /\ at[t] = "read" => \E c \in Conn, r \in {"ok", "eof", "aborted", "other"} : job[t] = Read(c, r)
  /\ at[t] = "write" => \E r \in {"ok", "error"} : job[t] = Write(r)
  /\ at[t] \in {"post", "push", "pushFirst"} => \E m \in Message : job[t] = Post(m)
  /\ at[t] = "shutdown" => job[t] = Shutdown

Typed ==
  /\ TypeOK /\ \A t \in IoThread : Fits(t)
  /\ \A w \in Writer : calling[w] = "post" => sent[w] >= 1

\* Nothing is done with a connection before it is made.
Opened ==
  /\ conn # NoConn => sock[conn] # "new"
  /\ \A c \in reading : sock[c] # "new"
  /\ \A i \in DOMAIN ready : ready[i].op = "accept" => sock[ready[i].conn] # "new"
  /\ \A t \in IoThread : at[t] \in {"accept", "greet"} => sock[job[t].conn] # "new"

\* The part that holds with any number of threads.
HandlerTypes == Typed /\ Opened

\* The only thread, its label and its handler.
Io    == CHOOSE t \in IoThread : TRUE
Label == at[Io]
Job   == job[Io]

\* Where the handlers of a kind wait, and the thread between write's handler
\* and the end of internal_write.
Ready(op) == {i \in DOMAIN ready : ready[i].op = op}
Posting   == Label \in {"post", "push", "pushFirst"}

\* The messages there are: those a client has, those queued, those to be queued.
Got(c)  == {wire[c][i] : i \in DOMAIN wire[c]}
Queued  == {queue[i] : i \in DOMAIN queue}
Posted  == {ready[i].message : i \in Ready("post")}
InHand  == IF Posting THEN {Job.message} ELSE {}
Made    == Queued \cup Posted \cup InHand \cup UNION {Got(c) : c \in Conn}

\* The greetings there are, are for earlier connections.
Greeted(c) == \A m \in Made : m.from = Greeter => m.n < c

\* A connection that is accepted and not yet the client's.
Fresh(c) == conn # c /\ sock[c] \in {"open", "lost"} /\ Greeted(c)

\* One accept at a time (TcpServer.cpp), and the greeting of onConnect comes
\* before that of any later connection.
Accepting ==
  /\ \A i, j \in Ready("accept") : i = j
  /\ Ready("accept") # {} => ~accepting /\ Label \notin {"accept", "greet"}
  /\ Label \in {"accept", "greet"} => ~accepting
  /\ \A i \in Ready("accept") : Fresh(ready[i].conn)
  /\ Label = "accept" => Fresh(Job.conn)
  /\ Label = "greet" => conn = Job.conn /\ Greeted(conn)
  /\ \A c, d \in Conn : d < c /\ sock[d] = "new" => sock[c] = "new"
  /\ conn # NoConn => sock[conn] \in {"open", "lost"}

\* The reasons there are to close, and what the ends of a read and a write
\* say of the socket.
Gone == sock[conn] # "open" \/ ~running
Ended(h) == conn # NoConn /\ (h.result \in {"eof", "aborted"} => sock[conn] # "open")
Failed(h) == conn # NoConn /\ (h.result = "error" => sock[conn] # "open")

\* Until the first close nothing is under way or has ended but what is of conn_.
ServesFirst ==
  ~closing =>
    /\ reading \subseteq {conn} /\ \A i \in DOMAIN writing : writing[i].conn = conn
    /\ Ready("doClose") = {}
    /\ \A i \in Ready("read") : ready[i].conn = conn /\ Ended(ready[i])
    /\ \A i \in Ready("write") : Failed(ready[i])

\* Until the first close: the handler in hand is of conn_, and close is called
\* only for a socket that is gone or a server that shuts down.
ClosesFirst ==
  ~closing =>
    /\ Label # "doClose"
    /\ Label = "read" => Job.conn = conn /\ Ended(Job)
    /\ Label = "write" => Failed(Job)
    /\ Label = "close" /\ Job.op = "write" => conn # NoConn
    /\ Label = "postClose" => conn # NoConn
    /\ Label \in {"close", "postClose"} /\ conn # NoConn => Gone

\* Once closing is set no second do_close is posted.
ClosesOnce ==
  closing =>
    /\ Label # "postClose"
    /\ \A i, j \in Ready("doClose") : i = j
    /\ Ready("doClose") # {} => Label # "doClose"
    /\ Ready("doClose") # {} \/ Label = "doClose" => conn # NoConn /\ Gone

\* Of one sender, m was written before n.
Before(m, n) == m.from = n.from => m.n < n.n

\* A write has ended well and is not yet handled.
Done == (\E i \in DOMAIN ready : ready[i] = Write("ok")) \/ (Label = "write" /\ Job = Write("ok"))

\* On its way from post to queue to the client, no message is behind a later
\* one of its sender; the front of the queue may be with the client already
\* when its write has ended (write_handler pops it).
Ordered ==
  /\ \A i, j \in DOMAIN queue : i < j => Before(queue[i], queue[j])
  /\ \A i, j \in Ready("post") : i < j => Before(ready[i].message, ready[j].message)
  /\ \A c \in Conn : \A i, j \in DOMAIN wire[c] : i < j => Before(wire[c][i], wire[c][j])
  /\ \A c \in Conn : \A m \in Got(c) : \A j \in DOMAIN queue :
       Before(m, queue[j]) \/ (j = 1 /\ m = queue[j] /\ Done)
  /\ \A m \in Queued \cup InHand \cup UNION {Got(c) : c \in Conn} : \A n \in Posted : Before(m, n)
  /\ \A m \in Queued \cup UNION {Got(c) : c \in Conn} : \A n \in InHand : Before(m, n)

\* A message has a number its sender has used; the greeting that of its client.
Numbered ==
  \A m \in Made :
    /\ m.from = Greeter => sock[m.n] # "new"
    /\ m.from # Greeter => m.n <= sent[m.from] /\ (calling[m.from] = "post" => m.n < sent[m.from])

\* At most one write is under way or has ended, and it is of the front.
OneWrite ==
  /\ Len(writing) <= 1
  /\ \A i, j \in Ready("write") : i = j
  /\ writing # <<>> => Ready("write") = {} /\ Label \notin {"write", "more"}
  /\ Ready("write") # {} => Label \notin {"write", "more"}
  /\ writing # <<>> \/ Ready("write") # {} \/ Label = "write" => queue # <<>>
  /\ \A i \in DOMAIN writing : writing[i].message = queue[1]
  /\ Label = "pushFirst" => queue = <<>>
  /\ Label = "push" => queue # <<>>

\* A write has failed and its handler has not yet closed.
WriteFailed ==
  \/ \E i \in DOMAIN ready : ready[i] = Write("error")
  \/ Label \in {"write", "close", "postClose"} /\ Job = Write("error")

\* What is queued is being written, or its write has ended.
GoesOn ==
  queue # <<>> =>
    \/ closing \/ crashed \/ WriteFailed \/ writing # <<>> \/ Done \/ Label = "more"

HandlerInv ==
  HandlerTypes /\ Accepting /\ ServesFirst /\ ClosesFirst /\ ClosesOnce /\ Ordered /\ Numbered /\ OneWrite /\ GoesOn

\* No handler of a kind has become ready; one may have been taken.
Fewer(op) == \E d \in {0, 1} : \A i \in Ready(op)' : i + d \in Ready(op) /\ ready'[i] = ready[i + d]

-----------------------------------------------------------------------------
(* Handlers, and the sequences that hold them.                             *)

LEMMA TaskKinds ==
  /\ \A c \in Conn : Accept(c) \in Task
  /\ \A c \in Conn, r \in {"ok", "eof", "aborted", "other"} : Read(c, r) \in Task
  /\ \A r \in {"ok", "error"} : Write(r) \in Task
  /\ \A m \in Message : Post(m) \in Task
  /\ DoClose \in Task /\ Shutdown \in Task
  /\ \A h \in Task :
       \/ \E c \in Conn : h = Accept(c)
       \/ \E c \in Conn, r \in {"ok", "eof", "aborted", "other"} : h = Read(c, r)
       \/ \E r \in {"ok", "error"} : h = Write(r)
       \/ \E m \in Message : h = Post(m)
       \/ h \in {DoClose, Shutdown}
BY DEF Task

LEMMA TaskFields ==
  /\ \A c : Accept(c).op = "accept" /\ Accept(c).conn = c
  /\ \A c, r : Read(c, r).op = "read" /\ Read(c, r).conn = c /\ Read(c, r).result = r
  /\ \A r : Write(r).op = "write" /\ Write(r).result = r
  /\ \A m : Post(m).op = "post" /\ Post(m).message = m
  /\ DoClose.op = "doClose" /\ Shutdown.op = "shutdown"
BY DEF Accept, Read, Write, Post, DoClose, Shutdown

LEMMA AcceptConn ==
  ASSUME NEW i \in DOMAIN ready, ready \in Seq(Task), ready[i].op = "accept" PROVE ready[i].conn \in Conn
<1>1. ready[i] \in Task
  OBVIOUS
<1>2. QED
  BY <1>1, TaskKinds, TaskFields

LEMMA ElementAt == ASSUME NEW S, NEW s \in Seq(S), NEW i \in DOMAIN s PROVE s[i] \in S
OBVIOUS

LEMMA AppendAt ==
  ASSUME NEW S, NEW s \in Seq(S), NEW e \in S
  PROVE  /\ Append(s, e) \in Seq(S) /\ Len(Append(s, e)) = Len(s) + 1 /\ Len(s) \in Nat
         /\ DOMAIN s = 1..Len(s) /\ DOMAIN Append(s, e) = 1..(Len(s) + 1)
         /\ \A i \in 1..Len(s) : Append(s, e)[i] = s[i]
         /\ Append(s, e)[Len(s) + 1] = e
OBVIOUS

LEMMA TailAt ==
  ASSUME NEW S, NEW s \in Seq(S), s # <<>>
  PROVE  /\ Tail(s) \in Seq(S) /\ Len(Tail(s)) = Len(s) - 1 /\ Len(s) \in Nat \ {0}
         /\ DOMAIN s = 1..Len(s) /\ DOMAIN Tail(s) = 1..(Len(s) - 1)
         /\ \A i \in 1..(Len(s) - 1) : Tail(s)[i] = s[i + 1] /\ i + 1 \in 1..Len(s)
         /\ Head(s) = s[1] /\ 1 \in 1..Len(s) /\ Head(s) \in S
<1> DEFINE left == Tail(s)
<1>1. left \in Seq(S) /\ Len(left) = Len(s) - 1 /\ Len(s) \in Nat \ {0}
  OBVIOUS
<1>2. \A i \in 1..(Len(s) - 1) : left[i] = s[i + 1] /\ i + 1 \in 1..Len(s)
  OBVIOUS
<1>3. Head(s) = s[1] /\ 1 \in 1..Len(s) /\ Head(s) \in S
  OBVIOUS
<1>4. DOMAIN s = 1..Len(s)
  OBVIOUS
<1> HIDE DEF left
<1>5. DOMAIN left = 1..(Len(s) - 1)
  BY <1>1
<1>6. QED
  BY <1>1, <1>2, <1>3, <1>4, <1>5 DEF left

\* A sequence without its element at k.
LEMMA RemoveShifts ==
  ASSUME NEW S, NEW s \in Seq(S), NEW k \in DOMAIN s
  PROVE  /\ RemoveAt(s, k) \in Seq(S) /\ Len(s) \in Nat /\ DOMAIN s = 1..Len(s)
         /\ DOMAIN RemoveAt(s, k) = 1..(Len(s) - 1)
         /\ \A j \in 1..(Len(s) - 1) : RemoveAt(s, k)[j] = s[IF j < k THEN j ELSE j + 1]
<1>1. k \in 1..Len(s) /\ Len(s) \in Nat
  OBVIOUS
<1> DEFINE front == SubSeq(s, 1, k - 1)
           back  == SubSeq(s, k + 1, Len(s))
<1>2. front \in Seq(S) /\ Len(front) = k - 1 /\ \A j \in 1..(k - 1) : front[j] = s[j]
  BY <1>1
<1>3. back \in Seq(S) /\ Len(back) = Len(s) - k /\ \A j \in 1..(Len(s) - k) : back[j] = s[k + j]
  BY <1>1
<1>4. RemoveAt(s, k) = front \o back
  BY DEF RemoveAt
<1> HIDE DEF front, back
<1>5. /\ front \o back \in Seq(S)
      /\ Len(front \o back) = Len(s) - 1
      /\ \A j \in 1..(Len(s) - 1) :
           (front \o back)[j] = IF j <= k - 1 THEN front[j] ELSE back[j - (k - 1)]
  <2>1. front \in Seq(S) /\ back \in Seq(S) /\ Len(front) = k - 1 /\ Len(back) = Len(s) - k
    BY <1>2, <1>3
  <2>2. /\ front \o back \in Seq(S)
        /\ Len(front \o back) = Len(front) + Len(back)
        /\ \A j \in 1..(Len(front) + Len(back)) :
             (front \o back)[j] = IF j <= Len(front) THEN front[j] ELSE back[j - Len(front)]
    BY <2>1, ConcatProperties
  <2>3. Len(front) + Len(back) = Len(s) - 1
    BY <1>1, <2>1
  <2>4. QED
    BY <2>1, <2>2, <2>3
<1>6. ASSUME NEW j \in 1..(Len(s) - 1) PROVE (front \o back)[j] = s[IF j < k THEN j ELSE j + 1]
  <2>1. CASE j < k
    BY <1>1, <1>2, <1>5, <2>1
  <2>2. CASE ~ (j < k)
    <3>1. (front \o back)[j] = back[j - (k - 1)]
      BY <1>1, <1>5, <2>2
    <3>2. j - (k - 1) \in 1..(Len(s) - k) /\ k + (j - (k - 1)) = j + 1
      BY <1>1, <2>2
    <3>3. QED
      BY <1>1, <1>3, <2>2, <3>1, <3>2
  <2>3. QED
    BY <2>1, <2>2
<1>7. DOMAIN (front \o back) = 1..(Len(s) - 1)
  BY <1>5
<1>8. QED
  BY <1>1, <1>4, <1>5, <1>6, <1>7

\* The sequence that is left.
LEMMA RemoveKeeps ==
  ASSUME NEW S, NEW s \in Seq(S), NEW k \in DOMAIN s PROVE RemoveAt(s, k) \in Seq(S)
BY RemoveShifts

-----------------------------------------------------------------------------
(* Types, for any number of threads.                                       *)

LEMMA TypesInit == ASSUME Init PROVE Typed
<1>1. \A S : <<>> \in Seq(S)
  OBVIOUS
<1>3. TypeOK
  <2>1. queue \in Seq(Message) /\ ready \in Seq(Task) /\ writing \in Seq([conn : Conn, message : Message])
    BY <1>1 DEF Init
  <2>2. wire \in [Conn -> Seq(Message)]
    BY <1>1 DEF Init
  <2>3. sent \in [Writer -> 0..MaxMessages]
    BY VideoAssumption DEF Init
  <2>4. job \in [IoThread -> Task \cup {NoTask}] /\ DOMAIN at = IoThread
    BY DEF Init
  <2>5. sock \in [Conn -> {"new", "open", "lost", "closed"}] /\ calling \in [Writer -> {"out", "post", "release"}]
    BY DEF Init
  <2>6. QED
    BY <2>1, <2>2, <2>3, <2>4, <2>5 DEF Init, TypeOK
<1>4. QED
  BY <1>3 DEF Init, Typed, Fits

\* What a thread goes on with.
LEMMA TypesGoto ==
  ASSUME Typed, NEW t \in IoThread, NEW to, Goto(t, to), UNCHANGED job,
         to \in {"accept", "greet"} => at[t] \in {"accept", "greet"},
         to \notin {"read", "write", "shutdown"},
         to \in {"post", "push", "pushFirst"} => at[t] \in {"post", "push", "pushFirst"}
  PROVE  DOMAIN at' = IoThread /\ \A u \in IoThread : Fits(u)'
<1>1. DOMAIN at = IoThread /\ \A u \in IoThread : Fits(u)
  BY DEF Typed, TypeOK
<1>2. at' = [at EXCEPT ![t] = to]
  BY DEF Goto
<1>3. DOMAIN at' = IoThread /\ at'[t] = to /\ \A u \in IoThread : u # t => at'[u] = at[u]
  BY <1>1, <1>2
<1>4. ASSUME NEW u \in IoThread PROVE Fits(u)'
  <2>1. CASE u = t
    BY <1>1, <1>3, <2>1 DEF Fits
  <2>2. CASE u # t
    BY <1>1, <1>3, <2>2 DEF Fits
  <2>3. QED
    BY <2>1, <2>2
<1>5. QED
  BY <1>3, <1>4

LEMMA TypesDispatch ==
  ASSUME Typed, NEW t \in IoThread, Dispatch(t)
  PROVE  Typed'
<1>1. /\ ready \in Seq(Task) /\ ready # <<>> /\ ready' = Tail(ready)
      /\ job' = [job EXCEPT ![t] = Head(ready)] /\ at' = [at EXCEPT ![t] = Head(ready).op]
      /\ DOMAIN at = IoThread /\ job \in [IoThread -> Task \cup {NoTask}]
  BY DEF Typed, TypeOK, Dispatch, Goto
<1>2. Head(ready) \in Task /\ ready' \in Seq(Task)
  BY <1>1, TailAt
<1> DEFINE h == Head(ready)
<1>3. /\ DOMAIN at' = IoThread /\ at'[t] = h.op /\ job'[t] = h /\ job' \in [IoThread -> Task \cup {NoTask}]
      /\ \A u \in IoThread : u # t => at'[u] = at[u] /\ job'[u] = job[u]
  BY <1>1, <1>2
<1> HIDE DEF h
<1>4. Fits(t)'
  <2>1. h \in Task
    BY <1>2 DEF h
  <2>2. \/ \E c \in Conn : h = Accept(c)
        \/ \E c \in Conn, r \in {"ok", "eof", "aborted", "other"} : h = Read(c, r)
        \/ \E r \in {"ok", "error"} : h = Write(r)
        \/ \E m \in Message : h = Post(m)
        \/ h \in {DoClose, Shutdown}
    BY <2>1, TaskKinds
  <2>3. QED
    BY <1>3, <2>2, TaskFields DEF Fits
<1>5. \A u \in IoThread : Fits(u)'
  BY <1>3, <1>4 DEF Fits, Typed
<1>6. UNCHANGED <<conn, closing, running, queue, sock, accepting, reading, writing, wire, sent, calling, crashed>>
  BY DEF Dispatch, net, rest
<1>7. TypeOK'
  BY <1>2, <1>3, <1>6 DEF Typed, TypeOK
<1>8. QED
  BY <1>5, <1>6, <1>7 DEF Typed

LEMMA TypesConnect ==
  ASSUME Typed, NEW t \in IoThread, OnConnect(t) \/ Greet(t)
  PROVE  Typed'
<1>1. PICK c \in Conn : job[t] = Accept(c)
  BY DEF Typed, Fits, OnConnect, Greet
<1>2. job[t].conn = c
  BY <1>1, TaskFields
<1>3. CASE OnConnect(t)
  <2>1. (Goto(t, "greet") \/ Goto(t, "idle")) /\ at[t] = "accept" /\ UNCHANGED job
    BY <1>3 DEF OnConnect
  <2>2. DOMAIN at' = IoThread /\ \A u \in IoThread : Fits(u)'
    BY <2>1, TypesGoto
  <2>3. UNCHANGED <<closing, queue, ready, job, running, sent, calling, crashed, reading, writing, wire>>
    BY <1>3 DEF OnConnect, net, rest
  <2>4. /\ conn' \in Conn \cup {NoConn} /\ accepting' \in BOOLEAN
        /\ sock' \in [Conn -> {"new", "open", "lost", "closed"}]
    BY <1>2, <1>3 DEF OnConnect, Typed, TypeOK, net
  <2>5. QED
    BY <2>2, <2>3, <2>4 DEF Typed, TypeOK
<1>4. CASE Greet(t)
  <2>1. Goto(t, "release") /\ UNCHANGED job
    BY <1>4 DEF Greet
  <2>2. DOMAIN at' = IoThread /\ \A u \in IoThread : Fits(u)'
    BY <2>1, TypesGoto
  <2> DEFINE m == [from |-> Greeter, n |-> c]
  <2>3. Post(m) \in Task
    <3>1. m \in Message
      BY DEF Message
    <3>2. QED
      BY <3>1, TaskKinds
  <2> HIDE DEF m
  <2>4. ready' = Append(ready, Post(m)) /\ reading' = reading \cup {c} /\ accepting' = running
    BY <1>2, <1>4 DEF Greet, m
  <2>5. ready' \in Seq(Task)
    BY <2>3, <2>4, AppendAt DEF Typed, TypeOK
  <2>6. UNCHANGED <<conn, closing, queue, sock, writing, wire, job, running, sent, calling, crashed>>
    BY <1>4 DEF Greet, rest
  <2>7. QED
    BY <2>2, <2>4, <2>5, <2>6 DEF Typed, TypeOK
<1>5. QED
  BY <1>3, <1>4

LEMMA TypesRead ==
  ASSUME Typed, NEW t \in IoThread, ReadHandler(t)
  PROVE  Typed'
<1>1. (Goto(t, "close") \/ Goto(t, "idle") \/ Goto(t, "release")) /\ UNCHANGED job
  BY DEF ReadHandler
<1>2. DOMAIN at' = IoThread /\ \A u \in IoThread : Fits(u)'
  BY <1>1, TypesGoto
<1>3. reading' \subseteq Conn
  BY DEF ReadHandler, Typed, TypeOK
<1>4. UNCHANGED <<conn, closing, queue, ready, sock, accepting, writing, wire, job, running, sent, calling, crashed>>
  BY DEF ReadHandler, rest
<1>5. QED
  BY <1>2, <1>3, <1>4 DEF Typed, TypeOK

LEMMA TypesWrite ==
  ASSUME Typed, NEW t \in IoThread, WriteHandler(t) \/ More(t)
  PROVE  Typed'
<1>q. queue \in Seq(Message)
  BY DEF Typed, TypeOK
<1>1. CASE WriteHandler(t)
  <2>1. (Goto(t, "close") \/ Goto(t, "more")) /\ UNCHANGED job
    BY <1>1 DEF WriteHandler
  <2>2. DOMAIN at' = IoThread /\ \A u \in IoThread : Fits(u)'
    BY <2>1, TypesGoto
  <2>3. queue' = queue \/ (queue # <<>> /\ queue' = Tail(queue))
    BY <1>1 DEF WriteHandler
  <2>4. queue' \in Seq(Message)
    BY <1>q, <2>3, TailAt
  <2>5. UNCHANGED <<conn, closing, ready, sock, accepting, reading, writing, wire, job, running, sent, calling, crashed>>
    BY <1>1 DEF WriteHandler, net, rest
  <2>6. QED
    BY <2>2, <2>4, <2>5 DEF Typed, TypeOK
<1>2. CASE More(t)
  <2>1. (Goto(t, "idle") \/ Goto(t, "release")) /\ UNCHANGED job
    BY <1>2 DEF More
  <2>2. DOMAIN at' = IoThread /\ \A u \in IoThread : Fits(u)'
    BY <2>1, TypesGoto
  <2>3. writing' \in Seq([conn : Conn, message : Message])
    <3>1. CASE queue = <<>>
      BY <1>2, <3>1 DEF More, Typed, TypeOK
    <3>2. CASE queue # <<>>
      <4>1. Head(queue) \in Message /\ conn \in Conn
        BY <1>2, <1>q, <3>2, TailAt DEF More, Typed, TypeOK
      <4>2. writing' = Append(writing, [conn |-> conn, message |-> Head(queue)])
        BY <1>2, <3>2 DEF More
      <4>3. [conn |-> conn, message |-> Head(queue)] \in [conn : Conn, message : Message]
        BY <4>1
      <4>4. QED
        BY <4>2, <4>3, AppendAt DEF Typed, TypeOK
    <3>3. QED
      BY <3>1, <3>2
  <2>4. UNCHANGED <<conn, closing, queue, ready, sock, accepting, reading, wire, job, running, sent, calling, crashed>>
    BY <1>2 DEF More, rest
  <2>5. QED
    BY <2>2, <2>3, <2>4 DEF Typed, TypeOK
<1>3. QED
  BY <1>1, <1>2

LEMMA TypesPost ==
  ASSUME Typed, NEW t \in IoThread, InternalWrite(t) \/ Push(t)
  PROVE  Typed'
<1>1. CASE InternalWrite(t)
  <2>1. (Goto(t, "push") \/ Goto(t, "pushFirst")) /\ at[t] = "post" /\ UNCHANGED job
    BY <1>1 DEF InternalWrite
  <2>2. DOMAIN at' = IoThread /\ \A u \in IoThread : Fits(u)'
    BY <2>1, TypesGoto
  <2>3. UNCHANGED <<conn, closing, queue, ready, sock, accepting, reading, writing, wire, job, running, sent, calling, crashed>>
    BY <1>1 DEF InternalWrite, net, rest
  <2>4. QED
    BY <2>2, <2>3 DEF Typed, TypeOK
<1>2. CASE Push(t)
  <2>1. (Goto(t, "idle") \/ Goto(t, "release")) /\ UNCHANGED job
    BY <1>2 DEF Push
  <2>2. DOMAIN at' = IoThread /\ \A u \in IoThread : Fits(u)'
    BY <2>1, TypesGoto
  <2>3. PICK m \in Message : job[t] = Post(m)
    BY <1>2 DEF Push, Typed, Fits
  <2>4. job[t].message = m
    BY <2>3, TaskFields
  <2>5. queue' = Append(queue, m)
    BY <1>2, <2>4 DEF Push
  <2>6. queue' \in Seq(Message)
    BY <2>5, AppendAt DEF Typed, TypeOK
  <2>7. writing' = writing \/ (conn # NoConn /\ writing' = Append(writing, [conn |-> conn, message |-> m]))
    BY <1>2, <2>4 DEF Push
  <2>8. writing' \in Seq([conn : Conn, message : Message])
    <3>1. writing \in Seq([conn : Conn, message : Message]) /\ conn \in Conn \cup {NoConn}
      BY DEF Typed, TypeOK
    <3> DEFINE e == [conn |-> conn, message |-> m]
    <3>2. writing' = writing \/ (e \in [conn : Conn, message : Message] /\ writing' = Append(writing, e))
      BY <2>7, <3>1
    <3> DEFINE R == [conn : Conn, message : Message]
    <3>3. writing \in Seq(R) /\ (writing' = writing \/ (e \in R /\ writing' = Append(writing, e)))
      BY <3>1, <3>2
    <3> HIDE DEF e, R
    <3>4. writing' \in Seq(R)
      BY <3>3
    <3>5. QED
      BY <3>4 DEF R
  <2>9. UNCHANGED <<conn, closing, ready, sock, accepting, reading, wire, job, running, sent, calling, crashed>>
    BY <1>2 DEF Push, rest
  <2>10. QED
    BY <2>2, <2>6, <2>8, <2>9 DEF Typed, TypeOK
<1>3. QED
  BY <1>1, <1>2

LEMMA TypesClose ==
  ASSUME Typed, NEW t \in IoThread,
         CloseTest(t) \/ PostClose(t) \/ CloseSocket(t) \/ ShutdownServer(t) \/ Release(t) \/ Fault(t)
  PROVE  Typed'
<1>1. (Goto(t, "idle") \/ Goto(t, "postClose") \/ Goto(t, "release") \/ Goto(t, "close")) /\ UNCHANGED job
  BY DEF CloseTest, PostClose, CloseSocket, ShutdownServer, Release, Fault, Crash
<1>2. DOMAIN at' = IoThread /\ \A u \in IoThread : Fits(u)'
  BY <1>1, TypesGoto
<1>3. ready' \in Seq(Task)
  <2>1. ready' = ready \/ ready' = Append(ready, DoClose)
    BY DEF CloseTest, PostClose, CloseSocket, ShutdownServer, Release, Fault, Crash
  <2>2. DoClose \in Task
    BY TaskKinds
  <2>3. QED
    <3>1. ready \in Seq(Task)
      BY DEF Typed, TypeOK
    <3>2. Append(ready, DoClose) \in Seq(Task)
      BY <2>2, <3>1
    <3>3. QED
      BY <2>1, <3>1, <3>2
<1>4. sock' \in [Conn -> {"new", "open", "lost", "closed"}] /\ conn' \in Conn \cup {NoConn}
  <2>1. sock' = sock \/ sock' = [sock EXCEPT ![conn] = "closed"]
    BY DEF CloseTest, PostClose, CloseSocket, ShutdownServer, Release, Fault, Crash, net
  <2>2. conn' = conn \/ conn' = NoConn
    BY DEF CloseTest, PostClose, CloseSocket, ShutdownServer, Release, Fault, Crash
  <2>3. QED
    BY <2>1, <2>2 DEF Typed, TypeOK
<1>5. closing' \in BOOLEAN /\ running' \in BOOLEAN /\ accepting' \in BOOLEAN /\ crashed' \in BOOLEAN
  BY DEF CloseTest, PostClose, CloseSocket, ShutdownServer, Release, Fault, Crash, net, rest, Typed, TypeOK
<1>6. UNCHANGED <<queue, reading, writing, wire, job, sent, calling>>
  BY DEF CloseTest, PostClose, CloseSocket, ShutdownServer, Release, Fault, Crash, net, rest
<1>7. QED
  BY <1>2, <1>3, <1>4, <1>5, <1>6 DEF Typed, TypeOK

LEMMA TypesWriter ==
  ASSUME Typed, NEW w \in Writer, WriterStep(w)
  PROVE  Typed'
<1>1. UNCHANGED <<conn, closing, running, queue, net, at, job>>
  BY DEF WriterStep, WriteTest, WritePost, WriteRelease, WriteFault, net
<1>2. \A u \in IoThread : Fits(u)'
  BY <1>1 DEF Fits, Typed
<1>3. /\ sent' \in [Writer -> 0..MaxMessages] /\ calling' \in [Writer -> {"out", "post", "release"}]
      /\ \A v \in Writer : calling'[v] = "post" => sent'[v] >= 1
      /\ crashed' \in BOOLEAN
  <2>0. /\ sent \in [Writer -> 0..MaxMessages] /\ calling \in [Writer -> {"out", "post", "release"}]
        /\ \A v \in Writer : calling[v] = "post" => sent[v] >= 1
        /\ crashed \in BOOLEAN
    BY DEF Typed, TypeOK
  <2>1. CASE WriteTest(w)
    BY <2>0, <2>1, VideoAssumption DEF WriteTest
  <2>2. CASE WritePost(w) \/ WriteRelease(w) \/ WriteFault(w)
    BY <2>0, <2>2 DEF WritePost, WriteRelease, WriteFault
  <2>3. QED
    BY <2>1, <2>2 DEF WriterStep
<1>4. ready' \in Seq(Task)
  <2>1. CASE WritePost(w)
    <3> DEFINE m == [from |-> w, n |-> sent[w]]
    <3>1. sent[w] \in 1..MaxMessages
      BY <2>1, VideoAssumption DEF WritePost, Typed, TypeOK
    <3>2. m \in Message
      BY <3>1 DEF Message
    <3>3. Post(m) \in Task
      BY <3>2, TaskKinds
    <3>4. ready' = Append(ready, Post(m))
      BY <2>1 DEF WritePost
    <3> HIDE DEF m
    <3>5. QED
      BY <3>3, <3>4, AppendAt DEF Typed, TypeOK
  <2>2. CASE ~ WritePost(w)
    BY <2>2 DEF WriterStep, WriteTest, WriteRelease, WriteFault, Typed, TypeOK
  <2>3. QED
    BY <2>1, <2>2
<1>5. QED
  BY <1>1, <1>2, <1>3, <1>4 DEF Typed, TypeOK, net

\* The sockets and the commands.
LEMMA TypesNet ==
  ASSUME Typed, Opened, (\E c \in Conn : Connect(c) \/ Lose(c)) \/ IoEnds \/ AskShutdown
  PROVE  Typed'
<1>1. UNCHANGED <<conn, closing, running, queue, at, job, sent, calling, crashed>>
  BY DEF Connect, Lose, IoEnds, ReadEnds, WriteEnds, AskShutdown, rest
<1>2. \A u \in IoThread : Fits(u)'
  BY <1>1 DEF Fits, Typed
<1> DEFINE NetTypes ==
             /\ ready \in Seq(Task) /\ sock \in [Conn -> {"new", "open", "lost", "closed"}]
             /\ reading \subseteq Conn /\ writing \in Seq([conn : Conn, message : Message])
             /\ wire \in [Conn -> Seq(Message)] /\ accepting \in BOOLEAN
<1>t. NetTypes
  BY DEF Typed, TypeOK
<1>3. NetTypes'
  <2>1. ASSUME NEW c \in Conn, Connect(c) PROVE NetTypes'
    <3>1. ready' = Append(ready, Accept(c)) /\ Accept(c) \in Task
      BY <2>1, TaskKinds DEF Connect
    <3>2. ready' \in Seq(Task)
      BY <1>t, <3>1, AppendAt
    <3>3. QED
      BY <1>t, <2>1, <3>2 DEF Connect
  <2>2. ASSUME NEW c \in Conn, Lose(c) PROVE NetTypes'
    BY <1>t, <2>2 DEF Lose
  <2>3. ASSUME NEW c \in Conn, ReadEnds(c) PROVE NetTypes'
    <3>1. PICK r \in Results[sock[c]] : ready' = Append(ready, Read(c, r))
      BY <2>3 DEF ReadEnds
    <3>2. sock[c] # "new"
      BY <2>3 DEF ReadEnds, Opened
    <3>3. r \in {"ok", "eof", "aborted", "other"}
      BY <1>t, <3>1, <3>2 DEF Results
    <3>4. ready' \in Seq(Task)
      BY <1>t, <3>1, <3>3, TaskKinds, AppendAt
    <3>5. QED
      BY <1>t, <2>3, <3>4 DEF ReadEnds
  <2>4. ASSUME NEW i \in DOMAIN writing, WriteEnds(i) PROVE NetTypes'
    <3>e. writing[i] \in [conn : Conn, message : Message]
      BY <1>t, ElementAt
    <3>1. writing[i].conn \in Conn /\ writing[i].message \in Message
      BY <3>e
    <3>2. PICK r \in {"ok", "error"} : ready' = Append(ready, Write(r))
      BY <2>4 DEF WriteEnds
    <3>3. ready' \in Seq(Task)
      BY <1>t, <3>2, TaskKinds, AppendAt
    <3>4. writing' \in Seq([conn : Conn, message : Message])
      <4>1. writing' = RemoveAt(writing, i)
        BY <2>4 DEF WriteEnds
      <4>2. QED
        BY <1>t, <4>1, RemoveKeeps
    <3>5. wire' \in [Conn -> Seq(Message)]
      <4>1. wire' = wire \/ wire' = [wire EXCEPT ![writing[i].conn] = Append(wire[writing[i].conn], writing[i].message)]
        BY <2>4 DEF WriteEnds
      <4>2. Append(wire[writing[i].conn], writing[i].message) \in Seq(Message)
        BY <1>t, <3>1, AppendAt
      <4>3. QED
        BY <1>t, <4>1, <4>2
    <3>6. QED
      BY <1>t, <2>4, <3>3, <3>4, <3>5 DEF WriteEnds
  <2>5. ASSUME AskShutdown PROVE NetTypes'
    <3>1. ready' = Append(ready, Shutdown) /\ Shutdown \in Task
      BY <2>5, TaskKinds DEF AskShutdown
    <3>2. ready' \in Seq(Task)
      BY <1>t, <3>1, AppendAt
    <3>3. QED
      BY <1>t, <2>5, <3>2 DEF AskShutdown, net
  <2>6. QED
    BY <2>1, <2>2, <2>3, <2>4, <2>5 DEF IoEnds
<1>4. QED
  BY <1>1, <1>2, <1>3 DEF Typed, TypeOK

LEMMA OpenedStep ==
  ASSUME Typed, Opened, [Next]_vars
  PROVE  Opened'
<1>t. /\ sock \in [Conn -> {"new", "open", "lost", "closed"}] /\ conn \in Conn \cup {NoConn}
      /\ reading \subseteq Conn /\ DOMAIN at = IoThread /\ job \in [IoThread -> Task \cup {NoTask}]
      /\ ready \in Seq(Task)
  BY DEF Typed, TypeOK
<1> DEFINE Grown == \A c \in Conn : sock'[c] = "new" => sock[c] = "new"
<1>1. ASSUME NEW t \in IoThread, Dispatch(t) PROVE Opened'
  <2>1. UNCHANGED <<conn, sock, reading>> /\ ready # <<>> /\ ready' = Tail(ready)
        /\ at' = [at EXCEPT ![t] = Head(ready).op] /\ job' = [job EXCEPT ![t] = Head(ready)]
    BY <1>1 DEF Dispatch, net, Goto
  <2>2. \A i \in DOMAIN ready' : i + 1 \in DOMAIN ready /\ ready'[i] = ready[i + 1]
    BY <1>t, <2>1, TailAt
  <2>3. Head(ready) = ready[1] /\ 1 \in DOMAIN ready /\ Head(ready) \in Task
    BY <1>t, <2>1, TailAt
  <2>4. Head(ready).op \in {"accept", "greet"} => Head(ready).op = "accept"
    BY <2>3, TaskKinds, TaskFields
  <2> DEFINE h == Head(ready)
  <2>5. \A u \in IoThread : IF u = t THEN at'[u] = h.op /\ job'[u] = h ELSE at'[u] = at[u] /\ job'[u] = job[u]
    BY <1>t, <2>1
  <2>6. h.op = "accept" => sock[h.conn] # "new"
    BY <2>3 DEF Opened
  <2> HIDE DEF h
  <2>7. \A u \in IoThread : at'[u] \in {"accept", "greet"} => sock'[job'[u].conn] # "new"
    BY <2>1, <2>4, <2>5, <2>6 DEF Opened, h
  <2>8. QED
    BY <2>1, <2>2, <2>7 DEF Opened
<1>2. ASSUME NEW t \in IoThread, OnConnect(t) \/ Greet(t) PROVE Opened'
  <2>1. PICK c \in Conn : job[t] = Accept(c)
    BY <1>2 DEF Typed, Fits, OnConnect, Greet
  <2>2. job[t].conn = c /\ sock[c] # "new" /\ at[t] \in {"accept", "greet"}
    BY <1>2, <2>1, TaskFields DEF Opened, OnConnect, Greet
  <2>3. CASE OnConnect(t)
    <3>1. ready' = ready /\ job' = job /\ reading' = reading /\ conn' \in {conn, c}
          /\ \A d \in Conn : sock'[d] = "new" => sock[d] = "new"
      BY <1>t, <2>2, <2>3 DEF OnConnect, net
    <3>a. \A u \in IoThread : at'[u] \in {"accept", "greet"} => at[u] \in {"accept", "greet"}
      <4>1. Goto(t, "greet") \/ Goto(t, "idle")
        BY <2>3 DEF OnConnect
      <4>2. QED
        BY <1>t, <2>2, <4>1 DEF Goto
    <3>2. \A u \in IoThread : at[u] \in {"accept", "greet"} => job[u].conn \in Conn
      BY TaskFields DEF Typed, Fits
    <3>3. \A i \in DOMAIN ready : ready[i].op = "accept" => ready[i].conn \in Conn
      BY <1>t, AcceptConn
    <3>4. conn' # NoConn => sock'[conn'] # "new"
      BY <1>t, <2>2, <3>1 DEF Opened
    <3>5. \A d \in reading' : sock'[d] # "new"
      BY <1>t, <3>1 DEF Opened
    <3>6. \A i \in DOMAIN ready' : ready'[i].op = "accept" => sock'[ready'[i].conn] # "new"
      BY <3>1, <3>3 DEF Opened
    <3>7. ASSUME NEW u \in IoThread, at'[u] \in {"accept", "greet"} PROVE sock'[job'[u].conn] # "new"
      <4>1. at[u] \in {"accept", "greet"} /\ job'[u].conn = job[u].conn
        BY <3>1, <3>a, <3>7
      <4>2. sock[job[u].conn] # "new" /\ job[u].conn \in Conn
        BY <3>2, <4>1 DEF Opened
      <4>3. QED
        BY <3>1, <4>1, <4>2
    <3>8. QED
      BY <3>4, <3>5, <3>6, <3>7 DEF Opened
  <2>4. CASE Greet(t)
    <3> DEFINE h == Post([from |-> Greeter, n |-> job[t].conn])
    <3>1. ready' = Append(ready, h) /\ h \in Task /\ h.op = "post"
      <4>1. [from |-> Greeter, n |-> c] \in Message
        BY DEF Message
      <4>2. QED
        BY <2>2, <2>4, <4>1, TaskKinds, TaskFields DEF Greet
    <3> HIDE DEF h
    <3>2. \A i \in DOMAIN ready' : ready'[i].op = "accept" => i \in DOMAIN ready /\ ready'[i] = ready[i]
      BY <1>t, <3>1, AppendAt
    <3>3. job' = job /\ reading' = reading \cup {c} /\ conn' = conn /\ sock' = sock
          /\ \A u \in IoThread : at'[u] \in {"accept", "greet"} => at[u] \in {"accept", "greet"}
      BY <1>t, <2>2, <2>4 DEF Greet, Goto
    <3>4. QED
      BY <2>2, <3>2, <3>3 DEF Opened
  <2>5. QED
    BY <1>2, <2>3, <2>4
<1>3. ASSUME NEW t \in IoThread, ReadHandler(t) \/ WriteHandler(t) \/ More(t) \/ InternalWrite(t) \/ Push(t)
                                 \/ CloseTest(t) \/ PostClose(t) \/ CloseSocket(t) \/ ShutdownServer(t)
                                 \/ Release(t) \/ Fault(t)
      PROVE  Opened'
  <2>1. /\ conn' \in {conn, NoConn} /\ job' = job
        /\ reading' = reading \/ (conn # NoConn /\ reading' = reading \cup {conn})
        /\ sock' = sock \/ (conn # NoConn /\ sock' = [sock EXCEPT ![conn] = "closed"])
        /\ ready' = ready \/ ready' = Append(ready, DoClose)
    BY <1>3 DEF ReadHandler, WriteHandler, More, InternalWrite, Push, CloseTest, PostClose, CloseSocket,
                ShutdownServer, Release, Fault, Crash, net
  <2>2. \E to : to \notin {"accept", "greet"} /\ Goto(t, to)
    BY <1>3, Zenon DEF ReadHandler, WriteHandler, More, InternalWrite, Push, CloseTest, PostClose, CloseSocket,
                ShutdownServer, Release, Fault, Crash
  <2>3. \A u \in IoThread : at'[u] \in {"accept", "greet"} => at[u] \in {"accept", "greet"}
    BY <1>t, <2>2 DEF Goto
  <2>4. \A d \in Conn : sock'[d] = "new" => sock[d] = "new"
    BY <1>t, <2>1
  <2>5. \A u \in IoThread : at[u] \in {"accept", "greet"} => job[u].conn \in Conn
    BY TaskFields DEF Typed, Fits
  <2>6. \A i \in DOMAIN ready : ready[i].op = "accept" => ready[i].conn \in Conn
    BY <1>t, AcceptConn
  <2>7. \A i \in DOMAIN ready' : ready'[i].op = "accept" => i \in DOMAIN ready /\ ready'[i] = ready[i]
    BY <1>t, <2>1, AppendAt, TaskKinds, TaskFields
  <2>8. \A c \in reading' : sock'[c] # "new"
    BY <1>t, <2>1, <2>4 DEF Opened
  <2>9. conn' # NoConn => sock'[conn'] # "new"
    BY <1>t, <2>1, <2>4 DEF Opened
  <2>10. \A i \in DOMAIN ready' : ready'[i].op = "accept" => sock'[ready'[i].conn] # "new"
    BY <2>4, <2>6, <2>7 DEF Opened
  <2>11. \A u \in IoThread : at'[u] \in {"accept", "greet"} => sock'[job'[u].conn] # "new"
    BY <2>1, <2>3, <2>4, <2>5 DEF Opened
  <2>12. QED
    BY <2>8, <2>9, <2>10, <2>11 DEF Opened
<1>4. ASSUME UNCHANGED <<at, job, conn>>, reading' \subseteq reading,
             \A d \in Conn : sock'[d] = "new" => sock[d] = "new",
             ready' = ready \/ \E h \in Task : ready' = Append(ready, h) /\ (h.op = "accept" => sock'[h.conn] # "new")
      PROVE  Opened'
  <2>1. \A u \in IoThread : at[u] \in {"accept", "greet"} => job[u].conn \in Conn
    BY TaskFields DEF Typed, Fits
  <2>2. \A i \in DOMAIN ready : ready[i].op = "accept" => ready[i].conn \in Conn
    BY <1>t, AcceptConn
  <2>3. \A i \in DOMAIN ready' : ready'[i].op = "accept" => sock'[ready'[i].conn] # "new"
    <3>1. CASE ready' = ready
      BY <1>4, <2>2, <3>1 DEF Opened
    <3>2. ASSUME NEW h \in Task, ready' = Append(ready, h), h.op = "accept" => sock'[h.conn] # "new"
          PROVE  \A i \in DOMAIN ready' : ready'[i].op = "accept" => sock'[ready'[i].conn] # "new"
      <4>1. \A i \in DOMAIN ready' : (i \in DOMAIN ready /\ ready'[i] = ready[i]) \/ ready'[i] = h
        BY <1>t, <3>2, AppendAt
      <4>2. QED
        BY <1>4, <2>2, <3>2, <4>1 DEF Opened
    <3>3. QED
      BY <1>4, <3>1, <3>2
  <2>4. QED
    BY <1>t, <1>4, <2>1, <2>3 DEF Opened
<1>5. ASSUME NEW w \in Writer, WriterStep(w) PROVE Opened'
  <2>1. UNCHANGED <<at, job, conn, reading, sock>>
    BY <1>5 DEF WriterStep, WriteTest, WritePost, WriteRelease, WriteFault, net
  <2>2. ready' = ready \/ \E h \in Task : ready' = Append(ready, h) /\ h.op # "accept"
    <3>1. CASE WritePost(w)
      <4> DEFINE m == [from |-> w, n |-> sent[w]]
      <4>1. sent[w] \in 1..MaxMessages
        BY <3>1, VideoAssumption DEF WritePost, Typed, TypeOK
      <4>2. m \in Message
        BY <4>1 DEF Message
      <4>3. Post(m) \in Task /\ Post(m).op # "accept"
        BY <4>2, TaskKinds, TaskFields
      <4>4. ready' = Append(ready, Post(m))
        BY <3>1 DEF WritePost
      <4> HIDE DEF m
      <4>5. QED
        BY <4>3, <4>4
    <3>2. CASE ~ WritePost(w)
      BY <1>5, <3>2 DEF WriterStep, WriteTest, WriteRelease, WriteFault
    <3>3. QED
      BY <3>1, <3>2
  <2>3. QED
    BY <1>4, <2>1, <2>2
<1>6. ASSUME NEW c \in Conn, Connect(c) PROVE Opened'
  <2>1. Accept(c) \in Task /\ Accept(c).conn = c /\ ready' = Append(ready, Accept(c)) /\ UNCHANGED <<at, job, conn, reading>>
    BY <1>6, TaskKinds, TaskFields DEF Connect
  <2>2. sock'[c] = "open" /\ \A d \in Conn : sock'[d] = "new" => sock[d] = "new"
    BY <1>t, <1>6 DEF Connect
  <2>3. QED
    BY <1>4, <2>1, <2>2
<1>7. ASSUME NEW c \in Conn, Lose(c) PROVE Opened'
  <2>1. ready' = ready /\ UNCHANGED <<at, job, conn, reading>> /\ \A d \in Conn : sock'[d] = "new" => sock[d] = "new"
    BY <1>t, <1>7 DEF Lose
  <2>2. QED
    BY <1>4, <2>1
<1>8. ASSUME NEW c \in Conn, ReadEnds(c) PROVE Opened'
  <2>1. PICK r \in Results[sock[c]] : ready' = Append(ready, Read(c, r))
    BY <1>8 DEF ReadEnds
  <2>2. sock[c] # "new"
    BY <1>8 DEF ReadEnds, Opened
  <2>3. r \in {"ok", "eof", "aborted", "other"}
    BY <1>t, <2>1, <2>2 DEF Results
  <2>4. Read(c, r) \in Task /\ Read(c, r).op # "accept"
    BY <2>3, TaskKinds, TaskFields
  <2>5. UNCHANGED <<at, job, conn, sock>> /\ reading' \subseteq reading
    BY <1>8 DEF ReadEnds
  <2>6. QED
    BY <1>4, <2>1, <2>4, <2>5
<1>9. ASSUME NEW i \in DOMAIN writing, WriteEnds(i) PROVE Opened'
  <2>1. PICK r \in {"ok", "error"} : ready' = Append(ready, Write(r))
    BY <1>9 DEF WriteEnds
  <2>2. Write(r) \in Task /\ Write(r).op # "accept"
    BY <2>1, TaskKinds, TaskFields
  <2>3. UNCHANGED <<at, job, conn, sock, reading>>
    BY <1>9 DEF WriteEnds
  <2>4. QED
    BY <1>4, <2>1, <2>2, <2>3
<1>10. ASSUME AskShutdown PROVE Opened'
  <2>1. ready' = Append(ready, Shutdown) /\ UNCHANGED <<at, job, conn, sock, reading>>
    BY <1>10 DEF AskShutdown, net
  <2>2. QED
    BY <1>4, <2>1, TaskKinds, TaskFields
<1>11. CASE UNCHANGED vars
  BY <1>11, <1>4 DEF vars
<1>12. QED
  BY <1>1, <1>2, <1>3, <1>5, <1>6, <1>7, <1>8, <1>9, <1>10, <1>11 DEF Next, IoStep, IoEnds

LEMMA TypesStep ==
  ASSUME HandlerTypes, [Next]_vars
  PROVE  HandlerTypes'
<1>0. Typed /\ Opened
  BY DEF HandlerTypes
<1>1. ASSUME NEW t \in IoThread, IoStep(t) PROVE Typed'
  BY <1>0, <1>1, TypesDispatch, TypesConnect, TypesRead, TypesWrite, TypesPost, TypesClose DEF IoStep
<1>2. ASSUME UNCHANGED vars PROVE Typed'
  <2>1. \A u \in IoThread : Fits(u)'
    BY <1>0, <1>2 DEF vars, Typed, Fits
  <2>2. TypeOK' /\ \A w \in Writer : calling'[w] = "post" => sent'[w] >= 1
    BY <1>0, <1>2 DEF vars, Typed, TypeOK
  <2>3. QED
    BY <2>1, <2>2 DEF Typed
<1>n. ASSUME (\E c \in Conn : Connect(c) \/ Lose(c)) \/ IoEnds \/ AskShutdown PROVE Typed'
  BY <1>0, <1>n, TypesNet
<1>w. ASSUME NEW w \in Writer, WriterStep(w) PROVE Typed'
  BY <1>0, <1>w, TypesWriter
<1>3. Typed'
  BY <1>1, <1>2, <1>n, <1>w DEF Next
<1>4. QED
  BY <1>0, <1>3, OpenedStep DEF HandlerTypes

\* The types of what the handlers share (VideoHandler.h), for any number of
\* io threads.
THEOREM HandlersTyped == Spec => []TypeOK
<1>1. Init => HandlerTypes
  <2>1. DOMAIN <<>> = {}
    OBVIOUS
  <2>2. QED
    BY <2>1, TypesInit DEF Init, HandlerTypes, Opened
<1>2. HandlerTypes /\ [Next]_vars => HandlerTypes'
  BY TypesStep
<1>3. HandlerTypes => TypeOK
  BY DEF HandlerTypes, Typed
<1>4. QED
  BY <1>1, <1>2, <1>3, PTL DEF Spec

-----------------------------------------------------------------------------
(* One thread.  What an action leaves alone.                               *)

LEMMA OneLabel ==
  ASSUME HandlerTypes, IoThread = {Io}, NEW t \in IoThread, NEW to, Goto(t, to)
  PROVE  t = Io /\ Label' = to
BY DEF HandlerTypes, Typed, TypeOK, Goto, Label

LEMMA FewerSame == ASSUME HandlerTypes, ready' = ready PROVE \A op : Fewer(op)
<1>1. \A op : \A i \in Ready(op)' : i + 0 \in Ready(op) /\ ready'[i] = ready[i + 0]
  BY DEF Ready, HandlerTypes, Typed, TypeOK
<1>2. QED
  BY <1>1 DEF Fewer

LEMMA FewerPushed ==
  ASSUME HandlerTypes, NEW h \in Task, ready' = Append(ready, h)
  PROVE  /\ \A op : op # h.op => Fewer(op)
         /\ \A op : Ready(op) \subseteq Ready(op)'
         /\ \A op : Ready(op)' = Ready(op) \cup (IF h.op = op THEN {Len(ready) + 1} ELSE {})
         /\ ready'[Len(ready) + 1] = h
         /\ \A i \in DOMAIN ready : i \in DOMAIN ready' /\ ready'[i] = ready[i] /\ i < Len(ready) + 1
<1>1. /\ DOMAIN ready = 1..Len(ready) /\ DOMAIN ready' = 1..(Len(ready) + 1) /\ Len(ready) \in Nat
      /\ \A i \in 1..Len(ready) : ready'[i] = ready[i]
      /\ ready'[Len(ready) + 1] = h
  BY AppendAt DEF HandlerTypes, Typed, TypeOK
<1>2. \A op : \A i \in Ready(op)' : (i \in Ready(op) /\ ready'[i] = ready[i]) \/ (i = Len(ready) + 1 /\ op = h.op)
  BY <1>1 DEF Ready
<1>3. \A op : Ready(op) \subseteq Ready(op)'
  BY <1>1 DEF Ready
<1>4. \A op : op # h.op => Fewer(op)
  <2> SUFFICES ASSUME NEW op, op # h.op PROVE \A i \in Ready(op)' : i + 0 \in Ready(op) /\ ready'[i] = ready[i + 0]
    BY DEF Fewer
  <2>1. \A i \in Ready(op) : i + 0 = i
    BY <1>1 DEF Ready
  <2>2. QED
    BY <1>2, <2>1
<1>5. \A op : op = h.op => Len(ready) + 1 \in Ready(op)'
  BY <1>1 DEF Ready
<1>6. \A op : Ready(op)' = Ready(op) \cup (IF h.op = op THEN {Len(ready) + 1} ELSE {})
  BY <1>2, <1>3, <1>5
<1>7. QED
  BY <1>1, <1>3, <1>4, <1>6

LEMMA FewerTaken ==
  ASSUME HandlerTypes, ready # <<>>, ready' = Tail(ready)
  PROVE  /\ \A op : Fewer(op)
         /\ \A i \in DOMAIN ready' : i + 1 \in DOMAIN ready /\ ready'[i] = ready[i + 1] /\ i + 1 > 1
         /\ \A i \in DOMAIN ready : i = 1 \/ (i - 1 \in DOMAIN ready' /\ ready'[i - 1] = ready[i])
         /\ Head(ready) = ready[1] /\ 1 \in DOMAIN ready /\ Head(ready) \in Task
<1>0. ready \in Seq(Task)
  BY DEF HandlerTypes, Typed, TypeOK
<1>1. /\ DOMAIN ready = 1..Len(ready) /\ DOMAIN ready' = 1..(Len(ready) - 1) /\ Len(ready) \in Nat \ {0}
      /\ \A i \in 1..(Len(ready) - 1) : ready'[i] = ready[i + 1] /\ i + 1 \in 1..Len(ready)
      /\ Head(ready) = ready[1] /\ 1 \in 1..Len(ready) /\ Head(ready) \in Task
  BY <1>0, TailAt
<1>2. \A op : \A i \in Ready(op)' : i + 1 \in Ready(op) /\ ready'[i] = ready[i + 1]
  BY <1>1 DEF Ready
<1>3. \A op : Fewer(op)
  BY <1>2 DEF Fewer
<1>4. \A i \in DOMAIN ready : i = 1 \/ (i - 1 \in 1..(Len(ready) - 1) /\ i - 1 + 1 = i)
  BY <1>1
<1>5. \A i \in DOMAIN ready : i = 1 \/ (i - 1 \in DOMAIN ready' /\ ready'[i - 1] = ready[i])
  BY <1>1, <1>4
<1>6. \A i \in DOMAIN ready' : i + 1 > 1
  BY <1>1
<1>7. QED
  BY <1>1, <1>3, <1>5, <1>6

\* What follows from Fewer, in the forms that are needed.
LEMMA FewerMeans ==
  ASSUME HandlerTypes, HandlerTypes', NEW op, Fewer(op)
  PROVE  /\ Ready(op) = {} => Ready(op)' = {}
         /\ (\A i, j \in Ready(op) : i = j) => (\A i, j \in Ready(op)' : i = j)
         /\ \A i \in Ready(op)' : \E j \in Ready(op) : ready'[i] = ready[j]
         /\ \A i, j \in Ready(op)' : i < j =>
              \E k, l \in Ready(op) : k < l /\ ready'[i] = ready[k] /\ ready'[j] = ready[l]
<1>1. PICK d \in {0, 1} : \A i \in Ready(op)' : i + d \in Ready(op) /\ ready'[i] = ready[i + d]
  BY DEF Fewer
<1>2. \A i \in Ready(op)' : i \in Int
  BY DEF Ready, HandlerTypes, Typed, TypeOK
<1>3. \A i, j \in Ready(op)' : (i < j => i + d < j + d) /\ (i + d = j + d => i = j)
  BY <1>2
<1>4. \A i, j \in Ready(op)' : i < j =>
        \E k, l \in Ready(op) : k < l /\ ready'[i] = ready[k] /\ ready'[j] = ready[l]
  BY <1>1, <1>3
<1>5. QED
  BY <1>1, <1>3, <1>4

LEMMA MadeQuiet ==
  ASSUME HandlerTypes, HandlerTypes', Fewer("post"), Queued' \subseteq Queued, InHand' \subseteq InHand, wire' = wire
  PROVE  Made' \subseteq Made /\ Posted' \subseteq Posted
<1>1. Posted' \subseteq Posted
  BY FewerMeans DEF Posted
<1>2. \A c \in Conn : Got(c)' = Got(c)
  BY DEF Got
<1>3. QED
  BY <1>1, <1>2 DEF Made

-----------------------------------------------------------------------------
(* The only thread.                                                        *)

\* What its handler and the handlers that are ready can be.
LEMMA JobKinds ==
  ASSUME HandlerTypes, IoThread = {Io}
  PROVE  /\ Label \in {"accept", "greet"} =>
              Job.conn \in Conn /\ Job.op = "accept" /\ sock[Job.conn] # "new"
         /\ Label = "read" => Job.op = "read" /\ Job.conn \in Conn /\ Job.result \in {"ok", "eof", "aborted", "other"}
         /\ Label = "write" => Job.result \in {"ok", "error"} /\ Job = Write(Job.result) /\ Job.op = "write"
         /\ Posting => Job.message \in Message
         /\ Label = "shutdown" => Job.op = "shutdown"
<1>1. Fits(Io) /\ (at[Io] \in {"accept", "greet"} => sock[job[Io].conn] # "new")
  BY DEF HandlerTypes, Typed, Opened
<1>2. QED
  BY <1>1, TaskFields DEF Fits, Label, Job, Posting

LEMMA ReadyKinds ==
  ASSUME HandlerTypes, NEW i \in DOMAIN ready
  PROVE  /\ ready[i].op = "accept" => ready[i].conn \in Conn /\ sock[ready[i].conn] # "new"
         /\ ready[i].op = "read" => ready[i].conn \in Conn
         /\ ready[i].op = "write" => ready[i] = Write(ready[i].result) /\ ready[i].result \in {"ok", "error"}
         /\ ready[i].op = "post" => ready[i].message \in Message
         /\ ready[i].op \in {"accept", "read", "write", "post", "doClose", "shutdown"}
<1>1. ready[i] \in Task
  BY DEF HandlerTypes, Typed, TypeOK
<1>2. ready[i].op = "accept" => sock[ready[i].conn] # "new"
  BY DEF HandlerTypes, Opened
<1>3. QED
  BY <1>1, <1>2, TaskKinds, TaskFields

LEMMA MadeTyped == ASSUME HandlerTypes, IoThread = {Io} PROVE Made \subseteq Message
<1>1. Queued \subseteq Message
  BY DEF Queued, HandlerTypes, Typed, TypeOK
<1>2. Posted \subseteq Message
  BY ReadyKinds DEF Posted, Ready
<1>3. InHand \subseteq Message
  BY JobKinds DEF InHand
<1>4. ASSUME NEW c \in Conn PROVE Got(c) \subseteq Message
  BY DEF Got, HandlerTypes, Typed, TypeOK
<1>5. QED
  BY <1>1, <1>2, <1>3, <1>4 DEF Made

\* A handler is taken.
LEMMA DispatchMoves ==
  ASSUME HandlerTypes, IoThread = {Io}, NEW t \in IoThread, Dispatch(t)
  PROVE  /\ Label = "idle" /\ Label' = ready[1].op /\ Job' = ready[1]
         /\ 1 \in DOMAIN ready /\ ready[1] \in Task /\ 1 \in Ready(ready[1].op)
         /\ \A op : \A i \in Ready(op)' : i + 1 \in Ready(op) /\ ready'[i] = ready[i + 1] /\ i + 1 > 1
         /\ \A op : Fewer(op)
         /\ \A i \in DOMAIN ready : i = 1 \/ (i - 1 \in DOMAIN ready' /\ ready'[i - 1] = ready[i])
         /\ UNCHANGED <<conn, closing, queue, net, rest>>
<1>1. ready # <<>> /\ ready' = Tail(ready) /\ at[t] = "idle"
  BY DEF Dispatch
<1>2. Goto(t, Head(ready).op) /\ job' = [job EXCEPT ![t] = Head(ready)] /\ UNCHANGED <<conn, closing, queue, net, rest>>
  BY DEF Dispatch
<1>3. Head(ready) = ready[1] /\ 1 \in DOMAIN ready /\ ready[1] \in Task
  BY <1>1, FewerTaken
<1>4. t = Io /\ Label' = ready[1].op
  BY <1>2, <1>3, OneLabel
<1>5. Job' = ready[1]
  BY <1>2, <1>3, <1>4 DEF Job, HandlerTypes, Typed, TypeOK
<1>6. Label = "idle"
  BY <1>1, <1>4 DEF Label
<1>7. \A i \in DOMAIN ready' : i + 1 \in DOMAIN ready /\ ready'[i] = ready[i + 1] /\ i + 1 > 1
  BY <1>1, FewerTaken
<1>8. \A op : \A i \in Ready(op)' : i + 1 \in Ready(op) /\ ready'[i] = ready[i + 1] /\ i + 1 > 1
  BY <1>7 DEF Ready
<1>9. \A op : Fewer(op)
  BY <1>1, FewerTaken
<1>10. \A i \in DOMAIN ready : i = 1 \/ (i - 1 \in DOMAIN ready' /\ ready'[i - 1] = ready[i])
  BY <1>1, FewerTaken
<1>11. 1 \in Ready(ready[1].op)
  BY <1>3 DEF Ready
<1>12. QED
  BY <1>2, <1>3, <1>4, <1>5, <1>6, <1>8, <1>9, <1>10, <1>11

\* Any other step of it.
LEMMA StepMoves ==
  ASSUME HandlerTypes, IoThread = {Io}, NEW t \in IoThread, IoStep(t), ~ Dispatch(t)
  PROVE  t = Io /\ job' = job /\ Job' = Job
<1>1. t = Io
  OBVIOUS
<1>2. job' = job
  BY DEF IoStep, OnConnect, Greet, ReadHandler, WriteHandler, More, InternalWrite, Push, CloseTest, PostClose,
         CloseSocket, ShutdownServer, Release, Fault, Crash
<1>3. QED
  BY <1>1, <1>2 DEF Job

\* Steps of others.
LEMMA OtherMoves ==
  ASSUME HandlerTypes, (\E w \in Writer : WriterStep(w)) \/ (\E c \in Conn : Connect(c) \/ Lose(c)) \/ IoEnds \/ AskShutdown
  PROVE  UNCHANGED <<at, job, Label, Job, conn, closing, running, queue>>
<1>1. UNCHANGED <<at, job, conn, closing, running, queue>>
  BY DEF WriterStep, WriteTest, WritePost, WriteRelease, WriteFault, Connect, Lose, IoEnds, ReadEnds, WriteEnds,
         AskShutdown, rest
<1>2. QED
  BY <1>1 DEF Label, Job

\* What each step can make ready.
LEMMA FewerBy ==
  ASSUME HandlerTypes
  PROVE  /\ \A t \in IoThread : Greet(t) => \A op : op # "post" => Fewer(op)
         /\ \A w \in Writer : WritePost(w) => \A op : op # "post" => Fewer(op)
         /\ \A c \in Conn : Connect(c) => \A op : op # "accept" => Fewer(op)
         /\ \A c \in Conn : ReadEnds(c) => \A op : op # "read" => Fewer(op)
         /\ \A i \in DOMAIN writing : WriteEnds(i) => \A op : op # "write" => Fewer(op)
         /\ \A t \in IoThread : PostClose(t) => \A op : op # "doClose" => Fewer(op)
         /\ \A t \in IoThread : IoStep(t) /\ ~ Greet(t) /\ ~ PostClose(t) => \A op : Fewer(op)
         /\ \A w \in Writer : WriterStep(w) /\ ~ WritePost(w) => \A op : Fewer(op)
         /\ \A c \in Conn : Lose(c) => \A op : Fewer(op)
         /\ AskShutdown => \A op : op # "shutdown" => Fewer(op)
         /\ UNCHANGED vars => \A op : Fewer(op)
<1>1. ASSUME ready' = ready PROVE \A op : Fewer(op)
  BY <1>1, FewerSame
<1>2. ASSUME NEW h \in Task, ready' = Append(ready, h) PROVE \A op : op # h.op => Fewer(op)
  BY <1>2, FewerPushed
<1>3. ASSUME NEW t \in IoThread, Greet(t) PROVE \A op : op # "post" => Fewer(op)
  <2> DEFINE m == [from |-> Greeter, n |-> job[t].conn]
  <2>1. job[t].conn \in Conn
    <3>1. Fits(t) /\ at[t] = "greet"
      BY <1>3 DEF HandlerTypes, Typed, Greet
    <3>2. QED
      BY <3>1, TaskFields DEF Fits
  <2>2. m \in Message /\ ready' = Append(ready, Post(m))
    BY <1>3, <2>1 DEF Message, Greet
  <2>3. Post(m) \in Task /\ Post(m).op = "post"
    BY <2>2, TaskKinds, TaskFields
  <2> HIDE DEF m
  <2>4. QED
    BY <1>2, <2>2, <2>3
<1>4. ASSUME NEW w \in Writer, WritePost(w) PROVE \A op : op # "post" => Fewer(op)
  <2> DEFINE m == [from |-> w, n |-> sent[w]]
  <2>1. sent[w] \in 1..MaxMessages
    BY <1>4, VideoAssumption DEF WritePost, HandlerTypes, Typed, TypeOK
  <2>2. m \in Message /\ ready' = Append(ready, Post(m))
    BY <1>4, <2>1 DEF Message, WritePost
  <2>3. Post(m) \in Task /\ Post(m).op = "post"
    BY <2>2, TaskKinds, TaskFields
  <2> HIDE DEF m
  <2>4. QED
    BY <1>2, <2>2, <2>3
<1>5. ASSUME NEW c \in Conn, Connect(c) PROVE \A op : op # "accept" => Fewer(op)
  BY <1>2, <1>5, TaskKinds, TaskFields DEF Connect
<1>6. ASSUME NEW c \in Conn, ReadEnds(c) PROVE \A op : op # "read" => Fewer(op)
  <2>1. PICK r \in Results[sock[c]] : ready' = Append(ready, Read(c, r))
    BY <1>6 DEF ReadEnds
  <2>2. sock[c] \in {"open", "lost", "closed"}
    BY <1>6 DEF ReadEnds, HandlerTypes, Typed, TypeOK, Opened
  <2>3. r \in {"ok", "eof", "aborted", "other"}
    BY <2>1, <2>2 DEF Results
  <2>4. Read(c, r) \in Task /\ Read(c, r).op = "read"
    BY <2>3, TaskKinds, TaskFields
  <2>5. QED
    BY <1>2, <2>1, <2>4
<1>7. ASSUME NEW i \in DOMAIN writing, WriteEnds(i) PROVE \A op : op # "write" => Fewer(op)
  <2>1. PICK r \in {"ok", "error"} : ready' = Append(ready, Write(r))
    BY <1>7 DEF WriteEnds
  <2>2. QED
    BY <1>2, <2>1, TaskKinds, TaskFields
<1>8. ASSUME NEW t \in IoThread, PostClose(t) PROVE \A op : op # "doClose" => Fewer(op)
  BY <1>2, <1>8, TaskKinds, TaskFields DEF PostClose
<1>9. ASSUME NEW t \in IoThread, Dispatch(t) PROVE \A op : Fewer(op)
  BY <1>9, FewerTaken DEF Dispatch
<1>10. ASSUME NEW t \in IoThread,
              OnConnect(t) \/ ReadHandler(t) \/ WriteHandler(t) \/ More(t) \/ InternalWrite(t) \/ Push(t) \/ CloseTest(t)
              \/ CloseSocket(t) \/ ShutdownServer(t) \/ Release(t) \/ Fault(t)
       PROVE  ready' = ready
  BY <1>10 DEF OnConnect, ReadHandler, WriteHandler, More, InternalWrite, Push, CloseTest, CloseSocket, ShutdownServer,
               Release, Fault, Crash
<1>11. ASSUME NEW w \in Writer, WriterStep(w), ~ WritePost(w) PROVE ready' = ready
  BY <1>11 DEF WriterStep, WriteTest, WriteRelease, WriteFault
<1>12. ASSUME NEW c \in Conn, Lose(c) PROVE ready' = ready
  BY <1>12 DEF Lose
<1>13. ASSUME AskShutdown PROVE \A op : op # "shutdown" => Fewer(op)
  BY <1>2, <1>13, TaskKinds, TaskFields DEF AskShutdown
<1>14. ASSUME UNCHANGED vars PROVE \A op : Fewer(op)
  BY <1>1, <1>14 DEF vars
<1>15. ASSUME NEW t \in IoThread, IoStep(t), ~ Greet(t), ~ PostClose(t) PROVE \A op : Fewer(op)
  <2>1. CASE Dispatch(t)
    BY <1>9, <2>1
  <2>2. CASE ~ Dispatch(t)
    BY <1>1, <1>10, <1>15, <2>2 DEF IoStep
  <2>3. QED
    BY <2>1, <2>2
<1>16. ASSUME NEW w \in Writer, WriterStep(w), ~ WritePost(w) PROVE \A op : Fewer(op)
  BY <1>1, <1>11, <1>16
<1>17. ASSUME NEW c \in Conn, Lose(c) PROVE \A op : Fewer(op)
  BY <1>1, <1>12, <1>17
<1>18. QED
  BY <1>3, <1>4, <1>5, <1>6, <1>7, <1>8, <1>13, <1>14, <1>15, <1>16, <1>17

\* Which steps make a handler of a kind ready.
LEMMA FewerStep ==
  ASSUME HandlerTypes, [Next]_vars
  PROVE  /\ Fewer("post") \/ (\E t \in IoThread : Greet(t)) \/ (\E w \in Writer : WritePost(w))
         /\ Fewer("accept") \/ \E c \in Conn : Connect(c)
         /\ Fewer("read") \/ \E c \in Conn : ReadEnds(c)
         /\ Fewer("write") \/ \E i \in DOMAIN writing : WriteEnds(i)
         /\ Fewer("doClose") \/ \E t \in IoThread : PostClose(t)
<1>1. CASE \E t \in IoThread : IoStep(t)
  BY <1>1, FewerBy
<1>2. CASE \E w \in Writer : WriterStep(w)
  BY <1>2, FewerBy
<1>3. CASE (\E c \in Conn : Connect(c) \/ Lose(c)) \/ IoEnds
  BY <1>3, FewerBy DEF IoEnds
<1>4. CASE AskShutdown \/ UNCHANGED vars
  BY <1>4, FewerBy
<1>5. QED
  BY <1>1, <1>2, <1>3, <1>4 DEF Next

\* What messages each step makes.
LEMMA MadeBy ==
  ASSUME HandlerTypes, HandlerTypes', IoThread = {Io}, OneWrite
  PROVE  /\ \A t \in IoThread : Greet(t) => Made' \subseteq Made \cup {[from |-> Greeter, n |-> job[t].conn]}
         /\ \A t \in IoThread : IoStep(t) /\ ~ Greet(t) => Made' \subseteq Made
         /\ \A w \in Writer : WritePost(w) => Made' \subseteq Made \cup {[from |-> w, n |-> sent[w]]}
         /\ \A w \in Writer : WriterStep(w) /\ ~ WritePost(w) => Made' \subseteq Made
         /\ \A c \in Conn : Connect(c) \/ Lose(c) \/ ReadEnds(c) => Made' \subseteq Made
         /\ \A i \in DOMAIN writing : WriteEnds(i) => Made' \subseteq Made
         /\ AskShutdown \/ UNCHANGED vars => Made' \subseteq Made
<1>w. ASSUME UNCHANGED <<queue, wire>>, InHand' \subseteq InHand, NEW S, Posted' \subseteq Posted \cup S
      PROVE  Made' \subseteq Made \cup S
  <2>1. \A c \in Conn : Got(c)' = Got(c)
    BY <1>w DEF Got
  <2>2. Queued' = Queued
    BY <1>w DEF Queued
  <2>3. QED
    BY <1>w, <2>1, <2>2 DEF Made
<1>p. ASSUME Fewer("post") PROVE Posted' \subseteq Posted
  BY <1>p, FewerMeans DEF Posted
<1>a. ASSUME NEW m \in Message, ready' = Append(ready, Post(m)) PROVE Posted' \subseteq Posted \cup {m}
  <2>1. Post(m) \in Task /\ Post(m).op = "post" /\ Post(m).message = m
    BY TaskKinds, TaskFields
  <2>2. Ready("post")' = Ready("post") \cup {Len(ready) + 1} /\ ready'[Len(ready) + 1] = Post(m)
    BY <1>a, <2>1, FewerPushed
  <2>3. \A i \in DOMAIN ready : ready'[i] = ready[i]
    BY <1>a, <2>1, FewerPushed
  <2>4. QED
    BY <2>1, <2>2, <2>3 DEF Posted, Ready
<1>h. ASSUME Job' = Job, Label' \in {"post", "push", "pushFirst"} => Posting PROVE InHand' \subseteq InHand
  BY <1>h DEF InHand, Posting
<1>1. ASSUME NEW t \in IoThread, Dispatch(t) PROVE Made' \subseteq Made
  <2>1. InHand' \subseteq Posted
    <3>1. Label' = ready[1].op /\ Job' = ready[1] /\ 1 \in DOMAIN ready /\ 1 \in Ready(ready[1].op)
      BY <1>1, DispatchMoves
    <3>2. ready[1].op \notin {"push", "pushFirst"}
      BY <3>1, ReadyKinds
    <3>3. ready[1].op = "post" => ready[1].message \in Posted
      BY <3>1 DEF Posted
    <3>4. QED
      BY <3>1, <3>2, <3>3 DEF InHand, Posting
  <2>2. Posted' \subseteq Posted
    BY <1>1, <1>p, DispatchMoves
  <2>3. \A c \in Conn : Got(c)' = Got(c)
    BY <1>1 DEF Got, Dispatch, net
  <2>4. Queued' = Queued
    BY <1>1 DEF Queued, Dispatch
  <2>5. QED
    BY <2>1, <2>2, <2>3, <2>4 DEF Made
<1>2. ASSUME NEW t \in IoThread, Greet(t)
      PROVE  Made' \subseteq Made \cup {[from |-> Greeter, n |-> job[t].conn]}
  <2>1. t = Io /\ Label = "greet" /\ Job = job[t]
    BY <1>2 DEF Greet, Label, Job
  <2>2. PICK m \in Message : m = [from |-> Greeter, n |-> job[t].conn]
    BY <2>1, JobKinds DEF Message
  <2>3. ready' = Append(ready, Post(m)) /\ Goto(t, "release") /\ UNCHANGED <<queue, wire>>
    BY <1>2, <2>2 DEF Greet
  <2>4. Label' = "release"
    BY <2>3, OneLabel
  <2>5. InHand' \subseteq InHand
    BY <2>4 DEF InHand, Posting
  <2>6. QED
    BY <1>w, <1>a, <2>2, <2>3, <2>5
<1>3. ASSUME NEW w \in Writer, WritePost(w) PROVE Made' \subseteq Made \cup {[from |-> w, n |-> sent[w]]}
  <2>1. sent[w] \in 1..MaxMessages
    BY <1>3, VideoAssumption DEF WritePost, HandlerTypes, Typed, TypeOK
  <2>2. PICK m \in Message : m = [from |-> w, n |-> sent[w]]
    BY <2>1 DEF Message
  <2>3. ready' = Append(ready, Post(m)) /\ UNCHANGED <<queue, net, Label, Job>>
    BY <1>3, <2>2 DEF WritePost, Label, Job
  <2>4. InHand' \subseteq InHand /\ wire' = wire
    BY <2>3, <1>h DEF Posting, net
  <2>5. QED
    BY <1>w, <1>a, <2>2, <2>3, <2>4
<1>4. ASSUME NEW t \in IoThread, IoStep(t), ~ Dispatch(t), ~ Greet(t), ~ (WriteHandler(t) /\ queue' # queue), ~ Push(t)
      PROVE Made' \subseteq Made
  <2>1. Job' = Job /\ t = Io
    BY <1>4, StepMoves
  <2>2. Fewer("post")
    BY <1>4, FewerBy
  <2>3. UNCHANGED <<queue, wire>>
    BY <1>4 DEF IoStep, OnConnect, ReadHandler, WriteHandler, More, InternalWrite, CloseTest, PostClose,
         CloseSocket, ShutdownServer, Release, Fault, Crash, net
  <2>4. Label' \in {"post", "push", "pushFirst"} => Posting
    <3>1. at[t] = "post" \/ \E to \in {"greet", "idle", "release", "close", "more", "postClose"} : Goto(t, to)
      BY <1>4 DEF IoStep, OnConnect, ReadHandler, WriteHandler, More, InternalWrite, CloseTest, PostClose,
         CloseSocket, ShutdownServer, Release, Fault, Crash
    <3>2. QED
      BY <2>1, <3>1, OneLabel DEF Posting, Label
  <2>5. QED
    BY <1>w, <1>p, <1>h, <2>1, <2>2, <2>3, <2>4
<1>5. ASSUME NEW t \in IoThread, WriteHandler(t), queue' # queue PROVE Made' \subseteq Made
  <2>1. queue # <<>> /\ queue' = Tail(queue) /\ ready' = ready /\ wire' = wire /\ Goto(t, "more")
    BY <1>5 DEF WriteHandler, net
  <2>2. Queued' \subseteq Queued
    <3>1. queue \in Seq(Message)
      BY DEF HandlerTypes, Typed, TypeOK
    <3>2. QED
      BY <2>1, <3>1, TailAt DEF Queued
  <2>3. InHand' \subseteq InHand
    BY <2>1, OneLabel DEF InHand, Posting
  <2>4. QED
    BY <2>1, <2>2, <2>3, MadeQuiet, FewerSame
<1>6. ASSUME NEW t \in IoThread, Push(t) PROVE Made' \subseteq Made
  <2>1. t = Io /\ Posting /\ queue' = Append(queue, Job.message) /\ ready' = ready /\ wire' = wire
    BY <1>6 DEF Push, Posting, Label, Job
  <2>2. Label' \in {"idle", "release"}
    BY <1>6, OneLabel DEF Push
  <2>3. Queued' \subseteq Queued \cup InHand
    <3>1. queue \in Seq(Message) /\ Job.message \in Message
      BY <2>1, JobKinds DEF HandlerTypes, Typed, TypeOK
    <3>2. QED
      BY <2>1, <3>1, AppendAt DEF Queued, InHand
  <2>4. InHand' = {}
    BY <2>2 DEF InHand, Posting
  <2>5. Posted' \subseteq Posted /\ \A c \in Conn : Got(c)' = Got(c)
    BY <1>p, <2>1, FewerSame DEF Got
  <2>6. QED
    BY <2>3, <2>4, <2>5 DEF Made
<1>7. ASSUME (\E w \in Writer : WriterStep(w) /\ ~ WritePost(w)) \/ (\E c \in Conn : Connect(c) \/ Lose(c) \/ ReadEnds(c)) \/ AskShutdown
      PROVE  Made' \subseteq Made
  <2>1. UNCHANGED <<queue, Label, Job>>
    BY <1>7, OtherMoves DEF IoEnds
  <2>2. wire' = wire
    BY <1>7 DEF WriterStep, WriteTest, WriteRelease, WriteFault, Connect, Lose, ReadEnds, AskShutdown, net
  <2>3. Fewer("post")
    BY <1>7, FewerBy
  <2>4. InHand' \subseteq InHand
    BY <1>h, <2>1 DEF Posting
  <2>5. QED
    BY <1>w, <1>p, <2>1, <2>2, <2>3, <2>4
<1>8. ASSUME NEW i \in DOMAIN writing, WriteEnds(i) PROVE Made' \subseteq Made
  <2>1. UNCHANGED <<queue, Label, Job>>
    BY <1>8, OtherMoves DEF IoEnds
  <2>2. Posted' \subseteq Posted /\ InHand' \subseteq InHand
    BY <1>8, <1>p, <1>h, <2>1, FewerBy DEF Posting
  <2>3. writing[i].message \in Queued
    <3>1. writing[i].message = queue[1] /\ queue # <<>>
      BY <1>8 DEF OneWrite
    <3>2. queue \in Seq(Message)
      BY DEF HandlerTypes, Typed, TypeOK
    <3>3. QED
      BY <3>1, <3>2, TailAt DEF Queued
  <2>4. ASSUME NEW c \in Conn PROVE Got(c)' \subseteq Got(c) \cup {writing[i].message}
    <3>1. wire[c] \in Seq(Message) /\ writing[i].message \in Message /\ wire \in [Conn -> Seq(Message)]
      <4>1. writing \in Seq([conn : Conn, message : Message]) /\ wire \in [Conn -> Seq(Message)]
        BY DEF HandlerTypes, Typed, TypeOK
      <4>2. writing[i] \in [conn : Conn, message : Message]
        BY <4>1, ElementAt
      <4>3. QED
        BY <4>1, <4>2
    <3>2. wire'[c] = wire[c] \/ wire'[c] = Append(wire[c], writing[i].message)
      BY <1>8, <3>1 DEF WriteEnds
    <3>3. QED
      BY <3>1, <3>2, AppendAt DEF Got
  <2>5. Queued' = Queued
    BY <2>1 DEF Queued
  <2>6. QED
    BY <2>2, <2>3, <2>4, <2>5 DEF Made
<1>9. ASSUME UNCHANGED vars PROVE Made' \subseteq Made
  BY <1>9, FewerBy, MadeQuiet DEF vars, Queued, InHand, Posting, Label, Job
<1>10. ASSUME NEW t \in IoThread, IoStep(t), ~ Greet(t) PROVE Made' \subseteq Made
  BY <1>1, <1>4, <1>5, <1>6, <1>10
<1>11. QED
  BY <1>2, <1>3, <1>7, <1>8, <1>9, <1>10

\* Which steps make a message.
LEMMA MadeStep ==
  ASSUME HandlerTypes, HandlerTypes', IoThread = {Io}, OneWrite, [Next]_vars
  PROVE  \/ Made' \subseteq Made
         \/ \E t \in IoThread : Greet(t) /\ Made' \subseteq Made \cup {[from |-> Greeter, n |-> job[t].conn]}
         \/ \E w \in Writer : WritePost(w) /\ Made' \subseteq Made \cup {[from |-> w, n |-> sent[w]]}
BY MadeBy DEF Next, IoEnds

-----------------------------------------------------------------------------
(* Numbered and Accepting.                                                 *)

LEMMA MessageKinds ==
  ASSUME NEW m \in Message
  PROVE  /\ m.from = Greeter => m.n \in Conn
         /\ m.from # Greeter => m.from \in Writer
         /\ m.from \in Writer => m.from # Greeter
         /\ m.n \in Nat
<1>1. Conn \subseteq Nat /\ 1..MaxMessages \subseteq Nat /\ Greeter \notin Writer
  BY VideoAssumption DEF Conn
<1>2. QED
  BY <1>1 DEF Message

LEMMA SockOpened ==
  ASSUME HandlerTypes, [Next]_vars
  PROVE  \A c \in Conn : sock'[c] = "new" => sock[c] = "new"
<1>1. sock \in [Conn -> {"new", "open", "lost", "closed"}]
  BY DEF HandlerTypes, Typed, TypeOK
<1>2. ASSUME NEW t \in IoThread, IoStep(t) PROVE \A c \in Conn : sock'[c] = "new" => sock[c] = "new"
  BY <1>1, <1>2 DEF IoStep, Dispatch, OnConnect, Greet, ReadHandler, WriteHandler, More, InternalWrite, Push, CloseTest,
        PostClose, CloseSocket, ShutdownServer, Release, Fault, Crash, net
<1>3. ASSUME NEW w \in Writer, WriterStep(w) PROVE sock' = sock
  BY <1>3 DEF WriterStep, WriteTest, WritePost, WriteRelease, WriteFault, net
<1>4. ASSUME NEW c \in Conn, Connect(c) \/ Lose(c) PROVE \A d \in Conn : sock'[d] = "new" => sock[d] = "new"
  BY <1>1, <1>4 DEF Connect, Lose
<1>5. ASSUME IoEnds \/ AskShutdown \/ UNCHANGED vars PROVE sock' = sock
  BY <1>5 DEF IoEnds, ReadEnds, WriteEnds, AskShutdown, net, vars
<1>6. QED
  BY <1>2, <1>3, <1>4, <1>5 DEF Next

LEMMA NumberedStep ==
  ASSUME HandlerTypes, HandlerTypes', IoThread = {Io}, OneWrite, Numbered, [Next]_vars
  PROVE  Numbered'
<1>0. Made \subseteq Message /\ sent \in [Writer -> 0..MaxMessages] /\ calling \in [Writer -> {"out", "post", "release"}]
  BY MadeTyped DEF HandlerTypes, Typed, TypeOK
<1>m. MaxMessages \in Nat
  BY VideoAssumption
<1>1. \/ \E w \in Writer : WriteTest(w)
      \/ \E w \in Writer : WritePost(w)
      \/ sent' = sent /\ \A w \in Writer : calling'[w] = "post" => calling[w] = "post"
  <2>1. ASSUME NEW w \in Writer, WriterStep(w), ~ WriteTest(w), ~ WritePost(w)
        PROVE sent' = sent /\ \A v \in Writer : calling'[v] = "post" => calling[v] = "post"
    BY <1>0, <2>1 DEF WriterStep, WriteRelease, WriteFault
  <2>2. ASSUME NEW t \in IoThread, IoStep(t) PROVE UNCHANGED <<sent, calling>>
    BY <2>2 DEF IoStep, Dispatch, OnConnect, Greet, ReadHandler, WriteHandler, More, InternalWrite, Push, CloseTest,
        PostClose, CloseSocket, ShutdownServer, Release, Fault, Crash, rest
  <2>3. ASSUME (\E c \in Conn : Connect(c) \/ Lose(c)) \/ IoEnds \/ AskShutdown \/ UNCHANGED vars PROVE UNCHANGED <<sent, calling>>
    BY <2>3 DEF Connect, Lose, IoEnds, ReadEnds, WriteEnds, AskShutdown, vars, rest
  <2>4. QED
    BY <2>1, <2>2, <2>3 DEF Next
<1> DEFINE Fine(m) == /\ m.from = Greeter => sock[m.n] # "new"
                      /\ m.from # Greeter => m.n <= sent[m.from] /\ (calling[m.from] = "post" => m.n < sent[m.from])
<1>2. ASSUME NEW m \in Made PROVE Fine(m)'
  <2>1. m \in Message /\ Fine(m)
    BY <1>0, <1>2 DEF Numbered
  <2>2. m.from = Greeter => sock'[m.n] # "new"
    BY <2>1, SockOpened, MessageKinds
  <2>3. ASSUME m.from \in Writer PROVE m.n <= sent'[m.from] /\ (calling'[m.from] = "post" => m.n < sent'[m.from])
    <3>1. m.n \in Nat /\ m.from # Greeter /\ sent[m.from] \in Nat
      BY <1>0, <1>m, <2>1, <2>3, MessageKinds
    <3>2. CASE \E w \in Writer : WriteTest(w)
      <4>1. PICK w \in Writer : WriteTest(w)
        BY <3>2
      <4>2. sent' = [sent EXCEPT ![w] = @ + 1] /\ calling' = [calling EXCEPT ![w] = IF conn = NoConn THEN "out" ELSE "post"]
        BY <4>1 DEF WriteTest
      <4>3. CASE m.from = w
        <5>1. sent'[m.from] = sent[m.from] + 1
          BY <1>0, <4>2, <4>3
        <5>2. QED
          BY <2>1, <3>1, <5>1
      <4>4. CASE m.from # w
        <5>1. sent'[m.from] = sent[m.from] /\ calling'[m.from] = calling[m.from]
          BY <1>0, <2>3, <4>2, <4>4
        <5>2. QED
          BY <2>1, <3>1, <5>1
      <4>5. QED
        BY <4>3, <4>4
    <3>3. CASE \E w \in Writer : WritePost(w)
      <4>1. sent' = sent /\ (calling'[m.from] = "post" => calling[m.from] = "post")
        BY <1>0, <2>3, <3>3 DEF WritePost
      <4>2. QED
        BY <2>1, <3>1, <4>1
    <3>4. CASE sent' = sent /\ \A w \in Writer : calling'[w] = "post" => calling[w] = "post"
      BY <2>1, <2>3, <3>1, <3>4
    <3>5. QED
      BY <1>1, <3>2, <3>3, <3>4
  <2>4. QED
    BY <2>1, <2>2, <2>3, MessageKinds
<1>3. CASE Made' \subseteq Made
  BY <1>2, <1>3 DEF Numbered
<1>4. ASSUME NEW t \in IoThread, Greet(t), Made' \subseteq Made \cup {[from |-> Greeter, n |-> job[t].conn]}
      PROVE  Numbered'
  <2>1. Label = "greet" /\ Job = job[t] /\ sock' = sock
    BY <1>4 DEF Greet, Label, Job
  <2>2. sock'[job[t].conn] # "new"
    BY <2>1, JobKinds
  <2>3. QED
    BY <1>2, <1>4, <2>2 DEF Numbered
<1>5. ASSUME NEW w \in Writer, WritePost(w), Made' \subseteq Made \cup {[from |-> w, n |-> sent[w]]}
      PROVE  Numbered'
  <2>1. sent' = sent /\ calling'[w] = "release" /\ w # Greeter /\ sent[w] \in Nat
    BY <1>0, <1>m, <1>5, VideoAssumption DEF WritePost
  <2>2. PICK m : m = [from |-> w, n |-> sent[w]]
    OBVIOUS
  <2>3. m.from = w /\ m.n = sent[w]
    BY <2>2
  <2>4. Fine(m)'
    BY <2>1, <2>3
  <2>5. QED
    BY <1>2, <1>5, <2>2, <2>4 DEF Numbered
<1>6. QED
  BY <1>3, <1>4, <1>5, MadeStep

\* No socket is closed.
Same == \A c \in Conn : sock'[c] = sock[c] \/ (sock[c] = "open" /\ sock'[c] = "lost")

LEMMA SameStep ==
  ASSUME HandlerTypes, [Next]_vars,
         \A t \in IoThread : ~ OnConnect(t) /\ ~ CloseSocket(t), \A c \in Conn : ~ Connect(c)
  PROVE  Same /\ conn' = conn
<1>1. sock \in [Conn -> {"new", "open", "lost", "closed"}]
  BY DEF HandlerTypes, Typed, TypeOK
<1>2. ASSUME NEW t \in IoThread, IoStep(t) PROVE sock' = sock /\ conn' = conn
  BY <1>2 DEF IoStep, Dispatch, Greet, ReadHandler, WriteHandler, More, InternalWrite, Push, CloseTest,
        PostClose, ShutdownServer, Release, Fault, Crash, net
<1>3. ASSUME NEW w \in Writer, WriterStep(w) PROVE sock' = sock /\ conn' = conn
  BY <1>3 DEF WriterStep, WriteTest, WritePost, WriteRelease, WriteFault, net
<1>4. ASSUME NEW c \in Conn, Lose(c) PROVE Same /\ conn' = conn
  BY <1>1, <1>4 DEF Lose, Same
<1>5. ASSUME IoEnds \/ AskShutdown \/ UNCHANGED vars PROVE sock' = sock /\ conn' = conn
  BY <1>5 DEF IoEnds, ReadEnds, WriteEnds, AskShutdown, net, vars
<1>6. QED
  BY <1>2, <1>3, <1>4, <1>5 DEF Next, Same

\* The label of a step other than Dispatch, as far as it decides.
LEMMA LabelStep ==
  ASSUME HandlerTypes, IoThread = {Io}, [Next]_vars, \A t \in IoThread : ~ Dispatch(t)
  PROVE  /\ Job' = Job
         /\ Label' = Label \/ Label' \in {"idle", "greet", "release", "close", "more", "push", "pushFirst", "postClose"}
         /\ Label' = "greet" /\ Label # "greet" => \E t \in IoThread : OnConnect(t)
<1>1. ASSUME NEW t \in IoThread, IoStep(t)
      PROVE  /\ Job' = Job /\ Label' \in {"idle", "greet", "release", "close", "more", "push", "pushFirst", "postClose"}
             /\ Label' = "greet" => OnConnect(t)
  <2>1. Job' = Job
    BY <1>1, StepMoves
  <2>2. \E to \in {"idle", "release", "close", "more", "push", "pushFirst", "postClose"} : Goto(t, to) \/ (OnConnect(t) /\ Goto(t, "greet"))
    BY <1>1 DEF IoStep, OnConnect, Greet, ReadHandler, WriteHandler, More, InternalWrite, Push, CloseTest,
        PostClose, CloseSocket, ShutdownServer, Release, Fault, Crash
  <2>3. QED
    BY <2>1, <2>2, OneLabel
<1>2. ASSUME UNCHANGED vars PROVE Label' = Label /\ Job' = Job
  BY <1>2 DEF Label, Job, vars
<1>3. QED
  BY <1>1, <1>2, OtherMoves DEF Next

\* When the greetings there are change.
LEMMA AcceptingQuiet ==
  ASSUME HandlerTypes, HandlerTypes', IoThread = {Io}, Accepting, Fewer("accept"), accepting' => accepting,
         \A m \in Made' : m.from = Greeter => m \in Made, Same, conn' = conn, Job' = Job,
         Label' \in {"accept", "greet"} => Label' = Label
  PROVE  Accepting'
<1>1. ASSUME NEW c \in Conn, Fresh(c) PROVE Fresh(c)'
  BY <1>1 DEF Fresh, Greeted, Same
<1>2. \A i \in Ready("accept")' : Fresh(ready[i].conn)'
  <2> SUFFICES ASSUME NEW i \in Ready("accept")' PROVE Fresh(ready[i].conn)'
    OBVIOUS
  <2>1. PICK j \in Ready("accept") : ready'[i] = ready[j]
    BY FewerMeans
  <2>2. ready[j].conn \in Conn
    BY ReadyKinds DEF Ready
  <2>3. PICK c \in Conn : c = ready[j].conn
    BY <2>2
  <2>4. Fresh(c) /\ c = ready'[i].conn
    BY <2>1, <2>3 DEF Accepting
  <2>5. QED
    BY <1>1, <2>4 DEF Fresh, Greeted
<1>3. Label' = "accept" => Fresh(Job.conn)'
  <2> SUFFICES ASSUME Label' = "accept" PROVE Fresh(Job.conn)'
    OBVIOUS
  <2>1. Label = "accept" /\ Fresh(Job.conn)
    BY DEF Accepting
  <2>2. PICK c \in Conn : c = Job.conn
    BY <2>1, JobKinds
  <2>3. QED
    BY <1>1, <2>1, <2>2 DEF Fresh, Greeted
<1>4. Ready("accept")' # {} => ~accepting' /\ Label' \notin {"accept", "greet"}
  BY FewerMeans DEF Accepting
<1>5. \A i, j \in Ready("accept")' : i = j
  BY FewerMeans DEF Accepting
<1>6. Label' = "greet" => conn' = Job'.conn /\ Greeted(conn)'
  BY DEF Accepting, Greeted
<1>7. Label' \in {"accept", "greet"} => ~accepting'
  BY DEF Accepting
<1>8. \A c, d \in Conn : d < c /\ sock'[d] = "new" => sock'[c] = "new"
  BY DEF Accepting, Same
<1>9. conn' # NoConn => sock'[conn'] \in {"open", "lost"}
  BY DEF Accepting, Same, HandlerTypes, Typed, TypeOK
<1>10. QED
  BY <1>2, <1>3, <1>4, <1>5, <1>6, <1>7, <1>8, <1>9 DEF Accepting

\* A handler is taken.
LEMMA AcceptingDispatch ==
  ASSUME HandlerTypes, HandlerTypes', IoThread = {Io}, OneWrite, Accepting, NEW t \in IoThread, Dispatch(t)
  PROVE  Accepting'
<1>1. /\ Label = "idle" /\ Label' = ready[1].op /\ Job' = ready[1] /\ 1 \in DOMAIN ready /\ 1 \in Ready(ready[1].op)
      /\ \A i \in Ready("accept")' : i + 1 \in Ready("accept") /\ ready'[i] = ready[i + 1] /\ i + 1 > 1
      /\ UNCHANGED <<conn, sock, accepting>>
  BY DispatchMoves DEF net
<1>2. ready[1].op # "greet"
  BY <1>1, ReadyKinds
<1>3. \A m \in Made' : m.from = Greeter => m \in Made
  <2>3. InHand' \subseteq Posted
    <3>1. ready[1].op \notin {"push", "pushFirst"}
      BY <1>1, ReadyKinds
    <3>2. QED
      BY <1>1, <3>1 DEF InHand, Posting, Posted
  <2>4. Posted' \subseteq Posted
    BY DispatchMoves, FewerMeans DEF Posted
  <2>5. Queued' = Queued /\ \A c \in Conn : Got(c)' = Got(c)
    BY DEF Dispatch, Queued, Got, net
  <2>6. QED
    BY <2>3, <2>4, <2>5 DEF Made
<1>4. ASSUME NEW i \in Ready("accept"), NEW c \in Conn, c = ready[i].conn PROVE Fresh(c)'
  BY <1>1, <1>3, <1>4 DEF Accepting, Fresh, Greeted
<1>5. ASSUME NEW i \in Ready("accept")' PROVE Fresh(ready[i].conn)'
  <2>1. i + 1 \in Ready("accept") /\ ready'[i] = ready[i + 1]
    BY <1>1
  <2>2. PICK c \in Conn : c = ready[i + 1].conn
    BY <2>1, ReadyKinds DEF Ready
  <2>3. Fresh(c)' /\ c = ready'[i].conn
    BY <1>4, <2>1, <2>2
  <2>4. QED
    BY <2>3 DEF Fresh, Greeted
<1>6. \A i, j \in Ready("accept")' : i = j
  BY FewerMeans, DispatchMoves DEF Accepting
<1>7. CASE ready[1].op = "accept"
  <2>1. Ready("accept")' = {}
    BY <1>1, <1>7 DEF Accepting
  <2>2. PICK c \in Conn : c = ready[1].conn
    BY <1>1, <1>7, ReadyKinds
  <2>3. Fresh(c)' /\ c = Job'.conn
    BY <1>1, <1>4, <1>7, <2>2
  <2>4. Fresh(Job.conn)'
    BY <2>3 DEF Fresh, Greeted
  <2>5. ~ accepting'
    BY <1>1, <1>7 DEF Accepting
  <2>6. QED
    BY <1>1, <1>7, <2>1, <2>4, <2>5 DEF Accepting
<1>8. CASE ready[1].op # "accept"
  <2>1. Label' \notin {"accept", "greet"}
    BY <1>1, <1>2, <1>8
  <2>2. Ready("accept")' # {} => ~ accepting'
    BY <1>1 DEF Accepting
  <2>3. QED
    BY <1>1, <1>5, <1>6, <2>1, <2>2 DEF Accepting
<1>9. QED
  BY <1>7, <1>8

\* A connection is taken, or sent away.
LEMMA AcceptingConnects ==
  ASSUME HandlerTypes, HandlerTypes', IoThread = {Io}, Accepting, NEW t \in IoThread, OnConnect(t), Made' \subseteq Made
  PROVE  Accepting'
<1>1. t = Io /\ Label = "accept" /\ job[t] = Job /\ Job' = Job /\ ready' = ready
  BY DEF OnConnect, Label, Job
<1>2. PICK c \in Conn : c = Job.conn
  BY <1>1, JobKinds
<1>3. Ready("accept")' = {} /\ ~ accepting /\ Fresh(c)
  <2>1. Ready("accept") = {} /\ ~ accepting /\ Fresh(c)
    BY <1>1, <1>2 DEF Accepting, Fresh, Greeted
  <2>2. QED
    BY <1>1, <2>1 DEF Ready
<1>t. sock \in [Conn -> {"new", "open", "lost", "closed"}]
  BY DEF HandlerTypes, Typed, TypeOK
<1>4. CASE running /\ conn = NoConn
  <2>1. conn' = c /\ Goto(t, "greet") /\ UNCHANGED <<sock, accepting>>
    BY <1>1, <1>2, <1>4 DEF OnConnect, net
  <2>2. Label' = "greet"
    BY <2>1, OneLabel
  <2>3. Greeted(c)' /\ sock[c] \in {"open", "lost"}
    BY <1>3 DEF Fresh, Greeted
  <2>4. Greeted(conn)'
    BY <2>1, <2>3 DEF Greeted
  <2>5. QED
    BY <1>1, <1>2, <1>3, <2>1, <2>2, <2>3, <2>4 DEF Accepting
<1>5. CASE ~ (running /\ conn = NoConn)
  <2>1. sock' = [sock EXCEPT ![c] = "closed"] /\ conn' = conn /\ Goto(t, "idle")
    BY <1>1, <1>2, <1>5 DEF OnConnect
  <2>2. Label' = "idle"
    BY <2>1, OneLabel
  <2>3. \A d, e \in Conn : e < d /\ sock'[e] = "new" => sock'[d] = "new"
    <3>1. sock[c] # "new"
      BY <1>3 DEF Fresh
    <3>2. QED
      BY <1>t, <2>1, <3>1 DEF Accepting
  <2>4. conn' # NoConn => sock'[conn'] \in {"open", "lost"}
    <3>1. conn # c
      BY <1>3 DEF Fresh
    <3>2. QED
      BY <1>t, <2>1, <3>1 DEF Accepting
  <2>5. QED
    BY <1>3, <2>2, <2>3, <2>4 DEF Accepting
<1>6. QED
  BY <1>4, <1>5

LEMMA AcceptingGreets ==
  ASSUME HandlerTypes, HandlerTypes', IoThread = {Io}, Accepting, NEW t \in IoThread, Greet(t)
  PROVE  Accepting'
<1>1. Label = "greet" /\ Goto(t, "release") /\ UNCHANGED <<conn, sock>>
  BY DEF Greet, Label
<1>2. Label' = "release"
  BY <1>1, OneLabel
<1>3. Ready("accept") = {}
  BY <1>1 DEF Accepting
<1>4. Ready("accept")' = {}
  BY <1>3, FewerBy, FewerMeans
<1>5. QED
  BY <1>1, <1>2, <1>4 DEF Accepting

\* The client is given up.
LEMMA AcceptingCloses ==
  ASSUME HandlerTypes, HandlerTypes', IoThread = {Io}, Accepting, NEW t \in IoThread, CloseSocket(t), Made' \subseteq Made
  PROVE  Accepting'
<1>1. /\ conn \in Conn /\ conn' = NoConn /\ sock' = [sock EXCEPT ![conn] = "closed"] /\ Goto(t, "idle")
      /\ ready' = ready /\ accepting' = accepting /\ sock \in [Conn -> {"new", "open", "lost", "closed"}]
  BY DEF CloseSocket, HandlerTypes, Typed, TypeOK
<1>2. Label' = "idle"
  BY <1>1, OneLabel
<1>3. ASSUME NEW c \in Conn, Fresh(c) PROVE Fresh(c)'
  <2>1. c # conn /\ sock'[c] = sock[c] /\ c # NoConn
    BY <1>1, <1>3 DEF Fresh, Conn, NoConn
  <2>2. QED
    BY <1>1, <1>3, <2>1 DEF Fresh, Greeted
<1>4. Ready("accept")' = Ready("accept")
  BY <1>1 DEF Ready
<1>5. ASSUME NEW i \in Ready("accept")' PROVE Fresh(ready[i].conn)'
  <2>1. i \in Ready("accept") /\ ready'[i] = ready[i]
    BY <1>1, <1>4
  <2>2. PICK c \in Conn : c = ready[i].conn
    BY <2>1, ReadyKinds DEF Ready
  <2>3. Fresh(c)' /\ c = ready'[i].conn
    BY <1>3, <2>1, <2>2 DEF Accepting
  <2>4. QED
    BY <2>3 DEF Fresh, Greeted
<1>6. \A c, d \in Conn : d < c /\ sock'[d] = "new" => sock'[c] = "new"
  <2>1. sock[conn] # "new"
    BY <1>1 DEF Accepting, NoConn, Conn
  <2>2. QED
    BY <1>1, <2>1 DEF Accepting
<1>7. QED
  BY <1>1, <1>2, <1>4, <1>5, <1>6 DEF Accepting

\* A client connects.
LEMMA AcceptingConnect ==
  ASSUME HandlerTypes, HandlerTypes', IoThread = {Io}, Accepting, Numbered, NEW c \in Conn, Connect(c), Made' \subseteq Made
  PROVE  Accepting'
<1>1. /\ accepting /\ ~ accepting' /\ sock[c] = "new" /\ conn' = conn
      /\ sock' = [sock EXCEPT ![c] = "open"] /\ \A d \in Conn : d < c => sock[d] # "new"
      /\ ready' = Append(ready, Accept(c)) /\ Label' = Label
      /\ sock \in [Conn -> {"new", "open", "lost", "closed"}] /\ Conn \subseteq Nat
  BY DEF Connect, HandlerTypes, Typed, TypeOK, Conn, Label
<1>2. Accept(c) \in Task /\ Accept(c).op = "accept" /\ Accept(c).conn = c
  BY TaskKinds, TaskFields
<1>3. Ready("accept") = {} /\ Label \notin {"accept", "greet"}
  BY <1>1 DEF Accepting
<1>4. Ready("accept")' = {Len(ready) + 1} /\ ready'[Len(ready) + 1] = Accept(c)
  BY <1>1, <1>2, <1>3, FewerPushed
<1>5. Fresh(c)'
  <2>1. conn' # c
    BY <1>1 DEF HandlerTypes, Opened, Conn, NoConn
  <2>2. ASSUME NEW m \in Made', m.from = Greeter PROVE m.n < c
    <3>1. m \in Made /\ m.n \in Conn /\ sock[m.n] # "new"
      BY <2>2, MadeTyped, MessageKinds DEF Numbered
    <3>2. ~ (c < m.n) /\ m.n # c
      BY <1>1, <3>1 DEF Accepting
    <3>3. m.n \in Nat /\ c \in Nat
      BY <1>1, <3>1
    <3>4. QED
      BY <3>2, <3>3
  <2>3. QED
    BY <1>1, <2>1, <2>2 DEF Fresh, Greeted
<1>7. \A d, e \in Conn : e < d /\ sock'[e] = "new" => sock'[d] = "new"
  BY <1>1 DEF Accepting
<1>8. conn' # NoConn => sock'[conn'] \in {"open", "lost"}
  BY <1>1 DEF Accepting, HandlerTypes, Typed, TypeOK
<1>9. \A i \in Ready("accept")' : Fresh(ready[i].conn)'
  <2>1. PICK k : Ready("accept")' = {k} /\ ready'[k] = Accept(c)
    BY <1>4
  <2>2. QED
    BY <1>2, <1>5, <2>1 DEF Fresh, Greeted
<1>10. QED
  BY <1>1, <1>3, <1>4, <1>7, <1>8, <1>9 DEF Accepting

LEMMA AcceptingStep ==
  ASSUME HandlerTypes, HandlerTypes', IoThread = {Io}, OneWrite, Numbered, Accepting, [Next]_vars
  PROVE  Accepting'
<1>1. ASSUME NEW t \in IoThread, Dispatch(t) PROVE Accepting'
  BY <1>1, AcceptingDispatch
<1>2. ASSUME NEW t \in IoThread, Greet(t) PROVE Accepting'
  BY <1>2, AcceptingGreets
<1>3. ASSUME NEW t \in IoThread, OnConnect(t) PROVE Accepting'
  BY <1>3, AcceptingConnects, MadeBy DEF IoStep, OnConnect, Greet
<1>4. ASSUME NEW t \in IoThread, CloseSocket(t) PROVE Accepting'
  BY <1>4, AcceptingCloses, MadeBy DEF IoStep, CloseSocket, Greet
<1>5. ASSUME NEW c \in Conn, Connect(c) PROVE Accepting'
  BY <1>5, AcceptingConnect, MadeBy
<1>6. CASE /\ \A t \in IoThread : ~ Dispatch(t) /\ ~ Greet(t) /\ ~ OnConnect(t) /\ ~ CloseSocket(t)
           /\ \A c \in Conn : ~ Connect(c)
  <2>1. Same /\ conn' = conn /\ Fewer("accept")
    BY <1>6, SameStep, FewerStep
  <2>2. Job' = Job /\ (Label' \in {"accept", "greet"} => Label' = Label)
    BY <1>6, LabelStep
  <2>3. accepting' => accepting
    BY <1>6 DEF Next, IoStep, ReadHandler, WriteHandler, More, InternalWrite, Push, CloseTest, PostClose, ShutdownServer,
           Release, Fault, Crash, WriterStep, WriteTest, WritePost, WriteRelease, WriteFault, Lose, IoEnds, ReadEnds,
           WriteEnds, AskShutdown, vars, net
  <2>4. \A m \in Made' : m.from = Greeter => m \in Made
    BY <1>6, MadeStep, VideoAssumption
  <2>5. QED
    BY <2>1, <2>2, <2>3, <2>4, AcceptingQuiet
<1>7. QED
  BY <1>1, <1>2, <1>3, <1>4, <1>5, <1>6

-----------------------------------------------------------------------------
(* The first client and its connection.                                    *)

\* What was given up stays given up.
Lasting ==
  /\ conn # NoConn /\ sock[conn] # "open" => sock'[conn] # "open"
  /\ running' => running
  /\ closing => closing'

LEMMA LastingStep ==
  ASSUME HandlerTypes, [Next]_vars
  PROVE  /\ Lasting
         /\ conn' = conn \/ \E t \in IoThread : (OnConnect(t) /\ conn = NoConn) \/ CloseSocket(t)
<1>t. /\ sock \in [Conn -> {"new", "open", "lost", "closed"}] /\ closing \in BOOLEAN /\ running \in BOOLEAN
      /\ conn \in Conn \cup {NoConn} /\ (conn # NoConn => sock[conn] # "new")
  BY DEF HandlerTypes, Typed, TypeOK, Opened
<1>1. ASSUME NEW t \in IoThread, IoStep(t)
      PROVE  Lasting /\ (conn' = conn \/ (OnConnect(t) /\ conn = NoConn) \/ CloseSocket(t))
  BY <1>t, <1>1 DEF Lasting, IoStep, Dispatch, OnConnect, Greet, ReadHandler, WriteHandler, More, InternalWrite, Push,
        CloseTest, PostClose, CloseSocket, ShutdownServer, Release, Fault, Crash, net, rest
<1>2. ASSUME NEW w \in Writer, WriterStep(w) PROVE Lasting /\ conn' = conn
  BY <1>2 DEF Lasting, WriterStep, WriteTest, WritePost, WriteRelease, WriteFault, net
<1>3. ASSUME NEW c \in Conn, Connect(c) \/ Lose(c) PROVE Lasting /\ conn' = conn
  BY <1>t, <1>3 DEF Lasting, Connect, Lose, rest
<1>4. ASSUME IoEnds \/ AskShutdown \/ UNCHANGED vars PROVE Lasting /\ conn' = conn
  BY <1>4 DEF Lasting, IoEnds, ReadEnds, WriteEnds, AskShutdown, net, rest, vars
<1>5. QED
  BY <1>1, <1>2, <1>3, <1>4 DEF Next

LEMMA ServesQuiet ==
  ASSUME HandlerTypes, HandlerTypes', ServesFirst, Lasting, conn' = conn, reading' \subseteq reading \cup {conn},
         Fewer("read"), Fewer("write"), Fewer("doClose"),
         \A i \in DOMAIN writing' : writing'[i].conn = conn \/ \E j \in DOMAIN writing : writing'[i] = writing[j]
  PROVE  ServesFirst'
<1> SUFFICES ASSUME ~ closing'
             PROVE  /\ reading' \subseteq {conn'} /\ \A i \in DOMAIN writing' : writing'[i].conn = conn'
                    /\ Ready("doClose")' = {}
                    /\ \A i \in Ready("read")' : ready'[i].conn = conn' /\ Ended(ready[i])'
                    /\ \A i \in Ready("write")' : Failed(ready[i])'
  BY DEF ServesFirst
<1>1. ~ closing
  BY DEF Lasting
<1>2. reading' \subseteq {conn'} /\ \A i \in DOMAIN writing' : writing'[i].conn = conn'
  BY <1>1 DEF ServesFirst
<1>3. Ready("doClose")' = {}
  BY <1>1, FewerMeans DEF ServesFirst
<1>4. ASSUME NEW i \in Ready("read")' PROVE ready'[i].conn = conn' /\ Ended(ready[i])'
  <2>1. PICK j \in Ready("read") : ready'[i] = ready[j]
    BY FewerMeans
  <2>2. ready[j].conn = conn /\ Ended(ready[j])
    BY <1>1 DEF ServesFirst
  <2>3. QED
    BY <2>1, <2>2 DEF Ended, Lasting
<1>5. ASSUME NEW i \in Ready("write")' PROVE Failed(ready[i])'
  <2>1. PICK j \in Ready("write") : ready'[i] = ready[j]
    BY FewerMeans
  <2>2. Failed(ready[j])
    BY <1>1 DEF ServesFirst
  <2>3. QED
    BY <2>1, <2>2 DEF Failed, Lasting
<1>6. QED
  BY <1>2, <1>3, <1>4, <1>5

\* The first client is taken when nothing is left of another.
LEMMA ServesConnects ==
  ASSUME HandlerTypes, HandlerTypes', ServesFirst, NEW t \in IoThread, OnConnect(t), conn = NoConn
  PROVE  ServesFirst'
<1> SUFFICES ASSUME ~ closing' PROVE ServesFirst'
  BY DEF ServesFirst
<1>1. ~ closing /\ ready' = ready /\ UNCHANGED <<reading, writing>>
  BY DEF OnConnect, net
<1>2. NoConn \notin Conn
  BY DEF Conn, NoConn
<1>3. reading = {}
  BY <1>1, <1>2 DEF ServesFirst, HandlerTypes, Typed, TypeOK
<1>4. DOMAIN writing = {}
  <2>1. \A i \in DOMAIN writing : writing[i] \in [conn : Conn, message : Message]
    BY ElementAt DEF HandlerTypes, Typed, TypeOK
  <2>2. \A i \in DOMAIN writing : writing[i].conn \in Conn
    BY <2>1
  <2>3. QED
    BY <1>1, <1>2, <2>2 DEF ServesFirst
<1>5. Ready("read") = {} /\ Ready("write") = {} /\ Ready("doClose") = {}
  BY <1>1 DEF ServesFirst, Ended, Failed
<1>6. \A op : Ready(op)' = Ready(op)
  BY <1>1 DEF Ready
<1>7. QED
  BY <1>1, <1>3, <1>4, <1>5, <1>6 DEF ServesFirst

LEMMA ServesReads ==
  ASSUME HandlerTypes, HandlerTypes', ServesFirst, Accepting, NEW c \in Conn, ReadEnds(c)
  PROVE  ServesFirst'
<1> SUFFICES ASSUME ~ closing' PROVE ServesFirst'
  BY DEF ServesFirst
<1>1. ~ closing /\ c \in reading /\ reading' \subseteq reading /\ UNCHANGED <<conn, sock, writing>>
  BY DEF ReadEnds
<1>2. c = conn /\ conn # NoConn /\ sock[conn] \in {"open", "lost"}
  BY <1>1 DEF ServesFirst, Accepting, Conn, NoConn
<1>3. PICK r \in Results[sock[c]] : ready' = Append(ready, Read(c, r))
  BY DEF ReadEnds
<1>4. r \in {"ok", "eof", "other"} /\ (r = "eof" => sock[conn] # "open")
  BY <1>2, <1>3 DEF Results
<1>5. PICK h : h = Read(c, r)
  OBVIOUS
<1>6. h \in Task /\ h.op = "read" /\ h.conn = conn /\ h.result = r
  BY <1>2, <1>4, <1>5, TaskKinds, TaskFields
<1>7. /\ Ready("read")' = Ready("read") \cup {Len(ready) + 1} /\ ready'[Len(ready) + 1] = h
      /\ \A i \in DOMAIN ready : ready'[i] = ready[i]
      /\ Fewer("write") /\ Fewer("doClose")
  BY <1>3, <1>5, <1>6, FewerPushed
<1>8. ASSUME NEW i \in Ready("read")' PROVE ready'[i].conn = conn' /\ Ended(ready[i])'
  <2>1. CASE i \in Ready("read")
    <3>1. ready'[i] = ready[i] /\ ready[i].conn = conn /\ Ended(ready[i])
      BY <1>1, <1>7, <2>1 DEF ServesFirst, Ready
    <3>2. QED
      BY <1>1, <3>1 DEF Ended
  <2>2. CASE i = Len(ready) + 1
    BY <1>1, <1>2, <1>4, <1>6, <1>7, <2>2 DEF Ended
  <2>3. QED
    BY <1>7, <2>1, <2>2
<1>9. ASSUME NEW i \in Ready("write")' PROVE Failed(ready[i])'
  BY <1>1, <1>7, FewerMeans DEF ServesFirst, Failed
<1>10. Ready("doClose")' = {}
  BY <1>1, <1>7, FewerMeans DEF ServesFirst
<1>11. QED
  BY <1>1, <1>8, <1>9, <1>10 DEF ServesFirst

LEMMA ServesWrites ==
  ASSUME HandlerTypes, HandlerTypes', ServesFirst, OneWrite, NEW i \in DOMAIN writing, WriteEnds(i)
  PROVE  ServesFirst'
<1> SUFFICES ASSUME ~ closing' PROVE ServesFirst'
  BY DEF ServesFirst
<1>1. ~ closing /\ writing' = RemoveAt(writing, i) /\ UNCHANGED <<conn, sock, reading>>
  BY DEF WriteEnds
<1>2. writing \in Seq([conn : Conn, message : Message])
  BY DEF HandlerTypes, Typed, TypeOK
<1>3. writing[i].conn = conn /\ conn \in Conn /\ conn # NoConn
  <2>1. writing[i] \in [conn : Conn, message : Message]
    BY <1>2, ElementAt
  <2>2. writing[i].conn \in Conn
    BY <2>1
  <2>3. QED
    BY <1>1, <2>2 DEF ServesFirst, Conn, NoConn
<1>4. PICK r \in {"ok", "error"} : ready' = Append(ready, Write(r)) /\ (r = "error" => sock[conn] # "open")
  BY <1>3 DEF WriteEnds
<1>5. PICK h : h = Write(r)
  OBVIOUS
<1>6. h \in Task /\ h.op = "write" /\ h.result = r
  BY <1>4, <1>5, TaskKinds, TaskFields
<1>7. /\ Ready("write")' = Ready("write") \cup {Len(ready) + 1} /\ ready'[Len(ready) + 1] = h
      /\ \A j \in DOMAIN ready : ready'[j] = ready[j]
      /\ Fewer("read") /\ Fewer("doClose")
  BY <1>4, <1>5, <1>6, FewerPushed
<1>8. ASSUME NEW j \in Ready("write")' PROVE Failed(ready[j])'
  <2>1. CASE j \in Ready("write")
    <3>1. ready'[j] = ready[j] /\ Failed(ready[j])
      BY <1>1, <1>7, <2>1 DEF ServesFirst, Ready
    <3>2. QED
      BY <1>1, <3>1 DEF Failed
  <2>2. CASE j = Len(ready) + 1
    BY <1>1, <1>3, <1>4, <1>6, <1>7, <2>2 DEF Failed
  <2>3. QED
    BY <1>7, <2>1, <2>2
<1>9. ASSUME NEW j \in Ready("read")' PROVE ready'[j].conn = conn' /\ Ended(ready[j])'
  BY <1>1, <1>7, FewerMeans DEF ServesFirst, Ended
<1>10. Ready("doClose")' = {}
  BY <1>1, <1>7, FewerMeans DEF ServesFirst
<1>11. \A j \in DOMAIN writing' : writing'[j].conn = conn'
  <2>1. /\ DOMAIN RemoveAt(writing, i) = 1..(Len(writing) - 1) /\ Len(writing) \in Nat /\ DOMAIN writing = 1..Len(writing)
        /\ \A j \in 1..(Len(writing) - 1) : RemoveAt(writing, i)[j] = writing[IF j < i THEN j ELSE j + 1]
    BY <1>2, RemoveShifts
  <2>2. \A j \in 1..(Len(writing) - 1) : (IF j < i THEN j ELSE j + 1) \in DOMAIN writing
    BY <2>1
  <2>3. \A j \in DOMAIN writing : writing[j].conn = conn
    BY <1>1 DEF ServesFirst
  <2>4. QED
    BY <1>1, <2>1, <2>2, <2>3
<1>12. QED
  BY <1>1, <1>8, <1>9, <1>10, <1>11 DEF ServesFirst

LEMMA ServesDispatch ==
  ASSUME HandlerTypes, HandlerTypes', IoThread = {Io}, ServesFirst, NEW t \in IoThread, Dispatch(t)
  PROVE  ServesFirst'
<1>1. UNCHANGED <<conn, closing, running, sock, reading, writing>>
  BY DEF Dispatch, net, rest
<1>2. Lasting
  BY <1>1 DEF Lasting
<1>3. QED
  BY <1>1, <1>2, DispatchMoves, ServesQuiet

LEMMA ServesStep ==
  ASSUME HandlerTypes, HandlerTypes', IoThread = {Io}, Accepting, ServesFirst, ClosesFirst, OneWrite, [Next]_vars
  PROVE  ServesFirst'
<1>1. ASSUME NEW c \in Conn, ReadEnds(c) PROVE ServesFirst'
  BY <1>1, ServesReads
<1>2. ASSUME NEW i \in DOMAIN writing, WriteEnds(i) PROVE ServesFirst'
  BY <1>2, ServesWrites
<1>3. ASSUME NEW t \in IoThread, OnConnect(t), conn = NoConn PROVE ServesFirst'
  BY <1>3, ServesConnects
<1>4. ASSUME NEW t \in IoThread, PostClose(t) PROVE ServesFirst'
  BY <1>4 DEF PostClose, ServesFirst
<1>5. ASSUME NEW t \in IoThread, CloseSocket(t) PROVE ServesFirst'
  <2>1. Label = "doClose" /\ closing' = closing
    BY <1>5 DEF CloseSocket, Label
  <2>2. closing
    BY <2>1 DEF ClosesFirst
  <2>3. QED
    BY <2>1, <2>2 DEF ServesFirst
<1>6. ASSUME NEW t \in IoThread, Greet(t) PROVE ServesFirst'
  <2>1. reading' = reading \cup {job[t].conn} /\ UNCHANGED <<conn, closing, running, sock, writing>>
    BY <1>6 DEF Greet, rest
  <2>2. job[t].conn = conn
    BY <1>6 DEF Greet, Accepting, Label, Job
  <2>3. QED
    BY <1>6, <2>1, <2>2, FewerBy, ServesQuiet DEF Lasting
<1>7. ASSUME NEW t \in IoThread, More(t) \/ Push(t) PROVE ServesFirst'
  <2>1. ready' = ready /\ UNCHANGED <<conn, closing, running, sock, reading>>
    BY <1>7 DEF More, Push, rest
  <2>2. writing \in Seq([conn : Conn, message : Message]) /\ writing' \in Seq([conn : Conn, message : Message])
    BY DEF HandlerTypes, Typed, TypeOK
  <2>3. writing' = writing \/ (conn # NoConn /\ \E m : writing' = Append(writing, [conn |-> conn, message |-> m]))
    BY <1>7 DEF More, Push
  <2>4. \A i \in DOMAIN writing' : writing'[i].conn = conn \/ \E j \in DOMAIN writing : writing'[i] = writing[j]
    <3>1. CASE writing' = writing
      BY <3>1
    <3>2. ASSUME NEW m, writing' = Append(writing, [conn |-> conn, message |-> m])
          PROVE \A i \in DOMAIN writing' : writing'[i].conn = conn \/ \E j \in DOMAIN writing : writing'[i] = writing[j]
      <4>1. PICK e : e = [conn |-> conn, message |-> m]
        OBVIOUS
      <4>2. /\ DOMAIN writing = 1..Len(writing) /\ DOMAIN writing' = 1..(Len(writing) + 1) /\ Len(writing) \in Nat
            /\ writing'[Len(writing) + 1] = e /\ \A i \in 1..Len(writing) : writing'[i] = writing[i]
        BY <2>2, <3>2, <4>1
      <4>3. \A i \in 1..(Len(writing) + 1) : i \in 1..Len(writing) \/ i = Len(writing) + 1
        BY <4>2
      <4>4. e.conn = conn
        BY <4>1
      <4>5. QED
        BY <4>2, <4>3, <4>4
    <3>3. QED
      BY <2>3, <3>1, <3>2
  <2>5. QED
    BY <2>1, <2>4, FewerSame, ServesQuiet DEF Lasting
<1>8. ASSUME NEW t \in IoThread, ReadHandler(t) PROVE ServesFirst'
  <2>1. /\ ready' = ready /\ reading' \subseteq reading \cup {conn}
        /\ UNCHANGED <<conn, closing, running, sock, writing>>
    BY <1>8 DEF ReadHandler, rest
  <2>2. QED
    BY <2>1, FewerSame, ServesQuiet DEF Lasting
<1>9. CASE /\ \A t \in IoThread : /\ ~ (OnConnect(t) /\ conn = NoConn) /\ ~ CloseSocket(t) /\ ~ PostClose(t)
                                  /\ ~ Greet(t) /\ ~ More(t) /\ ~ Push(t) /\ ~ ReadHandler(t)
           /\ \A c \in Conn : ~ ReadEnds(c)
           /\ \A i \in DOMAIN writing : ~ WriteEnds(i)
  <2>1. Lasting /\ conn' = conn
    BY <1>9, LastingStep
  <2>2. Fewer("read") /\ Fewer("write") /\ Fewer("doClose")
    BY <1>9, FewerStep
  <2>3. reading' = reading /\ writing' = writing
    BY <1>9 DEF Next, IoStep, Dispatch, OnConnect, WriteHandler, InternalWrite, CloseTest, ShutdownServer, Release,
           Fault, Crash, WriterStep, WriteTest, WritePost, WriteRelease, WriteFault, Connect, Lose, IoEnds, AskShutdown,
           vars, net
  <2>4. QED
    BY <2>1, <2>2, <2>3, ServesQuiet
<1>10. QED
  BY <1>1, <1>2, <1>3, <1>4, <1>5, <1>6, <1>7, <1>8, <1>9

LEMMA ClosesFirstStep ==
  ASSUME HandlerTypes, HandlerTypes', IoThread = {Io}, ServesFirst, ClosesFirst, Accepting, [Next]_vars
  PROVE  ClosesFirst'
<1> SUFFICES ASSUME ~ closing' PROVE ClosesFirst'
  BY DEF ClosesFirst
<1>0. ~ closing /\ Lasting
  BY LastingStep DEF Lasting
<1>1. CASE Label' \notin {"read", "write", "close", "postClose", "doClose"}
  BY <1>1 DEF ClosesFirst
<1>2. ASSUME NEW t \in IoThread, Dispatch(t) PROVE ClosesFirst'
  <2>1. /\ Label' = ready[1].op /\ Job' = ready[1] /\ 1 \in DOMAIN ready /\ 1 \in Ready(ready[1].op)
        /\ UNCHANGED <<conn, sock>>
    BY <1>2, DispatchMoves DEF net
  <2>2. ready[1].op \notin {"doClose", "close", "postClose"}
    BY <1>0, <2>1, ReadyKinds DEF ServesFirst
  <2>3. ready[1].op = "read" => ready[1].conn = conn /\ Ended(ready[1])
    BY <1>0, <2>1 DEF ServesFirst
  <2>4. ready[1].op = "write" => Failed(ready[1])
    BY <1>0, <2>1 DEF ServesFirst
  <2>5. QED
    BY <2>1, <2>2, <2>3, <2>4 DEF ClosesFirst, Ended, Failed
<1>3. ASSUME NEW t \in IoThread, ReadHandler(t) PROVE ClosesFirst'
  <2>1. /\ t = Io /\ Label = "read" /\ Job' = Job /\ UNCHANGED <<conn, sock>>
        /\ (Job.result \in {"eof", "aborted"} /\ Goto(t, "close")) \/ Goto(t, "idle") \/ Goto(t, "release")
    BY <1>3 DEF ReadHandler, Label, Job
  <2>2. Label' \in {"idle", "release"} \/ (Label' = "close" /\ Job.result \in {"eof", "aborted"})
    BY <2>1, OneLabel
  <2>3. Ended(Job) /\ Job.op = "read"
    BY <1>0, <2>1, JobKinds DEF ClosesFirst
  <2>4. QED
    BY <2>1, <2>2, <2>3 DEF ClosesFirst, Ended, Gone
<1>4. ASSUME NEW t \in IoThread, WriteHandler(t) PROVE ClosesFirst'
  <2>1. /\ t = Io /\ Label = "write" /\ Job' = Job /\ UNCHANGED <<conn, sock>>
        /\ (Job.result = "error" /\ Goto(t, "close")) \/ Goto(t, "more")
    BY <1>4 DEF WriteHandler, Label, Job, net
  <2>2. Label' = "more" \/ (Label' = "close" /\ Job.result = "error")
    BY <2>1, OneLabel
  <2>3. Failed(Job)
    BY <1>0, <2>1 DEF ClosesFirst
  <2>4. QED
    BY <2>1, <2>2, <2>3 DEF ClosesFirst, Failed, Gone
<1>5. ASSUME NEW t \in IoThread, CloseTest(t) PROVE ClosesFirst'
  <2>1. /\ t = Io /\ Label = "close" /\ Job' = Job /\ UNCHANGED <<conn, sock, running>>
        /\ Goto(t, "idle") \/ (conn # NoConn /\ Goto(t, "postClose"))
    BY <1>5 DEF CloseTest, Label, Job, net, rest
  <2>2. Label' = "idle" \/ (Label' = "postClose" /\ conn # NoConn)
    BY <2>1, OneLabel
  <2>3. QED
    BY <1>0, <2>1, <2>2 DEF ClosesFirst, Gone
<1>6. ASSUME NEW t \in IoThread, ShutdownServer(t) PROVE ClosesFirst'
  <2>1. t = Io /\ Label = "shutdown" /\ Job' = Job /\ ~ running' /\ Goto(t, "close")
    BY <1>6 DEF ShutdownServer, Label, Job
  <2>2. Label' = "close" /\ Job.op = "shutdown"
    BY <2>1, OneLabel, JobKinds
  <2>3. QED
    BY <2>1, <2>2 DEF ClosesFirst, Gone
<1>7. ASSUME NEW t \in IoThread, IoStep(t), ~ Dispatch(t), ~ ReadHandler(t), ~ WriteHandler(t), ~ CloseTest(t), ~ ShutdownServer(t)
      PROVE  ClosesFirst'
  <2>1. \E to \in {"idle", "release", "push", "pushFirst", "greet"} : Goto(t, to)
    BY <1>7 DEF IoStep, OnConnect, Greet, More, InternalWrite, Push, PostClose, CloseSocket, Release, Fault, Crash
  <2>2. QED
    BY <1>1, <2>1, OneLabel
<1>8. ASSUME UNCHANGED <<Label, Job, conn>> PROVE ClosesFirst'
  BY <1>0, <1>8 DEF ClosesFirst, Ended, Failed, Gone, Lasting
<1>9. QED
  <2>1. ASSUME UNCHANGED vars PROVE UNCHANGED <<Label, Job, conn>>
    BY <2>1 DEF vars, Label, Job
  <2>2. ASSUME (\E w \in Writer : WriterStep(w)) \/ (\E c \in Conn : Connect(c) \/ Lose(c)) \/ IoEnds \/ AskShutdown
        PROVE UNCHANGED <<Label, Job, conn>>
    BY <2>2, OtherMoves
  <2>3. ASSUME NEW t \in IoThread, IoStep(t) PROVE ClosesFirst'
    BY <1>2, <1>3, <1>4, <1>5, <1>6, <1>7, <2>3
  <2>4. QED
    BY <1>8, <2>1, <2>2, <2>3 DEF Next

LEMMA ClosesQuiet ==
  ASSUME HandlerTypes, HandlerTypes', ClosesOnce, Lasting, closing' => closing, conn' = conn, Fewer("doClose"),
         Label' \in {"postClose", "doClose"} => Label' = Label
  PROVE  ClosesOnce'
<1>1. Ready("doClose") = {} => Ready("doClose")' = {}
  BY FewerMeans
<1>2. (\A i, j \in Ready("doClose") : i = j) => \A i, j \in Ready("doClose")' : i = j
  BY FewerMeans
<1>3. conn # NoConn /\ Gone => Gone'
  BY DEF Gone, Lasting
<1>4. QED
  BY <1>1, <1>2, <1>3 DEF ClosesOnce

LEMMA ClosesOnceStep ==
  ASSUME HandlerTypes, HandlerTypes', IoThread = {Io}, ServesFirst, ClosesFirst, ClosesOnce, Accepting, [Next]_vars
  PROVE  ClosesOnce'
<1>0. Lasting
  BY LastingStep
<1>1. ASSUME NEW t \in IoThread, Dispatch(t) PROVE ClosesOnce'
  <2>1. /\ Label = "idle" /\ Label' = ready[1].op /\ Job' = ready[1] /\ 1 \in DOMAIN ready /\ 1 \in Ready(ready[1].op)
        /\ \A i \in Ready("doClose")' : i + 1 \in Ready("doClose") /\ i + 1 > 1
        /\ UNCHANGED <<conn, closing, running, sock>>
    BY <1>1, DispatchMoves DEF net, rest
  <2>2. ready[1].op # "postClose"
    BY <2>1, ReadyKinds
  <2>3. CASE ready[1].op = "doClose"
    <3>1. closing => Ready("doClose")' = {}
      BY <2>1, <2>3 DEF ClosesOnce
    <3>2. closing => conn # NoConn /\ Gone
      BY <2>1, <2>3 DEF ClosesOnce
    <3>3. QED
      BY <2>1, <2>3, <3>1, <3>2 DEF ClosesOnce, Gone
  <2>4. CASE ready[1].op # "doClose"
    BY <1>0, <1>1, <2>1, <2>2, <2>4, ClosesQuiet, DispatchMoves
  <2>5. QED
    BY <2>3, <2>4
<1>2. ASSUME NEW t \in IoThread, PostClose(t) PROVE ClosesOnce'
  <2>1. Label = "postClose" /\ conn # NoConn /\ Goto(t, "release") /\ UNCHANGED <<conn, running, sock>>
        /\ ready' = Append(ready, DoClose)
    BY <1>2 DEF PostClose, Label, net, rest
  <2>2. ~ closing /\ Gone
    BY <2>1 DEF ClosesOnce, ClosesFirst
  <2>3. Ready("doClose") = {} /\ Label' = "release"
    BY <2>1, <2>2, OneLabel DEF ServesFirst
  <2>4. Ready("doClose")' = {Len(ready) + 1}
    BY <2>1, <2>3, FewerPushed, TaskKinds, TaskFields
  <2>5. QED
    BY <2>1, <2>2, <2>3, <2>4 DEF ClosesOnce, Gone
<1>3. ASSUME NEW t \in IoThread, CloseSocket(t) PROVE ClosesOnce'
  <2>1. Label = "doClose" /\ closing' = closing /\ ready' = ready /\ Goto(t, "idle")
    BY <1>3 DEF CloseSocket, Label
  <2>2. Label' = "idle" /\ Ready("doClose")' = Ready("doClose")
    BY <2>1, OneLabel DEF Ready
  <2>3. QED
    BY <2>1, <2>2 DEF ClosesOnce
<1>4. ASSUME NEW t \in IoThread, OnConnect(t), conn = NoConn PROVE ClosesOnce'
  <2>1. ready' = ready /\ closing' = closing /\ (Goto(t, "greet") \/ Goto(t, "idle"))
    BY <1>4 DEF OnConnect
  <2>2. Label' \in {"greet", "idle"} /\ Ready("doClose")' = Ready("doClose")
    BY <2>1, OneLabel DEF Ready
  <2>3. QED
    BY <1>4, <2>1, <2>2 DEF ClosesOnce
<1>5. ASSUME NEW t \in IoThread, CloseTest(t) PROVE ClosesOnce'
  <2>1. /\ ready' = ready /\ UNCHANGED <<conn, closing, running, sock>>
        /\ Goto(t, "idle") \/ (~ closing /\ Goto(t, "postClose"))
    BY <1>5 DEF CloseTest, net, rest
  <2>2. Label' = "idle" \/ ~ closing
    BY <2>1, OneLabel
  <2>3. CASE ~ closing
    BY <2>1, <2>3 DEF ClosesOnce
  <2>4. CASE Label' = "idle"
    BY <1>0, <2>1, <2>4, ClosesQuiet, FewerSame
  <2>5. QED
    BY <2>2, <2>3, <2>4
<1>6. CASE \A t \in IoThread : /\ ~ Dispatch(t) /\ ~ PostClose(t) /\ ~ CloseSocket(t) /\ ~ (OnConnect(t) /\ conn = NoConn)
                               /\ ~ CloseTest(t)
  <2>1. conn' = conn /\ Fewer("doClose")
    BY <1>6, LastingStep, FewerStep
  <2>2. closing' => closing
    BY <1>6 DEF Next, IoStep, OnConnect, Greet, ReadHandler, WriteHandler, More, InternalWrite, Push, ShutdownServer,
           Release, Fault, Crash, WriterStep, WriteTest, WritePost, WriteRelease, WriteFault, Connect, Lose, IoEnds,
           ReadEnds, WriteEnds, AskShutdown, vars
  <2>3. Label' \in {"postClose", "doClose"} => Label' = Label
    <3>1. ASSUME NEW t \in IoThread, IoStep(t) PROVE Label' \notin {"postClose", "doClose"}
      <4>1. \E to \in {"idle", "greet", "release", "close", "more", "push", "pushFirst"} : Goto(t, to)
        BY <1>6, <3>1 DEF IoStep, OnConnect, Greet, ReadHandler, WriteHandler, More, InternalWrite, Push, ShutdownServer,
           Release, Fault, Crash
      <4>2. QED
        BY <4>1, OneLabel
    <3>2. ASSUME ~ (\E t \in IoThread : IoStep(t)) PROVE Label' = Label
      BY <3>2, OtherMoves DEF Next, vars, Label
    <3>3. QED
      BY <3>1, <3>2
  <2>4. QED
    BY <1>0, <2>1, <2>2, <2>3, ClosesQuiet
<1>7. QED
  BY <1>1, <1>2, <1>3, <1>4, <1>5, <1>6

-----------------------------------------------------------------------------
(* The queue and the write under way.                                      *)

\* Which steps change the queue or what is under way.
LEMMA QueueStep ==
  ASSUME HandlerTypes, IoThread = {Io}, [Next]_vars
  PROVE  \/ queue' = queue /\ writing' = writing
         \/ \E t \in IoThread : WriteHandler(t) \/ More(t) \/ Push(t)
         \/ \E i \in DOMAIN writing : WriteEnds(i)
BY DEF Next, IoStep, Dispatch, OnConnect, Greet, ReadHandler, InternalWrite, CloseTest, PostClose, CloseSocket,
       ShutdownServer, Release, Fault, Crash, WriterStep, WriteTest, WritePost, WriteRelease, WriteFault, Connect, Lose,
       IoEnds, ReadEnds, AskShutdown, vars, net

LEMMA WriteQuiet ==
  ASSUME HandlerTypes, HandlerTypes', OneWrite, queue' = queue, writing' = writing, Fewer("write"),
         Label' \in {"write", "more", "push", "pushFirst"} => Label' = Label
  PROVE  OneWrite'
<1>1. Ready("write") = {} => Ready("write")' = {}
  BY FewerMeans
<1>2. (\A i, j \in Ready("write") : i = j) => \A i, j \in Ready("write")' : i = j
  BY FewerMeans
<1>3. QED
  BY <1>1, <1>2 DEF OneWrite

LEMMA OneWriteStep ==
  ASSUME HandlerTypes, HandlerTypes', IoThread = {Io}, OneWrite, [Next]_vars
  PROVE  OneWrite'
<1>t. /\ queue \in Seq(Message) /\ writing \in Seq([conn : Conn, message : Message])
      /\ queue' \in Seq(Message) /\ writing' \in Seq([conn : Conn, message : Message])
  BY DEF HandlerTypes, Typed, TypeOK
<1>w. Len(writing) \in {0, 1} /\ DOMAIN writing = 1..Len(writing) /\ (writing = <<>> <=> Len(writing) = 0)
  <2>1. Len(writing) <= 1
    BY DEF OneWrite
  <2>2. Len(writing) \in Nat /\ DOMAIN writing = 1..Len(writing) /\ (writing = <<>> <=> Len(writing) = 0)
    <3>1. writing \in Seq([conn : Conn, message : Message])
      BY <1>t
    <3>2. QED
      BY <3>1, EmptySeq
  <2>3. QED
    BY <2>1, <2>2
<1>1. ASSUME NEW t \in IoThread, Dispatch(t) PROVE OneWrite'
  <2>1. /\ Label = "idle" /\ Label' = ready[1].op /\ Job' = ready[1] /\ 1 \in DOMAIN ready /\ 1 \in Ready(ready[1].op)
        /\ \A i \in Ready("write")' : i + 1 \in Ready("write") /\ i + 1 > 1
        /\ UNCHANGED <<queue, writing>>
    BY <1>1, DispatchMoves DEF net
  <2>2. ready[1].op \notin {"more", "push", "pushFirst"}
    BY <2>1, ReadyKinds
  <2>3. CASE ready[1].op = "write"
    <3>1. Ready("write")' = {}
      BY <2>1, <2>3 DEF OneWrite
    <3>2. writing = <<>> /\ queue # <<>>
      BY <2>1, <2>3 DEF OneWrite
    <3>3. QED
      BY <2>1, <2>3, <3>1, <3>2 DEF OneWrite
  <2>4. CASE ready[1].op # "write"
    BY <1>1, <2>1, <2>2, <2>4, WriteQuiet, DispatchMoves
  <2>5. QED
    BY <2>3, <2>4
<1>2. ASSUME NEW t \in IoThread, InternalWrite(t) PROVE OneWrite'
  <2>1. /\ ready' = ready /\ UNCHANGED <<queue, writing>>
        /\ Goto(t, IF queue = <<>> THEN "pushFirst" ELSE "push")
    BY <1>2 DEF InternalWrite, net
  <2>2. Label' = IF queue = <<>> THEN "pushFirst" ELSE "push"
    BY <2>1, OneLabel
  <2>3. Ready("write")' = Ready("write")
    BY <2>1 DEF Ready
  <2>4. QED
    BY <2>1, <2>2, <2>3 DEF OneWrite
<1>3. ASSUME NEW t \in IoThread, WriteHandler(t) PROVE OneWrite'
  <2>1. /\ Label = "write" /\ ready' = ready /\ writing' = writing
        /\ (Goto(t, "close") /\ queue' = queue) \/ (queue' = Tail(queue) /\ Goto(t, "more"))
    BY <1>3 DEF WriteHandler, Label, net
  <2>2. Label' \in {"close", "more"}
    BY <2>1, OneLabel
  <2>3. writing = <<>> /\ Ready("write") = {}
    BY <2>1 DEF OneWrite
  <2>4. Ready("write")' = {} /\ Len(writing') = 0 /\ DOMAIN writing' = {}
    BY <1>w, <2>1, <2>3 DEF Ready
  <2>5. QED
    BY <2>1, <2>2, <2>3, <2>4 DEF OneWrite
<1>4. ASSUME NEW t \in IoThread, More(t) PROVE OneWrite'
  <2>1. Label = "more" /\ ready' = ready /\ queue' = queue /\ writing = <<>> /\ Ready("write") = {}
    BY <1>4 DEF More, Label, OneWrite
  <2>2. \/ queue = <<>> /\ Goto(t, "idle") /\ writing' = writing
        \/ queue # <<>> /\ Goto(t, "release") /\ writing' = Append(writing, [conn |-> conn, message |-> Head(queue)])
    BY <1>4 DEF More
  <2>3. Label' \in {"idle", "release"} /\ Ready("write")' = {}
    BY <2>1, <2>2, OneLabel DEF Ready
  <2>4. CASE queue = <<>>
    BY <1>w, <2>1, <2>2, <2>3, <2>4 DEF OneWrite
  <2>5. CASE queue # <<>>
    <3>1. PICK e : e = [conn |-> conn, message |-> Head(queue)]
      OBVIOUS
    <3>2. writing' = <<e>> /\ e.message = queue[1]
      BY <1>t, <2>1, <2>2, <2>5, <3>1
    <3>3. DOMAIN writing' = {1} /\ Len(writing') = 1 /\ writing'[1] = e
      BY <3>2
    <3>4. QED
      BY <2>1, <2>3, <2>5, <3>2, <3>3 DEF OneWrite
  <2>6. QED
    BY <2>4, <2>5
<1>5. ASSUME NEW t \in IoThread, Push(t) PROVE OneWrite'
  <2>1. /\ t = Io /\ Label \in {"push", "pushFirst"} /\ ready' = ready /\ queue' = Append(queue, Job.message)
        /\ Label = "push" => writing' = writing
        /\ Label = "pushFirst" => writing' = Append(writing, [conn |-> conn, message |-> Job.message])
        /\ Goto(t, "idle") \/ Goto(t, "release")
    BY <1>5 DEF Push, Label, Job
  <2>2. Label' \in {"idle", "release"} /\ Ready("write")' = Ready("write")
    BY <2>1, OneLabel DEF Ready
  <2>3. Job.message \in Message
    BY <2>1, JobKinds DEF Posting
  <2>4. queue' # <<>> /\ (queue # <<>> => queue'[1] = queue[1]) /\ (queue = <<>> => queue'[1] = Job.message)
    BY <1>t, <2>1, <2>3
  <2>5. CASE Label = "push"
    <3>1. queue # <<>> /\ writing' = writing
      BY <2>1, <2>5 DEF OneWrite
    <3>2. QED
      BY <2>2, <2>4, <3>1 DEF OneWrite
  <2>6. CASE Label = "pushFirst"
    <3>1. queue = <<>> /\ writing = <<>> /\ Ready("write") = {}
      BY <2>6 DEF OneWrite
    <3>2. PICK e : e = [conn |-> conn, message |-> Job.message]
      OBVIOUS
    <3>3. writing' = <<e>> /\ e.message = Job.message
      BY <2>1, <2>6, <3>1, <3>2
    <3>4. DOMAIN writing' = {1} /\ Len(writing') = 1 /\ writing'[1] = e
      BY <3>3
    <3>5. QED
      BY <2>2, <2>4, <3>1, <3>3, <3>4 DEF OneWrite
  <2>7. QED
    BY <2>1, <2>5, <2>6
<1>6. ASSUME NEW i \in DOMAIN writing, WriteEnds(i) PROVE OneWrite'
  <2>1. writing' = RemoveAt(writing, i) /\ UNCHANGED <<queue, Label>>
    BY <1>6, OtherMoves DEF WriteEnds, IoEnds
  <2>2. writing # <<>> /\ Len(writing) = 1
    BY <1>w
  <2>3. Ready("write") = {} /\ Label \notin {"write", "more"} /\ queue # <<>>
    BY <2>2 DEF OneWrite
  <2>4. DOMAIN writing' = {}
    BY <1>t, <2>1, <2>2, RemoveShifts
  <2>5. Len(writing') = 0 /\ writing' = <<>>
    BY <1>t, <2>4
  <2>6. PICK r \in {"ok", "error"} : ready' = Append(ready, Write(r))
    BY <1>6 DEF WriteEnds
  <2>7. Ready("write")' = {Len(ready) + 1}
    BY <2>3, <2>6, FewerPushed, TaskKinds, TaskFields
  <2>8. QED
    BY <2>1, <2>3, <2>4, <2>5, <2>7 DEF OneWrite
<1>7. CASE /\ \A t \in IoThread : ~ Dispatch(t) /\ ~ InternalWrite(t) /\ ~ WriteHandler(t) /\ ~ More(t) /\ ~ Push(t)
           /\ \A i \in DOMAIN writing : ~ WriteEnds(i)
  <2>1. queue' = queue /\ writing' = writing /\ Fewer("write")
    BY <1>7, QueueStep, FewerStep
  <2>2. Label' \in {"write", "more", "push", "pushFirst"} => Label' = Label
    <3>1. ASSUME NEW t \in IoThread, IoStep(t) PROVE Label' \notin {"write", "more", "push", "pushFirst"}
      <4>1. \E to \in {"idle", "greet", "release", "close", "postClose"} : Goto(t, to)
        BY <1>7, <3>1 DEF IoStep, OnConnect, Greet, ReadHandler, CloseTest, PostClose, CloseSocket, ShutdownServer,
           Release, Fault, Crash
      <4>2. QED
        BY <4>1, OneLabel
    <3>2. ASSUME ~ (\E t \in IoThread : IoStep(t)) PROVE Label' = Label
      BY <3>2, OtherMoves DEF Next, vars, Label
    <3>3. QED
      BY <3>1, <3>2
  <2>3. QED
    BY <2>1, <2>2, WriteQuiet
<1>8. QED
  BY <1>1, <1>2, <1>3, <1>4, <1>5, <1>6, <1>7

\* What was queued or is under way is followed by the next, unless a write failed.
LEMMA GoesOnStep ==
  ASSUME HandlerTypes, HandlerTypes', IoThread = {Io}, Accepting, ClosesFirst, OneWrite, OneWrite', GoesOn, [Next]_vars
  PROVE  GoesOn'
<1>t. queue \in Seq(Message) /\ writing \in Seq([conn : Conn, message : Message])
  BY DEF HandlerTypes, Typed, TypeOK
<1>0. (closing => closing') /\ (crashed => crashed')
  <2>1. closing => closing'
    BY LastingStep DEF Lasting
  <2>2. crashed => crashed'
    BY DEF Next, vars
  <2>3. QED
    BY <2>1, <2>2
<1> SUFFICES ASSUME queue' # <<>>, ~ closing', ~ crashed'
             PROVE  WriteFailed' \/ writing' # <<>> \/ Done' \/ Label' = "more"
  BY DEF GoesOn
<1>1. ASSUME queue' = queue
      PROVE  WriteFailed \/ writing # <<>> \/ Done \/ Label = "more"
  BY <1>0, <1>1 DEF GoesOn
<1>2. ASSUME NEW t \in IoThread, Dispatch(t) PROVE WriteFailed' \/ writing' # <<>> \/ Done' \/ Label' = "more"
  <2>1. /\ Label = "idle" /\ Label' = ready[1].op /\ Job' = ready[1] /\ UNCHANGED <<queue, writing>>
        /\ \A i \in DOMAIN ready : i = 1 \/ (i - 1 \in DOMAIN ready' /\ ready'[i - 1] = ready[i])
    BY <1>2, DispatchMoves DEF net
  <2>2. Write("ok").op = "write" /\ Write("error").op = "write"
    BY TaskFields
  <2>3. Done => Done'
    BY <2>1, <2>2 DEF Done
  <2>4. WriteFailed => WriteFailed'
    BY <2>1, <2>2 DEF WriteFailed
  <2>5. QED
    BY <1>1, <2>1, <2>3, <2>4
<1>3. ASSUME \A i \in DOMAIN ready : i \in DOMAIN ready' /\ ready'[i] = ready[i], Job' = Job,
             Label' = Label \/ Label \notin {"write", "close", "postClose", "more"}, queue' = queue, writing' = writing
      PROVE  WriteFailed' \/ writing' # <<>> \/ Done' \/ Label' = "more"
  BY <1>1, <1>3 DEF Done, WriteFailed
<1>r. ASSUME ready' = ready \/ \E h \in Task : ready' = Append(ready, h)
      PROVE  \A i \in DOMAIN ready : i \in DOMAIN ready' /\ ready'[i] = ready[i]
  BY <1>r, FewerPushed
<1>4. ASSUME NEW t \in IoThread, WriteHandler(t) PROVE WriteFailed' \/ Label' = "more"
  <2>1. Label = "write" /\ Job' = Job /\ ((Goto(t, "close") /\ Job.result = "error") \/ Goto(t, "more"))
    BY <1>4 DEF WriteHandler, Label, Job
  <2>2. (Label' = "close" /\ Job.result = "error") \/ Label' = "more"
    BY <2>1, OneLabel
  <2>3. Job = Write(Job.result)
    BY <2>1, JobKinds
  <2>4. QED
    BY <2>1, <2>2, <2>3 DEF WriteFailed
<1>5. ASSUME NEW t \in IoThread, More(t) PROVE writing' # <<>>
  <2>1. PICK e : writing' = Append(writing, e)
    BY <1>5 DEF More
  <2>2. QED
    BY <1>t, <2>1
<1>6. ASSUME NEW t \in IoThread, Push(t) PROVE WriteFailed' \/ writing' # <<>> \/ Done' \/ Label' = "more"
  <2>1. Label \in {"push", "pushFirst"} /\ Job' = Job /\ ready' = ready
        /\ (Label = "push" => writing' = writing) /\ (Label = "pushFirst" => \E e : writing' = Append(writing, e))
    BY <1>6 DEF Push, Label, Job
  <2>2. CASE Label = "pushFirst"
    BY <1>t, <2>1, <2>2
  <2>3. CASE Label = "push"
    <3>1. queue # <<>>
      BY <2>3 DEF OneWrite
    <3>2. WriteFailed \/ writing # <<>> \/ Done
      BY <1>0, <2>3, <3>1 DEF GoesOn
    <3>3. QED
      BY <2>1, <2>3, <3>2 DEF Done, WriteFailed
  <2>4. QED
    BY <2>1, <2>2, <2>3
<1>7. ASSUME NEW t \in IoThread, CloseTest(t) PROVE WriteFailed' \/ writing' # <<>> \/ Done' \/ Label' = "more"
  <2>1. /\ t = Io /\ Label = "close" /\ Job' = Job /\ ready' = ready /\ UNCHANGED <<queue, writing, closing>>
        /\ Goto(t, IF closing \/ conn = NoConn THEN "idle" ELSE "postClose")
    BY <1>7 DEF CloseTest, Label, Job, net
  <2>2. Label' = IF closing \/ conn = NoConn THEN "idle" ELSE "postClose"
    BY <2>1, OneLabel
  <2>3. ASSUME Job = Write("error") PROVE Label' = "postClose"
    BY <2>1, <2>2, <2>3, TaskFields DEF ClosesFirst
  <2>4. QED
    BY <1>1, <2>1, <2>2, <2>3 DEF WriteFailed, Done
<1>8. ASSUME NEW i \in DOMAIN writing, WriteEnds(i) PROVE WriteFailed' \/ Done'
  <2>1. PICK r \in {"ok", "error"} : ready' = Append(ready, Write(r))
    BY <1>8 DEF WriteEnds
  <2>2. ready'[Len(ready) + 1] = Write(r) /\ Len(ready) + 1 \in DOMAIN ready'
    <3>1. Write(r) \in Task
      BY TaskKinds
    <3>2. QED
      BY <2>1, <3>1 DEF HandlerTypes, Typed, TypeOK
  <2>3. QED
    BY <2>1, <2>2 DEF WriteFailed, Done
<1>9. ASSUME NEW t \in IoThread,
             OnConnect(t) \/ Greet(t) \/ ReadHandler(t) \/ InternalWrite(t) \/ CloseSocket(t) \/ ShutdownServer(t) \/ Release(t)
      PROVE  WriteFailed' \/ writing' # <<>> \/ Done' \/ Label' = "more"
  <2>1. Job' = Job /\ t = Io
    BY <1>9, StepMoves DEF IoStep, Dispatch, OnConnect, Greet, ReadHandler, InternalWrite, CloseSocket, ShutdownServer, Release
  <2>2. Label \notin {"write", "close", "postClose", "more"} /\ queue' = queue /\ writing' = writing
    BY <1>9 DEF OnConnect, Greet, ReadHandler, InternalWrite, CloseSocket, ShutdownServer, Release, Label, net
  <2>3. \A i \in DOMAIN ready : i \in DOMAIN ready' /\ ready'[i] = ready[i]
    <3>1. CASE Greet(t)
      <4>1. Label = "greet" /\ Job = job[t]
        BY <2>1, <3>1 DEF Greet, Label, Job
      <4>2. PICK m \in Message : m = [from |-> Greeter, n |-> job[t].conn]
        BY <4>1, JobKinds DEF Message
      <4>3. Post(m) \in Task /\ ready' = Append(ready, Post(m))
        BY <3>1, <4>2, TaskKinds DEF Greet
      <4>4. QED
        BY <1>r, <4>3
    <3>2. CASE ~ Greet(t)
      <4>1. ready' = ready
        BY <1>9, <3>2 DEF OnConnect, ReadHandler, InternalWrite, CloseSocket, ShutdownServer, Release
      <4>2. QED
        BY <4>1
    <3>3. QED
      BY <3>1, <3>2
  <2>4. QED
    BY <1>3, <2>1, <2>2, <2>3
<1>10. ASSUME NEW t \in IoThread, PostClose(t) \/ Fault(t) PROVE FALSE
  BY <1>10 DEF PostClose, Fault, Crash
<1>11. ASSUME (\E w \in Writer : WriterStep(w)) \/ (\E c \in Conn : Connect(c) \/ Lose(c) \/ ReadEnds(c)) \/ AskShutdown
       PROVE  WriteFailed' \/ writing' # <<>> \/ Done' \/ Label' = "more"
  <2>1. UNCHANGED <<Label, Job, queue>>
    BY <1>11, OtherMoves DEF IoEnds
  <2>2. writing' = writing
    BY <1>11 DEF WriterStep, WriteTest, WritePost, WriteRelease, WriteFault, Connect, Lose, ReadEnds, AskShutdown, net
  <2>3. \A i \in DOMAIN ready : i \in DOMAIN ready' /\ ready'[i] = ready[i]
    <3>1. ASSUME NEW w \in Writer, WritePost(w) PROVE \E h \in Task : ready' = Append(ready, h)
      <4>1. sent[w] \in 1..MaxMessages
        BY <3>1, VideoAssumption DEF WritePost, HandlerTypes, Typed, TypeOK
      <4>2. PICK m \in Message : m = [from |-> w, n |-> sent[w]]
        BY <4>1 DEF Message
      <4>3. QED
        BY <3>1, <4>2, TaskKinds DEF WritePost
    <3>2. ASSUME NEW c \in Conn, ReadEnds(c) PROVE \E h \in Task : ready' = Append(ready, h)
      <4>1. PICK r \in Results[sock[c]] : ready' = Append(ready, Read(c, r))
        BY <3>2 DEF ReadEnds
      <4>2. sock[c] \in {"open", "lost", "closed"}
        BY <3>2 DEF ReadEnds, HandlerTypes, Typed, TypeOK, Opened
      <4>3. r \in {"ok", "eof", "aborted", "other"}
        BY <4>1, <4>2 DEF Results
      <4>4. QED
        BY <4>1, <4>3, TaskKinds
    <3>3. ready' = ready \/ \E h \in Task : ready' = Append(ready, h)
      BY <1>11, <3>1, <3>2, TaskKinds DEF WriterStep, WriteTest, WriteRelease, WriteFault, Connect, Lose, AskShutdown
    <3>4. QED
      BY <1>r, <3>3
  <2>4. QED
    BY <1>3, <2>1, <2>2, <2>3
<1>12. ASSUME UNCHANGED vars PROVE WriteFailed' \/ writing' # <<>> \/ Done' \/ Label' = "more"
  BY <1>3, <1>12 DEF vars, Label, Job
<1>13. QED
  BY <1>2, <1>4, <1>5, <1>6, <1>7, <1>8, <1>9, <1>10, <1>11, <1>12 DEF Next, IoStep, IoEnds

-----------------------------------------------------------------------------
(* The order of the messages.                                              *)

\* The order is not disturbed when nothing is put behind anything.
LEMMA OrderedQuiet ==
  ASSUME HandlerTypes, HandlerTypes', Ordered, queue' = queue, wire' = wire, Fewer("post"), InHand' \subseteq InHand,
         Done => Done' \/ queue = <<>>
  PROVE  Ordered'
<1>1. Queued' = Queued /\ \A c \in Conn : Got(c)' = Got(c)
  BY DEF Queued, Got
<1>2. Posted' \subseteq Posted
  BY FewerMeans DEF Posted
<1>3. \A i, j \in Ready("post")' : i < j => Before(ready'[i].message, ready'[j].message)
  <2> SUFFICES ASSUME NEW i \in Ready("post")', NEW j \in Ready("post")', i < j
               PROVE  Before(ready'[i].message, ready'[j].message)
    OBVIOUS
  <2>1. PICK k, l \in Ready("post") : k < l /\ ready'[i] = ready[k] /\ ready'[j] = ready[l]
    BY FewerMeans
  <2>2. QED
    BY <2>1 DEF Ordered
<1>4. \A c \in Conn : \A m \in Got(c)' : \A j \in DOMAIN queue' :
        Before(m, queue'[j]) \/ (j = 1 /\ m = queue'[j] /\ Done')
  <2>1. queue = <<>> => DOMAIN queue = {}
    OBVIOUS
  <2>2. QED
    BY <1>1, <2>1 DEF Ordered
<1>5. \A m \in Queued' \cup InHand' \cup UNION {Got(c)' : c \in Conn} : \A n \in Posted' : Before(m, n)
  <2>1. Queued' \cup InHand' \cup UNION {Got(c)' : c \in Conn} \subseteq Queued \cup InHand \cup UNION {Got(c) : c \in Conn}
    BY <1>1
  <2>2. QED
    BY <1>2, <2>1 DEF Ordered
<1>6. \A m \in Queued' \cup UNION {Got(c)' : c \in Conn} : \A n \in InHand' : Before(m, n)
  <2>1. Queued' \cup UNION {Got(c)' : c \in Conn} \subseteq Queued \cup UNION {Got(c) : c \in Conn}
    BY <1>1
  <2>2. QED
    BY <2>1 DEF Ordered
<1>7. QED
  BY <1>3, <1>4, <1>5, <1>6 DEF Ordered, Before

LEMMA OrderedDispatch ==
  ASSUME HandlerTypes, HandlerTypes', IoThread = {Io}, Ordered, NEW t \in IoThread, Dispatch(t)
  PROVE  Ordered'
<1>1. /\ Label = "idle" /\ Label' = ready[1].op /\ Job' = ready[1] /\ 1 \in DOMAIN ready /\ 1 \in Ready(ready[1].op)
      /\ \A i \in Ready("post")' : i + 1 \in Ready("post") /\ ready'[i] = ready[i + 1] /\ i + 1 > 1
      /\ UNCHANGED <<queue, wire>>
  BY DispatchMoves DEF net
<1>2. /\ \A i \in DOMAIN ready : i = 1 \/ (i - 1 \in DOMAIN ready' /\ ready'[i - 1] = ready[i])
      /\ Fewer("post")
  BY DispatchMoves
<1>3. Done => Done'
  BY <1>1, <1>2, TaskFields DEF Done
<1>4. InHand = {}
  BY <1>1 DEF InHand, Posting
<1>5. ready[1].op \notin {"push", "pushFirst"}
  BY <1>1, ReadyKinds
<1>6. CASE ready[1].op # "post"
  <2>1. InHand' \subseteq InHand
    BY <1>1, <1>5, <1>6 DEF InHand, Posting
  <2>2. QED
    BY <1>1, <1>2, <1>3, <2>1, OrderedQuiet
<1>7. CASE ready[1].op = "post"
  <2>1. InHand' = {ready[1].message} /\ ready[1].message \in Posted
    BY <1>1, <1>7 DEF InHand, Posting, Posted
  <2>2. Queued' = Queued /\ (\A c \in Conn : Got(c)' = Got(c)) /\ Posted' \subseteq Posted
    BY <1>1, <1>2, FewerMeans DEF Queued, Got, Posted
  <2>3. \A n \in Posted' : Before(ready[1].message, n)
    BY <1>1, <1>7 DEF Ordered, Posted
  <2>4. \A i, j \in Ready("post")' : i < j => Before(ready'[i].message, ready'[j].message)
    <3> SUFFICES ASSUME NEW i \in Ready("post")', NEW j \in Ready("post")', i < j
                 PROVE  Before(ready'[i].message, ready'[j].message)
      OBVIOUS
    <3>1. PICK k, l \in Ready("post") : k < l /\ ready'[i] = ready[k] /\ ready'[j] = ready[l]
      BY <1>2, FewerMeans
    <3>2. QED
      BY <3>1 DEF Ordered
  <2>5. \A c \in Conn : \A m \in Got(c)' : \A j \in DOMAIN queue' :
          Before(m, queue'[j]) \/ (j = 1 /\ m = queue'[j] /\ Done')
    BY <1>1, <1>3, <2>2 DEF Ordered
  <2>6. Queued' \cup UNION {Got(c)' : c \in Conn} \subseteq Queued \cup UNION {Got(c) : c \in Conn}
    BY <2>2
  <2>7. \A m \in Queued' \cup UNION {Got(c)' : c \in Conn} : \A n \in Posted : Before(m, n)
    BY <2>6 DEF Ordered
  <2>8. \A m \in Queued' \cup InHand' \cup UNION {Got(c)' : c \in Conn} : \A n \in Posted' : Before(m, n)
    BY <2>1, <2>2, <2>3, <2>7
  <2>9. \A m \in Queued' \cup UNION {Got(c)' : c \in Conn} : \A n \in InHand' : Before(m, n)
    BY <2>1, <2>7
  <2>10. \A i, j \in DOMAIN queue' : i < j => Before(queue'[i], queue'[j])
    BY <1>1 DEF Ordered
  <2>11. \A c \in Conn : \A i, j \in DOMAIN wire'[c] : i < j => Before(wire'[c][i], wire'[c][j])
    BY <1>1 DEF Ordered
  <2>12. QED
    BY <2>4, <2>5, <2>8, <2>9, <2>10, <2>11 DEF Ordered, Before
<1>8. QED
  BY <1>6, <1>7

\* A message that is behind all others is posted.
LEMMA OrderedPosts ==
  ASSUME HandlerTypes, HandlerTypes', Ordered, NEW m \in Message, ready' = Append(ready, Post(m)),
         UNCHANGED <<queue, wire>>, InHand' \subseteq InHand, \A n \in Made : Before(n, m), Done => Done'
  PROVE  Ordered'
<1>1. Post(m) \in Task /\ Post(m).op = "post" /\ Post(m).message = m
  BY TaskKinds, TaskFields
<1>2. /\ Ready("post")' = Ready("post") \cup {Len(ready) + 1} /\ ready'[Len(ready) + 1] = Post(m)
      /\ \A i \in DOMAIN ready : ready'[i] = ready[i] /\ i < Len(ready) + 1
  BY <1>1, FewerPushed
<1>3. Queued' = Queued /\ \A c \in Conn : Got(c)' = Got(c)
  BY DEF Queued, Got
<1>4. Posted' \subseteq Posted \cup {m}
  BY <1>1, <1>2 DEF Posted, Ready
<1>5. \A i, j \in Ready("post")' : i < j => Before(ready'[i].message, ready'[j].message)
  <2> SUFFICES ASSUME NEW i \in Ready("post")', NEW j \in Ready("post")', i < j
               PROVE  Before(ready'[i].message, ready'[j].message)
    OBVIOUS
  <2>0. \A k \in Ready("post") : k \in DOMAIN ready /\ k \in Int
    BY DEF Ready, HandlerTypes, Typed, TypeOK
  <2>l. Len(ready) + 1 \in Int
    BY DEF HandlerTypes, Typed, TypeOK
  <2>1. i \in Ready("post")
    BY <1>2, <2>0, <2>l
  <2>2. ready'[i] = ready[i] /\ ready[i].message \in Posted
    BY <1>2, <2>0, <2>1 DEF Posted
  <2>3. CASE j \in Ready("post")
    BY <1>2, <2>0, <2>1, <2>2, <2>3 DEF Ordered
  <2>4. CASE j = Len(ready) + 1
    BY <1>1, <1>2, <2>2, <2>4 DEF Made
  <2>5. QED
    BY <1>2, <2>3, <2>4
<1>6. Queued' \cup InHand' \cup UNION {Got(c)' : c \in Conn} \subseteq Queued \cup InHand \cup UNION {Got(c) : c \in Conn}
  BY <1>3
<1>7. \A k \in Queued' \cup InHand' \cup UNION {Got(c)' : c \in Conn} : \A n \in Posted' : Before(k, n)
  <2>1. \A k \in Queued \cup InHand \cup UNION {Got(c) : c \in Conn} : k \in Made
    BY DEF Made
  <2>2. QED
    BY <1>4, <1>6, <2>1 DEF Ordered
<1>8. \A k \in Queued' \cup UNION {Got(c)' : c \in Conn} : \A n \in InHand' : Before(k, n)
  <2>1. Queued' \cup UNION {Got(c)' : c \in Conn} \subseteq Queued \cup UNION {Got(c) : c \in Conn}
    BY <1>3
  <2>2. QED
    BY <2>1 DEF Ordered
<1>9. \A c \in Conn : \A k \in Got(c)' : \A j \in DOMAIN queue' :
        Before(k, queue'[j]) \/ (j = 1 /\ k = queue'[j] /\ Done')
  BY <1>3 DEF Ordered
<1>10. \A i, j \in DOMAIN queue' : i < j => Before(queue'[i], queue'[j])
  BY DEF Ordered
<1>11. \A c \in Conn : \A i, j \in DOMAIN wire'[c] : i < j => Before(wire'[c][i], wire'[c][j])
  BY DEF Ordered
<1>12. QED
  BY <1>5, <1>7, <1>8, <1>9, <1>10, <1>11 DEF Ordered, Before

\* The front of the queue has been written.
LEMMA OrderedWrites ==
  ASSUME HandlerTypes, HandlerTypes', IoThread = {Io}, Ordered, NEW t \in IoThread, WriteHandler(t)
  PROVE  Ordered'
<1>1. /\ Label = "write" /\ Job' = Job /\ ready' = ready /\ wire' = wire
      /\ \/ queue' = queue /\ Goto(t, "close") /\ Job.result = "error"
         \/ queue # <<>> /\ queue' = Tail(queue) /\ Goto(t, "more")
  BY DEF WriteHandler, Label, Job, net
<1>2. Label' \in {"close", "more"}
  BY <1>1, OneLabel
<1>3. InHand = {} /\ InHand' = {}
  BY <1>1, <1>2 DEF InHand, Posting
<1>4. CASE queue' = queue /\ Job.result = "error"
  <2>1. Done => Done'
    BY <1>1, <1>4, TaskFields DEF Done
  <2>2. QED
    BY <1>1, <1>3, <1>4, <2>1, FewerSame, OrderedQuiet
<1>5. CASE queue # <<>> /\ queue' = Tail(queue)
  <2>1. /\ DOMAIN queue = 1..Len(queue) /\ DOMAIN queue' = 1..(Len(queue) - 1) /\ Len(queue) \in Nat \ {0}
        /\ \A i \in 1..(Len(queue) - 1) : queue'[i] = queue[i + 1] /\ i + 1 \in 1..Len(queue)
    BY <1>5, TailAt DEF HandlerTypes, Typed, TypeOK
  <2>2. Queued' \subseteq Queued
    BY <2>1 DEF Queued
  <2>3. Posted' = Posted /\ \A c \in Conn : Got(c)' = Got(c)
    BY <1>1 DEF Posted, Ready, Got
  <2>4. \A i, j \in Ready("post")' : i < j => Before(ready'[i].message, ready'[j].message)
    BY <1>1 DEF Ordered, Ready
  <2>5. ASSUME NEW c \in Conn, NEW m \in Got(c)', NEW j \in DOMAIN queue' PROVE Before(m, queue'[j])
    <3>1. queue'[j] = queue[j + 1] /\ j + 1 \in DOMAIN queue /\ j + 1 # 1 /\ m \in Got(c)
      BY <2>1, <2>3
    <3>2. QED
      BY <3>1 DEF Ordered
  <2>6. ASSUME NEW i \in DOMAIN queue', NEW j \in DOMAIN queue', i < j PROVE Before(queue'[i], queue'[j])
    <3>1. queue'[i] = queue[i + 1] /\ queue'[j] = queue[j + 1] /\ i + 1 \in DOMAIN queue /\ j + 1 \in DOMAIN queue /\ i + 1 < j + 1
      BY <2>1, <2>6
    <3>2. QED
      BY <3>1 DEF Ordered
  <2>7. \A c \in Conn : \A i, j \in DOMAIN wire'[c] : i < j => Before(wire'[c][i], wire'[c][j])
    BY <1>1 DEF Ordered
  <2>8. \A m \in Queued' \cup InHand' \cup UNION {Got(c)' : c \in Conn} : \A n \in Posted' : Before(m, n)
    <3>1. Queued' \cup InHand' \cup UNION {Got(c)' : c \in Conn} \subseteq Queued \cup InHand \cup UNION {Got(c) : c \in Conn}
      BY <1>3, <2>2, <2>3
    <3>2. QED
      BY <2>3, <3>1 DEF Ordered
  <2>9. QED
    BY <1>3, <2>4, <2>5, <2>6, <2>7, <2>8 DEF Ordered, Before
<1>6. QED
  BY <1>1, <1>4, <1>5

\* The message in hand is queued.
LEMMA OrderedPush ==
  ASSUME HandlerTypes, HandlerTypes', IoThread = {Io}, Ordered, NEW t \in IoThread, Push(t)
  PROVE  Ordered'
<1>1. /\ t = Io /\ Label \in {"push", "pushFirst"} /\ ready' = ready /\ wire' = wire /\ Job' = Job
      /\ queue' = Append(queue, Job.message) /\ (Goto(t, "idle") \/ Goto(t, "release"))
  BY DEF Push, Label, Job, HandlerTypes, Typed, TypeOK
<1>2. Label' \in {"idle", "release"}
  BY <1>1, OneLabel
<1>3. PICK m \in Message : m = Job.message
  BY <1>1, JobKinds DEF Posting
<1>4. InHand = {m} /\ InHand' = {}
  BY <1>1, <1>2, <1>3 DEF InHand, Posting
<1>5. /\ DOMAIN queue = 1..Len(queue) /\ DOMAIN queue' = 1..(Len(queue) + 1) /\ Len(queue) \in Nat
      /\ \A i \in 1..Len(queue) : queue'[i] = queue[i]
      /\ queue'[Len(queue) + 1] = m
  <2>1. queue \in Seq(Message) /\ queue' = Append(queue, m)
    BY <1>1, <1>3 DEF HandlerTypes, Typed, TypeOK
  <2>2. QED
    BY <2>1, AppendAt
<1>6. \A i \in DOMAIN queue' : i \in Int /\ ((i \in DOMAIN queue /\ i < Len(queue) + 1 /\ queue'[i] = queue[i]) \/ i = Len(queue) + 1)
  BY <1>5
<1>7. Queued' \subseteq Queued \cup {m}
  BY <1>5, <1>6 DEF Queued
<1>8. Posted' = Posted /\ (\A c \in Conn : Got(c)' = Got(c)) /\ (Done => Done')
  BY <1>1, <1>2 DEF Posted, Ready, Got, Done
<1>9. \A i, j \in Ready("post")' : i < j => Before(ready'[i].message, ready'[j].message)
  BY <1>1 DEF Ordered, Ready
<1>10. \A k \in Queued \cup UNION {Got(c) : c \in Conn} : Before(k, m)
  BY <1>4 DEF Ordered
<1>11. ASSUME NEW i \in DOMAIN queue', NEW j \in DOMAIN queue', i < j PROVE Before(queue'[i], queue'[j])
  <2>1. i \in DOMAIN queue /\ queue'[i] = queue[i] /\ queue[i] \in Queued
    BY <1>5, <1>6, <1>11 DEF Queued
  <2>2. CASE j \in DOMAIN queue
    BY <1>5, <1>11, <2>1, <2>2 DEF Ordered
  <2>3. CASE j = Len(queue) + 1
    BY <1>5, <1>10, <2>1, <2>3
  <2>4. QED
    BY <1>6, <2>2, <2>3
<1>12. ASSUME NEW c \in Conn, NEW k \in Got(c)', NEW j \in DOMAIN queue'
       PROVE Before(k, queue'[j]) \/ (j = 1 /\ k = queue'[j] /\ Done')
  <2>1. k \in Got(c)
    BY <1>8
  <2>2. CASE j \in DOMAIN queue
    BY <1>5, <1>8, <2>1, <2>2 DEF Ordered
  <2>3. CASE j = Len(queue) + 1
    BY <1>5, <1>10, <2>1, <2>3
  <2>4. QED
    BY <1>6, <2>2, <2>3
<1>13. \A c \in Conn : \A i, j \in DOMAIN wire'[c] : i < j => Before(wire'[c][i], wire'[c][j])
  BY <1>1 DEF Ordered
<1>14. \A k \in Queued' \cup InHand' \cup UNION {Got(c)' : c \in Conn} : \A n \in Posted' : Before(k, n)
  <2>1. Queued' \cup InHand' \cup UNION {Got(c)' : c \in Conn} \subseteq Queued \cup InHand \cup UNION {Got(c) : c \in Conn}
    BY <1>4, <1>7, <1>8
  <2>2. QED
    BY <1>8, <2>1 DEF Ordered
<1>15. QED
  BY <1>4, <1>9, <1>11, <1>12, <1>13, <1>14 DEF Ordered, Before

\* A write ends: what it wrote is at the front of the queue.
LEMMA OrderedEnds ==
  ASSUME HandlerTypes, HandlerTypes', IoThread = {Io}, OneWrite, Ordered, NEW i \in DOMAIN writing, WriteEnds(i)
  PROVE  Ordered'
<1>0. queue \in Seq(Message) /\ writing \in Seq([conn : Conn, message : Message]) /\ wire \in [Conn -> Seq(Message)]
  BY DEF HandlerTypes, Typed, TypeOK
<1>1. UNCHANGED <<queue, Label, Job>>
  BY OtherMoves DEF IoEnds
<1>2. Posted' \subseteq Posted /\ InHand' = InHand /\ Fewer("post")
  BY <1>1, FewerBy, FewerMeans DEF Posted, InHand, Posting
<1>3. PICK m \in Message : m = writing[i].message /\ m = queue[1] /\ 1 \in DOMAIN queue
  <2>1. writing[i] \in [conn : Conn, message : Message]
    BY <1>0, ElementAt
  <2>2. writing[i].message = queue[1] /\ queue # <<>>
    BY <1>0 DEF OneWrite
  <2>3. 1 \in DOMAIN queue
    BY <1>0, <2>2
  <2>4. QED
    BY <2>1, <2>2, <2>3
<1>4. ~ Done
  <2>1. Ready("write") = {} /\ Label # "write"
    BY <1>0 DEF OneWrite
  <2>2. QED
    BY <2>1, TaskFields DEF Done, Ready
<1>5. Queued' = Queued /\ m \in Queued
  BY <1>1, <1>3 DEF Queued
<1>6. \A c \in Conn : \A k \in Got(c) : \A j \in DOMAIN queue : Before(k, queue[j])
  BY <1>4 DEF Ordered
<1>7. CASE wire' = wire
  BY <1>1, <1>2, <1>4, <1>7, OrderedQuiet
<1>8. ASSUME NEW e \in Conn, sock[e] = "open", e = writing[i].conn, wire' = [wire EXCEPT ![e] = Append(@, m)],
             ready' = Append(ready, Write("ok"))
      PROVE  Ordered'
  <2>1. Done'
    <3>1. ready'[Len(ready) + 1] = Write("ok") /\ Len(ready) + 1 \in DOMAIN ready'
      BY <1>8, FewerPushed, TaskKinds DEF Ready, HandlerTypes, Typed, TypeOK
    <3>2. QED
      BY <3>1 DEF Done
  <2>2. /\ wire'[e] = Append(wire[e], m) /\ \A c \in Conn : c # e => wire'[c] = wire[c]
        /\ DOMAIN wire[e] = 1..Len(wire[e]) /\ DOMAIN wire'[e] = 1..(Len(wire[e]) + 1) /\ Len(wire[e]) \in Nat
        /\ (\A k \in 1..Len(wire[e]) : wire'[e][k] = wire[e][k]) /\ wire'[e][Len(wire[e]) + 1] = m
    <3>1. wire'[e] = Append(wire[e], m) /\ (\A c \in Conn : c # e => wire'[c] = wire[c]) /\ wire[e] \in Seq(Message)
      BY <1>0, <1>8
    <3>2. QED
      BY <3>1, AppendAt
  <2>3. \A k \in DOMAIN wire'[e] : k \in Int /\ ((k \in DOMAIN wire[e] /\ wire'[e][k] = wire[e][k]) \/ k = Len(wire[e]) + 1)
    BY <2>2
  <2>4. Got(e)' \subseteq Got(e) \cup {m} /\ \A c \in Conn : c # e => Got(c)' = Got(c)
    BY <2>2, <2>3 DEF Got
  <2>5. ASSUME NEW c \in Conn, NEW k \in Got(c)', NEW j \in DOMAIN queue'
        PROVE  Before(k, queue'[j]) \/ (j = 1 /\ k = queue'[j] /\ Done')
    <3>1. CASE k \in Got(c)
      BY <1>1, <1>6, <3>1
    <3>2. CASE k = m
      <4>1. j = 1 \/ 1 < j
        BY <1>0, <1>1
      <4>2. QED
        BY <1>1, <1>3, <2>1, <3>2, <4>1 DEF Ordered
    <3>3. QED
      BY <2>4, <3>1, <3>2
  <2>6. ASSUME NEW c \in Conn, NEW k \in DOMAIN wire'[c], NEW l \in DOMAIN wire'[c], k < l
        PROVE  Before(wire'[c][k], wire'[c][l])
    <3>1. CASE c # e
      BY <2>2, <2>6, <3>1 DEF Ordered
    <3>2. CASE c = e
      <4>1. k \in DOMAIN wire[e] /\ wire'[e][k] = wire[e][k] /\ wire[e][k] \in Got(e)
        BY <2>2, <2>3, <2>6, <3>2 DEF Got
      <4>2. CASE l \in DOMAIN wire[e]
        BY <2>2, <2>6, <3>2, <4>1, <4>2 DEF Ordered
      <4>3. CASE l = Len(wire[e]) + 1
        BY <1>3, <1>6, <2>2, <3>2, <4>1, <4>3
      <4>4. QED
        BY <2>3, <3>2, <4>2, <4>3
    <3>3. QED
      BY <3>1, <3>2
  <2>7. Queued' \cup UNION {Got(c)' : c \in Conn} \subseteq Queued \cup UNION {Got(c) : c \in Conn}
    BY <1>5, <2>4
  <2>8. \A k \in Queued' \cup InHand' \cup UNION {Got(c)' : c \in Conn} : \A n \in Posted' : Before(k, n)
    BY <1>2, <2>7 DEF Ordered
  <2>9. \A k \in Queued' \cup UNION {Got(c)' : c \in Conn} : \A n \in InHand' : Before(k, n)
    BY <1>2, <2>7 DEF Ordered
  <2>10. \A k, l \in Ready("post")' : k < l => Before(ready'[k].message, ready'[l].message)
    <3> SUFFICES ASSUME NEW k \in Ready("post")', NEW l \in Ready("post")', k < l
                 PROVE  Before(ready'[k].message, ready'[l].message)
      OBVIOUS
    <3>1. PICK a, b \in Ready("post") : a < b /\ ready'[k] = ready[a] /\ ready'[l] = ready[b]
      BY <1>2, FewerMeans
    <3>2. QED
      BY <3>1 DEF Ordered
  <2>11. \A k, l \in DOMAIN queue' : k < l => Before(queue'[k], queue'[l])
    BY <1>1 DEF Ordered
  <2>12. QED
    BY <2>5, <2>6, <2>8, <2>9, <2>10, <2>11 DEF Ordered, Before
<1>9. writing[i].conn \in Conn
  <2>1. writing[i] \in [conn : Conn, message : Message]
    BY <1>0, ElementAt
  <2>2. QED
    BY <2>1
<1>10. PICK e \in Conn : e = writing[i].conn
  BY <1>9
<1>11. wire' = wire \/ (sock[e] = "open" /\ wire' = [wire EXCEPT ![e] = Append(@, m)] /\ ready' = Append(ready, Write("ok")))
  BY <1>3, <1>10 DEF WriteEnds
<1>12. QED
  BY <1>7, <1>8, <1>10, <1>11

LEMMA OrderedStep ==
  ASSUME HandlerTypes, HandlerTypes', IoThread = {Io}, Accepting, OneWrite, Numbered, Ordered, [Next]_vars
  PROVE  Ordered'
<1>m. Made \subseteq Message
  BY MadeTyped
<1>1. ASSUME NEW t \in IoThread, Dispatch(t) PROVE Ordered'
  BY <1>1, OrderedDispatch
<1>2. ASSUME NEW t \in IoThread, WriteHandler(t) PROVE Ordered'
  BY <1>2, OrderedWrites
<1>3. ASSUME NEW t \in IoThread, Push(t) PROVE Ordered'
  BY <1>3, OrderedPush
<1>4. ASSUME NEW i \in DOMAIN writing, WriteEnds(i) PROVE Ordered'
  BY <1>4, OrderedEnds
<1>5. ASSUME NEW t \in IoThread, Greet(t) PROVE Ordered'
  <2>1. t = Io /\ Label = "greet" /\ Job = job[t] /\ Job' = Job /\ Goto(t, "release") /\ UNCHANGED <<queue, wire>>
    BY <1>5 DEF Greet, Label, Job
  <2>2. PICK m \in Message : m = [from |-> Greeter, n |-> job[t].conn]
    BY <2>1, JobKinds DEF Message
  <2>3. ready' = Append(ready, Post(m)) /\ m.from = Greeter /\ m.n = Job.conn
    BY <1>5, <2>1, <2>2 DEF Greet
  <2>4. Label' = "release"
    BY <2>1, OneLabel
  <2>5. \A n \in Made : Before(n, m)
    BY <2>1, <2>3 DEF Accepting, Greeted, Before
  <2>6. \A i \in DOMAIN ready : i \in DOMAIN ready' /\ ready'[i] = ready[i]
    BY <2>3, FewerPushed, TaskKinds
  <2>7. Done => Done'
    BY <2>1, <2>6 DEF Done
  <2>8. InHand' \subseteq InHand
    BY <2>4 DEF InHand, Posting
  <2>9. QED
    BY <2>1, <2>3, <2>5, <2>7, <2>8, OrderedPosts
<1>6. ASSUME NEW w \in Writer, WritePost(w) PROVE Ordered'
  <2>1. sent[w] \in 1..MaxMessages /\ calling[w] = "post" /\ UNCHANGED <<Label, Job, queue, wire>>
    BY <1>6, VideoAssumption DEF WritePost, HandlerTypes, Typed, TypeOK, Label, Job, net
  <2>2. PICK m \in Message : m = [from |-> w, n |-> sent[w]]
    BY <2>1 DEF Message
  <2>3. ready' = Append(ready, Post(m)) /\ m.from = w /\ m.n = sent[w] /\ w # Greeter
    BY <1>6, <2>2, VideoAssumption DEF WritePost
  <2>4. \A n \in Made : Before(n, m)
    BY <2>1, <2>3 DEF Numbered, Before
  <2>5. \A i \in DOMAIN ready : i \in DOMAIN ready' /\ ready'[i] = ready[i]
    BY <2>3, FewerPushed, TaskKinds
  <2>6. Done => Done'
    BY <2>1, <2>5 DEF Done
  <2>7. InHand' \subseteq InHand
    BY <2>1 DEF InHand, Posting
  <2>8. QED
    BY <2>1, <2>3, <2>4, <2>6, <2>7, OrderedPosts
<1>7. ASSUME NEW t \in IoThread,
             OnConnect(t) \/ ReadHandler(t) \/ More(t) \/ InternalWrite(t) \/ CloseTest(t) \/ PostClose(t)
             \/ CloseSocket(t) \/ ShutdownServer(t) \/ Release(t) \/ Fault(t)
      PROVE  Ordered'
  <2>1. t = Io /\ job' = job /\ Job' = Job
    <3>1. job' = job
      BY <1>7 DEF OnConnect, ReadHandler, More, InternalWrite, CloseTest, PostClose, CloseSocket, ShutdownServer, Release,
                  Fault, Crash
    <3>2. QED
      BY <3>1 DEF Job
  <2>2. UNCHANGED <<queue, wire>>
    BY <1>7 DEF OnConnect, ReadHandler, More, InternalWrite, CloseTest, PostClose, CloseSocket, ShutdownServer, Release,
                Fault, Crash, net
  <2>3. Fewer("post") /\ \A i \in DOMAIN ready : i \in DOMAIN ready' /\ ready'[i] = ready[i]
    <3>1. ready' = ready \/ ready' = Append(ready, DoClose)
      BY <1>7 DEF OnConnect, ReadHandler, More, InternalWrite, CloseTest, PostClose, CloseSocket, ShutdownServer, Release,
                  Fault, Crash
    <3>2. QED
      BY <3>1, FewerSame, FewerPushed, TaskKinds, TaskFields
  <2>4. Label' \in {"idle", "greet", "release", "close", "push", "pushFirst", "postClose"}
    <3>1. \E to \in {"idle", "greet", "release", "close", "push", "pushFirst", "postClose"} : Goto(t, to)
      BY <1>7 DEF OnConnect, ReadHandler, More, InternalWrite, CloseTest, PostClose, CloseSocket, ShutdownServer, Release,
                  Fault, Crash
    <3>2. QED
      BY <3>1, OneLabel
  <2>5. Label' \in {"push", "pushFirst"} => Label = "post"
    <3>1. Label = "post" \/ \E to \in {"idle", "greet", "release", "close", "postClose"} : Goto(t, to)
      BY <1>7, <2>1 DEF OnConnect, ReadHandler, More, InternalWrite, CloseTest, PostClose, CloseSocket, ShutdownServer,
                  Release, Fault, Crash, Label
    <3>2. QED
      BY <3>1, OneLabel
  <2>6. InHand' \subseteq InHand
    BY <2>1, <2>4, <2>5 DEF InHand, Posting
  <2>7. Label = "write" => queue = <<>>
    BY <1>7, <2>1 DEF OnConnect, ReadHandler, More, InternalWrite, CloseTest, PostClose, CloseSocket, ShutdownServer,
                  Release, Fault, Crash, Label
  <2>8. Done => Done' \/ queue = <<>>
    BY <2>3, <2>7 DEF Done
  <2>9. QED
    BY <2>2, <2>3, <2>6, <2>8, OrderedQuiet
<1>8. ASSUME (\E w \in Writer : WriterStep(w) /\ ~ WritePost(w)) \/ (\E c \in Conn : Connect(c) \/ Lose(c) \/ ReadEnds(c)) \/ AskShutdown
      PROVE  Ordered'
  <2>1. UNCHANGED <<Label, Job, queue>>
    BY <1>8, OtherMoves DEF IoEnds
  <2>2. wire' = wire
    BY <1>8 DEF WriterStep, WriteTest, WriteRelease, WriteFault, Connect, Lose, ReadEnds, AskShutdown, net
  <2>3. Fewer("post")
    BY <1>8, FewerBy
  <2>4. \A i \in DOMAIN ready : i \in DOMAIN ready' /\ ready'[i] = ready[i]
    <3>1. ASSUME NEW c \in Conn, ReadEnds(c) PROVE \E h \in Task : ready' = Append(ready, h)
      <4>1. PICK r \in Results[sock[c]] : ready' = Append(ready, Read(c, r))
        BY <3>1 DEF ReadEnds
      <4>2. sock[c] \in {"open", "lost", "closed"}
        BY <3>1 DEF ReadEnds, HandlerTypes, Typed, TypeOK, Opened
      <4>3. r \in {"ok", "eof", "aborted", "other"}
        BY <4>1, <4>2 DEF Results
      <4>4. QED
        BY <4>1, <4>3, TaskKinds
    <3>2. ready' = ready \/ \E h \in Task : ready' = Append(ready, h)
      BY <1>8, <3>1, TaskKinds DEF WriterStep, WriteTest, WriteRelease, WriteFault, Connect, Lose, AskShutdown
    <3>3. QED
      BY <3>2, FewerPushed
  <2>5. Done => Done'
    BY <2>1, <2>4 DEF Done
  <2>6. InHand' \subseteq InHand
    BY <2>1 DEF InHand, Posting
  <2>7. QED
    BY <2>1, <2>2, <2>3, <2>5, <2>6, OrderedQuiet
<1>9. ASSUME UNCHANGED vars PROVE Ordered'
  <2>1. UNCHANGED <<Label, Job, queue, wire, ready>>
    BY <1>9 DEF vars, Label, Job
  <2>2. QED
    BY <2>1, FewerSame, OrderedQuiet DEF InHand, Posting, Done
<1>10. QED
  BY <1>1, <1>2, <1>3, <1>4, <1>5, <1>6, <1>7, <1>8, <1>9 DEF Next, IoStep, IoEnds

-----------------------------------------------------------------------------
(* What follows, for one thread.                                           *)

\* The invariant is inductive.
LEMMA HandlerInit == ASSUME IoThread = {Io}, Init PROVE HandlerInv
<1>1. DOMAIN <<>> = {} /\ Len(<<>>) = 0
  OBVIOUS
<1>2. HandlerTypes
  BY <1>1, TypesInit DEF Init, HandlerTypes, Opened
<1>3. Label = "idle" /\ ready = <<>> /\ DOMAIN ready = {} /\ \A op : Ready(op) = {}
  BY <1>1 DEF Init, Label, Ready
<1>4. Made = {} /\ (\A c \in Conn : DOMAIN wire[c] = {}) /\ DOMAIN queue = {}
  BY <1>1, <1>3 DEF Init, Made, Queued, Posted, InHand, Posting, Got
<1>5. Accepting /\ Numbered
  BY <1>3, <1>4 DEF Init, Accepting, Numbered, NoConn
<1>6. ServesFirst /\ ClosesFirst /\ ClosesOnce
  BY <1>1, <1>3 DEF Init, ServesFirst, ClosesFirst, ClosesOnce
<1>7. Ordered
  BY <1>3, <1>4 DEF Ordered, Queued, InHand, Posting, Posted, Got
<1>8. OneWrite /\ GoesOn
  BY <1>1, <1>3 DEF Init, OneWrite, GoesOn
<1>9. QED
  BY <1>2, <1>5, <1>6, <1>7, <1>8 DEF HandlerInv

LEMMA HandlerStep == ASSUME IoThread = {Io}, HandlerInv, [Next]_vars PROVE HandlerInv'
<1>1. HandlerTypes' /\ HandlerTypes
  BY TypesStep DEF HandlerInv
<1>2. OneWrite' /\ Numbered' /\ Accepting'
  BY <1>1, OneWriteStep, NumberedStep, AcceptingStep DEF HandlerInv
<1>3. ServesFirst' /\ ClosesFirst' /\ ClosesOnce'
  BY <1>1, ServesStep, ClosesFirstStep, ClosesOnceStep DEF HandlerInv
<1>4. Ordered' /\ GoesOn'
  BY <1>1, <1>2, OrderedStep, GoesOnStep DEF HandlerInv
<1>5. QED
  BY <1>1, <1>2, <1>3, <1>4 DEF HandlerInv

LEMMA OneThread == ASSUME NEW io, IoThread = {io} PROVE IoThread = {Io}
BY DEF Io

\* The parts of the invariant hold when one thread runs the handlers: conn_,
\* closing and write_queue_ are then changed by one handler after the other,
\* and only write reads them from elsewhere (VideoHandler.cpp:20-191).
THEOREM HandlersSound == ASSUME NEW io, IoThread = {io} PROVE Spec => []HandlerInv
<1>1. Init => HandlerInv
  BY HandlerInit, OneThread
<1>2. HandlerInv /\ [Next]_vars => HandlerInv'
  BY HandlerStep, OneThread
<1>3. QED
  BY <1>1, <1>2, PTL DEF Spec

\* With one io thread a client gets the messages of each sender in the order
\* they were written and each once, whatever connections are lost and taken
\* over (VideoHandler.cpp:118-160).
THEOREM MessagesInOrder == ASSUME NEW io, IoThread = {io} PROVE Spec => []InOrder
<1>1. HandlerInv => InOrder
  BY DEF HandlerInv, Ordered, InOrder, Before
<1>2. QED
  BY <1>1, HandlersSound, PTL

\* A step that takes the client away, or closes its socket, had a reason to.
LEMMA KeepsOne ==
  ASSUME IoThread = {Io}, HandlerInv, [Next]_vars, NEW c \in Conn, conn = c, sock[c] = "open", running
  PROVE  conn' = c /\ sock'[c] # "closed"
<1>0. conn # NoConn /\ sock \in [Conn -> {"new", "open", "lost", "closed"}]
  BY DEF Conn, NoConn, HandlerInv, HandlerTypes, Typed, TypeOK
<1>1. ASSUME NEW t \in IoThread, CloseSocket(t) PROVE FALSE
  <2>1. Label = "doClose"
    BY <1>1 DEF CloseSocket, Label
  <2>2. Gone
    BY <2>1 DEF HandlerInv, ClosesFirst, ClosesOnce
  <2>3. QED
    BY <2>2 DEF Gone
<1>2. ASSUME NEW t \in IoThread, OnConnect(t) PROVE conn' = c /\ sock'[c] # "closed"
  <2>1. Label = "accept" /\ Job = job[t]
    BY <1>2 DEF OnConnect, Label, Job
  <2>2. Job.conn # conn
    BY <2>1 DEF HandlerInv, Accepting, Fresh
  <2>3. QED
    BY <1>0, <1>2, <2>1, <2>2 DEF OnConnect
<1>3. ASSUME NEW d \in Conn, Connect(d) PROVE conn' = c /\ sock'[c] # "closed"
  BY <1>0, <1>3 DEF Connect
<1>4. CASE (\A t \in IoThread : ~ OnConnect(t) /\ ~ CloseSocket(t)) /\ \A d \in Conn : ~ Connect(d)
  BY <1>4, SameStep DEF Same, HandlerInv
<1>5. QED
  BY <1>1, <1>2, <1>3, <1>4

\* With one io thread no handler left from an earlier connection closes or
\* replaces a client that is connected (VideoHandler.cpp:20-29, 162-191).
THEOREM ClientKept == ASSUME NEW io, IoThread = {io} PROVE Spec => KeepsClient
<1>1. HandlerInv /\ [Next]_vars
      => [\A c \in Conn : conn = c /\ sock[c] = "open" /\ running => conn' = c /\ sock'[c] # "closed"]_vars
  BY KeepsOne, OneThread
<1>2. QED
  BY <1>1, HandlersSound, PTL DEF Spec, KeepsClient

\* How many there are of what is there at most once.
LEMMA AtMostOne ==
  ASSUME NEW S, \A i, j \in S : i = j
  PROVE  /\ S = {} => Cardinality(S) = 0
         /\ S # {} => Cardinality(S) = 1
<1>1. S # {} => \E i : S = {i}
  OBVIOUS
<1>2. QED
  BY <1>1, FS_EmptySet, FS_Singleton

\* OneWrite and GoesOn, counted.
LEMMA UnderWay == ASSUME IoThread = {Io}, HandlerInv PROVE WriteUnderWay
<1> DEFINE ended   == Cardinality({i \in DOMAIN ready : ready[i] = Write("ok")})
           handled == Cardinality({t \in IoThread : at[t] = "more" \/ (at[t] = "write" /\ job[t].result = "ok")})
           Ends    == \E i \in DOMAIN ready : ready[i] = Write("ok")
           Handles == Label = "more" \/ (Label = "write" /\ Job.result = "ok")
<1>t. writing \in Seq([conn : Conn, message : Message]) /\ OneWrite /\ HandlerTypes
  BY DEF HandlerInv, HandlerTypes, Typed, TypeOK
<1>1. (Ends => ended = 1) /\ (~ Ends => ended = 0)
  <2>1. {i \in DOMAIN ready : ready[i] = Write("ok")} \subseteq Ready("write")
    BY TaskFields DEF Ready
  <2>2. \A i, j \in Ready("write") : i = j
    BY <1>t DEF OneWrite
  <2>3. QED
    BY <2>1, <2>2, AtMostOne
<1>2. (Handles => handled = 1) /\ (~ Handles => handled = 0)
  <2> DEFINE S == {t \in IoThread : at[t] = "more" \/ (at[t] = "write" /\ job[t].result = "ok")}
  <2>1. \A t, u \in S : t = u
    OBVIOUS
  <2>2. S # {} <=> Handles
    BY DEF Label, Job
  <2>3. QED
    BY <2>1, <2>2, AtMostOne
<1>3. (writing = <<>> => Len(writing) = 0) /\ (writing # <<>> => Len(writing) = 1)
  <2>1. Len(writing) <= 1
    BY <1>t DEF OneWrite
  <2>2. Len(writing) \in Nat /\ (writing = <<>> <=> Len(writing) = 0)
    <3>1. writing \in Seq([conn : Conn, message : Message])
      BY <1>t
    <3>2. QED
      BY <3>1, EmptySeq
  <2>3. PICK n \in Nat : n = Len(writing) /\ n <= 1 /\ (writing = <<>> <=> n = 0)
    BY <2>1, <2>2
  <2>4. n = 0 \/ n = 1
    BY <2>3
  <2>5. QED
    BY <2>3, <2>4
<1>4. /\ writing # <<>> => ~ Ends /\ ~ Handles
      /\ Ends => ~ Handles
  <2>1. Ends => Ready("write") # {}
    BY TaskFields DEF Ready
  <2>2. QED
    BY <1>t, <2>1 DEF OneWrite
<1>5. WriteFailed => Write("error") \in Pending
  BY DEF WriteFailed, Pending, Label, Job, Range
<1>6. (\E t \in IoThread : at[t] = "more") <=> Label = "more"
  BY DEF Label
<1>7. CASE queue # <<>>
  <2>1. SUFFICES ASSUME ~ closing, ~ crashed, ~ WriteFailed PROVE Len(writing) + ended + handled = 1
    BY <1>5, <1>7 DEF WriteUnderWay
  <2>2. writing # <<>> \/ Ends \/ Handles
    <3>1. writing # <<>> \/ Done \/ Label = "more"
      BY <1>7, <2>1 DEF HandlerInv, GoesOn
    <3>2. Done => Ends \/ Handles
      BY TaskFields DEF Done
    <3>3. QED
      BY <3>1, <3>2
  <2>3. \/ Len(writing) = 1 /\ ended = 0 /\ handled = 0
        \/ Len(writing) = 0 /\ ended = 1 /\ handled = 0
        \/ Len(writing) = 0 /\ ended = 0 /\ handled = 1
    <3>1. CASE writing # <<>>
      BY <1>1, <1>2, <1>3, <1>4, <3>1
    <3>2. CASE writing = <<>> /\ Ends
      BY <1>1, <1>2, <1>3, <1>4, <3>2
    <3>3. CASE writing = <<>> /\ ~ Ends /\ Handles
      BY <1>1, <1>2, <1>3, <3>3
    <3>4. QED
      BY <2>2, <3>1, <3>2, <3>3
  <2> HIDE DEF ended, handled
  <2>4. PICK l, e, h : l = Len(writing) /\ e = ended /\ h = handled
    OBVIOUS
  <2>5. l + e + h = 1
    BY <2>3, <2>4
  <2>6. QED
    BY <2>4, <2>5
<1>8. CASE queue = <<>>
  <2>1. writing = <<>> /\ Ready("write") = {} /\ Label # "write"
    BY <1>t, <1>8 DEF OneWrite
  <2>2. ~ Ends
    BY <2>1, TaskFields DEF Ready
  <2>3. Handles => Label = "more"
    BY <2>1
  <2>4. (handled = 1 /\ Label = "more") \/ handled = 0
    BY <1>2, <2>3
  <2>5. ended = 0 /\ Len(writing) = 0
    BY <1>1, <1>3, <2>1, <2>2
  <2>6. (Len(writing) + ended + handled = 1 /\ Label = "more") \/ Len(writing) + ended + handled = 0
    <3> HIDE DEF ended, handled
    <3>1. QED
      BY <2>4, <2>5
  <2>7. QED
    BY <1>6, <1>8, <2>6 DEF WriteUnderWay
<1>9. QED
  BY <1>7, <1>8

\* With one io thread internal_write and write_handler keep exactly one write
\* under way while something is queued, until one fails (VideoHandler.cpp:118-151).
THEOREM WriteGoesOn == ASSUME NEW io, IoThread = {io} PROVE Spec => []WriteUnderWay
<1>1. HandlerInv => WriteUnderWay
  BY UnderWay, OneThread
<1>2. QED
  BY <1>1, HandlersSound, PTL
=============================================================================
