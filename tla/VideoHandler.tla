---------------------------- MODULE VideoHandler ----------------------------
(***************************************************************************)
(* VideoHandler and the TcpServer that accepts for it: one client, a queue *)
(* of messages written one after the other, handlers run by the threads of *)
(* an io_service.  A step is one access to what the handlers share (conn_, *)
(* closing, write_queue_).  boost::asio is external: it runs the ready     *)
(* handlers in order, each on any free thread, and completes an operation  *)
(* when the socket lets it.                                                *)
(***************************************************************************)
EXTENDS Integers, Sequences, FiniteSets, SequencesExt

CONSTANTS IoThread,       \* the threads in io_service::run
          Writer,         \* the threads that call write: listeners of robots
          Greeter,        \* the sender of the message onConnect writes
          MaxMessages,    \* bound: messages of each writer
          MaxConns,       \* bound: connections
          MayLose,        \* whether connections are lost
          MayShutdown     \* whether an administrator shuts the server down

NoConn == 0
Conn == 1..MaxConns

ASSUME VideoAssumption ==
  /\ Greeter \notin Writer /\ MayLose \in BOOLEAN /\ MayShutdown \in BOOLEAN
  /\ MaxMessages \in Nat /\ MaxConns \in Nat

VARIABLES conn,        \* conn_, or NoConn
          closing,
          running,     \* TcpServer::running
          queue,       \* write_queue_
          ready,       \* handlers whose turn has come, in order
          sock,        \* the two ends of each connection
          accepting,   \* an async_accept is under way
          reading,     \* connections with an async_read_until under way
          writing,     \* async_writes under way: connection and message
          wire,        \* what each client has received
          at, job,     \* what each io thread is doing, and its handler
          sent,        \* how many messages each writer has sent
          calling,     \* where each writer is in write
          crashed

vars == <<conn, closing, running, queue, ready, sock, accepting, reading, writing, wire, at,
          job, sent, calling, crashed>>
net  == <<sock, accepting, reading, writing, wire>>
rest == <<running, sent, calling, crashed>>

Message == [from : Writer, n : 1..MaxMessages] \cup [from : {Greeter}, n : Conn]

\* The handlers.  A completion says how its operation ended.
Accept(c)  == [op |-> "accept", conn |-> c]
Read(c, r) == [op |-> "read", conn |-> c, result |-> r]
Write(r)   == [op |-> "write", result |-> r]
Post(m)    == [op |-> "post", message |-> m]
DoClose    == [op |-> "doClose"]
Shutdown   == [op |-> "shutdown"]
NoTask     == [op |-> "none"]

Task == {Accept(c) : c \in Conn} \cup {Read(c, r) : c \in Conn, r \in {"ok", "eof", "aborted", "other"}}
        \cup {Write("ok"), Write("error"), DoClose, Shutdown} \cup {Post(m) : m \in Message}

Init ==
  /\ conn = NoConn /\ closing = FALSE /\ running = TRUE /\ queue = <<>> /\ ready = <<>>
  /\ sock = [c \in Conn |-> "new"] /\ accepting = TRUE /\ reading = {} /\ writing = <<>>
  /\ wire = [c \in Conn |-> <<>>]
  /\ at = [t \in IoThread |-> "idle"] /\ job = [t \in IoThread |-> NoTask]
  /\ sent = [w \in Writer |-> 0] /\ calling = [w \in Writer |-> "out"] /\ crashed = FALSE

Goto(t, label) == at' = [at EXCEPT ![t] = label]

\* boost::shared_ptr asserts that it is not null, and so ends the program.
Crash(t) ==
  /\ Goto(t, "idle") /\ crashed' = TRUE
  /\ UNCHANGED <<conn, closing, running, queue, ready, net, job, sent, calling>>

Dispatch(t) ==
  /\ at[t] = "idle" /\ ready # <<>>
  /\ job' = [job EXCEPT ![t] = Head(ready)] /\ ready' = Tail(ready)
  /\ Goto(t, Head(ready).op)
  /\ UNCHANGED <<conn, closing, queue, net, rest>>

-----------------------------------------------------------------------------
(* TcpServer::handle_accept and onConnect.                                 *)

\* Anybody but the first is sent away.
OnConnect(t) ==
  /\ at[t] = "accept"
  /\ IF running /\ conn = NoConn
     THEN conn' = job[t].conn /\ Goto(t, "greet") /\ UNCHANGED net
     ELSE /\ sock' = [sock EXCEPT ![job[t].conn] = "closed"]
          /\ accepting' = running
          /\ Goto(t, "idle") /\ UNCHANGED <<conn, reading, writing, wire>>
  /\ UNCHANGED <<closing, queue, ready, job, rest>>

\* The robots there are, as a message; then the next accept.
Greet(t) ==
  /\ at[t] = "greet" /\ conn # NoConn
  /\ reading' = reading \cup {job[t].conn}
  /\ ready' = Append(ready, Post([from |-> Greeter, n |-> job[t].conn]))
  /\ accepting' = running
  /\ Goto(t, "release")
  /\ UNCHANGED <<conn, closing, queue, sock, writing, wire, job, rest>>

-----------------------------------------------------------------------------
(* read_handler, write_handler and internal_write.                         *)

ReadHandler(t) ==
  /\ at[t] = "read"
  /\ \/ job[t].result \in {"eof", "aborted"} /\ Goto(t, "close") /\ UNCHANGED reading
     \/ job[t].result = "other" /\ Goto(t, "idle") /\ UNCHANGED reading
     \/ /\ job[t].result = "ok" /\ conn # NoConn
        /\ reading' = reading \cup {conn} /\ Goto(t, "release")
  /\ UNCHANGED <<conn, closing, queue, ready, sock, accepting, writing, wire, job, rest>>

WriteHandler(t) ==
  /\ at[t] = "write"
  /\ IF job[t].result = "error" THEN Goto(t, "close") /\ UNCHANGED queue
     ELSE queue # <<>> /\ queue' = Tail(queue) /\ Goto(t, "more")
  /\ UNCHANGED <<conn, closing, ready, net, job, rest>>

\* Mutant of More: the next write is started on a connection that is gone.
MoreUnchecked(t) ==
  /\ at[t] = "more" /\ Goto(t, "idle")
  /\ writing' = IF queue = <<>> THEN writing ELSE Append(writing, [conn |-> conn, message |-> Head(queue)])
  /\ UNCHANGED <<conn, closing, queue, ready, sock, accepting, reading, wire, job, rest>>

\* The rest of write_handler.
More(t) ==
  /\ at[t] = "more"
  /\ IF queue = <<>> THEN Goto(t, "idle") /\ UNCHANGED writing
     ELSE /\ conn # NoConn /\ writing' = Append(writing, [conn |-> conn, message |-> Head(queue)])
          /\ Goto(t, "release")
  /\ UNCHANGED <<conn, closing, queue, ready, sock, accepting, reading, wire, job, rest>>

\* Mutant of InternalWrite: the queue is not looked at.
InternalWriteAlways(t) ==
  /\ at[t] = "post" /\ Goto(t, "pushFirst")
  /\ UNCHANGED <<conn, closing, queue, ready, net, job, rest>>

InternalWrite(t) ==
  /\ at[t] = "post" /\ Goto(t, IF queue = <<>> THEN "pushFirst" ELSE "push")
  /\ UNCHANGED <<conn, closing, queue, ready, net, job, rest>>

Push(t) ==
  /\ \/ at[t] = "push" /\ Goto(t, "idle") /\ UNCHANGED writing
     \/ /\ at[t] = "pushFirst" /\ conn # NoConn /\ Goto(t, "release")
        /\ writing' = Append(writing, [conn |-> conn, message |-> job[t].message])
  /\ queue' = Append(queue, job[t].message)
  /\ UNCHANGED <<conn, closing, ready, sock, accepting, reading, wire, job, rest>>

-----------------------------------------------------------------------------
(* close, do_close and TcpServer::shutdown.                                *)

CloseTest(t) ==
  /\ at[t] = "close" /\ Goto(t, IF closing \/ conn = NoConn THEN "idle" ELSE "postClose")
  /\ UNCHANGED <<conn, closing, queue, ready, net, job, rest>>

PostClose(t) ==
  /\ at[t] = "postClose" /\ conn # NoConn
  /\ closing' = TRUE /\ ready' = Append(ready, DoClose) /\ Goto(t, "release")
  /\ UNCHANGED <<conn, queue, net, job, rest>>

\* Mutant of CloseSocket: the next client may be closed like the first.
CloseSocketReset(t) ==
  /\ at[t] = "doClose" /\ conn # NoConn
  /\ sock' = [sock EXCEPT ![conn] = "closed"] /\ conn' = NoConn /\ closing' = FALSE
  /\ Goto(t, "idle")
  /\ UNCHANGED <<queue, ready, accepting, reading, writing, wire, job, rest>>

\* do_close
CloseSocket(t) ==
  /\ at[t] = "doClose" /\ conn # NoConn
  /\ sock' = [sock EXCEPT ![conn] = "closed"] /\ conn' = NoConn
  /\ Goto(t, "idle")
  /\ UNCHANGED <<closing, queue, ready, accepting, reading, writing, wire, job, rest>>

ShutdownServer(t) ==
  /\ at[t] = "shutdown"
  /\ running' = FALSE /\ accepting' = FALSE /\ Goto(t, "close")
  /\ UNCHANGED <<conn, closing, queue, ready, sock, reading, writing, wire, job, sent, calling, crashed>>

\* releaseSocket does nothing, but conn_ is followed once more to call it.
Release(t) ==
  /\ at[t] = "release" /\ conn # NoConn /\ Goto(t, "idle")
  /\ UNCHANGED <<conn, closing, queue, ready, net, job, rest>>

\* A null conn_ is followed, or the front of an empty queue taken.
Fault(t) ==
  /\ \/ conn = NoConn /\ at[t] \in {"greet", "pushFirst", "postClose", "doClose", "release"}
     \/ conn = NoConn /\ at[t] = "read" /\ job[t].result = "ok"
     \/ conn = NoConn /\ at[t] = "more" /\ queue # <<>>
     \/ queue = <<>> /\ at[t] = "write" /\ job[t].result = "ok"
  /\ Crash(t)

IoStep(t) ==
  \/ Dispatch(t) \/ OnConnect(t) \/ Greet(t) \/ ReadHandler(t) \/ WriteHandler(t) \/ More(t)
  \/ InternalWrite(t) \/ Push(t) \/ CloseTest(t) \/ PostClose(t) \/ CloseSocket(t)
  \/ ShutdownServer(t) \/ Release(t) \/ Fault(t)

-----------------------------------------------------------------------------
(* write, called by other threads.                                         *)

\* Without a client the message is dropped.
WriteTest(w) ==
  /\ calling[w] = "out" /\ sent[w] < MaxMessages
  /\ sent' = [sent EXCEPT ![w] = @ + 1]
  /\ calling' = [calling EXCEPT ![w] = IF conn = NoConn THEN "out" ELSE "post"]
  /\ UNCHANGED <<conn, closing, running, queue, ready, net, at, job, crashed>>

WritePost(w) ==
  /\ calling[w] = "post" /\ conn # NoConn
  /\ ready' = Append(ready, Post([from |-> w, n |-> sent[w]]))
  /\ calling' = [calling EXCEPT ![w] = "release"]
  /\ UNCHANGED <<conn, closing, running, queue, net, at, job, sent, crashed>>

WriteRelease(w) ==
  /\ calling[w] = "release" /\ conn # NoConn
  /\ calling' = [calling EXCEPT ![w] = "out"]
  /\ UNCHANGED <<conn, closing, running, queue, ready, net, at, job, sent, crashed>>

WriteFault(w) ==
  /\ calling[w] # "out" /\ conn = NoConn /\ crashed' = TRUE
  /\ UNCHANGED <<conn, closing, running, queue, ready, net, at, job, sent, calling>>

WriterStep(w) == WriteTest(w) \/ WritePost(w) \/ WriteRelease(w) \/ WriteFault(w)

-----------------------------------------------------------------------------
(* The sockets and the client (the delivery server), external.             *)

\* The delivery server connects, again when it has lost its connection.
Connect(c) ==
  /\ accepting /\ sock[c] = "new" /\ \A d \in Conn : d < c => sock[d] \notin {"new", "open"}
  /\ sock' = [sock EXCEPT ![c] = "open"]
  /\ accepting' = FALSE /\ ready' = Append(ready, Accept(c))
  /\ UNCHANGED <<conn, closing, queue, reading, writing, wire, at, job, rest>>

Lose(c) ==
  /\ MayLose /\ sock[c] = "open" /\ sock' = [sock EXCEPT ![c] = "lost"]
  /\ UNCHANGED <<conn, closing, queue, ready, accepting, reading, writing, wire, at, job, rest>>

\* A loss may be seen as the end of the stream or as an error (a reset).
Results == [open |-> {"ok"}, lost |-> {"eof", "other"}, closed |-> {"aborted"}]

ReadEnds(c) ==
  /\ c \in reading /\ reading' = reading \ {c}
  /\ \E r \in Results[sock[c]] : ready' = Append(ready, Read(c, r))
  /\ UNCHANGED <<conn, closing, queue, sock, accepting, writing, wire, at, job, rest>>

\* What is written to a connection that was lost may seem to have gone well.
WriteEnds(i) ==
  /\ writing' = RemoveAt(writing, i)
  /\ LET c == writing[i].conn IN
       \/ /\ sock[c] = "open" /\ wire' = [wire EXCEPT ![c] = Append(@, writing[i].message)]
          /\ ready' = Append(ready, Write("ok"))
       \/ /\ sock[c] # "open" /\ UNCHANGED wire
          /\ \E r \in {"error"} \cup (IF sock[c] = "closed" THEN {} ELSE {"ok"}) :
               ready' = Append(ready, Write(r))
  /\ UNCHANGED <<conn, closing, queue, sock, accepting, reading, at, job, rest>>

\* An administrator's command.
AskShutdown ==
  /\ MayShutdown /\ running /\ Shutdown \notin Range(ready) \cup {job[t] : t \in IoThread}
  /\ ready' = Append(ready, Shutdown)
  /\ UNCHANGED <<conn, closing, queue, net, at, job, rest>>

IoEnds == (\E c \in Conn : ReadEnds(c)) \/ (\E i \in DOMAIN writing : WriteEnds(i))

Next ==
  /\ ~crashed
  /\ \/ \E t \in IoThread : IoStep(t)
     \/ \E w \in Writer : WriterStep(w)
     \/ \E c \in Conn : Connect(c) \/ Lose(c)
     \/ IoEnds \/ AskShutdown

Spec == Init /\ [][Next]_vars

\* Threads that can go on do, writes end, and lost reads are reported.
FairSpec ==
  /\ Spec
  /\ \A t \in IoThread : WF_vars(~crashed /\ IoStep(t))
  /\ \A w \in Writer : WF_vars(~crashed /\ calling[w] # "out" /\ WriterStep(w))
  /\ WF_vars(~crashed /\ \E i \in DOMAIN writing : WriteEnds(i))

-----------------------------------------------------------------------------

TypeOK ==
  /\ conn \in Conn \cup {NoConn} /\ closing \in BOOLEAN /\ running \in BOOLEAN
  /\ queue \in Seq(Message) /\ ready \in Seq(Task)
  /\ sock \in [Conn -> {"new", "open", "lost", "closed"}] /\ accepting \in BOOLEAN
  /\ reading \subseteq Conn /\ writing \in Seq([conn : Conn, message : Message])
  /\ wire \in [Conn -> Seq(Message)]
  /\ job \in [IoThread -> Task \cup {NoTask}] /\ DOMAIN at = IoThread
  /\ sent \in [Writer -> 0..MaxMessages] /\ calling \in [Writer -> {"out", "post", "release"}]
  /\ crashed \in BOOLEAN

\* The tasks that are ready or being run.
Pending == Range(ready) \cup {job[t] : t \in {u \in IoThread : at[u] # "idle"}}

\* A client gets the messages of each robot connection in the order they were
\* written, each once.
InOrder ==
  \A c \in Conn : \A i, j \in DOMAIN wire[c] :
    i < j /\ wire[c][i].from = wire[c][j].from => wire[c][i].n < wire[c][j].n

\* As long as no write has failed, exactly one is under way while there is
\* something in the queue: under way, ended and not yet handled, or about to
\* be followed by the next.
WriteUnderWay ==
  LET ended == Cardinality({i \in DOMAIN ready : ready[i] = Write("ok")})
      handled == Cardinality({t \in IoThread : at[t] = "more" \/ (at[t] = "write" /\ job[t].result = "ok")})
      under == Len(writing) + ended + handled
  IN \/ closing \/ crashed \/ Write("error") \in Pending \/ \E i \in DOMAIN writing : sock[writing[i].conn] # "open"
     \/ under = 1 /\ (queue = <<>> => \E t \in IoThread : at[t] = "more")
     \/ under = 0 /\ queue = <<>>

\* A client that is served stays connected until it leaves or the server is
\* shut down, whatever handlers of an earlier connection are still to run.
KeepsClient ==
  [][\A c \in Conn : conn = c /\ sock[c] = "open" /\ running => conn' = c /\ sock'[c] # "closed"]_vars

=============================================================================
