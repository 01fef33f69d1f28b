------------------------------ MODULE Framing ------------------------------
(***************************************************************************)
(* How RobotHandler cuts the stream of one robot controller into messages: *)
(* onConnect reads the first one, threaded_listen the others, until        *)
(* cleanupConn.  Only this thread reads the socket, so the steps are its   *)
(* blocking reads and what it does in between.  A cell <<m, k>> stands for *)
(* byte k of message m; the header, HeadLen cells, says how long m is.     *)
(***************************************************************************)
EXTENDS Integers, Sequences, SequencesExt

CONSTANTS Size,         \* the lengths of the messages, in the order sent
          HeadLen,      \* 5: the type and the total
          BufSize,      \* RH_BUFFER_SIZE
          Ahead         \* bound: messages that are sent before they are read

Messages == 1..Len(Size)

ASSUME FramingAssumption ==
  /\ HeadLen \in Nat \ {0} /\ BufSize \in Nat /\ BufSize >= HeadLen /\ Ahead \in Nat \ {0}
  /\ Size # <<>> /\ \A m \in Messages : Size[m] \in Nat /\ Size[m] >= HeadLen

VARIABLES
  sent, closed,         \* controller: messages sent, whether it has hung up
  wire,                 \* the socket: what has not been read
  at,                   \* "init", "rest": onConnect; "head", "frame", "more": the
                        \* loop; "lost": no header where one should be; "gone"
  input,                \* onConnect: inputBuffer
  buf, buf_offset, bytes_read, arr,     \* threaded_listen
  good,                 \* messages read as they were sent
  wrong,                \* history: "order": one was lost or doubled, "cells": one
                        \* was not a message at all
  mixed                 \* history: a read took cells of more than one message

loop == <<buf, buf_offset, bytes_read, arr>>
framingVars == <<sent, closed, wire, at, input, loop, good, wrong, mixed>>

Whole(m) == [k \in 1..Size[m] |-> <<m, k>>]
Zero     == <<0, 0>>
Blank    == [i \in 1..BufSize |-> Zero]

FramingInit ==
  /\ sent = 0 /\ closed = FALSE /\ wire = <<>> /\ at = "init" /\ input = <<>>
  /\ buf = Blank /\ buf_offset = 0 /\ bytes_read = 0 /\ arr = <<>>
  /\ good = 0 /\ wrong = "none" /\ mixed = FALSE

-----------------------------------------------------------------------------
(* The robot controller.                                                   *)

Waiting == {wire[i][1] : i \in DOMAIN wire}

Send ==
  /\ ~closed /\ sent < Len(Size) /\ \A m \in Waiting : m > sent + 1 - Ahead
  /\ sent' = sent + 1 /\ wire' = wire \o Whole(sent + 1)
  /\ UNCHANGED <<closed, at, input, loop, good, wrong, mixed>>

Close == ~closed /\ closed' = TRUE /\ UNCHANGED <<sent, wire, at, input, loop, good, wrong, mixed>>

-----------------------------------------------------------------------------
(* boost::asio::read with transfer_at_least: it returns when least cells   *)
(* have come or the room is full; at the end of the stream with what there *)
(* was.                                                                    *)

Counts(least, room) == {n \in 0..Len(wire) : n <= room /\ (n >= least \/ n = room)}
Ended(least, room)  == closed /\ Len(wire) < least /\ Len(wire) < room

Take(n) ==
  /\ wire' = SubSeq(wire, n + 1, Len(wire))
  /\ mixed' = (mixed \/ \E i, j \in 1..n : wire[i][1] # wire[j][1])

Place(b, off, s) == [i \in 1..BufSize |-> IF i \in (off + 1)..(off + Len(s)) THEN s[i - off] ELSE b[i]]

\* What the header at the start of s says; 0 when there is none.
Total(s) == LET Is(m) == \A k \in 1..HeadLen : s[k] = <<m, k>>
            IN IF \E m \in Messages : Is(m) THEN Size[CHOOSE m \in Messages : Is(m)] ELSE 0

\* read_data is given s.
Deliver(s) ==
  IF good < Len(Size) /\ s = Whole(good + 1) THEN good' = good + 1 /\ UNCHANGED wrong
  ELSE /\ wrong' = IF wrong # "cells" /\ \E m \in Messages : s = Whole(m) THEN "order" ELSE "cells"
       /\ UNCHANGED good

-----------------------------------------------------------------------------
(* onConnect.                                                              *)

\* A message is complete: the rest of inputBuffer is dropped.
Connected(s) == Deliver(SubSeq(s, 1, Total(s))) /\ at' = "head" /\ input' = <<>>

ReadInit ==
  /\ at = "init"
  /\ \E n \in Counts(HeadLen, Len(wire)) :
       LET s == SubSeq(wire, 1, n)
       IN /\ n >= HeadLen /\ Take(n)
          /\ IF n >= Total(s) THEN Connected(s)
             ELSE at' = "rest" /\ input' = s /\ UNCHANGED <<good, wrong>>
  /\ UNCHANGED <<sent, closed, loop>>

ReadRest ==
  /\ at = "rest"
  /\ \E n \in Counts(Total(input) - Len(input), Len(wire)) :
       n >= Total(input) - Len(input) /\ Take(n) /\ Connected(input \o SubSeq(wire, 1, n))
  /\ UNCHANGED <<sent, closed, loop>>

\* The stream ends: cleanupConn.
EndInit ==
  /\ closed /\ wire' = <<>> /\ at' = "gone"
  /\ \/ at = "init" /\ Len(wire) < HeadLen
     \/ at = "rest" /\ Len(wire) < Total(input) - Len(input)
  /\ UNCHANGED <<sent, closed, input, loop, good, wrong, mixed>>

-----------------------------------------------------------------------------
(* threaded_listen.                                                        *)

Room == BufSize - buf_offset

ReadHead ==
  /\ at = "head"
  /\ \E n \in Counts(HeadLen, Room) :
       /\ Take(n) /\ bytes_read' = n /\ buf' = Place(buf, buf_offset, SubSeq(wire, 1, n))
       /\ at' = IF n < HeadLen THEN "gone" ELSE "frame"
  /\ UNCHANGED <<sent, closed, input, buf_offset, arr, good, wrong>>

EndHead ==
  /\ at = "head" /\ Ended(HeadLen, Room) /\ wire' = <<>> /\ at' = "gone"
  /\ UNCHANGED <<sent, closed, input, loop, good, wrong, mixed>>

\* Where the next read goes: behind what is left over.  It is never set back.
Offset(total, n) == IF n > total THEN n - total ELSE buf_offset

\* n cells were read and s is a message of total ones: what is left of the next
\* one goes from b to the front of the buffer.
Finish(s, b, total, n) ==
  LET rest == [i \in 1..(n - total) |-> IF total + i <= BufSize THEN b[total + i] ELSE Zero]
  IN /\ Deliver(s) /\ arr' = <<>> /\ bytes_read' = n - total
     /\ buf' = IF n > total THEN Place(Blank, 0, rest) ELSE b
     /\ buf_offset' = Offset(total, n)
     /\ at' = IF n - total < HeadLen THEN "head" ELSE "frame"

\* The header is looked at.
Frame ==
  /\ at = "frame"
  /\ LET total == Total(buf)
     IN CASE total = 0 -> at' = "lost" /\ UNCHANGED <<loop, good, wrong>>
          [] total # 0 /\ bytes_read >= total -> Finish(SubSeq(buf, 1, total), buf, total, bytes_read)
          [] OTHER -> /\ arr' = SubSeq(buf, 1, bytes_read) /\ at' = "more"
                      /\ UNCHANGED <<buf, buf_offset, bytes_read, good, wrong>>
  /\ UNCHANGED <<sent, closed, wire, input, mixed>>

\* Mutant of Lacking: one less.
LackingOne == Total(arr) - bytes_read - 1

\* Mutant of Least: a full buffer is waited for.
LeastRoom == Room

\* The rest of a message is read into the buffer behind buf_offset, and copied
\* from its front.
Lacking == Total(arr) - bytes_read
Least == IF Lacking < Room THEN Lacking ELSE Room

ReadMore ==
  /\ at = "more" /\ ~Ended(Least, Room)
  /\ \E n \in Counts(Least, Room) :
       LET b == Place(buf, buf_offset, SubSeq(wire, 1, n))
           s == arr \o SubSeq(b, 1, IF n < Lacking THEN n ELSE Lacking)
       IN /\ Take(n)
          /\ IF n >= Lacking THEN Finish(s, b, Total(arr), bytes_read + n)
             ELSE /\ buf' = b /\ arr' = s /\ bytes_read' = bytes_read + n
                  /\ UNCHANGED <<at, buf_offset, good, wrong>>
  /\ UNCHANGED <<sent, closed, input>>

\* The stream ends, or breaks: connected is cleared, and the loop that waits for
\* the rest does not look at it.
EndMore ==
  /\ at = "more" /\ Ended(Least, Room) /\ Take(Len(wire))
  /\ LET b == Place(buf, buf_offset, wire)
     IN buf' = b /\ arr' = arr \o SubSeq(b, 1, Len(wire)) /\ bytes_read' = bytes_read + Len(wire)
  /\ UNCHANGED <<sent, closed, at, input, buf_offset, good, wrong>>

Listen == ReadInit \/ ReadRest \/ EndInit \/ ReadHead \/ EndHead \/ Frame \/ ReadMore \/ EndMore

FramingNext == Send \/ Close \/ Listen

FramingSpec == FramingInit /\ [][FramingNext]_framingVars /\ WF_framingVars(Listen)

-----------------------------------------------------------------------------
FramingTypes ==
  /\ sent \in 0..Len(Size) /\ good \in 0..sent /\ wrong \in {"none", "order", "cells"}
  /\ at \in {"init", "rest", "head", "frame", "more", "lost", "gone"}
  /\ DOMAIN buf = 1..BufSize /\ buf_offset \in 0..BufSize /\ Len(arr) <= bytes_read

\* While every read brings cells of one message, nothing is lost, doubled or
\* spoilt, however the messages are cut up and however much longer than the
\* buffer they are: what is read, what is in the buffers and what is on the way
\* is what was sent (RobotHandler.cpp:279-402).
Pending == CASE at = "rest" -> input [] at = "frame" -> SubSeq(buf, 1, bytes_read) [] at = "more" -> arr [] OTHER -> <<>>

InTransit == Pending \o wire

\* The cell that is sent after c.
After(c) == IF c[2] < Size[c[1]] THEN <<c[1], c[2] + 1>> ELSE <<c[1] + 1, 1>>

Faithful ==
  (~mixed /\ at # "gone") =>
     /\ wrong = "none" /\ at # "lost"
     /\ InTransit = <<>> <=> good = sent
     /\ InTransit # <<>> => InTransit[1] = <<good + 1, 1>> /\ InTransit[Len(InTransit)] = <<sent, Size[sent]>>
     /\ \A i \in 1..(Len(InTransit) - 1) : InTransit[i + 1] = After(InTransit[i])

\* A message sent is read, unless the controller hangs up or a read brings cells
\* of two messages.
Received == \A m \in Messages : (sent >= m) ~> (good >= m \/ closed \/ mixed)

\* No message is given to read_data that is not one that was sent
\* (RobotHandler.cpp:401).
WholeMessages == wrong # "cells"

=============================================================================
