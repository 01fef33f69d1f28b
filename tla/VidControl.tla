----------------------------- MODULE VidControl -----------------------------
(***************************************************************************)
(* The video delivery server: vidcontrol.py with the parser of qosupdate   *)
(* and the processes of ffserver and archives.  It follows what the QoS    *)
(* server pushes, and starts and stops the processes of each feed.  The    *)
(* QoS server is seen as its robots and the bytes it sends.                *)
(***************************************************************************)
EXTENDS Integers, Sequences, FiniteSets, SequencesExt

CONSTANTS Url,           \* the cameras of the robots, by URL
          Stump,         \* what is left of a URL that is cut off
          MaxEvents,     \* bound: events at the QoS server, losses of the connection
          Faults         \* what may happen: "loss", "tear", "sigterm"

ASSUME ControlAssumption ==
  /\ MaxEvents \in Nat /\ IsFiniteSet(Url) /\ Stump \notin Url /\ Faults \subseteq {"loss", "tear", "sigterm"}

VARIABLES robots,      \* the cameras registered with the QoS server
          events,      \* how many events there were
          online,      \* whether the connection to it is good
          stream,      \* what is on its way: lines
          feeds,       \* self.feeds, the URL and port of each
          next_port,
          resources,   \* the files and processes there are, with the port of their feed
          published,   \* the URLs in the table of cameras
          pc, step,    \* where the server is; inside launch_feed and kill_feed
          subject,     \* the feed that is launched or killed
          rmfeeds, addfeeds,
          mode,        \* serving, in the handler of SIGTERM, or in the finally clause
          resume       \* where SIGTERM interrupted, or "none"

vars  == <<robots, events, online, stream, feeds, next_port, resources, published, pc, step,
           subject, rmfeeds, addfeeds, mode, resume>>
qos   == <<robots, events, online, stream>>
state == <<feeds, next_port, resources, published>>
term  == <<mode, resume>>

Time      == [kind |-> "time"]
Feed(u)   == [kind |-> "feed", url |-> u]
Delete(u) == [kind |-> "delete", url |-> u]
Junk      == [kind |-> "junk"]

NoFeed == [url |-> Stump, port |-> 0]
Urls   == {feeds[i].url : i \in DOMAIN feeds}
PlaceOf(u) == SelectInSeq(feeds, LAMBDA f : f.url = u)
FeedOf(u)  == feeds[PlaceOf(u)]

\* The order in which launch_feed and kill_feed treat the resources of a feed.
LaunchOrder == <<"config", "ffserver", "ffmpeg">>
KillOrder   == <<"ffserver", "ffmpeg", "archive", "config">>

Init ==
  /\ robots \in SUBSET Url /\ events = 0 /\ online = FALSE /\ stream = <<>>
  /\ feeds = <<>> /\ next_port = 1 /\ resources = {} /\ published = {}
  /\ pc = "poll" /\ step = 0 /\ subject = NoFeed /\ rmfeeds = <<>> /\ addfeeds = <<>>
  /\ mode = "serve" /\ resume = "none"

-----------------------------------------------------------------------------
(* The QoS server: RobotHandler and VideoHandler.                          *)

Say(line) ==
  /\ events < MaxEvents /\ events' = events + 1
  /\ stream' = IF online THEN stream \o <<Time, line>> ELSE stream
  /\ UNCHANGED <<online, state, pc, step, subject, rmfeeds, addfeeds, term>>

\* A robot is registered without a message; its updates are one.
Register(u) ==
  /\ u \notin robots /\ robots' = robots \cup {u}
  /\ events < MaxEvents /\ events' = events + 1
  /\ UNCHANGED <<online, stream, state, pc, step, subject, rmfeeds, addfeeds, term>>

Update(u) == u \in robots /\ Say(Feed(u)) /\ UNCHANGED robots

Leave(u) == u \in robots /\ robots' = robots \ {u} /\ Say(Delete(u))

Lose ==
  /\ "loss" \in Faults /\ online
  /\ events < MaxEvents /\ events' = events + 1
  /\ online' = FALSE /\ \E k \in 0..Len(stream) : stream' = SubSeq(stream, 1, k)
  /\ UNCHANGED <<robots, state, pc, step, subject, rmfeeds, addfeeds, term>>

-----------------------------------------------------------------------------
(* poll_QoS and qosupdate.parse.                                           *)

\* What the first part of a line may pass for.
Halves(line) ==
  {Junk} \cup (CASE line.kind = "feed" -> {line, Feed(Stump)}
                 [] line.kind = "delete" -> {line, Delete(Stump)}
                 [] OTHER -> {})

\* What the loop of parse puts in one of its lists.
OfKind(lines, kind) ==
  LET f[n \in 0..Len(lines)] ==
        IF n = 0 THEN <<>>
        ELSE IF lines[n].kind = kind THEN Append(f[n - 1], lines[n]) ELSE f[n - 1]
  IN f[Len(lines)]

\* Mutant of Parse: only the first line after the header is looked at.
ParseFirst(lines) ==
  LET first == SubSeq(lines, 1, IF Len(lines) = 1 THEN 1 ELSE 2) IN
    [valid |-> Head(lines).kind = "time",
     rm    |-> OfKind(first, "delete"),
     add   |-> OfKind(first, "feed")]

\* The later headers of messages that came together are lines of no meaning.
Parse(lines) == [valid |-> Head(lines).kind = "time",
                 rm  |-> OfKind(lines, "delete"),
                 add |-> OfKind(lines, "feed")]

\* runserver goes on with update_feeds, or replies FAIL and polls again.
Handle(lines) ==
  LET parsed == Parse(lines) IN
    /\ rmfeeds'  = IF parsed.valid THEN parsed.rm ELSE <<>>
    /\ addfeeds' = IF parsed.valid THEN parsed.add ELSE <<>>
    /\ pc' = IF parsed.valid THEN "update" ELSE "poll"

\* Where one recv may end: after a message, or anywhere when messages are torn.
RecvEnds ==
  {k \in 1..Len(stream) : "tear" \in Faults \/ k = Len(stream) \/ stream[k + 1] = Time}

\* It returns whole lines, or the last one in part.
Poll ==
  /\ pc = "poll" /\ stream # <<>>
  /\ \E k \in RecvEnds :
       \/ stream' = SubSeq(stream, k + 1, Len(stream)) /\ Handle(SubSeq(stream, 1, k))
       \/ /\ "tear" \in Faults
          /\ stream' = <<Junk>> \o SubSeq(stream, k + 1, Len(stream))
          /\ \E half \in Halves(stream[k]) : Handle(Append(SubSeq(stream, 1, k - 1), half))
  /\ UNCHANGED <<robots, events, online, state, step, subject, term>>

\* connect_QoS and reconnect_QoS; the server then tells all the robots it has.
Connect ==
  /\ pc = "poll" /\ stream = <<>> /\ ~online
  /\ online' = TRUE /\ stream' = <<Time>> \o SetToSeq({Feed(u) : u \in robots})
  /\ UNCHANGED <<robots, events, state, pc, step, subject, rmfeeds, addfeeds, term>>

-----------------------------------------------------------------------------
(* update_feeds, launch_feed and kill_feed.                                *)

\* The local variables of calls that have ended.
Done   == step' = 0 /\ subject' = NoFeed
Forget == Done /\ rmfeeds' = <<>> /\ addfeeds' = <<>>

\* An exception.  It ends runserver, except where an except clause catches one
\* that the handler of SIGTERM raises in poll_QoS or do_archives.
Raise ==
  /\ mode' = CASE mode = "serve" -> "final"
               [] mode = "term" /\ resume \in {"poll", "archive"} -> "serve"
               [] mode = "term" -> "final"
               [] mode = "final" -> "over"
  /\ pc' = CASE mode' = "serve" -> (IF resume = "poll" THEN "poll" ELSE "reply")
             [] mode' = "over" -> "ended"
             [] OTHER -> "killserver"
  /\ Forget /\ UNCHANGED <<qos, state, resume>>

StartKill(f) == pc' = "kill" /\ step' = 1 /\ subject' = f

\* feeds.index raises ValueError for a feed that is not known.
RemoveFeed ==
  /\ pc = "update" /\ rmfeeds # <<>>
  /\ IF Head(rmfeeds).url \in Urls
     THEN /\ rmfeeds' = Tail(rmfeeds) /\ StartKill(FeedOf(Head(rmfeeds).url))
          /\ UNCHANGED <<qos, state, addfeeds, term>>
     ELSE Raise

StartLaunch(u) ==
  /\ subject' = [url |-> u, port |-> next_port]
  /\ feeds' = Append(feeds, subject') /\ pc' = "launch" /\ step' = 1

\* Mutants of AddFeed: a feed that is known is added again; the port is not advanced.
AddFeedAgain ==
  /\ pc = "update" /\ rmfeeds = <<>> /\ addfeeds # <<>>
  /\ addfeeds' = Tail(addfeeds) /\ StartLaunch(Head(addfeeds).url) /\ next_port' = next_port + 1
  /\ UNCHANGED <<qos, resources, published, rmfeeds, term>>
AddFeedSamePort ==
  /\ pc = "update" /\ rmfeeds = <<>> /\ addfeeds # <<>>
  /\ addfeeds' = Tail(addfeeds)
  /\ IF Head(addfeeds).url \in Urls THEN UNCHANGED <<feeds, subject, pc, step>>
     ELSE StartLaunch(Head(addfeeds).url)
  /\ UNCHANGED <<qos, next_port, resources, published, rmfeeds, term>>

AddFeed ==
  /\ pc = "update" /\ rmfeeds = <<>> /\ addfeeds # <<>>
  /\ addfeeds' = Tail(addfeeds)
  /\ IF Head(addfeeds).url \in Urls THEN UNCHANGED <<feeds, subject, next_port, pc, step>>
     ELSE StartLaunch(Head(addfeeds).url) /\ next_port' = next_port + 1
  /\ UNCHANGED <<qos, resources, published, rmfeeds, term>>

Updated ==
  /\ pc = "update" /\ rmfeeds = <<>> /\ addfeeds = <<>> /\ pc' = "archive"
  /\ UNCHANGED <<qos, state, step, subject, rmfeeds, addfeeds, term>>

\* Mutant of Launch: ffmpeg is not started.
LaunchShort ==
  /\ pc = "launch"
  /\ IF step >= Len(LaunchOrder)
     THEN published' = published \cup {subject.url} /\ pc' = "update" /\ Done /\ UNCHANGED resources
     ELSE /\ resources' = resources \cup {<<subject.port, LaunchOrder[step]>>} /\ step' = step + 1
          /\ UNCHANGED <<published, pc, subject>>
  /\ UNCHANGED <<qos, feeds, next_port, rmfeeds, addfeeds, term>>

Launch ==
  /\ pc = "launch"
  /\ IF step > Len(LaunchOrder)
     THEN published' = published \cup {subject.url} /\ pc' = "update" /\ Done /\ UNCHANGED resources
     ELSE /\ resources' = resources \cup {<<subject.port, LaunchOrder[step]>>} /\ step' = step + 1
          /\ UNCHANGED <<published, pc, subject>>
  /\ UNCHANGED <<qos, feeds, next_port, rmfeeds, addfeeds, term>>

\* Mutant of Kill: the feed is forgotten before its processes are.
KillForget ==
  /\ pc = "kill"
  /\ feeds' = SelectSeq(feeds, LAMBDA f : f # subject) /\ published' = published \ {subject.url}
  /\ pc' = (IF mode = "serve" THEN "update" ELSE "killserver") /\ Done
  /\ UNCHANGED <<qos, next_port, resources, rmfeeds, addfeeds, term>>

\* A process or file that is not there raises; an archive need not be there.
Kill ==
  /\ pc = "kill"
  /\ IF step > Len(KillOrder)
     THEN /\ feeds' = RemoveAt(feeds, PlaceOf(subject.url))
          /\ published' = published \ {subject.url}
          /\ pc' = (IF mode = "serve" THEN "update" ELSE "killserver") /\ Done
          /\ UNCHANGED <<qos, next_port, resources, rmfeeds, addfeeds, term>>
     ELSE IF KillOrder[step] = "archive" \/ <<subject.port, KillOrder[step]>> \in resources
     THEN /\ resources' = resources \ {<<subject.port, KillOrder[step]>>} /\ step' = step + 1
          /\ UNCHANGED <<qos, feeds, next_port, published, pc, subject, rmfeeds, addfeeds, term>>
     ELSE Raise

-----------------------------------------------------------------------------
(* do_archives, reply_to_QoS, killserver and SIGTERM.                      *)

\* The feeds whose quality is above the threshold, unless they are archived already.
DoArchives ==
  /\ pc = "archive"
  /\ \E good \in SUBSET {feeds[i].port : i \in DOMAIN feeds} :
       resources' = resources \cup {<<p, "archive">> : p \in good}
  /\ pc' = "reply"
  /\ UNCHANGED <<qos, feeds, next_port, published, step, subject, rmfeeds, addfeeds, term>>

\* If it fails the server reconnects, as the next poll would.
Reply ==
  /\ pc = "reply" /\ pc' = "poll"
  /\ UNCHANGED <<qos, state, step, subject, rmfeeds, addfeeds, term>>

\* In the handler, exit then ends runserver too and the finally clause finds no feed.
KillServer ==
  /\ pc = "killserver"
  /\ IF feeds # <<>> THEN StartKill(Head(feeds)) /\ UNCHANGED mode
     ELSE pc' = "ended" /\ mode' = "over" /\ UNCHANGED <<step, subject>>
  /\ UNCHANGED <<qos, state, rmfeeds, addfeeds, resume>>

\* Between any two steps.
Sigterm ==
  /\ "sigterm" \in Faults /\ mode = "serve"
  /\ mode' = "term" /\ resume' = IF pc = "poll" /\ stream = <<>> /\ ~online THEN "connect" ELSE pc
  /\ pc' = "killserver" /\ Forget /\ UNCHANGED <<qos, state>>

ServerStep == Poll \/ Connect \/ RemoveFeed \/ AddFeed \/ Updated \/ Launch \/ Kill \/ DoArchives \/ Reply \/ KillServer

\* Nothing is of interest once the server has ended.
Next ==
  /\ pc # "ended"
  /\ \/ \E u \in Url : Register(u) \/ Update(u) \/ Leave(u)
     \/ Lose \/ ServerStep \/ Sigterm

Spec == Init /\ [][Next]_vars

\* The only thread of the server goes on.
FairSpec == Spec /\ WF_vars(ServerStep)

-----------------------------------------------------------------------------

Line == [kind : {"time", "junk"}] \cup [kind : {"feed", "delete"}, url : Url \cup {Stump}]

TypeOK ==
  /\ robots \subseteq Url /\ events \in 0..MaxEvents /\ online \in BOOLEAN
  /\ stream \in Seq(Line) /\ rmfeeds \in Seq(Line) /\ addfeeds \in Seq(Line)
  /\ feeds \in Seq([url : Url \cup {Stump}, port : 1..(next_port - 1)])
  /\ resources \subseteq (1..(next_port - 1)) \X {"config", "ffserver", "ffmpeg", "archive"}
  /\ published \subseteq Url \cup {Stump}
  /\ pc \in {"poll", "update", "launch", "kill", "archive", "reply", "killserver", "ended"}
  /\ mode \in {"serve", "term", "final", "over"}

\* A camera has one feed and a feed a port of its own, so that no two ffservers
\* are bound to one port.
OneFeed ==
  \A i, j \in DOMAIN feeds : i # j => feeds[i].url # feeds[j].url /\ feeds[i].port # feeds[j].port

\* Every process and file belongs to a feed that is known, and so can be killed.
NoOrphan == \A r \in resources : \E i \in DOMAIN feeds : feeds[i].port = r[1]

\* When the server waits for the next message every feed streams and is
\* published, and nothing else is.
Streaming ==
  pc = "poll" => /\ published = Urls
                 /\ \A i \in DOMAIN feeds, k \in {"config", "ffserver", "ffmpeg"} :
                      <<feeds[i].port, k>> \in resources

\* What is reported is streamed, even if the report is lost with the connection,
\* unless a message was torn (what is left of it then comes first), the robot
\* leaves or the server ends.
ReportStreams ==
  [](stream # <<>> => Head(stream) = Time) =>
    \A u \in Url : Feed(u) \in Range(stream) ~> u \in Urls \/ u \notin robots \/ pc = "ended"

=============================================================================
