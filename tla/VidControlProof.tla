-------------------------- MODULE VidControlProof --------------------------
(***************************************************************************)
(* Proofs about the delivery server, for any cameras, any number of events *)
(* and whatever is lost, torn or interrupted: a camera has one feed and a  *)
(* feed its own port, every process belongs to a feed that is known, and   *)
(* when the server polls exactly the known feeds stream and are published. *)
(***************************************************************************)
EXTENDS VidControl, Induction, SequenceTheorems

Kinds  == {"config", "ffserver", "ffmpeg", "archive"}
Needed == {"config", "ffserver", "ffmpeg"}

Has(port, kind) == <<port, kind>> \in resources

Shape ==
  /\ next_port \in Nat \ {0} /\ \E S : feeds \in Seq(S)
  /\ \A i \in DOMAIN feeds : feeds[i].port \in 1..(next_port - 1)
  /\ \A q \in resources : q = <<q[1], q[2]>> /\ q[2] \in Kinds

\* Where the server is in each mode.
Modes ==
  /\ mode = "serve" => pc \in {"poll", "update", "launch", "kill", "archive", "reply"}
  /\ mode \in {"term", "final"} => pc \in {"killserver", "kill"}
  /\ mode \notin {"serve", "term", "final"} => pc = "ended"

\* Nothing was interrupted in the middle of launch_feed or kill_feed.
Unharmed == mode = "serve" \/ (mode = "term" /\ resume \in {"poll", "archive"})

Subject ==
  pc \in {"launch", "kill"} =>
    \E i \in DOMAIN feeds : feeds[i].url = subject.url /\ feeds[i].port = subject.port

\* What launch_feed has made, and kill_feed has left.
Launching ==
  pc = "launch" => /\ step \in 1..4
                   /\ \A j \in 1..3 : j < step => Has(subject.port, LaunchOrder[j])

Killing ==
  pc = "kill" =>
    /\ step \in 1..5
    /\ \A j \in 1..4 : j < step => ~ Has(subject.port, KillOrder[j])
    /\ Unharmed => \A j \in 1..4 : j >= step /\ KillOrder[j] # "archive" => Has(subject.port, KillOrder[j])

InWork(i) == pc \in {"launch", "kill"} /\ feeds[i].url = subject.url

\* All feeds stream but the one in work, and all are published but the one
\* being launched.
Complete ==
  /\ published = {feeds[i].url : i \in {j \in DOMAIN feeds : ~ (pc = "launch" /\ InWork(j))}}
  /\ \A i \in DOMAIN feeds : InWork(i) \/ \A k \in Needed : Has(feeds[i].port, k)

Whole == Unharmed => Complete

CtlInv == Shape /\ Modes /\ OneFeed /\ NoOrphan /\ Subject /\ Launching /\ Killing /\ Whole

-----------------------------------------------------------------------------
(* The list of feeds.                                                      *)

\* A sequence without its element at k.
LEMMA RemoveShifts ==
  ASSUME NEW S, NEW s \in Seq(S), NEW k \in DOMAIN s
  PROVE  /\ RemoveAt(s, k) \in Seq(S) /\ Len(s) \in Nat /\ DOMAIN s = 1..Len(s)
         /\ DOMAIN RemoveAt(s, k) = 1..(Len(s) - 1)
         /\ \A j \in 1..(Len(s) - 1) : RemoveAt(s, k)[j] = s[IF j < k THEN j ELSE j + 1]
<1>1. k \in 1..Len(s) /\ Len(s) \in Nat
  OBVIOUS
<1> DEFINE front == SubSeq(s, 1, k - 1)
           back  == SubSeq(s, k + 1, Len(s))
<1>2. front \in Seq(S) /\ Len(front) = k - 1 /\ \A j \in 1..(k - 1) : front[j] = s[j]
  BY <1>1
<1>3. back \in Seq(S) /\ Len(back) = Len(s) - k /\ \A j \in 1..(Len(s) - k) : back[j] = s[k + j]
  BY <1>1
<1>4. RemoveAt(s, k) = front \o back
  BY DEF RemoveAt
<1> HIDE DEF front, back
<1>5. /\ front \o back \in Seq(S)
      /\ Len(front \o back) = Len(s) - 1
      /\ \A j \in 1..(Len(s) - 1) :
           (front \o back)[j] = IF j <= k - 1 THEN front[j] ELSE back[j - (k - 1)]
  <2>1. front \in Seq(S) /\ back \in Seq(S) /\ Len(front) = k - 1 /\ Len(back) = Len(s) - k
    BY <1>2, <1>3
  <2>2. /\ front \o back \in Seq(S)
        /\ Len(front \o back) = Len(front) + Len(back)
        /\ \A j \in 1..(Len(front) + Len(back)) :
             (front \o back)[j] = IF j <= Len(front) THEN front[j] ELSE back[j - Len(front)]
    BY <2>1, ConcatProperties
  <2>3. Len(front) + Len(back) = Len(s) - 1
    BY <1>1, <2>1
  <2>4. QED
    BY <2>1, <2>2, <2>3
<1>6. ASSUME NEW j \in 1..(Len(s) - 1) PROVE (front \o back)[j] = s[IF j < k THEN j ELSE j + 1]
  <2>1. CASE j < k
    BY <1>1, <1>2, <1>5, <2>1
  <2>2. CASE ~ (j < k)
    <3>1. (front \o back)[j] = back[j - (k - 1)]
      BY <1>1, <1>5, <2>2
    <3>2. j - (k - 1) \in 1..(Len(s) - k) /\ k + (j - (k - 1)) = j + 1
      BY <1>1, <2>2
    <3>3. QED
      BY <1>1, <1>3, <2>2, <3>1, <3>2
  <2>3. QED
    BY <2>1, <2>2
<1>7. DOMAIN (front \o back) = 1..(Len(s) - 1)
  BY <1>5
<1>8. QED
  BY <1>1, <1>4, <1>5, <1>6, <1>7

\* The place of a URL is where its only feed is.
LEMMA PlaceFound ==
  ASSUME Shape, OneFeed, NEW k \in DOMAIN feeds
  PROVE  PlaceOf(feeds[k].url) = k
<1> DEFINE I == {i \in 1..Len(feeds) : feeds[i].url = feeds[k].url}
<1>1. k \in 1..Len(feeds) /\ k \in Int /\ DOMAIN feeds = 1..Len(feeds)
  BY DEF Shape
<1>2. I = {k}
  BY <1>1 DEF OneFeed
<1> HIDE DEF I
<1>3. Min(I) = k
  BY <1>1, <1>2 DEF Min
<1>4. PlaceOf(feeds[k].url) = IF I # {} THEN Min(I) ELSE 0
  BY DEF PlaceOf, SelectInSeq, I
<1>5. QED
  BY <1>2, <1>3, <1>4

\* A feed that is removed leaves the others.
LEMMA Forgotten ==
  ASSUME Shape, OneFeed, NEW k \in DOMAIN feeds, feeds' = RemoveAt(feeds, k)
  PROVE  /\ \E S : feeds' \in Seq(S)
         /\ OneFeed'
         /\ \A j \in DOMAIN feeds' : \E i \in DOMAIN feeds : i # k /\ feeds'[j] = feeds[i]
         /\ \A i \in DOMAIN feeds : i # k => \E j \in DOMAIN feeds' : feeds'[j] = feeds[i]
<1>1. PICK S : feeds \in Seq(S)
  BY DEF Shape
<1> DEFINE old(j) == IF j < k THEN j ELSE j + 1
<1>2. /\ feeds' \in Seq(S) /\ Len(feeds) \in Nat /\ DOMAIN feeds = 1..Len(feeds) /\ k \in 1..Len(feeds)
      /\ DOMAIN feeds' = 1..(Len(feeds) - 1)
      /\ \A j \in 1..(Len(feeds) - 1) : feeds'[j] = feeds[old(j)]
  BY <1>1, RemoveShifts
<1>3. \A j \in 1..(Len(feeds) - 1) : old(j) \in DOMAIN feeds /\ old(j) # k
  BY <1>2
<1>4. \A i, j \in 1..(Len(feeds) - 1) : i # j => old(i) # old(j)
  BY <1>2
<1>5. \A i \in DOMAIN feeds : i # k => \E j \in 1..(Len(feeds) - 1) : old(j) = i
  <2> SUFFICES ASSUME NEW i \in DOMAIN feeds, i # k PROVE \E j \in 1..(Len(feeds) - 1) : old(j) = i
    OBVIOUS
  <2>1. CASE i < k
    <3>1. i \in 1..(Len(feeds) - 1) /\ old(i) = i
      BY <1>2, <2>1
    <3>2. QED
      BY <3>1
  <2>2. CASE i > k
    <3>1. i - 1 \in 1..(Len(feeds) - 1) /\ old(i - 1) = i
      BY <1>2, <2>2
    <3>2. QED
      BY <3>1
  <2>3. QED
    BY <1>2, <2>1, <2>2
<1> HIDE DEF old
<1>6. OneFeed'
  BY <1>2, <1>3, <1>4 DEF OneFeed
<1>7. QED
  BY <1>2, <1>3, <1>5, <1>6

\* A feed that is added is the last.
LEMMA Added ==
  ASSUME Shape, NEW f, feeds' = Append(feeds, f)
  PROVE  /\ \E S : feeds' \in Seq(S)
         /\ DOMAIN feeds \subseteq DOMAIN feeds' /\ \A i \in DOMAIN feeds : feeds'[i] = feeds[i]
         /\ Len(feeds) + 1 \in DOMAIN feeds' \ DOMAIN feeds /\ feeds'[Len(feeds) + 1] = f
         /\ \A i \in DOMAIN feeds' : i \in DOMAIN feeds \/ i = Len(feeds) + 1
<1>1. PICK S : feeds \in Seq(S)
  BY DEF Shape
<1>2. feeds \in Seq(S \cup {f})
  BY <1>1
<1>3. QED
  BY <1>2

-----------------------------------------------------------------------------
(* The steps.                                                              *)

LEMMA CtlInit ==
  ASSUME Init PROVE CtlInv
<1>1. feeds \in Seq({}) /\ DOMAIN feeds = {} /\ published = {} /\ resources = {} /\ next_port = 1
      /\ pc = "poll" /\ mode = "serve"
  BY DEF Init
<1>2. Shape
  BY <1>1 DEF Shape
<1>3. QED
  BY <1>1, <1>2 DEF CtlInv, Modes, OneFeed, NoOrphan, Subject, Launching, Killing, Whole, Complete, InWork

\* A step that touches no feed, and is not in the middle of one afterwards.
LEMMA QuietStep ==
  ASSUME CtlInv, UNCHANGED state, pc' \notin {"launch", "kill"}, Modes',
         Unharmed' => Unharmed /\ pc \notin {"launch", "kill"}
  PROVE  CtlInv'
<1>1. Shape' /\ OneFeed' /\ NoOrphan'
  BY DEF CtlInv, Shape, OneFeed, NoOrphan, state
<1>2. Subject' /\ Launching' /\ Killing'
  BY DEF Subject, Launching, Killing
<1>3. Whole'
  <2> SUFFICES ASSUME Unharmed' PROVE Complete'
    BY DEF Whole
  <2>1. Complete
    BY DEF Whole, CtlInv
  <2>2. feeds' = feeds /\ published' = published /\ resources' = resources
    BY DEF state
  <2>3. QED
    BY <2>1, <2>2 DEF Complete, InWork, Has
<1>4. QED
  BY <1>1, <1>2, <1>3 DEF CtlInv

\* The kill of a feed begins.
LEMMA KillBegins ==
  ASSUME CtlInv, pc \notin {"launch", "kill"}, mode \in {"serve", "term", "final"},
         NEW k \in DOMAIN feeds, StartKill(feeds[k]), UNCHANGED <<state, term>>
  PROVE  CtlInv'
<1>1. Shape' /\ OneFeed' /\ NoOrphan'
  BY DEF CtlInv, Shape, OneFeed, NoOrphan, state
<1>2. Modes' /\ Subject' /\ Launching'
  BY DEF Modes, Subject, Launching, StartKill, state, term
<1>3. feeds' = feeds /\ published' = published /\ resources' = resources /\ (Unharmed' <=> Unharmed)
  BY DEF state, term, Unharmed
<1>4. pc' = "kill" /\ step' = 1 /\ subject' = feeds[k]
  BY DEF StartKill
<1>5. Unharmed => /\ published = {feeds[i].url : i \in DOMAIN feeds}
                  /\ \A i \in DOMAIN feeds : \A q \in Needed : Has(feeds[i].port, q)
  BY DEF Whole, Complete, CtlInv, InWork
<1>6. Whole'
  BY <1>3, <1>4, <1>5 DEF Whole, Complete, InWork, Has
<1>7. Killing'
  <2>1. \A j \in 1..4 : KillOrder[j] # "archive" => KillOrder[j] \in Needed
    BY DEF KillOrder, Needed
  <2>2. Unharmed' => \A j \in 1..4 : KillOrder[j] # "archive" => Has(subject.port, KillOrder[j])'
    BY <1>3, <1>4, <1>5, <2>1 DEF Has
  <2>3. QED
    BY <1>4, <2>2 DEF Killing
<1>8. QED
  BY <1>1, <1>2, <1>6, <1>7 DEF CtlInv

LEMMA RaiseStep ==
  ASSUME CtlInv, Raise, pc \in {"update", "kill"}, Unharmed => mode = "serve"
  PROVE  CtlInv'
<1>1. UNCHANGED state /\ resume' = resume
  BY DEF Raise
<1>2. mode \in {"serve", "term", "final"}
  BY DEF Modes, CtlInv
<1>3. mode' \in {"final", "over"}
  BY <1>2 DEF Raise, Unharmed
<1>4. pc' = IF mode' = "over" THEN "ended" ELSE "killserver"
  BY <1>3 DEF Raise
<1>5. Modes' /\ ~ Unharmed'
  BY <1>3, <1>4 DEF Modes, Unharmed
<1>6. QED
  BY <1>1, <1>3, <1>4, <1>5, QuietStep

\* The feed in work is where its port and its URL are.
LEMMA SubjectPlace ==
  ASSUME CtlInv, pc \in {"launch", "kill"}
  PROVE  \E k \in DOMAIN feeds :
           /\ feeds[k].url = subject.url /\ feeds[k].port = subject.port
           /\ PlaceOf(subject.url) = k
           /\ \A i \in DOMAIN feeds :
                i # k => feeds[i].url # subject.url /\ feeds[i].port # subject.port
<1>1. PICK k \in DOMAIN feeds : feeds[k].url = subject.url /\ feeds[k].port = subject.port
  BY DEF CtlInv, Subject
<1>2. PlaceOf(feeds[k].url) = k
  BY PlaceFound DEF CtlInv
<1>3. \A i \in DOMAIN feeds : i # k => feeds[i].url # subject.url /\ feeds[i].port # subject.port
  BY <1>1 DEF CtlInv, OneFeed
<1>4. QED
  BY <1>1, <1>2, <1>3

LEMMA LaunchStep ==
  ASSUME CtlInv, Launch
  PROVE  CtlInv'
<1>1. PICK k \in DOMAIN feeds :
        /\ feeds[k].url = subject.url /\ feeds[k].port = subject.port
        /\ \A i \in DOMAIN feeds :
             i # k => feeds[i].url # subject.url /\ feeds[i].port # subject.port
  BY SubjectPlace DEF Launch
<1>2. pc = "launch" /\ mode = "serve" /\ Unharmed /\ Complete
  BY DEF Launch, CtlInv, Modes, Unharmed, Whole
<1>3. step \in 1..4 /\ \A j \in 1..3 : j < step => Has(subject.port, LaunchOrder[j])
  BY <1>2 DEF CtlInv, Launching
<1>4. feeds' = feeds /\ next_port' = next_port /\ mode' = mode /\ OneFeed'
  BY DEF Launch, state, term, CtlInv, OneFeed
<1>5. Len(LaunchOrder) = 3
  BY DEF LaunchOrder
<1>6. CASE step = 4
  <2>1. published' = published \cup {subject.url} /\ pc' = "update" /\ resources' = resources
    BY <1>5, <1>6 DEF Launch
  <2>2. Shape' /\ NoOrphan'
    BY <1>4, <2>1 DEF CtlInv, Shape, NoOrphan
  <2>3. Modes' /\ Subject' /\ Launching' /\ Killing'
    BY <1>2, <1>4, <2>1 DEF Modes, Subject, Launching, Killing
  <2>4. published = {feeds[i].url : i \in {j \in DOMAIN feeds : feeds[j].url # subject.url}}
    BY <1>2 DEF Complete, InWork
  <2>5. published' = {feeds[i].url : i \in DOMAIN feeds}
    BY <1>1, <2>1, <2>4
  <2>6. \A q \in Needed : Has(subject.port, q)
    BY <1>3, <1>6 DEF Needed, LaunchOrder
  <2>7. \A i \in DOMAIN feeds : \A q \in Needed : Has(feeds[i].port, q)
    BY <1>1, <1>2, <2>6 DEF Complete, InWork
  <2>8. Whole'
    BY <1>4, <2>1, <2>5, <2>7 DEF Whole, Complete, InWork, Has
  <2>9. QED
    BY <1>4, <2>2, <2>3, <2>8 DEF CtlInv
<1>7. CASE step \in 1..3
  <2>1. /\ resources' = resources \cup {<<subject.port, LaunchOrder[step]>>} /\ step' = step + 1
        /\ published' = published /\ pc' = pc /\ subject' = subject
    BY <1>5, <1>7 DEF Launch
  <2>2. LaunchOrder[step] \in Kinds
    BY <1>7 DEF LaunchOrder, Kinds
  <2>3. Shape' /\ NoOrphan'
    <3>1. Shape'
      BY <1>4, <2>1, <2>2 DEF CtlInv, Shape
    <3>2. NoOrphan'
      BY <1>1, <1>4, <2>1 DEF CtlInv, NoOrphan
    <3>3. QED
      BY <3>1, <3>2
  <2>4. Modes' /\ Subject' /\ Killing'
    BY <1>2, <1>4, <2>1 DEF CtlInv, Modes, Subject, Killing
  <2>5. Launching'
    <3>1. step' \in 1..4
      BY <1>7, <2>1
    <3>2. ASSUME NEW j \in 1..3, j < step' PROVE Has(subject.port, LaunchOrder[j])'
      <4>1. j < step \/ j = step
        BY <1>7, <2>1, <3>2
      <4>2. QED
        BY <1>3, <2>1, <4>1 DEF Has
    <3>3. QED
      BY <3>1, <3>2 DEF Launching
  <2>6. Whole'
    BY <1>2, <1>4, <2>1 DEF Whole, Complete, InWork, Has
  <2>7. QED
    BY <1>4, <2>3, <2>4, <2>5, <2>6 DEF CtlInv
<1>8. QED
  BY <1>3, <1>6, <1>7

\* The removal of the processes and files of a feed, one at a time.
LEMMA KillGoesOn ==
  ASSUME CtlInv, pc = "kill", step \in 1..4,
         resources' = resources \ {<<subject.port, KillOrder[step]>>}, step' = step + 1,
         UNCHANGED <<feeds, next_port, published, pc, subject, mode, resume>>
  PROVE  CtlInv'
<1>1. PICK k \in DOMAIN feeds :
        /\ feeds[k].url = subject.url /\ feeds[k].port = subject.port
        /\ \A i \in DOMAIN feeds :
             i # k => feeds[i].url # subject.url /\ feeds[i].port # subject.port
  BY SubjectPlace
<1>2. Shape' /\ OneFeed' /\ NoOrphan' /\ Modes' /\ Subject' /\ Launching'
  BY DEF CtlInv, Shape, OneFeed, NoOrphan, Modes, Subject, Launching
<1>3. Killing'
  <2>1. step' \in 1..5
    OBVIOUS
  <2>2. ASSUME NEW j \in 1..4, j < step' PROVE ~ Has(subject.port, KillOrder[j])'
    <3>1. j < step \/ j = step
      BY <2>2
    <3>2. QED
      BY <3>1 DEF CtlInv, Killing, Has
  <2>3. ASSUME Unharmed', NEW j \in 1..4, j >= step', KillOrder[j] # "archive"
        PROVE  Has(subject.port, KillOrder[j])'
    <3>1. j >= step /\ j # step
      BY <2>3
    <3>2. KillOrder[j] # KillOrder[step]
      BY <3>1 DEF KillOrder
    <3>3. Has(subject.port, KillOrder[j])
      BY <2>3, <3>1 DEF CtlInv, Killing, Unharmed
    <3>4. QED
      BY <3>2, <3>3 DEF Has
  <2>4. QED
    BY <2>1, <2>2, <2>3 DEF Killing
<1>4. Whole'
  <2> SUFFICES ASSUME Unharmed' PROVE Complete'
    BY DEF Whole
  <2>1. Complete
    BY DEF CtlInv, Whole, Unharmed
  <2>2. published' = {feeds'[i].url : i \in {j \in DOMAIN feeds' : ~ (pc' = "launch" /\ InWork(j)')}}
    BY <2>1 DEF Complete, InWork
  <2>3. ASSUME NEW i \in DOMAIN feeds, feeds[i].url # subject.url, NEW q \in Needed
        PROVE  Has(feeds[i].port, q)'
    <3>1. feeds[i].port # subject.port /\ Has(feeds[i].port, q)
      BY <1>1, <2>1, <2>3 DEF Complete, InWork
    <3>2. QED
      BY <3>1 DEF Has
  <2>4. QED
    BY <2>2, <2>3 DEF Complete, InWork, Has
<1>5. QED
  BY <1>2, <1>3, <1>4 DEF CtlInv

\* The feed is forgotten when nothing of it is left.
LEMMA KillEnds ==
  ASSUME CtlInv, pc = "kill", step = 5,
         feeds' = RemoveAt(feeds, PlaceOf(subject.url)), published' = published \ {subject.url},
         pc' = (IF mode = "serve" THEN "update" ELSE "killserver"),
         UNCHANGED <<next_port, resources, mode, resume>>
  PROVE  CtlInv'
<1>1. PICK k \in DOMAIN feeds :
        /\ feeds[k].url = subject.url /\ feeds[k].port = subject.port
        /\ PlaceOf(subject.url) = k
        /\ \A i \in DOMAIN feeds :
             i # k => feeds[i].url # subject.url /\ feeds[i].port # subject.port
  BY SubjectPlace
<1>2. /\ \E S : feeds' \in Seq(S)
      /\ OneFeed'
      /\ \A j \in DOMAIN feeds' : \E i \in DOMAIN feeds : i # k /\ feeds'[j] = feeds[i]
      /\ \A i \in DOMAIN feeds : i # k => \E j \in DOMAIN feeds' : feeds'[j] = feeds[i]
  BY <1>1, Forgotten DEF CtlInv
<1>3. Shape'
  BY <1>2 DEF CtlInv, Shape
<1>4. mode \in {"serve", "term", "final"}
  BY DEF CtlInv, Modes
<1>5. Modes' /\ Subject' /\ Launching' /\ Killing'
  BY <1>4 DEF Modes, Subject, Launching, Killing
<1>6. NoOrphan'
  <2> SUFFICES ASSUME NEW r \in resources PROVE \E j \in DOMAIN feeds' : feeds'[j].port = r[1]
    BY DEF NoOrphan
  <2>1. r = <<r[1], r[2]>> /\ r[2] \in Kinds
    BY DEF CtlInv, Shape
  <2>2. \A kind \in Kinds : ~ Has(subject.port, kind)
    <3>1. \A j \in 1..4 : ~ Has(subject.port, KillOrder[j])
      BY DEF CtlInv, Killing
    <3>2. \A kind \in Kinds : \E j \in 1..4 : kind = KillOrder[j]
      BY DEF Kinds, KillOrder
    <3>3. QED
      BY <3>1, <3>2
  <2>3. r[1] # subject.port
    BY <2>1, <2>2 DEF Has
  <2>4. PICK i \in DOMAIN feeds : feeds[i].port = r[1]
    BY DEF CtlInv, NoOrphan
  <2>5. i # k
    BY <1>1, <2>3, <2>4
  <2>6. QED
    BY <1>2, <2>4, <2>5
<1>7. Whole'
  <2> SUFFICES ASSUME Unharmed' PROVE Complete'
    BY DEF Whole
  <2>1. Complete
    BY DEF CtlInv, Whole, Unharmed
  <2>2. pc' \notin {"launch", "kill"}
    OBVIOUS
  <2>3. published = {feeds[i].url : i \in DOMAIN feeds}
    BY <2>1 DEF Complete, InWork
  <2>4. published' = {feeds'[j].url : j \in DOMAIN feeds'}
    <3>1. ASSUME NEW u \in published' PROVE \E j \in DOMAIN feeds' : feeds'[j].url = u
      <4>1. PICK i \in DOMAIN feeds : feeds[i].url = u
        BY <2>3, <3>1
      <4>2. i # k
        BY <1>1, <3>1, <4>1
      <4>3. QED
        BY <1>2, <4>1, <4>2
    <3>2. ASSUME NEW j \in DOMAIN feeds' PROVE feeds'[j].url \in published'
      <4>1. PICK i \in DOMAIN feeds : i # k /\ feeds'[j] = feeds[i]
        BY <1>2
      <4>2. QED
        BY <1>1, <2>3, <4>1
    <3>3. QED
      BY <3>1, <3>2
  <2>5. ASSUME NEW j \in DOMAIN feeds', NEW q \in Needed PROVE Has(feeds[j].port, q)'
    <3>1. PICK i \in DOMAIN feeds : i # k /\ feeds'[j] = feeds[i]
      BY <1>2
    <3>2. Has(feeds[i].port, q)
      BY <1>1, <2>1, <3>1 DEF Complete, InWork
    <3>3. QED
      BY <3>1, <3>2 DEF Has
  <2>6. QED
    BY <2>2, <2>4, <2>5 DEF Complete, InWork
<1>8. QED
  BY <1>2, <1>3, <1>5, <1>6, <1>7 DEF CtlInv

LEMMA KillStep ==
  ASSUME CtlInv, Kill
  PROVE  CtlInv'
<1>1. pc = "kill" /\ step \in 1..5 /\ Len(KillOrder) = 4
  BY DEF Kill, CtlInv, Killing, KillOrder
<1>2. CASE step = 5
  <2>1. /\ feeds' = RemoveAt(feeds, PlaceOf(subject.url)) /\ published' = published \ {subject.url}
        /\ pc' = (IF mode = "serve" THEN "update" ELSE "killserver")
        /\ UNCHANGED <<next_port, resources, mode, resume>>
    BY <1>1, <1>2 DEF Kill, term
  <2>2. QED
    BY <1>1, <1>2, <2>1, KillEnds
<1>3. CASE step \in 1..4
  <2>1. CASE KillOrder[step] = "archive" \/ <<subject.port, KillOrder[step]>> \in resources
    <3>1. /\ resources' = resources \ {<<subject.port, KillOrder[step]>>} /\ step' = step + 1
          /\ UNCHANGED <<feeds, next_port, published, pc, subject, mode, resume>>
      BY <1>1, <1>3, <2>1 DEF Kill, term
    <3>2. QED
      BY <1>1, <1>3, <3>1, KillGoesOn
  <2>2. CASE ~ (KillOrder[step] = "archive" \/ <<subject.port, KillOrder[step]>> \in resources)
    <3>1. Raise
      BY <1>1, <1>3, <2>2 DEF Kill
    <3>2. ~ Unharmed
      BY <1>1, <1>3, <2>2 DEF CtlInv, Killing, Has
    <3>3. QED
      BY <1>1, <3>1, <3>2, RaiseStep
  <2>3. QED
    BY <2>1, <2>2
<1>4. QED
  BY <1>1, <1>2, <1>3

LEMMA AddStep ==
  ASSUME CtlInv, AddFeed
  PROVE  CtlInv'
<1>1. pc = "update" /\ mode = "serve" /\ Unharmed /\ Complete
  BY DEF AddFeed, CtlInv, Modes, Unharmed, Whole
<1>2. resources' = resources /\ published' = published /\ mode' = mode /\ resume' = resume
  BY DEF AddFeed, term
<1>3. CASE Head(addfeeds).url \in Urls
  <2>1. UNCHANGED state /\ pc' = pc
    BY <1>3 DEF AddFeed, state
  <2>2. QED
    BY <1>1, <1>2, <2>1, QuietStep DEF Modes, CtlInv
<1>4. CASE Head(addfeeds).url \notin Urls
  <2> DEFINE u == Head(addfeeds).url
             n == Len(feeds) + 1
  <2>1. /\ subject' = [url |-> u, port |-> next_port] /\ feeds' = Append(feeds, subject')
        /\ pc' = "launch" /\ step' = 1 /\ next_port' = next_port + 1
    BY <1>4 DEF AddFeed, StartLaunch
  <2>2. /\ \E S : feeds' \in Seq(S)
        /\ DOMAIN feeds \subseteq DOMAIN feeds' /\ \A i \in DOMAIN feeds : feeds'[i] = feeds[i]
        /\ n \in DOMAIN feeds' \ DOMAIN feeds /\ feeds'[n] = subject'
        /\ \A i \in DOMAIN feeds' : i \in DOMAIN feeds \/ i = n
    BY <2>1, Added DEF CtlInv
  <2>3. \A i \in DOMAIN feeds : feeds[i].url # u
    BY <1>4 DEF Urls
  <2> HIDE DEF u, n
  <2>4. /\ next_port \in Nat \ {0}
        /\ \A i \in DOMAIN feeds : feeds[i].port \in 1..(next_port - 1) /\ feeds[i].port # next_port
    BY DEF CtlInv, Shape
  <2>5. feeds'[n].url = u /\ feeds'[n].port = next_port
    BY <2>1, <2>2
  <2>6. Shape'
    <3>1. next_port' \in Nat \ {0} /\ next_port' - 1 = next_port
      BY <2>1, <2>4
    <3>2. \A i \in DOMAIN feeds' : feeds'[i].port \in 1..(next_port' - 1)
      BY <2>2, <2>4, <2>5, <3>1
    <3>3. QED
      BY <1>2, <2>2, <3>1, <3>2 DEF CtlInv, Shape
  <2>7. OneFeed'
    BY <2>2, <2>3, <2>4, <2>5 DEF CtlInv, OneFeed
  <2>8. NoOrphan'
    BY <1>2, <2>2 DEF CtlInv, NoOrphan
  <2>9. Modes' /\ Subject' /\ Launching' /\ Killing'
    BY <1>1, <1>2, <2>1, <2>2 DEF Modes, Subject, Launching, Killing
  <2>10. Whole'
    <3>1. published = {feeds[i].url : i \in DOMAIN feeds}
      BY <1>1 DEF Complete, InWork
    <3>2. subject'.url = u
      BY <2>1
    <3>3. published' = {feeds'[i].url : i \in {j \in DOMAIN feeds' : feeds'[j].url # u}}
      BY <1>2, <2>2, <2>3, <2>5, <3>1
    <3>4. \A i \in DOMAIN feeds' : feeds'[i].url = u \/ \A q \in Needed : Has(feeds[i].port, q)'
      BY <1>1, <1>2, <2>2, <2>5 DEF Complete, InWork, Has
    <3>5. QED
      BY <2>1, <3>2, <3>3, <3>4 DEF Whole, Complete, InWork
  <2>11. QED
    BY <2>6, <2>7, <2>8, <2>9, <2>10 DEF CtlInv
<1>5. QED
  BY <1>3, <1>4

LEMMA ArchiveStep ==
  ASSUME CtlInv, DoArchives
  PROVE  CtlInv'
<1>1. PICK good \in SUBSET {feeds[i].port : i \in DOMAIN feeds} :
        resources' = resources \cup {<<p, "archive">> : p \in good}
  BY DEF DoArchives
<1>2. /\ pc = "archive" /\ mode = "serve" /\ pc' = "reply"
      /\ UNCHANGED <<feeds, next_port, published, mode, resume>>
  BY DEF DoArchives, CtlInv, Modes, term
<1>3. Shape' /\ OneFeed'
  BY <1>1, <1>2 DEF CtlInv, Shape, OneFeed, Kinds
<1>4. NoOrphan'
  BY <1>1, <1>2 DEF CtlInv, NoOrphan
<1>5. Modes' /\ Subject' /\ Launching' /\ Killing'
  BY <1>2 DEF Modes, Subject, Launching, Killing
<1>6. Whole'
  BY <1>1, <1>2 DEF CtlInv, Whole, Unharmed, Complete, InWork, Has
<1>7. QED
  BY <1>3, <1>4, <1>5, <1>6 DEF CtlInv

LEMMA RemoveFeedStep ==
  ASSUME CtlInv, RemoveFeed
  PROVE  CtlInv'
<1>1. pc = "update" /\ mode = "serve"
  BY DEF RemoveFeed, CtlInv, Modes
<1>2. CASE Head(rmfeeds).url \in Urls
  <2>1. PICK k \in DOMAIN feeds : feeds[k].url = Head(rmfeeds).url
    BY <1>2 DEF Urls
  <2>2. PlaceOf(feeds[k].url) = k
    BY PlaceFound DEF CtlInv
  <2>3. StartKill(feeds[k]) /\ UNCHANGED <<state, term>>
    BY <1>2, <2>1, <2>2 DEF RemoveFeed, FeedOf
  <2>4. QED
    BY <1>1, <2>3, KillBegins
<1>3. CASE Head(rmfeeds).url \notin Urls
  BY <1>1, <1>3, RaiseStep DEF RemoveFeed
<1>4. QED
  BY <1>2, <1>3

LEMMA KillServerStep ==
  ASSUME CtlInv, KillServer
  PROVE  CtlInv'
<1>1. pc = "killserver" /\ mode \in {"term", "final"} /\ resume' = resume /\ UNCHANGED state
  BY DEF KillServer, CtlInv, Modes
<1>2. CASE feeds # <<>>
  <2>1. 1 \in DOMAIN feeds /\ Head(feeds) = feeds[1]
    BY <1>2 DEF CtlInv, Shape
  <2>2. StartKill(feeds[1]) /\ UNCHANGED term
    BY <1>1, <1>2, <2>1 DEF KillServer, term
  <2>3. QED
    BY <1>1, <2>1, <2>2, KillBegins
<1>3. CASE feeds = <<>>
  <2>1. pc' = "ended" /\ mode' = "over"
    BY <1>3 DEF KillServer
  <2>2. Modes' /\ ~ Unharmed'
    BY <2>1 DEF Modes, Unharmed
  <2>3. QED
    BY <1>1, <2>1, <2>2, QuietStep
<1>4. QED
  BY <1>2, <1>3

LEMMA SigtermStep ==
  ASSUME CtlInv, Sigterm
  PROVE  CtlInv'
<1>1. /\ mode = "serve" /\ mode' = "term" /\ pc' = "killserver" /\ UNCHANGED state
      /\ resume' = IF pc = "poll" /\ stream = <<>> /\ ~online THEN "connect" ELSE pc
  BY DEF Sigterm
<1>2. Unharmed' => Unharmed /\ pc \notin {"launch", "kill"}
  BY <1>1 DEF Unharmed
<1>3. Modes'
  BY <1>1 DEF Modes
<1>4. QED
  BY <1>1, <1>2, <1>3, QuietStep

\* The events at the QoS server: the delivery server does nothing.
LEMMA EventStep ==
  ASSUME CtlInv, UNCHANGED <<state, pc, step, subject, term>>
  PROVE  CtlInv'
<1>1. UNCHANGED <<feeds, next_port, resources, published, pc, step, subject, mode, resume>>
  BY DEF state, term
<1>2. Shape' /\ Modes' /\ OneFeed' /\ NoOrphan' /\ Subject'
  BY <1>1 DEF CtlInv, Shape, Modes, OneFeed, NoOrphan, Subject
<1>3. Launching' /\ Killing' /\ Whole'
  BY <1>1 DEF CtlInv, Launching, Killing, Unharmed, Whole, Complete, InWork, Has
<1>4. QED
  BY <1>2, <1>3 DEF CtlInv

\* The steps from one call of runserver to the next.
LEMMA ServeStep ==
  ASSUME CtlInv, Poll \/ Connect \/ Updated \/ Reply
  PROVE  CtlInv'
<1>1. /\ pc \in {"poll", "update", "reply"} /\ pc' \in {"poll", "update", "archive"}
      /\ UNCHANGED <<state, term>>
  <2>1. CASE Poll
    <3>1. PICK k \in RecvEnds :
            \/ stream' = SubSeq(stream, k + 1, Len(stream)) /\ Handle(SubSeq(stream, 1, k))
            \/ /\ "tear" \in Faults
               /\ stream' = <<Junk>> \o SubSeq(stream, k + 1, Len(stream))
               /\ \E half \in Halves(stream[k]) : Handle(Append(SubSeq(stream, 1, k - 1), half))
      BY <2>1 DEF Poll
    <3>2. PICK lines : Handle(lines)
      BY <3>1
    <3>3. pc' \in {"poll", "update"}
      BY <3>2, Zenon DEF Handle
    <3>4. QED
      BY <2>1, <3>3 DEF Poll
  <2>2. CASE Connect
    BY <2>2 DEF Connect
  <2>3. CASE Updated
    BY <2>3 DEF Updated
  <2>4. CASE Reply
    BY <2>4 DEF Reply
  <2>5. QED
    BY <2>1, <2>2, <2>3, <2>4
<1>2. mode = "serve" /\ mode' = mode /\ resume' = resume
  BY <1>1 DEF CtlInv, Modes, term
<1>3. Modes' /\ Unharmed
  BY <1>1, <1>2 DEF Modes, Unharmed
<1>4. QED
  BY <1>1, <1>3, QuietStep

LEMMA CtlStep ==
  ASSUME CtlInv, [Next]_vars
  PROVE  CtlInv'
<1>1. CASE \E u \in Url : Register(u) \/ Update(u) \/ Leave(u)
  BY <1>1, EventStep DEF Register, Update, Leave, Say
<1>2. CASE Lose
  BY <1>2, EventStep DEF Lose
<1>3. CASE Poll \/ Connect \/ Updated \/ Reply
  BY <1>3, ServeStep
<1>4. CASE RemoveFeed
  BY <1>4, RemoveFeedStep
<1>5. CASE AddFeed
  BY <1>5, AddStep
<1>6. CASE Launch
  BY <1>6, LaunchStep
<1>7. CASE Kill
  BY <1>7, KillStep
<1>8. CASE DoArchives
  BY <1>8, ArchiveStep
<1>9. CASE KillServer
  BY <1>9, KillServerStep
<1>10. CASE Sigterm
  BY <1>10, SigtermStep
<1>11. CASE UNCHANGED vars
  BY <1>11, EventStep DEF vars, state, term
<1>12. QED
  BY <1>1, <1>2, <1>3, <1>4, <1>5, <1>6, <1>7, <1>8, <1>9, <1>10, <1>11 DEF Next, ServerStep

-----------------------------------------------------------------------------
(* Types.  The lists that update_feeds goes through hold what parse put    *)
(* there: only feeds have to be launched and only deletions to be killed.  *)

Only(kind) == {l \in Line : l.kind = kind}

Address == Url \cup {Stump}
Port    == 1..(next_port - 1)

QosTypes  == robots \subseteq Url /\ events \in 0..MaxEvents /\ online \in BOOLEAN /\ stream \in Seq(Line)
ListTypes == rmfeeds \in Seq(Only("delete")) /\ addfeeds \in Seq(Only("feed"))
FeedTypes ==
  /\ next_port \in Nat \ {0} /\ feeds \in Seq([url : Address, port : Port])
  /\ resources \subseteq Port \X Kinds /\ published \subseteq Address
ModeTypes ==
  /\ pc \in {"poll", "update", "launch", "kill", "archive", "reply", "killserver", "ended"}
  /\ mode \in {"serve", "term", "final", "over"}

CtlTypes == QosTypes /\ ListTypes /\ FeedTypes /\ ModeTypes

LEMMA SeqTypes ==
  ASSUME NEW S, NEW s \in Seq(S)
  PROVE  /\ <<>> \in Seq(S) /\ \A i \in DOMAIN s : s[i] \in S
         /\ \A T : S \subseteq T => s \in Seq(T)
OBVIOUS

LEMMA EmptyTyped == ASSUME NEW S PROVE <<>> \in Seq(S)
OBVIOUS

\* Lines that name a camera.
LEMMA Named ==
  /\ \A u \in Address : Feed(u) \in Line /\ Delete(u) \in Line
  /\ Time \in Line /\ Junk \in Line
  /\ \A l \in Only("feed") \cup Only("delete") : l \in Line /\ l.url \in Address
BY DEF Line, Feed, Delete, Time, Junk, Only, Address

LEMMA HalvesTyped ==
  ASSUME NEW line \in Line, NEW half \in Halves(line)
  PROVE  half \in Line
<1>1. Stump \in Address
  BY DEF Address
<1>2. half = Junk \/ half = line \/ half = Feed(Stump) \/ half = Delete(Stump)
  BY DEF Halves
<1> QED BY <1>1, <1>2, Named

\* What parse keeps of each kind.
LEMMA OfKindType ==
  ASSUME NEW lines \in Seq(Line), NEW kind
  PROVE  OfKind(lines, kind) \in Seq(Only(kind))
<1> DEFINE N == Len(lines)
           V == Seq(Only(kind))
           turn == [n \in 1..N |-> [v \in V |-> IF lines[n].kind = kind THEN Append(v, lines[n]) ELSE v]]
           rec(f) == [n \in 0..Len(lines) |-> IF n = 0 THEN <<>>
                        ELSE IF lines[n].kind = kind THEN Append(f[n - 1], lines[n]) ELSE f[n - 1]]
<1>1. N \in Nat /\ <<>> \in V
  OBVIOUS
<1>2. turn \in [1..N -> [V -> V]]
  <2>1. ASSUME NEW n \in 1..N, NEW v \in V
        PROVE  (IF lines[n].kind = kind THEN Append(v, lines[n]) ELSE v) \in V
    <3>1. lines[n] \in Line
      OBVIOUS
    <3> QED BY <3>1 DEF Only
  <2> HIDE DEF V
  <2> QED BY <2>1
<1> HIDE DEF V, turn
<1>3. PICK f \in [0..N -> V] : f[0] = <<>> /\ \A n \in 1..N : f[n] = turn[n][f[n - 1]]
  <2>1. Recursions(V, N, <<>>, turn) # {}
    BY <1>1, <1>2, RecursionExists
  <2> QED BY <2>1 DEF Recursions
<1>4. ASSUME NEW n \in 0..N PROVE f[n] = rec(f)[n]
  <2>1. CASE n = 0
    BY <2>1, <1>3
  <2>2. CASE n # 0
    <3>1. n \in 1..N /\ n - 1 \in 0..N
      BY <2>2, <1>1
    <3>2. f[n - 1] \in V
      BY <3>1, <1>3
    <3> QED BY <3>1, <3>2, <1>3, <2>2 DEF turn
  <2> QED BY <2>1, <2>2
<1>5. f = rec(f)
  <2> HIDE DEF N
  <2>1. f = [n \in 0..N |-> f[n]]
    BY <1>3
  <2> QED BY <1>4, <2>1 DEF N
<1> DEFINE g == CHOOSE h : h = rec(h)
<1>6. g = rec(g)
  <2> HIDE DEF rec
  <2> QED BY <1>5
<1>7. OfKind(lines, kind) = g[N]
  BY DEF OfKind
<1> HIDE DEF g
<1> DEFINE T == {n \in 0..N : g[n] \in V}
<1>8. 0..N \subseteq T
  <2>1. 0 \in T
    BY <1>1, <1>6
  <2>2. ASSUME NEW n \in 1..N, n - 1 \in T PROVE n \in T
    <3>1. g[n] = IF lines[n].kind = kind THEN Append(g[n - 1], lines[n]) ELSE g[n - 1]
      <4>1. n \in 0..Len(lines) /\ n # 0
        BY <1>1
      <4>2. rec(g)[n] = IF lines[n].kind = kind THEN Append(g[n - 1], lines[n]) ELSE g[n - 1]
        BY <4>1
      <4> HIDE DEF rec
      <4> QED BY <4>2, <1>6
    <3>2. g[n - 1] \in V /\ lines[n] \in Line
      BY <2>2
    <3>3. g[n] \in V
      BY <3>1, <3>2 DEF V, Only
    <3> QED BY <3>3
  <2> HIDE DEF T
  <2> QED BY <1>1, <2>1, <2>2, BoundedInduction
<1> QED BY <1>1, <1>7, <1>8 DEF V, Only

\* An enumeration of a finite set.
LEMMA Enumerated ==
  ASSUME NEW S, IsFiniteSet(S)
  PROVE  SetToSeq(S) \in Seq(S)
<1> DEFINE n == Cardinality(S)
<1>1. n \in Nat /\ ExistsBijection(1..n, S)
  BY FS_CardinalityType
<1>2. \E f \in [1..n -> S] : IsInjective(f)
  BY <1>1 DEF ExistsBijection, Bijection, Injection
<1>3. SetToSeq(S) \in [1..n -> S]
  BY <1>2 DEF SetToSeq
<1> HIDE DEF n
<1> QED BY <1>1, <1>3

LEMMA Told ==
  ASSUME NEW R \in SUBSET Url
  PROVE  SetToSeq({Feed(u) : u \in R}) \in Seq(Line)
<1> DEFINE S == {Feed(u) : u \in R}
           f == [u \in R |-> Feed(u)]
<1>1. IsFiniteSet(R)
  BY ControlAssumption, FS_Subset
<1>2. f \in Bijection(R, S)
  <2>1. f \in [R -> S]
    OBVIOUS
  <2>2. IsInjective(f)
    BY DEF IsInjective, Feed
  <2>3. \A s \in S : \E u \in R : f[u] = s
    OBVIOUS
  <2> HIDE DEF f, S
  <2> QED BY <2>1, <2>2, <2>3 DEF Bijection, Injection, Surjection
<1>3. ExistsBijection(R, S)
  BY <1>2 DEF ExistsBijection
<1> HIDE DEF f
<1>4. \A l \in S : l \in Line
  BY Named DEF Address
<1> HIDE DEF S
<1>5. IsFiniteSet(S)
  BY <1>1, <1>3, FS_Bijection
<1>6. SetToSeq(S) \in Seq(S)
  BY <1>5, Enumerated
<1>7. SetToSeq(S) \in Seq(Line)
  BY <1>4, <1>6
<1> QED BY <1>7 DEF S

\* Where the feed in work has its place, it has its types.
LEMMA SubjectTyped ==
  ASSUME CtlInv, CtlTypes, pc \in {"launch", "kill"}
  PROVE  subject.url \in Address /\ subject.port \in Port
<1>1. PICK i \in DOMAIN feeds : feeds[i].url = subject.url /\ feeds[i].port = subject.port
  BY DEF CtlInv, Subject
<1>2. feeds[i] \in [url : Address, port : Port]
  BY SeqTypes DEF CtlTypes, FeedTypes
<1> QED BY <1>1, <1>2

-----------------------------------------------------------------------------
(* Each step keeps the types.                                              *)

LEMMA TypesInit == ASSUME Init PROVE CtlTypes
<1>1. QosTypes
  <2>1. 0 \in 0..MaxEvents /\ <<>> \in Seq(Line)
    BY ControlAssumption, EmptyTyped
  <2>2. robots \subseteq Url /\ events = 0 /\ online = FALSE /\ stream = <<>>
    BY DEF Init
  <2> QED BY <2>1, <2>2 DEF QosTypes
<1>2. ListTypes
  BY EmptyTyped DEF Init, ListTypes
<1>3. FeedTypes
  BY EmptyTyped DEF Init, FeedTypes
<1>4. ModeTypes
  BY DEF Init, ModeTypes
<1> QED BY <1>1, <1>2, <1>3, <1>4 DEF CtlTypes

LEMMA SayTyped ==
  ASSUME CtlTypes, NEW line \in Line, Say(line), robots' \subseteq Url
  PROVE  CtlTypes'
<1>1. Time \in Line /\ stream \in Seq(Line)
  BY Named DEF CtlTypes, QosTypes
<1>2. stream' \in Seq(Line)
  <2>1. <<Time, line>> \in Seq(Line)
    BY <1>1
  <2>2. stream \o <<Time, line>> \in Seq(Line)
    BY <1>1, <2>1, ConcatProperties
  <2> QED BY <1>1, <2>2 DEF Say
<1>3. events' \in 0..MaxEvents /\ online' \in BOOLEAN
  BY ControlAssumption DEF Say, CtlTypes, QosTypes
<1> QED BY <1>2, <1>3 DEF Say, state, term, CtlTypes, QosTypes, ListTypes, FeedTypes, Port, ModeTypes

LEMMA EventTyped ==
  ASSUME CtlTypes, NEW u \in Url, Register(u) \/ Update(u) \/ Leave(u)
  PROVE  CtlTypes'
<1>1. robots' \subseteq Url
  BY DEF CtlTypes, QosTypes, Register, Update, Leave
<1>2. u \in Address
  BY DEF Address
<1>3. CASE Register(u)
  <2>1. events' \in 0..MaxEvents
    BY <1>3, ControlAssumption DEF Register, CtlTypes, QosTypes
  <2> QED BY <1>1, <1>3, <2>1 DEF Register, state, term, CtlTypes, QosTypes, ListTypes, FeedTypes, Port, ModeTypes
<1>4. CASE Update(u)
  BY <1>1, <1>2, <1>4, Named, SayTyped DEF Update
<1>5. CASE Leave(u)
  BY <1>1, <1>2, <1>5, Named, SayTyped DEF Leave
<1> QED BY <1>3, <1>4, <1>5

LEMMA LoseTyped == ASSUME CtlTypes, Lose PROVE CtlTypes'
<1>1. stream' \in Seq(Line)
  <2>1. PICK k \in 0..Len(stream) : stream' = SubSeq(stream, 1, k)
    BY DEF Lose
  <2> QED BY <2>1 DEF CtlTypes, QosTypes
<1>2. events' \in 0..MaxEvents /\ online' = FALSE
  BY ControlAssumption DEF Lose, CtlTypes, QosTypes
<1> QED BY <1>1, <1>2 DEF Lose, state, term, CtlTypes, QosTypes, ListTypes, FeedTypes, Port, ModeTypes

LEMMA HandleTyped ==
  ASSUME NEW lines \in Seq(Line), Handle(lines)
  PROVE  ListTypes' /\ pc' \in {"poll", "update"}
<1>1. OfKind(lines, "delete") \in Seq(Only("delete")) /\ OfKind(lines, "feed") \in Seq(Only("feed"))
  BY OfKindType
<1>2. rmfeeds' \in {OfKind(lines, "delete"), <<>>} /\ addfeeds' \in {OfKind(lines, "feed"), <<>>}
  BY DEF Handle, Parse
<1>3. pc' \in {"poll", "update"}
  BY Zenon DEF Handle
<1> QED BY <1>1, <1>2, <1>3, EmptyTyped DEF ListTypes

LEMMA PollTyped == ASSUME CtlTypes, Poll PROVE CtlTypes'
<1>1. stream \in Seq(Line) /\ Len(stream) \in Nat
  BY DEF CtlTypes, QosTypes
<1>2. PICK k \in RecvEnds :
        \/ stream' = SubSeq(stream, k + 1, Len(stream)) /\ Handle(SubSeq(stream, 1, k))
        \/ /\ "tear" \in Faults
           /\ stream' = <<Junk>> \o SubSeq(stream, k + 1, Len(stream))
           /\ \E half \in Halves(stream[k]) : Handle(Append(SubSeq(stream, 1, k - 1), half))
  BY DEF Poll
<1>3. k \in 1..Len(stream)
  BY DEF RecvEnds
<1>4. /\ SubSeq(stream, k + 1, Len(stream)) \in Seq(Line) /\ SubSeq(stream, 1, k) \in Seq(Line)
      /\ SubSeq(stream, 1, k - 1) \in Seq(Line) /\ stream[k] \in Line
  BY <1>1, <1>3
<1>5. stream' \in Seq(Line)
  <2>1. <<Junk>> \in Seq(Line)
    BY Named
  <2>2. <<Junk>> \o SubSeq(stream, k + 1, Len(stream)) \in Seq(Line)
    BY <1>4, <2>1, ConcatProperties
  <2> QED BY <1>2, <1>4, <2>2
<1>6. ListTypes' /\ pc' \in {"poll", "update"}
  <2>1. CASE Handle(SubSeq(stream, 1, k))
    BY <1>4, <2>1, HandleTyped
  <2>2. CASE \E half \in Halves(stream[k]) : Handle(Append(SubSeq(stream, 1, k - 1), half))
    <3>1. PICK half \in Halves(stream[k]) : Handle(Append(SubSeq(stream, 1, k - 1), half))
      BY <2>2
    <3>2. half \in Line
      BY <1>4, HalvesTyped
    <3>3. Append(SubSeq(stream, 1, k - 1), half) \in Seq(Line)
      BY <1>4, <3>2
    <3> QED BY <3>1, <3>3, HandleTyped
  <2> QED BY <1>2, <2>1, <2>2
<1>7. UNCHANGED <<robots, events, online, feeds, next_port, resources, published, mode>>
  BY DEF Poll, state, term
<1> QED BY <1>5, <1>6, <1>7 DEF CtlTypes, QosTypes, FeedTypes, Port, ModeTypes

LEMMA ConnectTyped == ASSUME CtlTypes, Connect PROVE CtlTypes'
<1>1. stream' \in Seq(Line)
  <2>1. <<Time>> \in Seq(Line)
    BY Named
  <2>2. SetToSeq({Feed(u) : u \in robots}) \in Seq(Line)
    <3>1. PICK R : R = robots
      OBVIOUS
    <3>2. R \in SUBSET Url
      BY <3>1 DEF CtlTypes, QosTypes
    <3> QED BY <3>1, <3>2, Told
  <2>3. stream' = <<Time>> \o SetToSeq({Feed(u) : u \in robots})
    BY DEF Connect
  <2> HIDE DEF Time
  <2> QED BY <2>1, <2>2, <2>3, ConcatProperties
<1> QED BY <1>1 DEF Connect, state, term, CtlTypes, QosTypes, ListTypes, FeedTypes, Port, ModeTypes

LEMMA RaiseTyped == ASSUME CtlTypes, Raise, mode \in {"serve", "term", "final"} PROVE CtlTypes'
<1>1. mode' \in {"serve", "term", "final", "over"}
  BY DEF Raise, CtlTypes, ModeTypes
<1>2. pc' \in {"poll", "reply", "ended", "killserver"}
  BY <1>1 DEF Raise
<1>3. ListTypes'
  BY EmptyTyped DEF Raise, Forget, ListTypes
<1> QED BY <1>1, <1>2, <1>3 DEF Raise, qos, state, CtlTypes, QosTypes, FeedTypes, Port, ModeTypes

LEMMA RemoveFeedTyped == ASSUME CtlInv, CtlTypes, RemoveFeed PROVE CtlTypes'
<1>1. CASE Head(rmfeeds).url \in Urls
  <2>1. Tail(rmfeeds) \in Seq(Only("delete"))
    BY DEF RemoveFeed, CtlTypes, ListTypes
  <2> QED BY <1>1, <2>1 DEF RemoveFeed, StartKill, qos, state, term, CtlTypes, QosTypes, ListTypes, FeedTypes, Port, ModeTypes
<1>2. CASE Head(rmfeeds).url \notin Urls
  BY <1>2, RaiseTyped DEF RemoveFeed, CtlInv, Modes
<1> QED BY <1>1, <1>2

\* A port is given to a new feed.
LEMMA FeedsGrow ==
  ASSUME FeedTypes, NEW u \in Address, feeds' = Append(feeds, [url |-> u, port |-> next_port]),
         next_port' = next_port + 1, UNCHANGED <<resources, published>>
  PROVE  FeedTypes'
<1>1. next_port \in Nat \ {0} /\ next_port' \in Nat \ {0} /\ next_port \in Port' /\ Port \subseteq Port'
  BY DEF FeedTypes, Port
<1>2. feeds \in Seq([url : Address, port : Port'])
  <2>1. [url : Address, port : Port] \subseteq [url : Address, port : Port']
    BY <1>1
  <2> QED BY <2>1, SeqTypes DEF FeedTypes
<1>3. feeds' \in Seq([url : Address, port : Port'])
  BY <1>1, <1>2
<1>4. resources' \subseteq Port' \X Kinds
  BY <1>1 DEF FeedTypes
<1>5. published' \subseteq Address
  BY DEF FeedTypes
<1> QED BY <1>1, <1>3, <1>4, <1>5 DEF FeedTypes

LEMMA AddFeedTyped == ASSUME CtlTypes, AddFeed PROVE CtlTypes'
<1>1. Tail(addfeeds) \in Seq(Only("feed")) /\ Head(addfeeds) \in Only("feed")
  BY DEF AddFeed, CtlTypes, ListTypes
<1>2. Head(addfeeds).url \in Address
  BY <1>1, Named
<1>3. QosTypes' /\ ListTypes' /\ mode' = mode
  BY <1>1 DEF AddFeed, qos, term, CtlTypes, QosTypes, ListTypes
<1>4. CASE Head(addfeeds).url \in Urls
  BY <1>3, <1>4 DEF AddFeed, CtlTypes, FeedTypes, Port, ModeTypes
<1>5. CASE Head(addfeeds).url \notin Urls
  <2>1. /\ feeds' = Append(feeds, [url |-> Head(addfeeds).url, port |-> next_port])
        /\ next_port' = next_port + 1 /\ UNCHANGED <<resources, published>> /\ pc' = "launch"
    BY <1>5 DEF AddFeed, StartLaunch
  <2>2. FeedTypes'
    <3>1. PICK u : u = Head(addfeeds).url
      OBVIOUS
    <3> QED BY <1>2, <2>1, <3>1, FeedsGrow DEF CtlTypes
  <2> QED BY <1>3, <2>1, <2>2 DEF CtlTypes, ModeTypes
<1> QED BY <1>4, <1>5

LEMMA LaunchTyped == ASSUME CtlInv, CtlTypes, Launch PROVE CtlTypes'
<1>1. subject.url \in Address /\ subject.port \in Port
  BY SubjectTyped DEF Launch
<1>2. step \in 1..4 /\ Len(LaunchOrder) = 3 /\ \A j \in 1..3 : LaunchOrder[j] \in Kinds
  BY DEF CtlInv, Launching, Launch, LaunchOrder, Kinds
<1>3. published' \in {published, published \cup {subject.url}} /\ pc' \in {"launch", "update"}
  BY DEF Launch
<1>4. resources' \subseteq Port \X Kinds
  <2>1. CASE step > Len(LaunchOrder)
    BY <2>1 DEF Launch, CtlTypes, FeedTypes
  <2>2. CASE ~ (step > Len(LaunchOrder))
    <3>1. resources' = resources \cup {<<subject.port, LaunchOrder[step]>>} /\ step \in 1..3
      BY <1>2, <2>2 DEF Launch
    <3> QED BY <1>1, <1>2, <3>1 DEF CtlTypes, FeedTypes
  <2> QED BY <2>1, <2>2
<1>5. published' \subseteq Address
  BY <1>1, <1>3 DEF CtlTypes, FeedTypes
<1> QED BY <1>3, <1>4, <1>5 DEF Launch, qos, term, CtlTypes, QosTypes, ListTypes, FeedTypes, Port, ModeTypes

LEMMA KillTyped == ASSUME CtlInv, CtlTypes, Kill PROVE CtlTypes'
<1>1. CASE step > Len(KillOrder)
  <2>1. PICK k \in DOMAIN feeds : PlaceOf(subject.url) = k
    BY SubjectPlace DEF Kill
  <2>2. feeds' = RemoveAt(feeds, k) /\ next_port' = next_port
    BY <1>1, <2>1 DEF Kill
  <2>3. feeds' \in Seq([url : Address, port : Port])
    BY <2>2, RemoveShifts DEF CtlTypes, FeedTypes
  <2>4. published' \subseteq Address /\ pc' \in {"update", "killserver"}
    BY <1>1, Zenon DEF Kill, CtlTypes, FeedTypes
  <2> QED BY <1>1, <2>2, <2>3, <2>4 DEF Kill, qos, term, CtlTypes, QosTypes, ListTypes, FeedTypes, Port, ModeTypes
<1>2. CASE ~ (step > Len(KillOrder)) /\ (KillOrder[step] = "archive" \/ <<subject.port, KillOrder[step]>> \in resources)
  BY <1>2 DEF Kill, qos, term, CtlTypes, QosTypes, ListTypes, FeedTypes, Port, ModeTypes
<1>3. CASE Raise
  BY <1>3, RaiseTyped DEF Kill, CtlInv, Modes
<1> QED BY <1>1, <1>2, <1>3 DEF Kill

LEMMA ArchivesTyped == ASSUME CtlTypes, DoArchives PROVE CtlTypes'
<1>1. PICK good \in SUBSET {feeds[i].port : i \in DOMAIN feeds} :
        resources' = resources \cup {<<p, "archive">> : p \in good}
  BY DEF DoArchives
<1>2. good \subseteq Port
  <2>1. ASSUME NEW i \in DOMAIN feeds PROVE feeds[i].port \in Port
    <3>1. feeds[i] \in [url : Address, port : Port]
      BY SeqTypes DEF CtlTypes, FeedTypes
    <3> QED BY <3>1
  <2> QED BY <2>1
<1>3. resources' \subseteq Port \X Kinds
  BY <1>1, <1>2 DEF CtlTypes, FeedTypes, Kinds
<1> QED BY <1>3 DEF DoArchives, qos, term, CtlTypes, QosTypes, ListTypes, FeedTypes, Port, ModeTypes

\* The steps that only go on.
LEMMA OnTyped == ASSUME CtlTypes, Updated \/ Reply \/ KillServer \/ Sigterm PROVE CtlTypes'
<1>1. QosTypes' /\ FeedTypes'
  BY DEF Updated, Reply, KillServer, Sigterm, qos, state, CtlTypes, QosTypes, FeedTypes, Port
<1>2. ListTypes'
  BY EmptyTyped DEF Updated, Reply, KillServer, Sigterm, Forget, CtlTypes, ListTypes
<1>3. ModeTypes'
  BY DEF Updated, Reply, KillServer, StartKill, Sigterm, term, CtlTypes, ModeTypes
<1> QED BY <1>1, <1>2, <1>3 DEF CtlTypes

LEMMA TypesStep ==
  ASSUME CtlInv, CtlTypes, [Next]_vars
  PROVE  CtlTypes'
<1>1. CASE \E u \in Url : Register(u) \/ Update(u) \/ Leave(u)
  BY <1>1, EventTyped
<1>2. CASE Lose
  BY <1>2, LoseTyped
<1>3. CASE Poll
  BY <1>3, PollTyped
<1>4. CASE Connect
  BY <1>4, ConnectTyped
<1>5. CASE RemoveFeed
  BY <1>5, RemoveFeedTyped
<1>6. CASE AddFeed
  BY <1>6, AddFeedTyped
<1>7. CASE Launch
  BY <1>7, LaunchTyped
<1>8. CASE Kill
  BY <1>8, KillTyped
<1>9. CASE DoArchives
  BY <1>9, ArchivesTyped
<1>10. CASE Updated \/ Reply \/ KillServer \/ Sigterm
  BY <1>10, OnTyped
<1>11. CASE UNCHANGED vars
  BY <1>11 DEF vars, CtlTypes, QosTypes, ListTypes, FeedTypes, Port, ModeTypes
<1> QED BY <1>1, <1>2, <1>3, <1>4, <1>5, <1>6, <1>7, <1>8, <1>9, <1>10, <1>11 DEF Next, ServerStep

-----------------------------------------------------------------------------
(* The theorems.                                                           *)

\* The inductive invariant of the delivery server.
THEOREM ControlSound == Spec => []CtlInv
<1>1. Init => CtlInv
  BY CtlInit
<1>2. CtlInv /\ [Next]_vars => CtlInv'
  BY CtlStep
<1>3. QED
  BY <1>1, <1>2, PTL DEF Spec

\* Whatever order, loss or cut the messages of the QoS server come in, and
\* wherever SIGTERM strikes, launch_feed never makes a second feed of a camera
\* nor gives a port twice.
THEOREM FeedsDistinct == Spec => []OneFeed
<1>1. CtlInv => OneFeed
  BY DEF CtlInv
<1>2. QED
  BY <1>1, ControlSound, PTL

\* Nothing that was started or written is forgotten, not even when an exception
\* ends a kill half way: killserver can still reach it.
THEOREM NothingOrphaned == Spec => []NoOrphan
<1>1. CtlInv => NoOrphan
  BY DEF CtlInv
<1>2. QED
  BY <1>1, ControlSound, PTL

\* When the server polls, each known feed has its file and its processes, and
\* the known feeds are the published ones: what update_feeds began is complete,
\* and no exception is caught that leaves a feed half launched or half killed.
THEOREM FeedsStream == Spec => []Streaming
<1>1. CtlInv => Streaming
  <2> SUFFICES ASSUME CtlInv, pc = "poll"
               PROVE  /\ published = Urls
                      /\ \A i \in DOMAIN feeds, k \in {"config", "ffserver", "ffmpeg"} :
                           <<feeds[i].port, k>> \in resources
    BY DEF Streaming
  <2>1. mode = "serve" /\ Complete
    BY DEF CtlInv, Modes, Whole, Unharmed
  <2>2. QED
    BY <2>1 DEF Complete, InWork, Has, Urls, Needed
<1>2. QED
  BY <1>1, ControlSound, PTL

\* The server keeps its lists of the types that its loops expect: what parse
\* leaves for update_feeds are cameras, each feed has a port below the next one,
\* and every process and file stands under the port of a feed.
THEOREM Typed == Spec => []TypeOK
<1>1. CtlTypes => TypeOK
  <2> SUFFICES ASSUME CtlTypes PROVE TypeOK
    OBVIOUS
  <2>1. rmfeeds \in Seq(Line) /\ addfeeds \in Seq(Line)
    BY DEF CtlTypes, ListTypes, Only
  <2> QED BY <2>1 DEF CtlTypes, QosTypes, FeedTypes, ModeTypes, Address, Port, Kinds, TypeOK
<1>2. QED
  BY <1>1, CtlInit, CtlStep, TypesInit, TypesStep, PTL DEF Spec
=============================================================================
