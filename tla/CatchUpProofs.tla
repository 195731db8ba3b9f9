--------------------------- MODULE CatchUpProofs ---------------------------
(***************************************************************************)
(* Proof of SettledIsComplete: a subscriber that has caught up has all of  *)
(* its view, apart from the messages the property names.                   *)
(*                                                                         *)
(* The argument follows one message.  From its announcement on it is       *)
(* covered: accounted for by the client, on the wire, asked for by a       *)
(* RESUME that is queued or half done, or one of those no listener handed  *)
(* over.  Each step of the server hands it from one of these to the next.  *)
(* The hand-over from RESUME to the wire needs what was read from the      *)
(* buffer to reach every message announced before the read, and the later  *)
(* ones to be recorded as unheard: the channel is not subscribed in        *)
(* between.  A caught-up client has nothing on the wire and nothing asked. *)
(***************************************************************************)
EXTENDS DeliveryProofs, SequenceTheorems

\* The channels that the RESUME under way has yet to replay.
Awaiting ==
  IF loop.at = "receive" THEN {}
  ELSE loop.todo \cup (IF loop.at = "replay" THEN {loop.channel} ELSE {})

ResumeQueued == inbox # <<>> /\ Head(inbox).type = "RESUME"

\* A RESUME that is queued or under way names a position below the message.
Asked(c, s) ==
  \/ ResumeQueued /\ Head(inbox).from[c] \in 1..s - 1
  \/ c \in Awaiting /\ loop.from[c] < s

OnWire(c, s) == Message(c, s) \in Range(wire)
GapOnWire == \E c \in Channels : ResumeGap(c) \in Range(wire)

Covered(c, s) ==
  \/ Accounted(c, s) \/ s \in unheard[c]
  \/ OnWire(c, s) \/ Asked(c, s)
  \/ announced[c] < s

\* RESUME is the first frame of a connection, and a channel is neither
\* subscribed nor on the wire before it is replayed.
ConnectionOK ==
  /\ ~up => loop = Idle /\ inbox = <<>> /\ wire = <<>>
  /\ inbox # <<>> => \A r \in Range(Tail(inbox)) : r.type # "RESUME"
  /\ ResumeQueued => loop = Idle /\ subscribed = {} /\ wire = <<>>
  /\ \A c \in Awaiting : c \notin subscribed /\ \A s \in Nat : ~OnWire(c, s)
  /\ loop.at = "replay" => loop.channel \notin loop.todo

\* At most one message is appended and not yet announced, the newest one is
\* always retained, and what was announced since the buffer was read is unheard.
BufferOK ==
  /\ \A c \in Channels : /\ announced[c] <= top[c] /\ top[c] <= announced[c] + 1
                         /\ base[c] < top[c] \/ top[c] = 0
  /\ loop.at = "replay" =>
       /\ loop.oldest <= loop.newest \/ loop.newest = 0
       /\ \A s \in loop.newest + 1..announced[loop.channel] : s \in unheard[loop.channel]

\* Everything after a message on the wire is covered.
WireCovered ==
  \A c \in Channels : \A t \in Nat :
    OnWire(c, t) => \A s \in t..top[c] : Covered(c, s)

\* Everything in the view is covered, unless the view is about to be reset.
ViewCovered ==
  up /\ ~GapOnWire =>
    \A c \in Channels : start[c] # 0 =>
      \A s \in start[c]..top[c] : Covered(c, s) \/ s \in passed[c]

CatchUp == ConnectionOK /\ BufferOK /\ WireCovered /\ ViewCovered

-----------------------------------------------------------------------------
(* The elements of a queue. *)

LEMMA RangeAppend ==
  ASSUME NEW S, NEW q \in Seq(S), NEW e
  PROVE  Range(Append(q, e)) = Range(q) \cup {e}
<1>1. DOMAIN Append(q, e) = DOMAIN q \cup {Len(q) + 1}
  OBVIOUS
<1>2. \A i \in DOMAIN q : Append(q, e)[i] = q[i]
  OBVIOUS
<1>3. Append(q, e)[Len(q) + 1] = e
  OBVIOUS
<1> QED BY Zenon, <1>1, <1>2, <1>3 DEF Range

LEMMA RangeTail ==
  ASSUME NEW S, NEW q \in Seq(S), q # <<>>
  PROVE  Range(q) = {Head(q)} \cup Range(Tail(q))
<1>1. \A i \in DOMAIN Tail(q) : i + 1 \in DOMAIN q /\ Tail(q)[i] = q[i + 1]
  OBVIOUS
<1>2. \A i \in DOMAIN q : i = 1 \/ (i - 1 \in DOMAIN Tail(q) /\ Tail(q)[i - 1] = q[i])
  OBVIOUS
<1>3. 1 \in DOMAIN q /\ Head(q) = q[1]
  OBVIOUS
<1>4. {Head(q)} \cup Range(Tail(q)) \subseteq Range(q)
  <2>1. ASSUME NEW i \in DOMAIN Tail(q) PROVE Tail(q)[i] \in Range(q)
    <3>1. i + 1 \in DOMAIN q /\ Tail(q)[i] = q[i + 1]
      BY <1>1
    <3> QED BY Zenon, <3>1 DEF Range
  <2>2. Head(q) \in Range(q)
    BY Zenon, <1>3 DEF Range
  <2> QED BY <2>1, <2>2 DEF Range
<1>5. ASSUME NEW i \in DOMAIN q PROVE q[i] \in {Head(q)} \cup Range(Tail(q))
  <2>1. CASE i = 1
    BY Zenon, <1>3, <2>1
  <2>2. CASE i - 1 \in DOMAIN Tail(q) /\ Tail(q)[i - 1] = q[i]
    BY Zenon, <2>2 DEF Range
  <2> QED BY Zenon, <1>2, <2>1, <2>2
<1>6. Range(q) \subseteq {Head(q)} \cup Range(Tail(q))
  BY <1>5 DEF Range
<1> QED BY <1>4, <1>6

LEMMA RangeEmpty == Range(<<>>) = {}
BY DEF Range

LEMMA RangeOne == ASSUME NEW e PROVE Range(<<e>>) = {e}
<1>1. DOMAIN <<e>> = {1} /\ <<e>>[1] = e
  OBVIOUS
<1> QED BY <1>1 DEF Range

LEMMA RangeInsert ==
  ASSUME NEW S, NEW q \in Seq(S), NEW e \in S, NEW i \in 0..Len(q)
  PROVE  Range(SubSeq(q, 1, i) \o <<e>> \o SubSeq(q, i + 1, Len(q))) = Range(q) \cup {e}
<1> DEFINE l == SubSeq(q, 1, i)
           m == <<e>>
           r == SubSeq(q, i + 1, Len(q))
<1>1. l \in Seq(S) /\ r \in Seq(S) /\ m \in Seq(S)
  OBVIOUS
<1>2. DOMAIN l = 1..i /\ \A j \in 1..i : l[j] = q[j]
  OBVIOUS
<1>3. DOMAIN r = 1..Len(q) - i /\ \A j \in 1..Len(q) - i : r[j] = q[i + j]
  OBVIOUS
<1>4. Range(m) = {e}
  BY RangeOne
<1> HIDE DEF l, m, r
<1>5. Range(q) = Range(l) \cup Range(r)
  <2>1. \A j \in 1..Len(q) : j \in 1..i \/ (j - i \in 1..Len(q) - i /\ i + (j - i) = j)
    OBVIOUS
  <2>2. 1..i \subseteq 1..Len(q) /\ \A j \in 1..Len(q) - i : i + j \in 1..Len(q)
    OBVIOUS
  <2>3. DOMAIN q = 1..Len(q)
    OBVIOUS
  <2>4. Range(q) \subseteq Range(l) \cup Range(r)
    <3> SUFFICES ASSUME NEW j \in 1..Len(q) PROVE q[j] \in Range(l) \cup Range(r)
      BY <2>3 DEF Range
    <3>1. CASE j \in 1..i
      BY Zenon, <1>2, <3>1 DEF Range
    <3>2. CASE j - i \in 1..Len(q) - i
      <4>1. r[j - i] = q[j]
        BY <1>3, <2>1, <3>2
      <4> QED BY Zenon, <1>3, <3>2, <4>1 DEF Range
    <3> QED BY <2>1, <3>1, <3>2
  <2>5. Range(l) \subseteq Range(q) /\ Range(r) \subseteq Range(q)
    BY Zenon, <1>2, <1>3, <2>2, <2>3 DEF Range
  <2> QED BY <2>4, <2>5
<1>a. Range(l \o m) = Range(l) \cup Range(m)
  BY <1>1, RangeConcatenation
<1>6. l \o m \in Seq(S)
  BY <1>1, ConcatSeq
<1>b. Range(l \o m \o r) = Range(l \o m) \cup Range(r)
  BY ZenonT(60), <1>1, <1>6, RangeConcatenation
<1>7. Range(l \o m \o r) = Range(l) \cup {e} \cup Range(r)
  BY <1>4, <1>a, <1>b
<1>8. Range(l \o m \o r) = Range(q) \cup {e}
  BY <1>5, <1>7
<1> QED BY <1>8 DEF l, m, r

-----------------------------------------------------------------------------
(* Frames. *)

LEMMA MessageIs ==
  ASSUME NEW c, NEW s, NEW d, NEW t
  PROVE  /\ Message(c, s) = Message(d, t) <=> c = d /\ s = t
         /\ ResumeGap(d) # Message(c, s)
         /\ Message(c, s).type = "MESSAGE" /\ ResumeGap(c).type = "RESUME_GAP"
<1>1. /\ Message(c, s).type = "MESSAGE" /\ Message(c, s).channel = c
      /\ Message(c, s).sequence = s
  BY DEF Message
<1>2. Message(d, t).channel = d /\ Message(d, t).sequence = t
  BY DEF Message
<1>3. ResumeGap(c).type = "RESUME_GAP" /\ ResumeGap(d).type = "RESUME_GAP"
  BY DEF ResumeGap
<1>4. ResumeGap(d) # Message(c, s)
  BY <1>1, <1>3
<1>5. Message(c, s) = Message(d, t) <=> c = d /\ s = t
  BY Zenon, <1>1, <1>2
<1> QED BY <1>1, <1>3, <1>4, <1>5

LEMMA FrameIs ==
  ASSUME NEW f \in Frames
  PROVE  /\ f.type \in {"MESSAGE", "RESUME_GAP"} /\ f.channel \in Channels
         /\ f.type = "MESSAGE" => f.sequence \in Nat /\ f = Message(f.channel, f.sequence)
         /\ f.type = "RESUME_GAP" => f = ResumeGap(f.channel)
BY DEF Frames, Message, ResumeGap

LEMMA ReplayedIs ==
  ASSUME NEW c, NEW d, NEW first \in Nat, NEW newest \in Nat, NEW s \in Nat
  PROVE  Message(d, s) \in Range(Replayed(c, first, newest)) <=> d = c /\ s \in first..newest
<1> DEFINE n == newest + 1 - first
<1>0. n \in Int
  OBVIOUS
<1>1. Message(d, s) \in Range(Replayed(c, first, newest))
        <=> \E i \in 1..n : Message(d, s) = Message(c, first + i - 1)
  BY Zenon DEF Replayed, Range
<1>2. \A i \in 1..n : Message(d, s) = Message(c, first + i - 1) <=> d = c /\ s = first + i - 1
  <2> TAKE i \in 1..n
  <2> QED BY DEF Message
<1>3. s \in first..newest => s - first + 1 \in 1..n /\ s = first + (s - first + 1) - 1
  OBVIOUS
<1>4. \A i \in 1..n : s = first + i - 1 => s \in first..newest
  OBVIOUS
<1> QED BY Zenon, <1>1, <1>2, <1>3, <1>4

LEMMA ReplayedFrames ==
  ASSUME NEW c \in Channels, NEW first \in Nat, NEW newest \in Nat
  PROVE  Replayed(c, first, newest) \in Seq(Frames)
<1> DEFINE k == newest + 1 - first
           g(i) == Message(c, first + i - 1)
<1>1. k \in Int
  OBVIOUS
<1>2. \A i \in 1..k : g(i) \in Frames
  <2> TAKE i \in 1..k
  <2>1. first + i - 1 \in Nat
    OBVIOUS
  <2> QED BY <2>1 DEF Message, Frames
<1>3. Replayed(c, first, newest) = [i \in 1..k |-> g(i)]
  BY DEF Replayed
<1> HIDE DEF k, g
<1>4. [i \in 1..k |-> g(i)] \in Seq(Frames)
  <2>1. CASE k < 0
    <3>1. 1..k = 1..0
      BY <1>1, <2>1
    <3> QED BY <1>1, <1>2, <2>1, <3>1
  <2>2. CASE k >= 0
    BY SMTT(30), <1>1, <1>2, <2>2
  <2> QED BY <1>1, <2>1, <2>2
<1> QED BY <1>3, <1>4

\* What IInv says of the loop, by where it stands.
LEMMA LoopIs ==
  ASSUME IInv
  PROVE  /\ loop.at \in {"receive", "read", "replay", "listen"}
         /\ loop.at = "receive" <=> loop = Idle
         /\ loop.at # "receive" => loop.todo \subseteq Channels /\ loop.from \in Positions
         /\ loop.at \in {"replay", "listen"} => loop.channel \in Channels
         /\ loop.at = "replay" => loop.oldest \in Nat \ {0} /\ loop.newest \in Nat
<1>1. loop \in Loops /\ (loop.at = "replay" => loop.oldest >= 1)
  BY DEF IInv, DeliveryTypeOK, WirePublished
<1>2. CASE loop \in [at : {"receive"}]
  BY <1>2 DEF Idle
<1>3. CASE loop \in [at : {"read"}, todo : SUBSET Channels, from : Positions]
  BY <1>3 DEF Idle
<1>4. CASE loop \in [at : {"replay"}, channel : Channels, todo : SUBSET Channels, from : Positions,
                     oldest : Nat, newest : Nat]
  BY <1>1, <1>4 DEF Idle
<1>5. CASE loop \in [at : {"listen"}, channel : Channels, todo : SUBSET Channels, from : Positions]
  BY <1>5 DEF Idle
<1> QED BY <1>1, <1>2, <1>3, <1>4, <1>5 DEF Loops

LEMMA Typed ==
  ASSUME IInv
  PROVE  /\ top \in [Channels -> Nat] /\ announced \in [Channels -> Nat] /\ base \in [Channels -> Nat]
         /\ start \in [Channels -> Nat] /\ lastAck \in [Channels -> Nat]
         /\ unheard \in [Channels -> SUBSET Nat] /\ passed \in [Channels -> SUBSET Nat]
         /\ handled \in [Channels -> SUBSET Nat] /\ reported \in [Channels -> SUBSET Nat]
         /\ wire \in Seq(Frames) /\ inbox \in Seq(Requests) /\ subscribed \subseteq Channels
BY Zenon DEF IInv, DeliveryTypeOK, StreamTypeOK

LEMMA Counts ==
  ASSUME IInv, NEW c \in Channels
  PROVE  top[c] \in Nat /\ announced[c] \in Nat /\ start[c] \in Nat
<1>1. top \in [Channels -> Nat] /\ announced \in [Channels -> Nat] /\ start \in [Channels -> Nat]
  BY Zenon, Typed
<1> QED BY Zenon, <1>1

LEMMA Queues ==
  ASSUME IInv
  PROVE  wire \in Seq(Frames) /\ inbox \in Seq(Requests)
BY Zenon, Typed

-----------------------------------------------------------------------------
(* The steps. *)

LEMMA InitCatchUp == DeliveryInit => CatchUp
<1> SUFFICES ASSUME DeliveryInit PROVE CatchUp
  OBVIOUS
<1>1. /\ up = FALSE /\ loop = Idle /\ inbox = <<>> /\ wire = <<>> /\ loop.at = "receive"
      /\ \A c \in Channels : top[c] = 0 /\ announced[c] = 0
  BY DEF DeliveryInit, Idle
<1>2. Awaiting = {} /\ ~ResumeQueued
  BY <1>1 DEF Awaiting, ResumeQueued
<1>3. \A c, s : ~OnWire(c, s)
  BY <1>1, RangeEmpty DEF OnWire
<1>4. ConnectionOK
  BY Zenon, <1>1, <1>2, <1>3 DEF ConnectionOK
<1>5. BufferOK
  BY <1>1 DEF BufferOK
<1>6. WireCovered /\ ViewCovered
  BY Zenon, <1>1, <1>3 DEF WireCovered, ViewCovered
<1> QED BY <1>4, <1>5, <1>6 DEF CatchUp

\* Steps that touch neither the connection nor the buffer.
LEMMA QuietCatchUp ==
  ASSUME CatchUp, \A c \in Channels : passed[c] \subseteq passed'[c],
         UNCHANGED <<top, announced, base, up, inbox, loop, subscribed, wire, unheard,
                     start, handled, reported>>
  PROVE  CatchUp'
<1>1. Awaiting' = Awaiting /\ (ResumeQueued' <=> ResumeQueued) /\ (GapOnWire' <=> GapOnWire)
  BY DEF Awaiting, ResumeQueued, GapOnWire
<1>2. \A c, s : OnWire(c, s)' <=> OnWire(c, s)
  BY DEF OnWire
<1>3. \A c, s : Covered(c, s)' <=> Covered(c, s)
  BY <1>1, <1>2 DEF Covered, Accounted, Asked
<1>4. ConnectionOK'
  BY Zenon, <1>1, <1>2 DEF CatchUp, ConnectionOK
<1>5. BufferOK'
  BY DEF CatchUp, BufferOK
<1>6. WireCovered'
  BY Zenon, <1>2, <1>3 DEF CatchUp, WireCovered
<1>7. ViewCovered'
  BY Zenon, <1>1, <1>3 DEF CatchUp, ViewCovered
<1> QED BY <1>4, <1>5, <1>6, <1>7 DEF CatchUp

\* The connection ends.
LEMMA DownCatchUp ==
  ASSUME CatchUp, Disconnected, UNCHANGED <<top, announced, base>>
  PROVE  CatchUp'
<1>1. up' = FALSE /\ loop' = Idle /\ inbox' = <<>> /\ wire' = <<>> /\ loop'.at = "receive"
  BY DEF Disconnected, Idle
<1>2. Awaiting' = {} /\ ~ResumeQueued'
  BY <1>1 DEF Awaiting, ResumeQueued
<1>3. \A c, s : ~OnWire(c, s)'
  BY <1>1, RangeEmpty DEF OnWire
<1>4. ConnectionOK'
  BY Zenon, <1>1, <1>2, <1>3 DEF ConnectionOK, Idle
<1>5. BufferOK'
  BY <1>1 DEF CatchUp, BufferOK
<1>6. WireCovered' /\ ViewCovered'
  BY Zenon, <1>1, <1>3 DEF WireCovered, ViewCovered
<1> QED BY <1>4, <1>5, <1>6 DEF CatchUp

\* XADD: the new message is not announced yet.
LEMMA AppendCatchUp ==
  ASSUME IInv, CatchUp, NEW d \in Channels, AppendMessage(d)
  PROVE  CatchUp'
<1>1. UNCHANGED <<announced, up, inbox, loop, subscribed, wire, unheard, start, passed, handled, reported>>
  BY DEF AppendMessage, stream, positions, server
<1>2. Awaiting' = Awaiting /\ (ResumeQueued' <=> ResumeQueued) /\ (GapOnWire' <=> GapOnWire)
  BY <1>1 DEF Awaiting, ResumeQueued, GapOnWire
<1>3. \A c, s : OnWire(c, s)' <=> OnWire(c, s)
  BY <1>1 DEF OnWire
<1>4. \A c, s : Covered(c, s)' <=> Covered(c, s)
  BY <1>1, <1>2, <1>3 DEF Covered, Accounted, Asked
<1>5. /\ top' = [top EXCEPT ![d] = @ + 1] /\ announced[d] = top[d]
      /\ \E b \in base[d]..top[d] : base' = [base EXCEPT ![d] = b]
  BY Zenon DEF AppendMessage
<1>6. ASSUME NEW c \in Channels, NEW t \in Nat, NEW s \in t..top'[c]
      PROVE  s \in t..top[c] \/ Covered(c, s)
  <2>1. s \in Int /\ t <= s /\ s <= top'[c] /\ top[c] \in Nat /\ announced[c] \in Nat
    BY <1>5, <1>6, Typed
  <2>2. s <= top[c] \/ announced[c] < s
    BY <1>5, <2>1, Typed
  <2> QED BY <2>1, <2>2 DEF Covered
<1>7. ConnectionOK'
  BY Zenon, <1>1, <1>2, <1>3 DEF CatchUp, ConnectionOK
<1>8. BufferOK'
  <2>1. ASSUME NEW c \in Channels
        PROVE  /\ announced[c] <= top'[c] /\ top'[c] <= announced[c] + 1
               /\ base'[c] < top'[c] \/ top'[c] = 0
    BY <1>5, Typed DEF CatchUp, BufferOK
  <2> QED BY <1>1, <2>1 DEF CatchUp, BufferOK
<1>9. WireCovered'
  BY Zenon, <1>3, <1>4, <1>6 DEF CatchUp, WireCovered
<1>10. ViewCovered'
  <2>1. \A c \in Channels : start[c] \in Nat
    BY Counts
  <2> QED BY Zenon, <1>1, <1>2, <1>4, <1>6, <2>1 DEF CatchUp, ViewCovered
<1> QED BY <1>7, <1>8, <1>9, <1>10 DEF CatchUp

\* PUBLISH, heard or not: the one message not announced before is on the wire
\* or unheard.
LEMMA AnnounceCatchUp ==
  ASSUME IInv, CatchUp, NEW d \in Channels, Announce(d) \/ AnnounceFails(d)
  PROVE  CatchUp'
<1>1. /\ UNCHANGED <<top, base, up, inbox, loop, subscribed, start, passed, handled, reported>>
      /\ announced[d] < top[d] /\ announced' = [announced EXCEPT ![d] = top[d]]
  BY DEF Announce, AnnounceFails, stream, positions, server
<1>2. \/ up /\ d \in subscribed /\ wire' = Append(wire, Message(d, top[d])) /\ unheard' = unheard
      \/ /\ UNCHANGED wire
         /\ unheard' \in {unheard, [unheard EXCEPT ![d] = @ \cup {top[d]}]}
         /\ up => unheard' = [unheard EXCEPT ![d] = @ \cup {top[d]}]
  <2>1. CASE Announce(d)
    <3>1. CASE up /\ d \in subscribed /\ d \in attached
      BY <2>1, <3>1 DEF Announce
    <3>2. CASE ~(up /\ d \in subscribed /\ d \in attached)
      <4>1. wire' = wire /\ unheard' = [unheard EXCEPT ![d] = IF up THEN @ \cup {top[d]} ELSE @]
        BY <2>1, <3>2 DEF Announce
      <4>2. CASE up
        BY <4>1, <4>2
      <4>3. CASE ~up
        BY <4>1, <4>3, Typed
      <4> QED BY <4>2, <4>3
    <3> QED BY <3>1, <3>2
  <2>2. CASE AnnounceFails(d)
    BY <2>2 DEF AnnounceFails
  <2> QED BY <2>1, <2>2
<1>3. top[d] \in Nat /\ announced[d] \in Nat /\ top[d] = announced[d] + 1
  BY <1>1, Typed DEF CatchUp, BufferOK
<1>4. Awaiting' = Awaiting /\ (ResumeQueued' <=> ResumeQueued)
  BY <1>1 DEF Awaiting, ResumeQueued
<1>5. \A c, s : Asked(c, s)' <=> Asked(c, s)
  BY <1>1, <1>4 DEF Asked
<1>6. Range(wire') = Range(wire) \/ (d \in subscribed /\ Range(wire') = Range(wire) \cup {Message(d, top[d])})
  BY Zenon, <1>2, Queues, RangeAppend
<1>7. \A c, s : OnWire(c, s) => OnWire(c, s)'
  BY <1>6 DEF OnWire
<1>8. \A c, s : OnWire(c, s)' => OnWire(c, s) \/ (c = d /\ s = top[d] /\ d \in subscribed)
  BY <1>6, MessageIs DEF OnWire
<1>9. \A c \in Channels : unheard[c] \subseteq unheard'[c]
  BY Zenon, <1>2, Typed
<1>10. up => OnWire(d, top[d])' \/ top[d] \in unheard'[d]
  <2>1. CASE wire' = Append(wire, Message(d, top[d]))
    <3>1. Range(wire') = Range(wire) \cup {Message(d, top[d])}
      BY <2>1, Queues, RangeAppend
    <3> QED BY <3>1, <1>1 DEF OnWire
  <2>2. CASE up => unheard' = [unheard EXCEPT ![d] = @ \cup {top[d]}]
    BY <2>2, Typed
  <2> QED BY <1>2, <2>1, <2>2
<1>11. ASSUME up, NEW c \in Channels, NEW s \in Int, s <= top[c], Covered(c, s)
       PROVE  Covered(c, s)'
  <2>1. CASE announced[c] < s /\ c = d
    <3>1. s = top[d]
      BY <1>3, <1>11, <2>1
    <3> QED BY Zenon, <1>1, <1>10, <1>11, <2>1, <3>1 DEF Covered, OnWire
  <2>2. CASE announced[c] < s /\ c # d
    <3>1. announced'[c] = announced[c]
      BY <1>1, <2>2, Typed
    <3> QED BY <2>2, <3>1 DEF Covered
  <2>3. CASE Accounted(c, s) \/ s \in unheard[c] \/ OnWire(c, s) \/ Asked(c, s)
    BY <1>1, <1>5, <1>7, <1>9, <2>3 DEF Covered, Accounted
  <2> QED BY Zenon, <1>11, <2>1, <2>2, <2>3 DEF Covered
<1>12. ConnectionOK'
  <2>1. ~up => wire' = wire
    BY <1>2
  <2>2. ResumeQueued => wire' = <<>>
    BY <1>2 DEF CatchUp, ConnectionOK
  <2>3. \A c \in Awaiting : c \notin subscribed /\ \A s \in Nat : ~OnWire(c, s)'
    BY Zenon, <1>8 DEF CatchUp, ConnectionOK
  <2> QED BY Zenon, <1>1, <1>4, <2>1, <2>2, <2>3 DEF CatchUp, ConnectionOK
<1>13. BufferOK'
  <2>1. ASSUME NEW c \in Channels
        PROVE  announced'[c] <= top[c] /\ top[c] <= announced'[c] + 1
    BY <1>1, <1>3, Typed DEF CatchUp, BufferOK
  <2>2. ASSUME loop.at = "replay", NEW s \in loop.newest + 1..announced'[loop.channel]
        PROVE  s \in unheard'[loop.channel]
    <3>1. loop.channel \in Channels /\ loop.newest \in Nat
      BY Zenon, <2>2, LoopIs
    <3>2. CASE s <= announced[loop.channel]
      <4>1. s \in loop.newest + 1..announced[loop.channel]
        BY <2>2, <3>1, <3>2, Typed
      <4> QED BY Zenon, <1>9, <2>2, <3>1, <4>1 DEF CatchUp, BufferOK
    <3>3. CASE ~(s <= announced[loop.channel])
      <4>1. loop.channel = d /\ s = top[d]
        BY <1>1, <1>3, <2>2, <3>1, <3>3, Typed
      <4>2. d \in Awaiting
        BY <2>2, <4>1 DEF Awaiting
      <4>3. d \notin subscribed /\ up
        BY <2>2, <4>2, LoopIs DEF CatchUp, ConnectionOK, Idle
      <4>4. unheard' = [unheard EXCEPT ![d] = @ \cup {top[d]}]
        BY <1>2, <4>3
      <4> QED BY <4>1, <4>4, Typed
    <3> QED BY Zenon, <3>2, <3>3
  <2> QED BY <1>1, <2>1, <2>2 DEF CatchUp, BufferOK
<1>14. WireCovered'
  <2> SUFFICES ASSUME NEW c \in Channels, NEW t \in Nat, OnWire(c, t)', NEW s \in t..top[c]
               PROVE  Covered(c, s)'
    BY <1>1 DEF WireCovered
  <2>1. s \in Int /\ s <= top[c] /\ t <= s
    BY Counts
  <2>2. CASE OnWire(c, t)
    <3>1. up
      BY <2>2, RangeEmpty DEF OnWire, CatchUp, ConnectionOK
    <3>2. Covered(c, s)
      BY <2>2 DEF CatchUp, WireCovered
    <3> QED BY <1>11, <2>1, <3>1, <3>2
  <2>3. CASE c = d /\ t = top[d]
    <3>1. s = t
      BY <1>3, <2>1, <2>3
    <3> QED BY <3>1 DEF Covered
  <2> QED BY <1>8, <2>2, <2>3
<1>15. ViewCovered'
  <2> SUFFICES ASSUME up, ~GapOnWire', NEW c \in Channels, start[c] # 0, NEW s \in start[c]..top[c]
               PROVE  Covered(c, s)' \/ s \in passed[c]
    BY <1>1 DEF ViewCovered
  <2>1. s \in Int /\ s <= top[c]
    BY Counts
  <2>2. ~GapOnWire
    BY <1>6 DEF GapOnWire
  <2>3. Covered(c, s) \/ s \in passed[c]
    BY <2>2 DEF CatchUp, ViewCovered
  <2> QED BY <1>11, <2>1, <2>3
<1> QED BY Zenon, <1>12, <1>13, <1>14, <1>15 DEF CatchUp

\* onConnected: RESUME, when there is one, is the first frame.
LEMMA GreetingIs ==
  ASSUME StreamTypeOK, NEW resuming \in BOOLEAN, NEW g \in Greeting(resuming)
  PROVE  /\ resuming /\ Resumable # {} =>
              g # <<>> /\ Head(g) = Resume /\ \A r \in Range(Tail(g)) : r.type # "RESUME"
         /\ ~(resuming /\ Resumable # {}) => \A r \in Range(g) : r.type # "RESUME"
<1>0. Cardinality(subscriptions) \in Nat
  BY DeliveryAssumption, FS_Subset, FS_CardinalityType DEF StreamTypeOK
<1>1. PICK order \in Orders(subscriptions) :
        g = (IF resuming /\ Resumable # {} THEN <<Resume>> ELSE <<>>)
              \o [i \in DOMAIN order |-> Request("SUBSCRIBE", order[i])]
  BY Zenon DEF Greeting
<1>2. DOMAIN order = 1..Cardinality(subscriptions) /\ \A i \in DOMAIN order : order[i] \in Channels
  BY Zenon DEF Orders, StreamTypeOK
<1> DEFINE asks == [i \in DOMAIN order |-> Request("SUBSCRIBE", order[i])]
           first == Resume
<1>3. \A i \in DOMAIN order : Request("SUBSCRIBE", order[i]) \in Requests
                              /\ Request("SUBSCRIBE", order[i]).type # "RESUME"
  BY <1>2 DEF Request, Requests
<1>4. \A r \in Range(asks) : r.type # "RESUME"
  BY <1>3 DEF Range
<1>5. asks \in Seq(Requests)
  BY <1>0, <1>2, <1>3
<1>6. first \in Requests
  BY DEF Resume, Requests, Positions, StreamTypeOK
<1>7. g = (IF resuming /\ Resumable # {} THEN <<first>> ELSE <<>>) \o asks
  BY <1>1
<1> HIDE DEF asks, first
<1>8. CASE resuming /\ Resumable # {}
  <2>1. g = <<first>> \o asks
    BY <1>7, <1>8
  <2>2. g # <<>> /\ Head(g) = first /\ Tail(g) = asks
    BY <1>5, <1>6, <2>1
  <2> QED BY Zenon, <1>4, <1>8, <2>2 DEF first
<1>9. CASE ~(resuming /\ Resumable # {})
  <2>1. g = asks
    BY <1>5, <1>7, <1>9
  <2> QED BY <1>4, <1>9, <2>1
<1> QED BY <1>8, <1>9

\* CONNECT: what the client has acknowledged is accounted for, what it has not
\* is asked for by RESUME, or is given up with the session or the position.
LEMMA ConnectCatchUp ==
  ASSUME IInv, CatchUp, Connect
  PROVE  CatchUp'
<1>0. StreamTypeOK /\ (session = "alive") \in BOOLEAN
  BY DEF IInv, DeliveryTypeOK
<1>1. /\ UNCHANGED <<top, announced, base, start, passed, handled, reported>>
      /\ up' = TRUE /\ loop' = Idle /\ wire' = <<>> /\ subscribed' = {} /\ loop'.at = "receive"
      /\ inbox' \in Greeting(session = "alive")
      /\ unheard' = [c \in Channels |->
                       IF session = "alive" /\ c \in Resumable THEN unheard[c]
                       ELSE unheard[c] \cup 1..announced[c]]
  BY DEF Connect, stream, positions, buffer, Idle
<1>2. Awaiting' = {} /\ \A c, s : ~OnWire(c, s)'
  BY <1>1, RangeEmpty DEF Awaiting, OnWire
<1>3. session = "alive" /\ Resumable # {} =>
        /\ inbox' # <<>> /\ Head(inbox') = Resume
        /\ \A r \in Range(Tail(inbox')) : r.type # "RESUME"
  BY Zenon, <1>0, <1>1, GreetingIs
<1>4. ~(session = "alive" /\ Resumable # {}) => \A r \in Range(inbox') : r.type # "RESUME"
  BY Zenon, <1>0, <1>1, GreetingIs
<1>5. ConnectionOK'
  <2>1. inbox' # <<>> => Range(inbox') = {Head(inbox')} \cup Range(Tail(inbox'))
    <3>1. inbox' \in Seq(Requests)
      BY Zenon, <1>0, <1>1, GreetingRequests
    <3> QED BY <3>1, RangeTail
  <2>2. inbox' # <<>> => \A r \in Range(Tail(inbox')) : r.type # "RESUME"
    BY Zenon, <1>3, <1>4, <2>1
  <2> QED BY Zenon, <1>1, <1>2, <2>2 DEF ConnectionOK, Idle
<1>6. BufferOK'
  BY Zenon, <1>1 DEF CatchUp, BufferOK
<1>7. WireCovered'
  BY Zenon, <1>2 DEF WireCovered
<1>8. ViewCovered'
  <2> SUFFICES ASSUME NEW c \in Channels, start[c] # 0, NEW s \in start[c]..top[c]
               PROVE  Covered(c, s)' \/ s \in passed[c]
    BY <1>1 DEF ViewCovered
  <2>1. s \in Nat /\ start[c] <= s /\ announced[c] \in Nat /\ lastAck[c] \in Nat /\ s # 0 /\ start[c] \in Nat
    BY Typed
  <2>2. CASE session = "alive" /\ c \in Resumable
    <3>1. CASE s <= lastAck[c]
      <4>1. Accounted(c, s) \/ s \in passed[c]
        <5>1. lastSeen[c] \in Nat
          BY DEF IInv, DeliveryTypeOK, StreamTypeOK
        <5>2. s \in start[c]..lastSeen[c] \/ s \in lastSeen[c] + 1..lastAck[c]
          BY <2>1, <3>1, <5>1
        <5> QED BY <5>2 DEF IInv, NoSilentSkip, AheadIsPassed
      <4> QED BY <1>1, <4>1 DEF Covered, Accounted
    <3>2. CASE lastAck[c] < s
      <4>1. ResumeQueued' /\ Head(inbox') = Resume
        BY <1>3, <2>2 DEF ResumeQueued, Resume
      <4>2. Head(inbox').from[c] = lastAck[c] /\ lastAck[c] # 0
        BY <2>2, <4>1 DEF Resume, Resumable
      <4>3. Head(inbox').from[c] \in 1..s - 1
        BY <2>1, <3>2, <4>2
      <4> QED BY <4>1, <4>3 DEF Covered, Asked
    <3> QED BY <2>1, <3>1, <3>2
  <2>3. CASE ~(session = "alive" /\ c \in Resumable)
    <3>1. unheard'[c] = unheard[c] \cup 1..announced[c]
      BY <1>1, <2>3
    <3>2. s \in 1..announced[c] \/ announced[c] < s
      BY <2>1
    <3> QED BY <1>1, <3>1, <3>2 DEF Covered
  <2> QED BY ZenonT(30), <2>2, <2>3
<1> QED BY <1>5, <1>6, <1>7, <1>8 DEF CatchUp

\* Steps of the frame loop that leave the wire, the buffer and the client alone,
\* and forget nothing that was asked for.
LEMMA LoopCatchUp ==
  ASSUME IInv, CatchUp, up,
         UNCHANGED <<top, announced, base, up, wire, unheard, start, passed, handled, reported>>,
         ConnectionOK', BufferOK',
         \A c \in Channels : \A s \in Int : Asked(c, s) => Asked(c, s)'
  PROVE  CatchUp'
<1>1. \A c, s : OnWire(c, s)' <=> OnWire(c, s)
  BY DEF OnWire
<1>2. ASSUME NEW c \in Channels, NEW s \in Int, Covered(c, s)
      PROVE  Covered(c, s)'
  BY <1>1, <1>2 DEF Covered, Accounted
<1>3. WireCovered'
  <2> SUFFICES ASSUME NEW c \in Channels, NEW t \in Nat, OnWire(c, t), NEW s \in t..top[c]
               PROVE  Covered(c, s)'
    BY <1>1 DEF WireCovered
  <2>1. s \in Int
    BY Counts
  <2> QED BY <1>2, <2>1 DEF CatchUp, WireCovered
<1>4. ViewCovered'
  <2> SUFFICES ASSUME ~GapOnWire, NEW c \in Channels, start[c] # 0, NEW s \in start[c]..top[c]
               PROVE  Covered(c, s)' \/ s \in passed[c]
    BY DEF ViewCovered, GapOnWire
  <2>1. s \in Int
    BY Counts
  <2> QED BY <1>2, <2>1 DEF CatchUp, ViewCovered
<1> QED BY <1>3, <1>4 DEF CatchUp

\* receive_frame: RESUME moves from the inbox into the loop.
LEMMA TakeFrameCatchUp ==
  ASSUME IInv, CatchUp, TakeFrame
  PROVE  CatchUp'
<1> DEFINE f == Head(inbox)
<1>1. /\ UNCHANGED <<top, announced, base, up, wire, unheard, start, passed, handled, reported>>
      /\ up /\ loop.at = "receive" /\ inbox # <<>> /\ inbox' = Tail(inbox)
  BY DEF TakeFrame, stream, positions, buffer
<1>2. Awaiting = {}
  BY <1>1 DEF Awaiting
<1>3. inbox' \in Seq(Requests) /\ \A r \in Range(inbox') : r.type # "RESUME"
  BY <1>1, Queues, TailSeq DEF CatchUp, ConnectionOK
<1>4. ~ResumeQueued' /\ (inbox' # <<>> => \A r \in Range(Tail(inbox')) : r.type # "RESUME")
  <2>1. inbox' # <<>> => Range(inbox') = {Head(inbox')} \cup Range(Tail(inbox'))
    BY <1>3, RangeTail
  <2> QED BY <1>3, <2>1 DEF ResumeQueued
<1>5. f \in Requests
  BY <1>1, Queues, TailSeq
<1>6. \A c, s : OnWire(c, s)' <=> OnWire(c, s)
  BY ZenonT(30), <1>1 DEF OnWire
<1>7. loop'.at # "replay"
  <2>1. \/ loop' = [at |-> "listen", channel |-> f.channel, todo |-> {}, from |-> NoPositions]
        \/ loop' = loop
        \/ loop' = [at |-> "read", todo |-> {c \in Channels : f.from[c] # 0}, from |-> f.from]
    BY Zenon DEF TakeFrame
  <2> HIDE DEF f
  <2> QED BY <1>1, <2>1
<1>8. BufferOK'
  BY <1>1, <1>7 DEF CatchUp, BufferOK
<1>9. CASE f.type = "RESUME"
  <2>1. /\ loop' = [at |-> "read", todo |-> {c \in Channels : f.from[c] # 0}, from |-> f.from]
        /\ subscribed' = subscribed
    BY <1>9 DEF TakeFrame
  <2>2. Awaiting' = {c \in Channels : f.from[c] # 0} /\ loop'.from = f.from
    BY <2>1 DEF Awaiting
  <2>3. ResumeQueued
    BY <1>1, <1>9 DEF ResumeQueued
  <2>4. subscribed = {} /\ \A c, s : ~OnWire(c, s)'
    BY <1>6, <2>3, RangeEmpty DEF CatchUp, ConnectionOK, OnWire
  <2>5. ConnectionOK'
    BY Zenon, <1>1, <1>4, <1>7, <2>1, <2>4 DEF ConnectionOK
  <2>6. ASSUME NEW c \in Channels, NEW s \in Int, Asked(c, s)
        PROVE  Asked(c, s)'
    <3>1. f.from[c] \in 1..s - 1
      BY <1>2, <2>6 DEF Asked
    <3>2. f.from[c] # 0 /\ f.from[c] < s
      BY <2>6, <3>1
    <3>3. c \in Awaiting' /\ loop'.from[c] < s
      BY <2>2, <3>2
    <3> QED BY <3>3 DEF Asked
  <2> QED BY ZenonT(30), <1>1, <1>8, <2>5, <2>6, LoopCatchUp
<1>10. CASE f.type # "RESUME"
  <2>1. Awaiting' = {}
    <3>1. CASE f.type = "SUBSCRIBE"
      <4>1. loop' = [at |-> "listen", channel |-> f.channel, todo |-> {}, from |-> NoPositions]
        BY <3>1 DEF TakeFrame
      <4> QED BY Zenon, <4>1 DEF Awaiting
    <3>2. CASE f.type = "UNSUBSCRIBE"
      <4>1. loop' = loop
        BY <3>2 DEF TakeFrame
      <4> QED BY Zenon, <1>2, <4>1 DEF Awaiting
    <3> QED BY <1>5, <1>10, <3>1, <3>2 DEF Requests
  <2>2. \A c, s : ~Asked(c, s)
    BY <1>2, <1>10 DEF Asked, ResumeQueued
  <2>3. ConnectionOK'
    BY ZenonT(30), <1>1, <1>4, <1>7, <2>1 DEF ConnectionOK
  <2> QED BY <1>1, <1>8, <2>2, <2>3, LoopCatchUp
<1> QED BY ZenonT(30), <1>9, <1>10

\* XRANGE: the reply reaches everything announced so far.
LEMMA ReadBufferCatchUp ==
  ASSUME IInv, CatchUp, ReadBuffer
  PROVE  CatchUp'
<1>1. /\ UNCHANGED <<top, announced, base, up, inbox, subscribed, wire, unheard, start, passed, handled, reported>>
      /\ loop.at = "read"
  BY DEF ReadBuffer, stream, positions, buffer
<1>2. PICK d \in loop.todo :
        loop' = [at |-> "replay", channel |-> d, todo |-> loop.todo \ {d}, from |-> loop.from,
                 oldest |-> base[d] + 1, newest |-> top[d]]
  BY Zenon DEF ReadBuffer
<1>3. d \in Channels /\ loop # Idle
  BY Zenon, <1>1, LoopIs
<1>4. Awaiting' = Awaiting /\ loop'.from = loop.from /\ loop'.at = "replay" /\ d \notin loop'.todo
      /\ loop'.channel = d /\ loop'.oldest = base[d] + 1 /\ loop'.newest = top[d]
  BY Zenon, <1>1, <1>2 DEF Awaiting
<1>5. up /\ ~ResumeQueued /\ ~ResumeQueued'
  BY Zenon, <1>1, <1>3 DEF CatchUp, ConnectionOK, ResumeQueued
<1>6. \A c, s : OnWire(c, s)' <=> OnWire(c, s)
  BY <1>1 DEF OnWire
<1>7. ConnectionOK'
  BY ZenonT(30), <1>1, <1>4, <1>5, <1>6 DEF CatchUp, ConnectionOK
<1>8. BufferOK'
  <2>1. base[d] \in Nat /\ top[d] \in Nat /\ announced[d] \in Nat
    BY <1>3, Typed
  <2>2. base[d] + 1 <= top[d] \/ top[d] = 0
    BY <1>3, <2>1 DEF CatchUp, BufferOK
  <2>3. top[d] + 1..announced[d] = {}
    BY <1>3, <2>1 DEF CatchUp, BufferOK
  <2> QED BY <1>1, <1>4, <2>2, <2>3 DEF CatchUp, BufferOK
<1>9. \A c \in Channels : \A s \in Int : Asked(c, s) => Asked(c, s)'
  BY <1>4, <1>5 DEF Asked
<1> QED BY ZenonT(30), <1>1, <1>5, <1>7, <1>8, <1>9, LoopCatchUp

\* handle_resume goes on to the next channel, if there is one.
LEMMA NextChannelIs ==
  ASSUME IInv, loop.at # "receive", NextChannel(loop.todo, loop.from)
  PROVE  /\ Awaiting' = loop.todo /\ loop'.at # "replay"
         /\ loop.todo # {} => loop'.from = loop.from
<1>1. CASE loop.todo = {}
  BY <1>1 DEF NextChannel, Awaiting, Idle
<1>2. CASE loop.todo # {}
  BY Zenon, <1>2 DEF NextChannel, Awaiting
<1> QED BY <1>1, <1>2

LEMMA ListenCatchUp ==
  ASSUME IInv, CatchUp, Listen
  PROVE  CatchUp'
<1>1. /\ UNCHANGED <<top, announced, base, up, inbox, subscribed, wire, unheard, start, passed, handled, reported>>
      /\ loop.at = "listen" /\ NextChannel(loop.todo, loop.from)
  BY DEF Listen, stream, positions, buffer
<1>2. Awaiting = loop.todo /\ loop # Idle
  BY <1>1, LoopIs DEF Awaiting
<1>3. Awaiting' = loop.todo /\ loop'.at # "replay" /\ (loop.todo # {} => loop'.from = loop.from)
  BY <1>1, NextChannelIs
<1>4. up /\ ~ResumeQueued /\ ~ResumeQueued'
  BY <1>1, <1>2 DEF CatchUp, ConnectionOK, ResumeQueued
<1>5. \A c, s : OnWire(c, s)' <=> OnWire(c, s)
  BY <1>1 DEF OnWire
<1>6. ConnectionOK'
  BY ZenonT(30), <1>1, <1>2, <1>3, <1>4, <1>5 DEF CatchUp, ConnectionOK
<1>7. BufferOK'
  BY <1>1, <1>3 DEF CatchUp, BufferOK
<1>8. \A c \in Channels : \A s \in Int : Asked(c, s) => Asked(c, s)'
  BY <1>2, <1>3, <1>4 DEF Asked
<1> QED BY <1>1, <1>4, <1>6, <1>7, <1>8, LoopCatchUp

\* replay_channel reports a gap: the client will start its view anew.
LEMMA ReplayGapCatchUp ==
  ASSUME IInv, CatchUp, loop.at = "replay", ReplayGap(loop.channel),
         UNCHANGED <<top, announced, base, start, passed, handled, reported>>
  PROVE  CatchUp'
<1> DEFINE d == loop.channel
<1>1. /\ UNCHANGED <<up, inbox, subscribed, unheard>> /\ NextChannel(loop.todo, loop.from)
      /\ \E i \in 0..Len(wire) :
           wire' = SubSeq(wire, 1, i) \o <<ResumeGap(d)>> \o SubSeq(wire, i + 1, Len(wire))
  BY Zenon DEF ReplayGap
<1>2. d \in Channels /\ loop # Idle /\ Awaiting = loop.todo \cup {d}
  BY LoopIs DEF Awaiting
<1>3. up /\ ~ResumeQueued /\ ~ResumeQueued'
  BY <1>1, <1>2 DEF CatchUp, ConnectionOK, ResumeQueued
<1>4. Awaiting' = loop.todo /\ loop'.at # "replay"
  BY NextChannelIs, <1>1
<1>5. Range(wire') = Range(wire) \cup {ResumeGap(d)}
  <2>1. ResumeGap(d) \in Frames
    BY <1>2 DEF ResumeGap, Frames
  <2>2. PICK i \in 0..Len(wire) :
          wire' = SubSeq(wire, 1, i) \o <<ResumeGap(d)>> \o SubSeq(wire, i + 1, Len(wire))
    BY Zenon, <1>1
  <2> QED BY <2>1, <2>2, Queues, RangeInsert
<1>6. \A c, s : OnWire(c, s)' <=> OnWire(c, s)
  BY <1>5, MessageIs DEF OnWire
<1>7. GapOnWire'
  BY <1>2, <1>5 DEF GapOnWire
<1>8. ConnectionOK'
  BY ZenonT(30), <1>1, <1>2, <1>3, <1>4, <1>6 DEF CatchUp, ConnectionOK
<1>9. BufferOK'
  BY Zenon, <1>1, <1>4 DEF CatchUp, BufferOK
<1>10. WireCovered'
  <2> SUFFICES ASSUME NEW c \in Channels, NEW t \in Nat, OnWire(c, t), NEW s \in t..top[c]
               PROVE  Covered(c, s)'
    BY <1>6 DEF WireCovered
  <2>1. c \notin Awaiting
    BY DEF CatchUp, ConnectionOK
  <2>2. Covered(c, s) /\ ~Asked(c, s)
    BY <1>3, <2>1 DEF CatchUp, WireCovered, Asked
  <2> QED BY <1>1, <1>6, <2>2 DEF Covered, Accounted
<1> QED BY <1>7, <1>8, <1>9, <1>10 DEF CatchUp, ViewCovered

\* replay_channel enqueues what it read: what it leaves out was announced after
\* the read, and is unheard.
LEMMA ReplayFitsCatchUp ==
  ASSUME IInv, CatchUp, NEW d, NEW first
  PROVE  /\ loop.at = "replay" /\ d = loop.channel
         /\ first = FirstReplayed(loop.from[d], loop.oldest)
         /\ ~Gap(loop.from[d], loop.oldest, loop.newest)
         /\ ReplayFits(d, first, Replayed(d, first, loop.newest))
         /\ UNCHANGED <<top, announced, base, start, passed, handled, reported>>
         => CatchUp'
<1>0. SUFFICES ASSUME loop.at = "replay", d = loop.channel,
                      first = FirstReplayed(loop.from[d], loop.oldest),
                      ~Gap(loop.from[d], loop.oldest, loop.newest),
                      ReplayFits(d, first, Replayed(d, first, loop.newest)),
                      UNCHANGED <<top, announced, base, start, passed, handled, reported>>
               PROVE  CatchUp'
  OBVIOUS
<1>a. loop.at = "replay" /\ d = loop.channel
  BY ZenonT(30), <1>0
<1>b. /\ top' = top /\ announced' = announced /\ base' = base /\ start' = start
      /\ passed' = passed /\ handled' = handled /\ reported' = reported
  BY Zenon, <1>0
<1>1. /\ up' = up /\ inbox' = inbox /\ wire' = wire \o Replayed(d, first, loop.newest)
      /\ subscribed' = subscribed \cup {d}
      /\ loop' = [at |-> "listen", channel |-> d, todo |-> loop.todo, from |-> loop.from]
      /\ unheard' = [unheard EXCEPT ![d] = @ \ (first..loop.newest)]
  BY Zenon, <1>0 DEF ReplayFits
<1>2. d \in Channels /\ loop # Idle /\ Awaiting = loop.todo \cup {d} /\ d \notin loop.todo
  BY Zenon, <1>a, LoopIs DEF Awaiting, CatchUp, ConnectionOK
<1>3. up /\ ~ResumeQueued /\ ~ResumeQueued'
  BY Zenon, <1>1, <1>2 DEF CatchUp, ConnectionOK, ResumeQueued
<1>4. Awaiting' = loop.todo /\ loop'.at = "listen" /\ loop'.from = loop.from
  BY <1>a, <1>1 DEF Awaiting
<1>5. loop.from[d] \in Nat /\ loop.oldest \in Nat \ {0} /\ loop.newest \in Nat
  BY ZenonT(30), <1>a, <1>2, LoopIs DEF Positions
<1>6. first \in Nat
  BY <1>0, <1>5 DEF FirstReplayed
<1>7. Range(wire') = Range(wire) \cup Range(Replayed(d, first, loop.newest))
  <2>1. Replayed(d, first, loop.newest) \in Seq(Frames)
    BY Zenon, <1>2, <1>5, <1>6, ReplayedFrames
  <2>2. wire \in Seq(Frames)
    BY Zenon, Queues
  <2> QED BY <1>1, <2>1, <2>2, RangeConcatenation
<1>8. ASSUME NEW c, NEW s \in Nat
      PROVE  OnWire(c, s)' <=> OnWire(c, s) \/ (c = d /\ s \in first..loop.newest)
  BY Zenon, <1>5, <1>6, <1>7, ReplayedIs DEF OnWire
<1>9. ASSUME NEW c \in Channels, c # d
      PROVE  unheard'[c] = unheard[c]
  BY Zenon, <1>1, <1>9, Typed
<1>10. unheard'[d] = unheard[d] \ (first..loop.newest)
  BY <1>1, <1>2, Typed
<1>11. ASSUME NEW s \in Nat, first <= s
       PROVE  Covered(d, s)'
  <2>1. CASE s <= loop.newest
    <3>1. s \in first..loop.newest
      BY <1>5, <1>6, <1>11, <2>1
    <3> QED BY Zenon, <1>8, <3>1 DEF Covered
  <2>2. CASE loop.newest < s /\ s <= announced[d]
    <3>1. s \in loop.newest + 1..announced[d] /\ s \notin first..loop.newest
      BY SMTT(30), <1>2, <1>5, <1>6, <1>11, <2>2, Counts
    <3>2. s \in unheard[d]
      BY Zenon, <1>a, <3>1 DEF CatchUp, BufferOK
    <3>3. s \in unheard'[d]
      BY Zenon, <1>10, <3>1, <3>2
    <3> QED BY <3>3 DEF Covered
  <2>3. CASE announced[d] < s
    BY <1>b, <2>3 DEF Covered
  <2>4. announced[d] \in Nat
    BY <1>2, Counts
  <2> QED BY <1>5, <1>11, <2>1, <2>2, <2>3, <2>4
<1>12. ASSUME NEW s \in Nat \ {0}, loop.from[d] < s
       PROVE  Covered(d, s)'
  <2>1. CASE loop.newest = 0
    <3>1. s \notin first..loop.newest
      BY <1>5, <1>6, <2>1
    <3>2. CASE s <= announced[d]
      <4>1. s \in loop.newest + 1..announced[d]
        BY <1>2, <1>5, <2>1, <3>2, Counts
      <4>2. s \in unheard'[d]
        BY Zenon, <1>a, <1>10, <3>1, <4>1 DEF CatchUp, BufferOK
      <4> QED BY <4>2 DEF Covered
    <3>3. CASE announced[d] < s
      BY <1>b, <3>3 DEF Covered
    <3> QED BY <1>2, <3>2, <3>3, Counts
  <2>2. CASE loop.newest # 0
    <3>1. first <= s
      BY <1>0, <1>5, <1>12, <2>2 DEF FirstReplayed, Gap, CatchUp, BufferOK
    <3> QED BY Zenon, <1>11, <3>1
  <2> QED BY <2>1, <2>2
<1>13. ASSUME NEW c \in Channels, NEW s \in Nat \ {0}, Covered(c, s)
       PROVE  Covered(c, s)'
  <2>1. CASE c = d
    <3>1. CASE Asked(c, s)
      BY Zenon, <1>3, <1>12, <2>1, <3>1 DEF Asked
    <3>2. CASE s \in unheard[c]
      <4>1. s \in unheard'[d] \/ s \in first..loop.newest
        BY Zenon, <1>10, <2>1, <3>2
      <4> QED BY <1>8, <2>1, <4>1 DEF Covered
    <3>3. CASE Accounted(c, s) \/ OnWire(c, s) \/ announced[c] < s
      BY Zenon, <1>b, <1>8, <3>3 DEF Covered, Accounted
    <3> QED BY Zenon, <1>13, <3>1, <3>2, <3>3 DEF Covered
  <2>2. CASE c # d
    <3>1. Asked(c, s) => Asked(c, s)'
      BY <1>2, <1>3, <1>4, <2>2 DEF Asked
    <3> QED BY Zenon, <1>b, <1>8, <1>9, <1>13, <2>2, <3>1 DEF Covered, Accounted
  <2> QED BY Zenon, <2>1, <2>2
<1>14. ConnectionOK'
  <2>1. \A c \in loop.todo : c \notin subscribed' /\ \A s \in Nat : ~OnWire(c, s)'
    <3> SUFFICES ASSUME NEW c \in loop.todo PROVE c \notin subscribed' /\ \A s \in Nat : ~OnWire(c, s)'
      OBVIOUS
    <3>1. c # d /\ c \notin subscribed /\ \A s \in Nat : ~OnWire(c, s)
      BY <1>2 DEF CatchUp, ConnectionOK
    <3> QED BY <1>1, <1>8, <3>1
  <2> QED BY ZenonT(30), <1>1, <1>3, <1>4, <2>1 DEF CatchUp, ConnectionOK
<1>15. BufferOK'
  BY <1>b, <1>4 DEF CatchUp, BufferOK
<1>16. WireCovered'
  <2> SUFFICES ASSUME NEW c \in Channels, NEW t \in Nat, OnWire(c, t)', NEW s \in t..top[c]
               PROVE  Covered(c, s)'
    BY <1>b DEF WireCovered
  <2>1. s \in Nat /\ t <= s
    BY Counts
  <2>2. CASE OnWire(c, t)
    <3>1. c # d
      BY <1>2, <2>2 DEF CatchUp, ConnectionOK
    <3>2. c \notin Awaiting
      BY <2>2 DEF CatchUp, ConnectionOK
    <3>3. Covered(c, s) /\ ~Asked(c, s)
      BY <1>3, <2>2, <3>2 DEF CatchUp, WireCovered, Asked
    <3> QED BY Zenon, <1>b, <1>8, <1>9, <2>1, <3>1, <3>3 DEF Covered, Accounted
  <2>3. CASE c = d /\ t \in first..loop.newest
    <3>1. first <= s
      BY <1>5, <1>6, <2>1, <2>3
    <3> QED BY <1>11, <2>1, <2>3, <3>1
  <2> QED BY <1>8, <2>2, <2>3
<1>17. ViewCovered'
  <2> SUFFICES ASSUME ~GapOnWire', NEW c \in Channels, start[c] # 0, NEW s \in start[c]..top[c]
               PROVE  Covered(c, s)' \/ s \in passed[c]
    BY <1>b DEF ViewCovered
  <2>1. s \in Nat \ {0}
    BY Counts
  <2>2. ~GapOnWire
    BY <1>7 DEF GapOnWire
  <2>3. Covered(c, s) \/ s \in passed[c]
    BY <1>3, <2>2 DEF CatchUp, ViewCovered
  <2> QED BY Zenon, <1>13, <2>1, <2>3
<1> QED BY Zenon, <1>14, <1>15, <1>16, <1>17 DEF CatchUp

LEMMA ReplayCatchUp ==
  ASSUME IInv, CatchUp, Replay
  PROVE  CatchUp'
<1>1. /\ UNCHANGED <<top, announced, base, start, passed, handled, reported>> /\ loop.at = "replay"
  BY DEF Replay, stream, positions, buffer
<1>2. PICK d : d = loop.channel
  OBVIOUS
<1>3. PICK first : first = FirstReplayed(loop.from[d], loop.oldest)
  OBVIOUS
<1>4. IF Gap(loop.from[d], loop.oldest, loop.newest) THEN ReplayGap(d)
      ELSE \/ ReplayFits(d, first, Replayed(d, first, loop.newest))
           \/ ReplayOverflows(Replayed(d, first, loop.newest))
  BY Zenon, <1>2, <1>3 DEF Replay
<1>5. d \in Channels /\ first \in Nat /\ loop.newest \in Nat
  <2>1. d \in Channels /\ loop.from[d] \in Nat /\ loop.oldest \in Nat /\ loop.newest \in Nat
    BY <1>1, <1>2, LoopIs DEF Positions
  <2> QED BY <1>3, <2>1 DEF FirstReplayed
<1>6. CASE ReplayGap(d)
  BY ZenonT(30), <1>1, <1>2, <1>6, ReplayGapCatchUp
<1>7. CASE /\ ~Gap(loop.from[d], loop.oldest, loop.newest)
           /\ ReplayFits(d, first, Replayed(d, first, loop.newest))
  BY <1>1, <1>2, <1>3, <1>7, ReplayFitsCatchUp
<1>8. CASE ReplayOverflows(Replayed(d, first, loop.newest))
  BY ZenonT(30), <1>1, <1>8, DownCatchUp DEF ReplayOverflows
<1> QED BY ZenonT(30), <1>4, <1>6, <1>7, <1>8

\* RelayClient.onMessage hands the message over, or had done so before.
LEMMA OnMessageIs ==
  ASSUME IInv, NEW c \in Channels, NEW t \in Nat, OnMessage(c, t)
  PROVE  /\ t \in handled'[c]
         /\ \A d \in Channels : /\ handled[d] \subseteq handled'[d] /\ reported[d] \subseteq reported'[d]
                                /\ passed[d] \subseteq passed'[d]
                                /\ start'[d] = start[d] \/ (d = c /\ start'[d] = t)
<1>1. CASE Seen(c, t)
  <2>1. UNCHANGED <<start, handled, reported>> /\ passed' = [passed EXCEPT ![c] = @ \cup (lastSeen[c] + 1..t)]
    BY <1>1 DEF OnMessage, Ack
  <2>2. t \in handled[c]
    BY <1>1 DEF IInv, SeenIsHandled
  <2>3. \A d \in Channels : passed[d] \subseteq passed'[d]
    BY <2>1, Typed
  <2> QED BY <2>1, <2>2, <2>3
<1>2. CASE ~Seen(c, t)
  <2>1. /\ start' = [start EXCEPT ![c] = IF @ = 0 THEN t ELSE @]
        /\ handled' = [handled EXCEPT ![c] = @ \cup {t}]
        /\ reported' = [reported EXCEPT ![c] = @ \cup Missing(c, t)]
        /\ passed' = passed
    BY <1>2 DEF OnMessage
  <2> HIDE DEF Missing
  <2> QED BY <2>1, Typed
<1> QED BY <1>1, <1>2

LEMMA ReceiveCatchUp ==
  ASSUME IInv, CatchUp, Receive
  PROVE  CatchUp'
<1>1. /\ UNCHANGED <<top, announced, base, up, inbox, loop, subscribed, unheard>>
      /\ wire # <<>> /\ wire' = Tail(wire)
  BY DEF Receive, buffer, server
<1>2. PICK f \in Frames : f = Head(wire)
  BY <1>1, Queues, TailSeq
<1>3. Range(wire) = {f} \cup Range(wire')
  BY ZenonT(30), <1>1, <1>2, Queues, RangeTail
<1>4. Awaiting' = Awaiting /\ ~ResumeQueued /\ ~ResumeQueued'
  BY <1>1 DEF Awaiting, ResumeQueued, CatchUp, ConnectionOK
<1>5. \A c, s : Asked(c, s)' <=> Asked(c, s)
  BY <1>1, <1>4 DEF Asked
<1>6. \A c, s : OnWire(c, s)' => OnWire(c, s)
  BY <1>3 DEF OnWire
<1>7. ConnectionOK'
  BY Zenon, <1>1, <1>4, <1>6 DEF CatchUp, ConnectionOK
<1>8. BufferOK'
  BY <1>1 DEF CatchUp, BufferOK
<1>9. CASE f.type = "MESSAGE"
  <2>1. PICK c \in Channels, t \in Nat : f = Message(c, t) /\ OnMessage(c, t)
    <3>1. OnMessage(f.channel, f.sequence)
      BY Zenon, <1>2, <1>9 DEF Receive
    <3> QED BY <1>9, <3>1, FrameIs
  <2>2. /\ t \in handled'[c]
        /\ \A d \in Channels : /\ handled[d] \subseteq handled'[d] /\ reported[d] \subseteq reported'[d]
                               /\ passed[d] \subseteq passed'[d]
                               /\ start'[d] = start[d] \/ (d = c /\ start'[d] = t)
    BY Zenon, <2>1, OnMessageIs
  <2>3. OnWire(c, t)
    BY <1>3, <2>1 DEF OnWire
  <2>4. \A d, s : OnWire(d, s) => OnWire(d, s)' \/ (d = c /\ s = t)
    BY SMTT(30), <1>3, <2>1, MessageIs DEF OnWire
  <2>5. ASSUME NEW d \in Channels, NEW s, Covered(d, s)
        PROVE  Covered(d, s)'
    BY Zenon, <1>1, <1>5, <2>2, <2>4, <2>5 DEF Covered, Accounted
  <2>6. WireCovered'
    BY ZenonT(30), <1>1, <1>6, <2>5 DEF CatchUp, WireCovered
  <2>7. ViewCovered'
    <3> SUFFICES ASSUME up, ~GapOnWire', NEW d \in Channels, start'[d] # 0, NEW s \in start'[d]..top[d]
                 PROVE  Covered(d, s)' \/ s \in passed'[d]
      BY <1>1 DEF ViewCovered
    <3>1. ~GapOnWire
      BY SMTT(30), <1>3, <2>1, MessageIs DEF GapOnWire
    <3>2. CASE start'[d] = start[d]
      BY ZenonT(30), <2>2, <2>5, <3>1, <3>2 DEF CatchUp, ViewCovered
    <3>3. CASE d = c /\ start'[d] = t
      BY <2>3, <2>5, <3>3 DEF CatchUp, WireCovered
    <3> QED BY <2>2, <3>2, <3>3
  <2> QED BY <1>7, <1>8, <2>6, <2>7 DEF CatchUp
<1>10. CASE f.type = "RESUME_GAP"
  <2>1. UNCHANGED <<handled, reported>> /\ \A c \in Channels : start'[c] = 0
    BY <1>2, <1>10 DEF Receive, OnResumeGap
  <2>2. \A c, s : OnWire(c, s) => OnWire(c, s)'
    BY ZenonT(30), <1>3, <1>10, MessageIs DEF OnWire
  <2>3. \A c, s : Covered(c, s) => Covered(c, s)'
    BY <1>1, <1>5, <2>1, <2>2 DEF Covered, Accounted
  <2>4. WireCovered'
    BY Zenon, <1>1, <1>6, <2>3 DEF CatchUp, WireCovered
  <2>5. ViewCovered'
    BY <2>1 DEF ViewCovered
  <2> QED BY <1>7, <1>8, <2>4, <2>5 DEF CatchUp
<1> QED BY <1>9, <1>10, FrameIs

\* subscribe and unsubscribe queue a frame behind a RESUME, if there is one.
LEMMA CallCatchUp ==
  ASSUME IInv, CatchUp, Call
  PROVE  CatchUp'
<1>1. UNCHANGED <<top, announced, base, up, loop, subscribed, wire, unheard>>
  BY DEF Call, buffer
<1>2. PICK c \in Channels :
        /\ Subscribe(c) \/ Unsubscribe(c)
        /\ inbox' \in {inbox, Append(inbox, Request("SUBSCRIBE", c)), Append(inbox, Request("UNSUBSCRIBE", c))}
        /\ ~up => inbox' = inbox
  BY ZenonT(30) DEF Call
<1>3. /\ UNCHANGED <<handled, reported>>
      /\ \A d \in Channels : start'[d] = 0 \/ (start'[d] = start[d] /\ passed'[d] = passed[d])
  <2>1. CASE Subscribe(c)
    BY <2>1 DEF Subscribe, positions
  <2>2. CASE Unsubscribe(c)
    BY <2>2, Typed DEF Unsubscribe
  <2> QED BY Zenon, <1>2, <2>1, <2>2
<1>4. /\ ResumeQueued' <=> ResumeQueued
      /\ ResumeQueued => Head(inbox') = Head(inbox)
      /\ inbox' # <<>> => \A r \in Range(Tail(inbox')) : r.type # "RESUME"
  <2>1. CASE inbox' = inbox
    BY <2>1 DEF ResumeQueued, CatchUp, ConnectionOK
  <2>2. ASSUME NEW r \in Requests, r.type # "RESUME", inbox' = Append(inbox, r)
        PROVE  <1>4
    <3>1. CASE inbox = <<>>
      <4>1. Head(inbox') = r /\ Tail(inbox') = <<>>
        BY <2>2, <3>1
      <4> QED BY <2>2, <3>1, <4>1, RangeEmpty DEF ResumeQueued
    <3>2. CASE inbox # <<>>
      <4>1. inbox' # <<>> /\ Head(inbox') = Head(inbox) /\ Tail(inbox') = Append(Tail(inbox), r)
        <5>1. inbox \in Seq(Requests)
          BY Typed
        <5>2. /\ Head(Append(inbox, r)) = Head(inbox)
              /\ Tail(Append(inbox, r)) = Append(Tail(inbox), r)
          BY <3>2, <5>1, HeadTailAppend
        <5>3. Append(inbox, r) # <<>>
          <6>1. Len(Append(inbox, r)) = Len(inbox) + 1 /\ Len(inbox) \in Nat
            BY <5>1
          <6> QED BY <6>1
        <5> QED BY <2>2, <5>2, <5>3
      <4>2. Tail(inbox) \in Seq(Requests)
        BY <3>2, Queues, TailSeq
      <4>3. Range(Tail(inbox')) = Range(Tail(inbox)) \cup {r}
        BY Zenon, <4>1, <4>2, RangeAppend
      <4> QED BY <2>2, <3>2, <4>1, <4>3 DEF ResumeQueued, CatchUp, ConnectionOK
    <3> QED BY <3>1, <3>2
  <2>3. ASSUME NEW type \in {"SUBSCRIBE", "UNSUBSCRIBE"}
        PROVE  Request(type, c) \in Requests /\ Request(type, c).type # "RESUME"
    BY DEF Request, Requests
  <2> QED BY ZenonT(30), <1>2, <2>1, <2>2, <2>3
<1>5. Awaiting' = Awaiting /\ (GapOnWire' <=> GapOnWire)
  BY <1>1 DEF Awaiting, GapOnWire
<1>6. \A d, s : OnWire(d, s)' <=> OnWire(d, s)
  BY ZenonT(30), <1>1 DEF OnWire
<1>7. \A d, s : Covered(d, s)' <=> Covered(d, s)
  BY <1>1, <1>3, <1>4, <1>5, <1>6 DEF Covered, Accounted, Asked
<1>8. ConnectionOK'
  BY ZenonT(30), <1>1, <1>2, <1>4, <1>5, <1>6 DEF CatchUp, ConnectionOK
<1>9. BufferOK'
  BY <1>1 DEF CatchUp, BufferOK
<1>10. WireCovered'
  BY Zenon, <1>1, <1>6, <1>7 DEF CatchUp, WireCovered
<1>11. ViewCovered'
  BY Zenon, <1>1, <1>3, <1>5, <1>7 DEF CatchUp, ViewCovered
<1> QED BY <1>8, <1>9, <1>10, <1>11 DEF CatchUp

LEMMA NextCatchUp == IInv /\ CatchUp /\ [DeliveryNext]_dvars => CatchUp'
<1> SUFFICES ASSUME IInv, CatchUp, [DeliveryNext]_dvars PROVE CatchUp'
  OBVIOUS
<1>1. ASSUME NEW c \in Channels, AppendMessage(c) \/ Announce(c) \/ AnnounceFails(c)
      PROVE  CatchUp'
  BY Zenon, <1>1, AppendCatchUp, AnnounceCatchUp
<1>2. ASSUME NEW c \in Channels, ListenerDrops(c) \/ ListenerAttaches(c)
      PROVE  CatchUp'
  <2>1. UNCHANGED <<top, announced, base, up, inbox, loop, subscribed, wire, unheard,
                    start, handled, reported, passed>>
    BY <1>2 DEF ListenerDrops, ListenerAttaches, stream, positions, buffer
  <2> QED BY <2>1, QuietCatchUp
<1>3. CASE Break
  BY <1>3, DownCatchUp DEF Break, buffer
<1>4. CASE SessionExpires \/ UNCHANGED dvars
  <2>1. UNCHANGED <<top, announced, base, up, inbox, loop, subscribed, wire, unheard,
                    start, handled, reported, passed>>
    BY Zenon, <1>4 DEF SessionExpires, dvars, stream, positions, buffer, server
  <2> QED BY Zenon, <2>1, QuietCatchUp
<1>5. CASE Handlers
  <2>1. UNCHANGED <<top, announced, base, up, inbox, loop, subscribed, wire, unheard>>
    BY Zenon, <1>5 DEF Handlers, buffer, server
  <2>2. PICK c \in Channels : \E s \in running[c] : HandlerReturns(c, s) \/ HandlerRejects(c, s)
    BY <1>5 DEF Handlers
  <2>3. UNCHANGED <<start, handled, reported>>
    BY Zenon, <2>2 DEF HandlerReturns, HandlerRejects, positions
  <2>4. \A d \in Channels : passed[d] \subseteq passed'[d]
    BY ZenonT(60), <2>2, Typed DEF HandlerReturns, HandlerRejects, Ack, positions
  <2> QED BY Zenon, <2>1, <2>3, <2>4, QuietCatchUp
<1>6. CASE Connect \/ Receive \/ Call
  BY Zenon, <1>6, ConnectCatchUp, ReceiveCatchUp, CallCatchUp
<1>7. CASE TakeFrame \/ ReadBuffer \/ Replay \/ Listen
  BY Zenon, <1>7, TakeFrameCatchUp, ReadBufferCatchUp, ReplayCatchUp, ListenCatchUp
<1> QED BY Zenon, <1>1, <1>2, <1>3, <1>4, <1>5, <1>6, <1>7 DEF DeliveryNext

\* What holds a message on its way to the subscriber, at every moment.
THEOREM CatchUpHolds == DeliverySpec => []CatchUp
BY InitCatchUp, NextCatchUp, Invariance, PTL DEF DeliverySpec

\* failure-model.md:19 as the code keeps it, for any number of channels, messages,
\* reconnects and calls: a client that has caught up after RESUME (replay_channel,
\* handler.py) has, or was told of, all of its view, except what no listener
\* handed to its connection and what an ACK of an earlier view passed by.
THEOREM CaughtUpIsComplete == DeliverySpec => []SettledIsComplete
<1>1. IInv /\ CatchUp => SettledIsComplete
  <2> SUFFICES ASSUME IInv, CatchUp, NEW c \in Channels, Settled(c), start[c] # 0,
                      NEW s \in start[c]..top[c]
               PROVE  Accounted(c, s) \/ s \in unheard[c] \cup passed[c]
    BY DEF SettledIsComplete
  <2>1. up /\ inbox = <<>> /\ loop.at = "receive" /\ wire = <<>> /\ announced[c] = top[c]
    BY DEF Settled, Idle
  <2>2. ~GapOnWire /\ ~OnWire(c, s)
    BY <2>1, RangeEmpty DEF GapOnWire, OnWire
  <2>3. ~Asked(c, s)
    BY <2>1 DEF Asked, ResumeQueued, Awaiting
  <2>4. Covered(c, s) \/ s \in passed[c]
    BY <2>1, <2>2 DEF CatchUp, ViewCovered
  <2>5. ~(announced[c] < s)
    BY <2>1, Typed
  <2> QED BY Zenon, <2>2, <2>3, <2>4, <2>5 DEF Covered
<1> QED BY <1>1, CatchUpHolds, Invariance, PTL
=============================================================================
