--------------------------- MODULE DeliveryProofs ---------------------------
(***************************************************************************)
(* Proof that Delivery implements AtLeastOnce, for any set of channels,    *)
(* dedup window, buffer length and number of faults.                       *)
(*                                                                         *)
(* The step that matters is OnMessage: that everything between the start   *)
(* of the view and the message is accounted for follows from NoSilentSkip  *)
(* up to lastSeen and from the gap reported beyond it.  NoSilentSkip needs *)
(* the view to start where lastSeen does, and the frames on the wire to    *)
(* carry sequences that were published.                                    *)
(***************************************************************************)
EXTENDS Delivery, FiniteSetTheorems, TLAPS

\* start and lastSeen are set and cleared together, and the view does not
\* start above the highest message seen.
ViewStarts ==
  \A c \in Channels : /\ start[c] = 0 <=> lastSeen[c] = 0
                      /\ start[c] <= lastSeen[c]

\* What is acknowledged beyond the highest message seen was passed by an ACK
\* left over from an earlier view.
AheadIsPassed ==
  \A c \in Channels : \A s \in lastSeen[c] + 1..lastAck[c] : s \in passed[c]

\* The messages a duplicate is recognized by were handed over.
SeenIsHandled == \A c \in Channels : \A s \in Nat : Seen(c, s) => s \in handled[c]

StreamInv == StreamTypeOK /\ ViewStarts /\ NoSilentSkip /\ AheadIsPassed /\ SeenIsHandled

\* The frames on the wire carry published sequences, and so will those of a
\* replay under way.
PublishedFrames == {f \in Frames : f.type = "MESSAGE" => f.sequence \in 1..top[f.channel]}

WirePublished ==
  /\ wire \in Seq(PublishedFrames)
  /\ loop.at = "replay" => loop.oldest >= 1 /\ loop.newest <= top[loop.channel]

IInv ==
  /\ DeliveryTypeOK /\ ViewStarts /\ NoSilentSkip /\ AheadIsPassed /\ SeenIsHandled
  /\ WirePublished

\* The server's half of IInv.
ServerInv ==
  /\ top \in [Channels -> Nat] /\ announced \in [Channels -> Nat] /\ base \in [Channels -> Nat]
  /\ session \in {"none", "alive", "expired"} /\ up \in BOOLEAN
  /\ inbox \in Seq(Requests) /\ loop \in Loops
  /\ subscribed \subseteq Channels /\ listening \subseteq Channels /\ attached \subseteq Channels
  /\ unheard \in [Channels -> SUBSET Nat]
  /\ breaks \in Nat /\ expiries \in Nat /\ drops \in Nat /\ calls \in Nat
  /\ WirePublished

-----------------------------------------------------------------------------
(* Sequences. *)

LEMMA AppendSeq == ASSUME NEW S, NEW q \in Seq(S), NEW e \in S PROVE Append(q, e) \in Seq(S)
OBVIOUS

LEMMA TailSeq ==
  ASSUME NEW S, NEW q \in Seq(S), q # <<>>
  PROVE  Head(q) \in S /\ Tail(q) \in Seq(S)
OBVIOUS

LEMMA ConcatSeq ==
  ASSUME NEW S, NEW q \in Seq(S), NEW r \in Seq(S)
  PROVE  q \o r \in Seq(S)
OBVIOUS

LEMMA InsertSeq ==
  ASSUME NEW S, NEW q \in Seq(S), NEW e \in S, NEW i \in 0..Len(q)
  PROVE  SubSeq(q, 1, i) \o <<e>> \o SubSeq(q, i + 1, Len(q)) \in Seq(S)
<1>1. SubSeq(q, 1, i) \in Seq(S) /\ SubSeq(q, i + 1, Len(q)) \in Seq(S)
  OBVIOUS
<1>2. <<e>> \in Seq(S)
  OBVIOUS
<1>3. SubSeq(q, 1, i) \o <<e>> \in Seq(S)
  BY <1>1, <1>2, ConcatSeq
<1> QED BY <1>1, <1>3, ConcatSeq

-----------------------------------------------------------------------------
(* The client's steps keep StreamInv. *)

\* rememberId adds one entry and forgets others.
LEMMA RememberedWas ==
  ASSUME NEW S, seenOrder \in Seq(S), NEW c, NEW s, Remember(c, s), <<c, s>> \in S,
         NEW i \in DOMAIN seenOrder', seenOrder'[i] # <<c, s>>
  PROVE  \E j \in DOMAIN seenOrder : seenOrder[j] = seenOrder'[i]
<1> DEFINE e == <<c, s>>
<1>1. CASE Len(seenOrder) < DedupWindow
  <2>1. seenOrder' = Append(seenOrder, e)
    BY <1>1 DEF Remember
  <2> HIDE DEF e
  <2>2. i = Len(seenOrder) + 1 => seenOrder'[i] = e
    BY <2>1
  <2>3. i # Len(seenOrder) + 1 => i \in DOMAIN seenOrder /\ seenOrder'[i] = seenOrder[i]
    BY <2>1
  <2> QED BY <2>2, <2>3 DEF e
<1>2. CASE ~(Len(seenOrder) < DedupWindow)
  <2>1. seenOrder' = Append(Tail(seenOrder), e) /\ seenOrder # <<>>
    BY <1>2, ClientStreamAssumption DEF Remember
  <2> HIDE DEF e
  <2>2. i = Len(seenOrder) => seenOrder'[i] = e
    BY <2>1
  <2>3. i # Len(seenOrder) => i + 1 \in DOMAIN seenOrder /\ seenOrder'[i] = seenOrder[i + 1]
    BY <2>1
  <2> QED BY <2>2, <2>3 DEF e
<1> QED BY <1>1, <1>2

LEMMA AckStream ==
  ASSUME StreamInv, NEW c \in Channels, NEW s \in Nat, Ack(c, s), UNCHANGED lastSeen
  PROVE  lastAck' \in [Channels -> Nat] /\ passed' \in [Channels -> SUBSET Nat] /\ AheadIsPassed'
<1>1. lastAck' = [lastAck EXCEPT ![c] = IF s > @ THEN s ELSE @]
  BY DEF Ack
<1>2. passed' = [passed EXCEPT ![c] = @ \cup (lastSeen[c] + 1..s)]
  BY DEF Ack
<1>3. /\ lastAck \in [Channels -> Nat] /\ lastSeen \in [Channels -> Nat]
      /\ passed \in [Channels -> SUBSET Nat]
  BY DEF StreamInv, StreamTypeOK
<1>4. lastAck' \in [Channels -> Nat]
  BY <1>1, <1>3
<1>5. lastSeen[c] + 1..s \subseteq Nat
  BY <1>3
<1>6. passed' \in [Channels -> SUBSET Nat]
  BY <1>2, <1>3, <1>5
<1>7. ASSUME NEW d \in Channels, NEW t \in lastSeen[d] + 1..lastAck'[d]
      PROVE  t \in passed'[d]
  <2>1. CASE d # c
    BY <1>1, <1>2, <1>3, <1>7, <2>1 DEF StreamInv, AheadIsPassed
  <2>2. CASE d = c
    <3>1. passed'[c] = passed[c] \cup (lastSeen[c] + 1..s)
      BY <1>2, <1>3
    <3>2. lastAck'[c] = IF s > lastAck[c] THEN s ELSE lastAck[c]
      BY <1>1, <1>3
    <3>3. t \in lastSeen[c] + 1..s \/ t \in lastSeen[c] + 1..lastAck[c]
      BY <1>3, <1>7, <2>2, <3>2
    <3> QED BY <2>2, <3>1, <3>3 DEF StreamInv, AheadIsPassed
  <2> QED BY <2>1, <2>2
<1> QED BY <1>4, <1>6, <1>7 DEF AheadIsPassed

LEMMA OnMessageStream ==
  ASSUME StreamInv, NEW c \in Channels, NEW s \in Nat \ {0}, OnMessage(c, s)
  PROVE  StreamInv'
<1>1. CASE Seen(c, s)
  <2>1. Ack(c, s) /\ UNCHANGED <<subscriptions, lastSeen, start, seenOrder, running, handled, reported>>
    BY <1>1 DEF OnMessage
  <2>2. lastAck' \in [Channels -> Nat] /\ passed' \in [Channels -> SUBSET Nat] /\ AheadIsPassed'
    BY <2>1, AckStream
  <2>3. StreamTypeOK'
    BY <2>1, <2>2 DEF StreamInv, StreamTypeOK
  <2>4. ViewStarts' /\ NoSilentSkip' /\ SeenIsHandled'
    BY <2>1 DEF StreamInv, ViewStarts, NoSilentSkip, Accounted, SeenIsHandled, Seen
  <2> QED BY <2>2, <2>3, <2>4 DEF StreamInv
<1>2. CASE ~Seen(c, s)
  <2> USE <1>2
  <2>a. <<c, s>> \in Channels \X Nat
    OBVIOUS
  <2>b. seenOrder' \in Seq(Channels \X Nat)
    <3> DEFINE S == Channels \X Nat
    <3>1. seenOrder \in Seq(S) /\ <<c, s>> \in S
      BY <2>a DEF StreamInv, StreamTypeOK
    <3>2. seenOrder' = IF Len(seenOrder) < DedupWindow
                       THEN Append(seenOrder, <<c, s>>)
                       ELSE Append(Tail(seenOrder), <<c, s>>)
      BY DEF OnMessage, Remember
    <3>3. Len(seenOrder) >= DedupWindow => seenOrder # <<>>
      BY <3>1, ClientStreamAssumption
    <3> HIDE DEF S
    <3>4. Len(seenOrder) >= DedupWindow => Tail(seenOrder) \in Seq(S)
      BY <3>1, <3>3
    <3>5. seenOrder' \in Seq(S)
      BY <3>1, <3>2, <3>4, ClientStreamAssumption
    <3> QED BY <3>5 DEF S
  <2>c. /\ lastSeen' = [lastSeen EXCEPT ![c] = IF s > @ THEN s ELSE @]
        /\ start' = [start EXCEPT ![c] = IF @ = 0 THEN s ELSE @]
        /\ handled' = [handled EXCEPT ![c] = @ \cup {s}]
        /\ reported' = [reported EXCEPT ![c] = @ \cup Missing(c, s)]
        /\ running' = [running EXCEPT ![c] = @ \cup {s}]
        /\ UNCHANGED <<subscriptions, lastAck, passed>>
    BY DEF OnMessage
  <2>d. Missing(c, s) \subseteq Nat
    BY DEF Missing, StreamInv, StreamTypeOK
  <2>1. StreamTypeOK'
    <3>1. /\ subscriptions' \subseteq Channels /\ lastAck' \in [Channels -> Nat]
          /\ passed' \in [Channels -> SUBSET Nat]
          /\ running' \in [Channels -> SUBSET Nat]
      BY <2>c DEF StreamInv, StreamTypeOK
    <3>2. lastSeen' \in [Channels -> Nat] /\ start' \in [Channels -> Nat]
      BY <2>c DEF StreamInv, StreamTypeOK
    <3>3. handled' \in [Channels -> SUBSET Nat] /\ reported' \in [Channels -> SUBSET Nat]
      BY <2>c, <2>d DEF StreamInv, StreamTypeOK
    <3> QED BY <2>b, <3>1, <3>2, <3>3 DEF StreamTypeOK
  <2>2. ViewStarts'
    BY <2>c DEF StreamInv, StreamTypeOK, ViewStarts
  <2>3. NoSilentSkip'
    <3> SUFFICES ASSUME NEW d \in Channels, NEW t \in start'[d]..lastSeen'[d], start'[d] # 0
                 PROVE  Accounted(d, t)'
      BY DEF NoSilentSkip
    <3>1. CASE d # c
      BY <3>1, <2>c DEF StreamInv, StreamTypeOK, NoSilentSkip, Accounted
    <3>2. CASE d = c
      <4>1. CASE start[c] = 0
        BY <3>2, <4>1, <2>c DEF StreamInv, StreamTypeOK, ViewStarts, Accounted
      <4>2. CASE start[c] # 0
        <5>1. start'[c] = start[c] /\ lastSeen[c] # 0
          BY <4>2, <2>c DEF StreamInv, StreamTypeOK, ViewStarts
        <5>2. t \in Int
          BY <3>2, <2>1 DEF StreamTypeOK
        <5>3. CASE t <= lastSeen[c]
          <6>1. Accounted(c, t)
            BY <5>1, <5>2, <5>3, <3>2, <4>2 DEF StreamInv, StreamTypeOK, NoSilentSkip
          <6> QED BY <6>1, <3>2, <2>c DEF Accounted, StreamInv, StreamTypeOK
        <5>4. CASE t > lastSeen[c]
          <6>1. t = s \/ t \in lastSeen[c] + 1..s - 1
            BY <5>4, <5>2, <3>2, <2>c DEF StreamInv, StreamTypeOK
          <6>2. t = s \/ t \in Missing(c, s)
            BY <6>1, <5>1 DEF Missing
          <6> QED BY <6>2, <3>2, <2>c DEF Accounted, StreamInv, StreamTypeOK
        <5> QED BY <5>2, <5>3, <5>4 DEF StreamInv, StreamTypeOK
      <4> QED BY <4>1, <4>2
    <3> QED BY <3>1, <3>2
  <2>4. AheadIsPassed'
    <3>1. \A d \in Channels : lastSeen[d] <= lastSeen'[d] /\ lastSeen[d] \in Nat /\ lastSeen'[d] \in Nat
      BY <2>c DEF StreamInv, StreamTypeOK
    <3>2. \A d \in Channels : lastSeen'[d] + 1..lastAck[d] \subseteq lastSeen[d] + 1..lastAck[d]
      BY <3>1 DEF StreamInv, StreamTypeOK
    <3> QED BY <2>c, <3>2 DEF StreamInv, AheadIsPassed
  <2>5. SeenIsHandled'
    <3> SUFFICES ASSUME NEW d \in Channels, NEW t \in Nat, Seen(d, t)' PROVE t \in handled'[d]
      BY DEF SeenIsHandled
    <3>1. Seen(d, t) \/ <<d, t>> = <<c, s>>
      <4>1. PICK i \in DOMAIN seenOrder' : seenOrder'[i] = <<d, t>>
        BY DEF Seen
      <4>2. Remember(c, s) /\ seenOrder \in Seq(Channels \X Nat)
        BY DEF OnMessage, StreamInv, StreamTypeOK
      <4>3. seenOrder'[i] # <<c, s>> => \E j \in DOMAIN seenOrder : seenOrder[j] = seenOrder'[i]
        BY <2>a, <4>2, RememberedWas
      <4> QED BY Zenon, <4>1, <4>3 DEF Seen
    <3>2. CASE Seen(d, t)
      BY <2>c, <3>2 DEF SeenIsHandled, StreamInv, StreamTypeOK
    <3>3. CASE <<d, t>> = <<c, s>>
      BY <2>c, <3>3 DEF StreamInv, StreamTypeOK
    <3> QED BY <3>1, <3>2, <3>3
  <2> QED BY <2>1, <2>2, <2>3, <2>4, <2>5 DEF StreamInv
<1> QED BY <1>1, <1>2

\* What OnMessage does is a step of the promise: the message is handed over
\* with everything before it accounted for, or nothing the promise sees changes.
LEMMA OnMessagePromise ==
  ASSUME StreamInv, top \in [Channels -> Nat], UNCHANGED top,
         NEW c \in Channels, NEW s \in 1..top[c], OnMessage(c, s)
  PROVE  Promise!Hand(c, s) \/ UNCHANGED <<top, start, handled, reported>>
<1>1. CASE Seen(c, s)
  BY <1>1 DEF OnMessage
<1>2. CASE ~Seen(c, s)
  <2> USE <1>2
  <2>0. s \in Nat \ {0}
    OBVIOUS
  <2>1. StreamInv'
    BY <2>0, OnMessageStream
  <2>2. /\ lastSeen' = [lastSeen EXCEPT ![c] = IF s > @ THEN s ELSE @]
        /\ start' = [start EXCEPT ![c] = IF @ = 0 THEN s ELSE @]
        /\ handled' = [handled EXCEPT ![c] = @ \cup {s}]
        /\ reported' = [reported EXCEPT ![c] = @ \cup Missing(c, s)]
    BY DEF OnMessage
  <2>3. Missing(c, s) \in SUBSET (1..top[c])
    BY DEF Missing, StreamInv, StreamTypeOK
  <2>4. \A t \in start'[c]..s : t \in handled'[c] \/ t \in reported'[c]
    <3> SUFFICES ASSUME NEW t \in start'[c]..s
                 PROVE  t \in handled'[c] \/ t \in reported'[c]
      OBVIOUS
    <3>1. start'[c] # 0 /\ start'[c] \in Nat /\ lastSeen'[c] \in Nat /\ s <= lastSeen'[c]
      BY <2>0, <2>2 DEF StreamInv, StreamTypeOK
    <3>2. t \in start'[c]..lastSeen'[c]
      BY <3>1
    <3> QED BY <3>1, <3>2, <2>1 DEF StreamInv, NoSilentSkip, Accounted
  <2>5. Promise!Hand(c, s)
    BY Zenon, <2>2, <2>3, <2>4 DEF Promise!Hand
  <2> QED BY <2>5
<1> QED BY <1>1, <1>2

LEMMA HandlerStream ==
  ASSUME StreamInv, NEW c \in Channels, NEW s \in running[c],
         HandlerReturns(c, s) \/ HandlerRejects(c, s)
  PROVE  StreamInv' /\ UNCHANGED <<start, handled, reported>>
<1>1. UNCHANGED <<subscriptions, lastSeen, start, seenOrder, handled, reported>>
  BY DEF HandlerReturns, HandlerRejects, positions
<1>2. s \in Nat
  BY DEF StreamInv, StreamTypeOK
<1>3. lastAck' \in [Channels -> Nat] /\ passed' \in [Channels -> SUBSET Nat] /\ AheadIsPassed'
  <2>1. CASE Ack(c, s)
    BY <1>1, <1>2, <2>1, AckStream
  <2>2. CASE UNCHANGED positions
    BY <2>2 DEF positions, StreamInv, StreamTypeOK, AheadIsPassed
  <2> QED BY <2>1, <2>2 DEF HandlerReturns, HandlerRejects
<1>4. running' \in [Channels -> SUBSET Nat]
  BY Zenon DEF HandlerReturns, HandlerRejects, StreamInv, StreamTypeOK
<1> QED BY <1>1, <1>3, <1>4 DEF StreamInv, StreamTypeOK, ViewStarts, NoSilentSkip, Accounted, SeenIsHandled, Seen

LEMMA ResumeGapStream ==
  ASSUME StreamInv, OnResumeGap
  PROVE  StreamInv'
BY DEF OnResumeGap, StreamInv, StreamTypeOK, ViewStarts, NoSilentSkip, Accounted,
       AheadIsPassed, SeenIsHandled, Seen

LEMMA CallStream ==
  ASSUME StreamInv, NEW c \in Channels, Subscribe(c) \/ Unsubscribe(c)
  PROVE  StreamInv'
<1>1. CASE Subscribe(c)
  BY <1>1 DEF Subscribe, positions, StreamInv, StreamTypeOK, ViewStarts, NoSilentSkip, Accounted,
       AheadIsPassed, SeenIsHandled, Seen
<1>2. CASE Unsubscribe(c)
  <2>1. /\ subscriptions' = subscriptions \ {c}
        /\ lastAck' = [lastAck EXCEPT ![c] = 0] /\ lastSeen' = [lastSeen EXCEPT ![c] = 0]
        /\ start' = [start EXCEPT ![c] = 0] /\ passed' = [passed EXCEPT ![c] = {}]
        /\ seenOrder' = seenOrder /\ running' = running /\ handled' = handled /\ reported' = reported
    BY Zenon, <1>2 DEF Unsubscribe
  <2>2. StreamTypeOK'
    BY <2>1 DEF StreamInv, StreamTypeOK
  <2>3. ViewStarts' /\ NoSilentSkip'
    BY <2>1 DEF StreamInv, StreamTypeOK, ViewStarts, NoSilentSkip, Accounted
  <2>4. AheadIsPassed'
    BY <2>1 DEF StreamInv, StreamTypeOK, AheadIsPassed
  <2>5. SeenIsHandled'
    BY Zenon, <2>1 DEF StreamInv, SeenIsHandled, Seen
  <2> QED BY Zenon, <2>2, <2>3, <2>4, <2>5 DEF StreamInv
<1> QED BY <1>1, <1>2

LEMMA StreamUnchanged ==
  ASSUME StreamInv, UNCHANGED stream
  PROVE  StreamInv'
BY DEF stream, positions, StreamInv, StreamTypeOK, ViewStarts, NoSilentSkip, Accounted,
       AheadIsPassed, SeenIsHandled, Seen

-----------------------------------------------------------------------------
(* The server's half. *)

LEMMA Halves == IInv <=> StreamInv /\ ServerInv
<1>1. WirePublished => wire \in Seq(Frames)
  BY DEF WirePublished, PublishedFrames
<1> QED BY <1>1 DEF IInv, StreamInv, ServerInv, DeliveryTypeOK

LEMMA InitInv == DeliveryInit => IInv
<1> SUFFICES ASSUME DeliveryInit PROVE StreamInv /\ ServerInv
  BY Halves
<1>1. StreamInv
  BY DEF DeliveryInit, StreamInit, StreamInv, StreamTypeOK, ViewStarts, NoSilentSkip,
         AheadIsPassed, SeenIsHandled, Seen
<1>2. ServerInv
  <2>1. inbox \in Seq(Requests) /\ wire \in Seq(PublishedFrames)
    BY DEF DeliveryInit
  <2>2. loop \in Loops /\ loop.at # "replay"
    BY DEF DeliveryInit, Idle, Loops
  <2>3. /\ top \in [Channels -> Nat] /\ announced \in [Channels -> Nat] /\ base \in [Channels -> Nat]
        /\ unheard \in [Channels -> SUBSET Nat]
    BY DEF DeliveryInit
  <2>4. /\ session \in {"none", "alive", "expired"} /\ up \in BOOLEAN
        /\ subscribed \subseteq Channels /\ listening \subseteq Channels /\ attached \subseteq Channels
        /\ breaks \in Nat /\ expiries \in Nat /\ drops \in Nat /\ calls \in Nat
    BY Zenon DEF DeliveryInit
  <2> QED BY <2>1, <2>2, <2>3, <2>4 DEF ServerInv, WirePublished
<1> QED BY <1>1, <1>2

LEMMA PublisherServer ==
  ASSUME ServerInv, NEW c \in Channels,
         AppendMessage(c) \/ Announce(c) \/ AnnounceFails(c)
  PROVE  ServerInv'
<1>1. CASE AppendMessage(c)
  <2>1. top' = [top EXCEPT ![c] = @ + 1] /\ base' \in [Channels -> Nat]
    BY <1>1 DEF AppendMessage, ServerInv
  <2>2. UNCHANGED <<announced, session, up, inbox, loop, subscribed, listening, attached,
                    wire, unheard, breaks, expiries, drops, calls>>
    BY <1>1 DEF AppendMessage, server, bounds
  <2>3. \A d \in Channels : top[d] \in Nat /\ top'[d] \in Nat /\ top[d] <= top'[d]
    BY <2>1 DEF ServerInv
  <2>4. PublishedFrames \subseteq PublishedFrames'
    BY <2>3 DEF PublishedFrames, Frames
  <2>5. wire' \in Seq(PublishedFrames')
    BY <2>2, <2>4 DEF ServerInv, WirePublished
  <2>6. loop'.at = "replay" => loop'.oldest >= 1 /\ loop'.newest <= top'[loop'.channel]
    BY <2>2, <2>3 DEF ServerInv, WirePublished, Loops
  <2>7. top' \in [Channels -> Nat]
    BY <2>1 DEF ServerInv
  <2> QED BY <2>1, <2>2, <2>5, <2>6, <2>7 DEF ServerInv, WirePublished
<1>2. CASE Announce(c)
  <2>1. UNCHANGED <<top, base, session, up, inbox, loop, subscribed, listening, attached,
                    breaks, expiries, drops, calls>>
    BY <1>2 DEF Announce, server, bounds
  <2>2. announced' \in [Channels -> Nat] /\ top[c] \in Nat /\ announced[c] \in Nat
    BY <1>2 DEF Announce, ServerInv
  <2>3. Message(c, top[c]) \in PublishedFrames
    BY <1>2, <2>2 DEF Announce, Message, PublishedFrames, Frames
  <2>4. wire' = wire \/ wire' = Append(wire, Message(c, top[c]))
    BY <1>2 DEF Announce
  <2>5. wire' \in Seq(PublishedFrames)
    <3>1. wire \in Seq(PublishedFrames)
      BY DEF ServerInv, WirePublished
    <3>2. Append(wire, Message(c, top[c])) \in Seq(PublishedFrames)
      BY <3>1, <2>3, AppendSeq
    <3> QED BY <3>1, <3>2, <2>4
  <2>6. unheard' \in [Channels -> SUBSET Nat]
    BY <1>2, <2>2 DEF Announce, ServerInv
  <2>7. PublishedFrames' = PublishedFrames
    BY <2>1 DEF PublishedFrames
  <2> QED BY <2>1, <2>2, <2>5, <2>6, <2>7 DEF ServerInv, WirePublished
<1>3. CASE AnnounceFails(c)
  <2>1. UNCHANGED <<top, base, session, up, inbox, loop, subscribed, listening, attached,
                    wire, breaks, expiries, calls>>
    BY <1>3 DEF AnnounceFails, server
  <2>2. announced' \in [Channels -> Nat] /\ drops' \in Nat /\ unheard' \in [Channels -> SUBSET Nat]
    BY <1>3 DEF AnnounceFails, ServerInv
  <2>3. PublishedFrames' = PublishedFrames
    BY <2>1 DEF PublishedFrames
  <2> QED BY <2>1, <2>2, <2>3 DEF ServerInv, WirePublished
<1> QED BY <1>1, <1>2, <1>3

LEMMA GreetingRequests ==
  ASSUME StreamTypeOK, NEW resuming \in BOOLEAN, NEW g \in Greeting(resuming)
  PROVE  g \in Seq(Requests)
<1>1. Cardinality(subscriptions) \in Nat
  BY DeliveryAssumption, FS_Subset, FS_CardinalityType DEF StreamTypeOK
<1>2. PICK order \in Orders(subscriptions) :
        g = (IF resuming /\ Resumable # {} THEN <<Resume>> ELSE <<>>)
              \o [i \in DOMAIN order |-> Request("SUBSCRIBE", order[i])]
  BY Zenon DEF Greeting
<1>3. DOMAIN order = 1..Cardinality(subscriptions) /\ \A i \in DOMAIN order : order[i] \in Channels
  BY ZenonT(30) DEF Orders, StreamTypeOK
<1>4. \A i \in DOMAIN order : Request("SUBSCRIBE", order[i]) \in Requests
  BY Zenon, <1>3 DEF Request, Requests
<1>5. [i \in DOMAIN order |-> Request("SUBSCRIBE", order[i])] \in Seq(Requests)
  BY <1>1, <1>3, <1>4
<1>6. Resume \in Requests
  BY DEF Resume, Requests, Positions, StreamTypeOK
<1>7. (IF resuming /\ Resumable # {} THEN <<Resume>> ELSE <<>>) \in Seq(Requests)
  BY <1>6
<1> QED BY <1>2, <1>5, <1>7, ConcatSeq

LEMMA DisconnectedServer ==
  ASSUME ServerInv, Disconnected, UNCHANGED <<top, announced, base>>,
         session' \in {"none", "alive", "expired"}, unheard' \in [Channels -> SUBSET Nat],
         breaks' \in Nat, expiries' \in Nat, drops' \in Nat, calls' \in Nat
  PROVE  ServerInv'
<1>1. inbox' \in Seq(Requests) /\ wire' \in Seq(PublishedFrames')
  BY DEF Disconnected
<1>2. loop' \in Loops /\ loop'.at # "replay"
  BY DEF Disconnected, Idle, Loops
<1>3. /\ up' \in BOOLEAN
      /\ subscribed' \subseteq Channels /\ listening' \subseteq Channels /\ attached' \subseteq Channels
  BY Zenon DEF Disconnected
<1>4. top' \in [Channels -> Nat] /\ announced' \in [Channels -> Nat] /\ base' \in [Channels -> Nat]
  BY DEF ServerInv
<1> QED BY <1>1, <1>2, <1>3, <1>4 DEF ServerInv, WirePublished

LEMMA ConnectionServer ==
  ASSUME IInv, Connect \/ Break \/ SessionExpires
  PROVE  ServerInv'
<1>0. StreamInv /\ ServerInv
  BY Halves
<1>1. CASE Connect
  <2>1. UNCHANGED <<top, announced, base, breaks, expiries, drops, calls>>
    BY <1>1 DEF Connect, buffer, bounds
  <2>2. inbox' \in Greeting(session = "alive")
    BY <1>1 DEF Connect
  <2>3. inbox' \in Seq(Requests)
    BY Zenon, <2>2, <1>0, GreetingRequests DEF StreamInv
  <2>4. wire' \in Seq(PublishedFrames')
    BY <1>1 DEF Connect
  <2>5. loop' \in Loops /\ loop'.at # "replay"
    BY <1>1 DEF Connect, Idle, Loops
  <2>6. unheard' \in [Channels -> SUBSET Nat]
    <3>1. \A c \in Channels : unheard[c] \subseteq Nat /\ 1..announced[c] \subseteq Nat
      BY <1>0 DEF ServerInv
    <3> QED BY <3>1, <1>1 DEF Connect
  <2>7. /\ session' \in {"none", "alive", "expired"} /\ up' \in BOOLEAN
        /\ subscribed' \subseteq Channels /\ listening' \subseteq Channels /\ attached' \subseteq Channels
    BY <1>1 DEF Connect
  <2> QED BY Zenon, <1>0, <2>1, <2>3, <2>4, <2>5, <2>6, <2>7 DEF ServerInv, WirePublished
<1>2. CASE Break
  <2>1. /\ Disconnected /\ UNCHANGED <<top, announced, base, session, unheard, expiries, drops, calls>>
        /\ breaks' = breaks + 1
    BY <1>2 DEF Break, buffer
  <2>2. /\ session' \in {"none", "alive", "expired"} /\ unheard' \in [Channels -> SUBSET Nat]
        /\ breaks' \in Nat /\ expiries' \in Nat /\ drops' \in Nat /\ calls' \in Nat
    BY <1>0, <2>1 DEF ServerInv
  <2> QED BY <1>0, <2>1, <2>2, DisconnectedServer
<1>3. CASE SessionExpires
  <2>1. UNCHANGED <<top, announced, base, up, inbox, loop, subscribed, listening, attached,
                    wire, unheard, breaks, drops, calls>>
    BY <1>3 DEF SessionExpires, buffer, server
  <2>2. session' \in {"none", "alive", "expired"} /\ expiries' \in Nat
    BY <1>0, <1>3 DEF SessionExpires, ServerInv
  <2>3. PublishedFrames' = PublishedFrames
    BY <2>1 DEF PublishedFrames
  <2> QED BY <1>0, <2>1, <2>2, <2>3 DEF ServerInv, WirePublished
<1> QED BY <1>1, <1>2, <1>3

LEMMA ListenerServer ==
  ASSUME ServerInv, NEW c \in Channels, ListenerDrops(c) \/ ListenerAttaches(c)
  PROVE  ServerInv'
<1>1. UNCHANGED <<top, announced, base, session, up, inbox, loop, subscribed, listening,
                  wire, unheard, breaks, expiries, calls>>
  BY DEF ListenerDrops, ListenerAttaches, buffer, bounds
<1>2. attached' \subseteq Channels
  BY DEF ListenerDrops, ListenerAttaches, ServerInv
<1>3. drops' \in Nat
  BY DEF ListenerDrops, ListenerAttaches, bounds, ServerInv
<1>4. PublishedFrames' = PublishedFrames
  BY <1>1 DEF PublishedFrames
<1> QED BY <1>1, <1>2, <1>3, <1>4 DEF ServerInv, WirePublished

LEMMA NextChannelLoops ==
  ASSUME NEW todo \in SUBSET Channels, NEW from \in Positions, NextChannel(todo, from)
  PROVE  loop' \in Loops /\ loop'.at # "replay"
BY DEF NextChannel, Loops, Idle

LEMMA TakeFrameServer == ServerInv /\ TakeFrame => ServerInv'
<1> SUFFICES ASSUME ServerInv, TakeFrame PROVE ServerInv'
  OBVIOUS
<1> DEFINE f == Head(inbox)
<1>1. UNCHANGED <<top, announced, base, session, up, wire, unheard, breaks, expiries, drops, calls>>
  BY Zenon DEF TakeFrame, buffer, bounds
<1>2. f \in Requests /\ inbox' \in Seq(Requests)
  BY TailSeq DEF TakeFrame, ServerInv
<1>3. /\ loop' \in Loops /\ loop'.at # "replay"
      /\ subscribed' \subseteq Channels /\ listening' \subseteq Channels /\ attached' \subseteq Channels
  <2>1. CASE f.type = "SUBSCRIBE"
    <3>1. f.channel \in Channels
      BY <1>2, <2>1 DEF Requests
    <3>2. /\ subscribed' = subscribed \cup {f.channel} /\ UNCHANGED <<listening, attached>>
          /\ loop' = [at |-> "listen", channel |-> f.channel, todo |-> {}, from |-> NoPositions]
      BY Zenon, <2>1 DEF TakeFrame
    <3> QED BY Zenon, <3>1, <3>2 DEF Loops, Positions, NoPositions, ServerInv
  <2>2. CASE f.type = "UNSUBSCRIBE"
    <3>1. /\ subscribed' = subscribed \ {f.channel} /\ UNCHANGED loop
          /\ listening' \in {listening, listening \ {f.channel}} /\ attached' = attached \cap listening'
      BY Zenon, <2>2 DEF TakeFrame
    <3> QED BY <3>1 DEF ServerInv, TakeFrame
  <2>3. CASE f.type = "RESUME"
    <3>1. f.from \in Positions
      BY <1>2, <2>3 DEF Requests
    <3>2. /\ UNCHANGED <<subscribed, listening, attached>>
          /\ loop' = [at |-> "read", todo |-> {c \in Channels : f.from[c] # 0}, from |-> f.from]
      BY <2>3 DEF TakeFrame
    <3> QED BY <3>1, <3>2 DEF Loops, ServerInv
  <2> QED BY <1>2, <2>1, <2>2, <2>3 DEF Requests
<1>4. PublishedFrames' = PublishedFrames
  BY <1>1 DEF PublishedFrames
<1> QED BY <1>1, <1>2, <1>3, <1>4 DEF ServerInv, WirePublished

LEMMA ReadBufferServer == ServerInv /\ ReadBuffer => ServerInv'
<1> SUFFICES ASSUME ServerInv, ReadBuffer PROVE ServerInv'
  OBVIOUS
<1>1. UNCHANGED <<top, announced, base, session, up, inbox, subscribed, listening, attached,
                  wire, unheard, breaks, expiries, drops, calls>>
  BY DEF ReadBuffer, buffer, bounds
<1>2. loop.todo \subseteq Channels /\ loop.from \in Positions
  BY Zenon DEF ReadBuffer, ServerInv, Loops
<1>3. PICK c \in loop.todo :
        loop' = [at |-> "replay", channel |-> c, todo |-> loop.todo \ {c}, from |-> loop.from,
                 oldest |-> base[c] + 1, newest |-> top[c]]
  BY Zenon DEF ReadBuffer
<1>4. base[c] \in Nat /\ top[c] \in Nat /\ c \in Channels
  BY <1>2 DEF ServerInv
<1>5. loop' \in Loops
  BY <1>2, <1>3, <1>4 DEF Loops
<1>6. loop'.oldest >= 1 /\ loop'.newest <= top'[loop'.channel]
  BY <1>1, <1>3, <1>4
<1>7. PublishedFrames' = PublishedFrames
  BY Zenon, <1>1 DEF PublishedFrames
<1> QED BY <1>1, <1>5, <1>6, <1>7 DEF ServerInv, WirePublished

LEMMA ReplayServer == ServerInv /\ Replay => ServerInv'
<1> SUFFICES ASSUME ServerInv, Replay PROVE ServerInv'
  OBVIOUS
<1> DEFINE c == loop.channel
           from == loop.from[c]
           first == FirstReplayed(from, loop.oldest)
           replayed == Replayed(c, first, loop.newest)
<1>1. UNCHANGED <<top, announced, base, session, breaks, expiries, drops, calls>>
  BY DEF Replay, buffer, bounds
<1>2. /\ c \in Channels /\ loop.todo \in SUBSET Channels /\ loop.from \in Positions
      /\ loop.oldest \in Nat \ {0} /\ loop.newest \in 0..top[c]
  <2>1. loop.at = "replay"
    BY Zenon DEF Replay
  <2>2. loop \in Loops /\ (loop.oldest >= 1 /\ loop.newest <= top[loop.channel])
    BY <2>1 DEF ServerInv, WirePublished
  <2>3. loop \in [at : {"replay"}, channel : Channels, todo : SUBSET Channels, from : Positions,
                  oldest : Nat, newest : Nat]
    BY <2>1, <2>2 DEF Loops
  <2>4. top \in [Channels -> Nat]
    BY DEF ServerInv
  <2> QED BY SMTT(30), <2>2, <2>3, <2>4
<1>3. PublishedFrames' = PublishedFrames /\ wire \in Seq(PublishedFrames)
  BY <1>1 DEF PublishedFrames, ServerInv, WirePublished
<1>4. CASE ReplayGap(c)
  <2>0. /\ \E i \in 0..Len(wire) :
             wire' = SubSeq(wire, 1, i) \o <<ResumeGap(c)>> \o SubSeq(wire, i + 1, Len(wire))
        /\ NextChannel(loop.todo, loop.from)
        /\ UNCHANGED <<up, inbox, subscribed, listening, attached, unheard>>
    BY Zenon, <1>4 DEF ReplayGap
  <2>1. ResumeGap(c) \in PublishedFrames
    BY <1>2 DEF ResumeGap, PublishedFrames, Frames
  <2>2. wire' \in Seq(PublishedFrames)
    BY <1>3, <2>0, <2>1, InsertSeq
  <2>3. loop' \in Loops /\ loop'.at # "replay"
    BY Zenon, <1>2, <2>0, NextChannelLoops
  <2> QED BY <1>1, <1>3, <2>0, <2>2, <2>3 DEF ServerInv, WirePublished
<1>5. CASE ReplayFits(c, first, replayed)
  <2>0. /\ wire' = wire \o replayed
        /\ subscribed' = subscribed \cup {c}
        /\ loop' = [at |-> "listen", channel |-> c, todo |-> loop.todo, from |-> loop.from]
        /\ unheard' = [unheard EXCEPT ![c] = @ \ (first..loop.newest)]
        /\ UNCHANGED <<up, inbox, listening, attached>>
    BY <1>5 DEF ReplayFits
  <2>1. from \in Nat /\ top[c] \in Nat
    BY <1>2 DEF Positions, ServerInv
  <2>2. first \in Nat \ {0}
    BY <1>2, <2>1 DEF FirstReplayed
  <2>3. \A i \in 1..(loop.newest + 1 - first) : first + i - 1 \in 1..top[c]
    BY <1>2, <2>1, <2>2
  <2>4. \A i \in 1..(loop.newest + 1 - first) : Message(c, first + i - 1) \in PublishedFrames
    <3> SUFFICES ASSUME NEW i \in 1..(loop.newest + 1 - first)
                 PROVE  Message(c, first + i - 1) \in PublishedFrames
      OBVIOUS
    <3> DEFINE n == first + i - 1
    <3>1. n \in 1..top[c]
      BY <2>3
    <3> HIDE DEF n
    <3>2. n \in Nat
      BY <3>1, <2>1
    <3>3. Message(c, n) \in PublishedFrames
      BY <1>2, <3>1, <3>2 DEF Message, PublishedFrames, Frames
    <3> QED BY <3>3 DEF n
  <2>5. replayed \in Seq(PublishedFrames)
    <3> DEFINE k == loop.newest + 1 - first
               S == PublishedFrames
               g(i) == Message(c, first + i - 1)
    <3>1. k \in Int
      BY <1>2, <2>1, <2>2
    <3>2. \A i \in 1..k : g(i) \in S
      BY <2>4
    <3>3. replayed = [i \in 1..k |-> g(i)]
      BY DEF Replayed
    <3> HIDE DEF k, S, g
    <3>4. [i \in 1..k |-> g(i)] \in Seq(S)
      <4>1. CASE k < 0
        <5>1. 1..k = 1..0
          BY <3>1, <4>1
        <5> QED BY <3>1, <3>2, <4>1, <5>1
      <4>2. CASE k >= 0
        BY SMTT(30), <3>1, <3>2, <4>2
      <4> QED BY <3>1, <4>1, <4>2
    <3> QED BY <3>3, <3>4 DEF S
  <2>6. wire' \in Seq(PublishedFrames)
    BY Zenon, <1>3, <2>0, <2>5, ConcatSeq
  <2>7. loop' \in Loops /\ loop'.at # "replay"
    BY Zenon, <1>2, <2>0 DEF Loops
  <2>8. unheard' \in [Channels -> SUBSET Nat] /\ subscribed' \subseteq Channels
    BY <1>2, <2>0 DEF ServerInv
  <2> QED BY Zenon, <1>1, <1>3, <2>0, <2>6, <2>7, <2>8 DEF ServerInv, WirePublished
<1>6. CASE ReplayOverflows(replayed)
  <2>0. Disconnected /\ UNCHANGED unheard
    BY <1>6 DEF ReplayOverflows
  <2>1. /\ session' \in {"none", "alive", "expired"} /\ unheard' \in [Channels -> SUBSET Nat]
        /\ breaks' \in Nat /\ expiries' \in Nat /\ drops' \in Nat /\ calls' \in Nat
    BY <1>1, <2>0 DEF ServerInv
  <2> QED BY <1>1, <2>0, <2>1, DisconnectedServer
<1> QED BY ZenonT(30), <1>4, <1>5, <1>6 DEF Replay

LEMMA ListenServer == ServerInv /\ Listen => ServerInv'
<1> SUFFICES ASSUME ServerInv, Listen PROVE ServerInv'
  OBVIOUS
<1>1. UNCHANGED <<top, announced, base, session, up, inbox, subscribed, attached, wire, unheard,
                  breaks, expiries, drops, calls>>
  BY DEF Listen, buffer, bounds
<1>2. loop.channel \in Channels /\ loop.todo \in SUBSET Channels /\ loop.from \in Positions
  BY DEF Listen, ServerInv, Loops
<1>3. NextChannel(loop.todo, loop.from) /\ listening' = listening \cup {loop.channel}
  BY DEF Listen
<1>4. loop' \in Loops /\ loop'.at # "replay"
  BY <1>2, <1>3, NextChannelLoops
<1>5. listening' \subseteq Channels
  BY <1>2, <1>3 DEF ServerInv
<1>6. PublishedFrames' = PublishedFrames
  BY <1>1 DEF PublishedFrames
<1> QED BY <1>1, <1>4, <1>5, <1>6 DEF ServerInv, WirePublished

LEMMA ClientServer == ServerInv /\ (Receive \/ Handlers \/ Call) => ServerInv'
<1> SUFFICES ASSUME ServerInv, Receive \/ Handlers \/ Call PROVE ServerInv'
  BY Zenon
<1>1. UNCHANGED <<top, announced, base, session, up, loop, subscribed, listening, attached,
                  unheard, breaks, expiries, drops>>
  BY DEF Receive, Handlers, Call, buffer, server, bounds
<1>2. PublishedFrames' = PublishedFrames /\ wire \in Seq(PublishedFrames)
  BY <1>1 DEF PublishedFrames, ServerInv, WirePublished
<1>3. wire' \in Seq(PublishedFrames)
  <2>1. CASE Receive
    BY Zenon, <2>1, <1>2, TailSeq DEF Receive
  <2>2. CASE Handlers \/ Call
    BY <2>2, <1>2 DEF Handlers, Call
  <2> QED BY <2>1, <2>2
<1>4. inbox' \in Seq(Requests) /\ calls' \in Nat
  <2>1. CASE Receive \/ Handlers
    BY <2>1 DEF Receive, Handlers, server, bounds, ServerInv
  <2>2. CASE Call
    <3>1. PICK c \in Channels : \/ inbox' = inbox
                                \/ inbox' = Append(inbox, Request("SUBSCRIBE", c))
                                \/ inbox' = Append(inbox, Request("UNSUBSCRIBE", c))
      BY <2>2 DEF Call
    <3>2. Request("SUBSCRIBE", c) \in Requests /\ Request("UNSUBSCRIBE", c) \in Requests
      BY DEF Request, Requests
    <3>3. inbox' \in Seq(Requests)
      BY Zenon, <3>1, <3>2, AppendSeq DEF ServerInv
    <3> QED BY <3>3, <2>2 DEF Call, ServerInv
  <2> QED BY ZenonT(30), <2>1, <2>2
<1> QED BY <1>1, <1>2, <1>3, <1>4 DEF ServerInv, WirePublished

-----------------------------------------------------------------------------
(* The theorems. *)

\* The frame the client receives names a channel and a published sequence.
LEMMA ReceivedFrame ==
  ASSUME ServerInv, Receive
  PROVE  \/ \E c \in Channels : \E s \in 1..top[c] : OnMessage(c, s)
         \/ OnResumeGap
<1> DEFINE f == Head(wire)
<1>1. f \in PublishedFrames
  BY TailSeq DEF ServerInv, WirePublished, Receive
<1>2. CASE f.type = "MESSAGE" /\ OnMessage(f.channel, f.sequence)
  BY <1>1, <1>2 DEF PublishedFrames, Frames
<1>3. CASE f.type = "RESUME_GAP" /\ OnResumeGap
  BY <1>3
<1> QED BY <1>2, <1>3 DEF Receive

\* The connection and its frame loop leave the client's memory and the buffer alone.
LEMMA ConnectionSteps ==
  ASSUME Connect \/ Break \/ SessionExpires \/ TakeFrame \/ ReadBuffer \/ Replay \/ Listen
  PROVE  UNCHANGED stream /\ UNCHANGED buffer
<1>1. Connect \/ Break \/ SessionExpires => UNCHANGED stream /\ UNCHANGED buffer
  BY Zenon DEF Connect, Break, SessionExpires
<1>2. TakeFrame => UNCHANGED stream /\ UNCHANGED buffer
  BY Zenon DEF TakeFrame
<1>3. ReadBuffer \/ Listen => UNCHANGED stream /\ UNCHANGED buffer
  BY Zenon DEF ReadBuffer, Listen
<1>4. Replay => UNCHANGED stream /\ UNCHANGED buffer
  BY Zenon DEF Replay
<1> QED BY <1>1, <1>2, <1>3, <1>4

\* Every step of the system keeps the inductive invariant.
LEMMA NextInv == IInv /\ [DeliveryNext]_dvars => IInv'
<1>s. StreamInv' /\ ServerInv' => IInv'
  <2>1. WirePublished' => wire' \in Seq(Frames)
    BY DEF WirePublished, PublishedFrames
  <2>2. Frames' = Frames /\ Requests' = Requests /\ Loops' = Loops
    BY DEF Frames, Requests, Loops, Positions
  <2> QED BY <2>1, <2>2 DEF IInv, StreamInv, ServerInv, DeliveryTypeOK
<1> SUFFICES ASSUME IInv, [DeliveryNext]_dvars PROVE StreamInv' /\ ServerInv'
  BY <1>s
<1>0. StreamInv /\ ServerInv
  BY Halves
<1>1. ASSUME NEW c \in Channels, AppendMessage(c) \/ Announce(c) \/ AnnounceFails(c)
      PROVE  StreamInv' /\ ServerInv'
  <2>1. UNCHANGED stream
    BY Zenon, <1>1 DEF AppendMessage, Announce, AnnounceFails
  <2> QED BY <1>0, <1>1, <2>1, StreamUnchanged, PublisherServer
<1>2. ASSUME NEW c \in Channels, ListenerDrops(c) \/ ListenerAttaches(c)
      PROVE  StreamInv' /\ ServerInv'
  <2>1. UNCHANGED stream
    BY <1>2 DEF ListenerDrops, ListenerAttaches
  <2> QED BY <1>0, <1>2, <2>1, StreamUnchanged, ListenerServer
<1>3. CASE Connect \/ Break \/ SessionExpires
  <2>1. UNCHANGED stream
    BY <1>3, ConnectionSteps
  <2> QED BY <1>0, <1>3, <2>1, StreamUnchanged, ConnectionServer
<1>4. CASE TakeFrame \/ ReadBuffer \/ Replay \/ Listen
  <2>1. UNCHANGED stream
    BY <1>4, ConnectionSteps
  <2> QED BY <1>0, <1>4, <2>1, StreamUnchanged, TakeFrameServer, ReadBufferServer, ReplayServer,
             ListenServer
<1>5. CASE Receive
  <2>1. ASSUME NEW c \in Channels, NEW s \in 1..top[c], OnMessage(c, s)
        PROVE  StreamInv'
    <3>1. s \in Nat \ {0}
      BY <1>0 DEF ServerInv
    <3> QED BY <1>0, <2>1, <3>1, OnMessageStream
  <2> QED BY <1>0, <1>5, <2>1, ReceivedFrame, ResumeGapStream, ClientServer
<1>6. CASE Handlers
  <2>1. PICK c \in Channels : \E s \in running[c] : HandlerReturns(c, s) \/ HandlerRejects(c, s)
    BY <1>6 DEF Handlers
  <2> QED BY <1>0, <1>6, <2>1, HandlerStream, ClientServer
<1>7. CASE Call
  <2>1. PICK c \in Channels : Subscribe(c) \/ Unsubscribe(c)
    BY <1>7 DEF Call
  <2> QED BY <1>0, <1>7, <2>1, CallStream, ClientServer
<1>8. CASE UNCHANGED dvars
  <2>1. UNCHANGED stream
    BY <1>8 DEF dvars
  <2>2. UNCHANGED <<top, announced, base, session, up, inbox, loop, subscribed, listening, attached,
                    wire, unheard, breaks, expiries, drops, calls>>
    BY <1>8 DEF dvars, buffer, server, bounds
  <2>3. PublishedFrames' = PublishedFrames
    BY <2>2 DEF PublishedFrames
  <2>4. ServerInv'
    BY <1>0, <2>2, <2>3 DEF ServerInv, WirePublished
  <2> QED BY <1>0, <2>1, <2>4, StreamUnchanged
<1> QED BY Zenon, <1>1, <1>2, <1>3, <1>4, <1>5, <1>6, <1>7, <1>8 DEF DeliveryNext

\* The inductive invariant holds throughout.
THEOREM Invariance == DeliverySpec => []IInv
BY InitInv, NextInv, PTL DEF DeliverySpec

\* Type correctness of the client, the connection and the buffer.
THEOREM DeliveryTypes == DeliverySpec => []DeliveryTypeOK
<1>1. IInv => DeliveryTypeOK
  BY DEF IInv
<1> QED BY <1>1, Invariance, PTL

\* RelayClient.onMessage: no message of the view is skipped in silence.
THEOREM SkipsAreReported == DeliverySpec => []NoSilentSkip
<1>1. IInv => NoSilentSkip
  BY Zenon DEF IInv
<1> QED BY <1>1, Invariance, PTL

\* RelayClient.ack, and so the position RESUME names: it never covers a message of
\* the view that was neither handed over nor reported, unless an ACK left over from
\* an earlier view ran ahead of what this one has seen.
THEOREM AcksAreAccounted == DeliverySpec => []AckedIsAccounted
<1>1. IInv => AckedIsAccounted
  <2> SUFFICES ASSUME IInv, NEW c \in Channels, NEW s \in start[c]..lastAck[c], start[c] # 0
               PROVE  Accounted(c, s) \/ s \in passed[c]
    BY Zenon DEF AckedIsAccounted
  <2>1. start[c] \in Nat /\ lastAck[c] \in Nat /\ lastSeen[c] \in Nat
    BY DEF IInv, DeliveryTypeOK, StreamTypeOK
  <2>2. s \in start[c]..lastSeen[c] \/ s \in lastSeen[c] + 1..lastAck[c]
    BY <2>1
  <2> QED BY Zenon, <2>2 DEF IInv, NoSilentSkip, AheadIsPassed
<1> QED BY <1>1, Invariance, PTL

\* Every step of the system is a step of the promise or changes nothing in it.
LEMMA StepSimulation ==
  IInv /\ [DeliveryNext]_dvars => [Promise!Next]_(Promise!vars)
<1> SUFFICES ASSUME IInv, [DeliveryNext]_dvars
             PROVE  Promise!Next \/ UNCHANGED <<top, start, handled, reported>>
  BY DEF Promise!vars
<1>0. StreamInv /\ ServerInv
  BY Halves
<1>1. ASSUME NEW c \in Channels, AppendMessage(c)
      PROVE  Promise!Next
  <2>1. top' = [top EXCEPT ![c] = @ + 1] /\ UNCHANGED stream
    BY Zenon, <1>1 DEF AppendMessage
  <2>2. UNCHANGED <<start, handled, reported>>
    BY <2>1 DEF stream, positions
  <2>3. Promise!Publish(c)
    BY Zenon, <2>1, <2>2 DEF Promise!Publish
  <2> QED BY <2>3 DEF Promise!Next
<1>2. ASSUME NEW c \in Channels,
             Announce(c) \/ AnnounceFails(c) \/ ListenerDrops(c) \/ ListenerAttaches(c)
      PROVE  UNCHANGED <<top, start, handled, reported>>
  BY Zenon, <1>2 DEF Announce, AnnounceFails, ListenerDrops, ListenerAttaches, stream, positions, buffer
<1>3. ASSUME Connect \/ Break \/ SessionExpires \/ TakeFrame \/ ReadBuffer \/ Replay \/ Listen
      PROVE  UNCHANGED <<top, start, handled, reported>>
  BY <1>3, ConnectionSteps DEF stream, positions, buffer
<1>4. CASE Receive
  <2>1. UNCHANGED top /\ top \in [Channels -> Nat]
    BY <1>0, <1>4 DEF Receive, buffer, ServerInv
  <2>2. ASSUME NEW c \in Channels, NEW s \in 1..top[c], OnMessage(c, s)
        PROVE  Promise!Next \/ UNCHANGED <<top, start, handled, reported>>
    <3>1. Promise!Hand(c, s) \/ UNCHANGED <<top, start, handled, reported>>
      BY <1>0, <2>1, <2>2, OnMessagePromise
    <3> QED BY <3>1 DEF Promise!Next
  <2>3. CASE OnResumeGap
    <3>1. Promise!Restart(Channels)
      BY Zenon, <2>1, <2>3 DEF OnResumeGap, Promise!Restart
    <3> QED BY <3>1 DEF Promise!Next
  <2> QED BY <1>0, <1>4, <2>2, <2>3, ReceivedFrame
<1>5. CASE Handlers
  <2>1. PICK c \in Channels : \E s \in running[c] : HandlerReturns(c, s) \/ HandlerRejects(c, s)
    BY <1>5 DEF Handlers
  <2>2. UNCHANGED <<start, handled, reported>>
    BY <1>0, <2>1, HandlerStream
  <2> QED BY <1>5, <2>2 DEF Handlers, buffer
<1>6. CASE Call
  <2>1. UNCHANGED top
    BY <1>6 DEF Call, buffer
  <2>2. PICK c \in Channels : Subscribe(c) \/ Unsubscribe(c)
    BY <1>6 DEF Call
  <2>3. CASE Subscribe(c)
    BY <2>1, <2>3 DEF Subscribe, positions
  <2>4. CASE Unsubscribe(c)
    <3>1. Promise!Restart({c})
      BY Zenon, <1>0, <2>1, <2>4 DEF Unsubscribe, Promise!Restart, StreamInv, StreamTypeOK
    <3> QED BY <3>1 DEF Promise!Next
  <2> QED BY <2>2, <2>3, <2>4
<1>7. CASE UNCHANGED dvars
  BY <1>7 DEF dvars, stream, positions, buffer
<1> QED BY <1>1, <1>2, <1>3, <1>4, <1>5, <1>6, <1>7 DEF DeliveryNext

\* The path from XADD to the application's handler, with lost connections,
\* expired sessions, trimmed buffers and detached listeners, implements the
\* promise of module AtLeastOnce.
THEOREM DeliveryImplements == DeliverySpec => Implements
<1>1. DeliveryInit => Promise!Init
  BY DEF DeliveryInit, StreamInit, Promise!Init
<1>2. IInv /\ [DeliveryNext]_dvars => [Promise!Next]_(Promise!vars)
  BY StepSimulation
<1> QED BY <1>1, <1>2, Invariance, PTL DEF DeliverySpec, Promise!Spec, Implements
=============================================================================
