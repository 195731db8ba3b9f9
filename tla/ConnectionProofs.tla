--------------------------- MODULE ConnectionProofs ---------------------------
(***************************************************************************)
(* What holds of a connection for every number of channels, every queue    *)
(* and window bound and every number of messages.                          *)
(***************************************************************************)
EXTENDS Connection, FiniteSetTheorems, SequenceTheorems, TLAPS

\* What run_sender holds: a frame while it waits or writes, nothing otherwise.
HandOK ==
  /\ sender \in {"get", "done"} => inHand = <<>>
  /\ sender \in {"window", "write"} => Len(inHand) = 1
  /\ sender = "window" => inHand[1].prio = "NORMAL"

\* Application messages carry the channel they belong to.
ChannelsOK ==
  /\ \A i \in DOMAIN queue : queue[i].prio = "NORMAL" => queue[i].ch \in Channels
  /\ \A i \in DOMAIN inHand : inHand[i].prio = "NORMAL" => inHand[i].ch \in Channels

\* The window is finite and bounded, and a suspended sender can be woken.
WindowOK == IsFiniteSet(inflight) /\ WindowBound /\ NoLostWakeup

\* While the sender runs, written, inHand and queue together are accepted.
PipelineOK ==
  /\ Len(written) <= Len(accepted)
  /\ FifoDelivery
  /\ sender # "done" =>
       /\ Len(accepted) = Len(written) + Len(inHand) + Len(queue)
       /\ \A i \in DOMAIN inHand : inHand[i] = accepted[Len(written) + i]
       /\ \A i \in DOMAIN queue : queue[i] = accepted[Len(written) + Len(inHand) + i]

IInv == TypeOK /\ HandOK /\ ChannelsOK /\ WindowOK /\ QueueBound /\ PipelineOK

-----------------------------------------------------------------------------

\* The frames the code builds are frames.
LEMMA FrameTypes ==
  ASSUME NEW n \in Sizes, NEW c \in Channels, NEW s \in Nat
  PROVE  Message(c, s, n) \in Frame /\ Control("HIGH", n) \in Frame /\ Control("LOW", n) \in Frame
BY DEF Message, Control, Frame, Priorities

\* Adding a frame to a queue: what Put (Connection.enqueue) does to sequences.
LEMMA PutFacts ==
  ASSUME TypeOK, NEW f \in Frame, Put(f)
  PROVE  /\ queue' \in Seq(Frame) /\ accepted' \in Seq(Frame) /\ queueBytes' \in Int
         /\ Len(queue') = Len(queue) + 1 /\ Len(accepted') = Len(accepted) + 1
         /\ \A i \in 1..Len(queue) : queue'[i] = queue[i]
         /\ \A i \in 1..Len(accepted) : accepted'[i] = accepted[i]
         /\ queue'[Len(queue) + 1] = f /\ accepted'[Len(accepted) + 1] = f
BY SMTT(30), ConnectionAssumption DEF TypeOK, Put, Frame

\* Put keeps the pipeline invariant: the new frame goes last in both.
LEMMA PutKeepsPipeline ==
  ASSUME TypeOK, ChannelsOK, PipelineOK, NEW f \in Frame, Put(f),
         f.prio = "NORMAL" => f.ch \in Channels, UNCHANGED <<sender, inHand, written>>
  PROVE  PipelineOK' /\ ChannelsOK'
<1>1. /\ queue' \in Seq(Frame) /\ accepted' \in Seq(Frame)
      /\ Len(queue') = Len(queue) + 1 /\ Len(accepted') = Len(accepted) + 1
      /\ \A i \in 1..Len(queue) : queue'[i] = queue[i]
      /\ \A i \in 1..Len(accepted) : accepted'[i] = accepted[i]
      /\ queue'[Len(queue) + 1] = f /\ accepted'[Len(accepted) + 1] = f
  BY PutFacts
<1>2. queue \in Seq(Frame) /\ accepted \in Seq(Frame) /\ written \in Seq(Frame) /\ inHand \in Seq(Frame)
  BY DEF TypeOK
<1>3. ChannelsOK'
  <2>1. ASSUME NEW i \in DOMAIN queue', queue'[i].prio = "NORMAL"
        PROVE  queue'[i].ch \in Channels
    <3>1. i \in 1..Len(queue) \/ i = Len(queue) + 1
      BY <1>1, <1>2
    <3>2. CASE i \in 1..Len(queue)
      <4>1. i \in DOMAIN queue
        BY <1>2, <3>2
      <4>2. queue'[i] = queue[i]
        BY <1>1, <3>2
      <4>. QED BY <2>1, <4>1, <4>2 DEF ChannelsOK
    <3>3. CASE i = Len(queue) + 1
      BY <1>1, <2>1, <3>3
    <3>. QED BY <3>1, <3>2, <3>3
  <2>2. ASSUME NEW i \in DOMAIN inHand', inHand'[i].prio = "NORMAL"
        PROVE  inHand'[i].ch \in Channels
    BY <2>2 DEF ChannelsOK
  <2>. QED BY <2>1, <2>2 DEF ChannelsOK
<1>4. Len(written') <= Len(accepted') /\ FifoDelivery'
  BY SMTT(30), <1>1, <1>2 DEF PipelineOK, FifoDelivery
<1>5. ASSUME sender' # "done"
      PROVE  /\ Len(accepted') = Len(written') + Len(inHand') + Len(queue')
             /\ \A i \in DOMAIN inHand' : inHand'[i] = accepted'[Len(written') + i]
             /\ \A i \in DOMAIN queue' : queue'[i] = accepted'[Len(written') + Len(inHand') + i]
  <2>1. /\ Len(accepted) = Len(written) + Len(inHand) + Len(queue)
        /\ \A i \in DOMAIN inHand : inHand[i] = accepted[Len(written) + i]
        /\ \A i \in DOMAIN queue : queue[i] = accepted[Len(written) + Len(inHand) + i]
        /\ written' = written /\ inHand' = inHand
    BY <1>5 DEF PipelineOK
  <2>2. Len(accepted') = Len(written') + Len(inHand') + Len(queue')
    BY <1>1, <1>2, <2>1
  <2>3. ASSUME NEW i \in DOMAIN inHand'
        PROVE  inHand'[i] = accepted'[Len(written') + i]
    <3>1. i \in DOMAIN inHand /\ Len(written) + i \in 1..Len(accepted)
      BY <1>2, <2>1, <2>3
    <3>. QED BY <1>1, <2>1, <3>1
  <2>4. ASSUME NEW i \in DOMAIN queue'
        PROVE  queue'[i] = accepted'[Len(written') + Len(inHand') + i]
    <3>1. i \in 1..Len(queue) \/ i = Len(queue) + 1
      BY <1>1, <1>2
    <3>2. CASE i \in 1..Len(queue)
      <4>1. i \in DOMAIN queue /\ Len(written) + Len(inHand) + i \in 1..Len(accepted)
        BY <1>2, <2>1, <3>2
      <4>. QED BY Zenon, <1>1, <2>1, <3>2, <4>1
    <3>3. CASE i = Len(queue) + 1
      <4>1. Len(written) + Len(inHand) + i = Len(accepted) + 1
        BY <1>2, <2>1, <3>3
      <4>. QED BY Zenon, <1>1, <2>1, <3>3, <4>1
    <3>. QED BY Zenon, <3>1, <3>2, <3>3
  <2>. QED BY <2>2, <2>3, <2>4
<1>. QED BY <1>3, <1>4, <1>5 DEF PipelineOK

\* Put keeps the queue bound when enqueue's test let the frame through.
LEMMA PutKeepsBound ==
  ASSUME TypeOK, QueueBound, NEW f \in Frame, Put(f),
         f.prio = "HIGH" \/ Len(queue) < QueueMaxMessages
  PROVE  QueueBound'
<1>1. /\ queue' \in Seq(Frame) /\ Len(queue') = Len(queue) + 1
      /\ \A i \in 1..Len(queue) : queue'[i] = queue[i]
      /\ queue'[Len(queue) + 1] = f
  BY PutFacts
<1>2. queue \in Seq(Frame)
  BY DEF TypeOK
<1>3. ASSUME NEW i \in DOMAIN queue', queue'[i].prio # "HIGH"
      PROVE  i <= QueueMaxMessages
  <2>1. i \in 1..Len(queue) \/ i = Len(queue) + 1
    BY <1>1, <1>2
  <2>2. CASE i \in 1..Len(queue)
    BY <1>1, <1>2, <1>3, <2>2 DEF QueueBound
  <2>3. CASE i = Len(queue) + 1
    BY SMTT(30), <1>1, <1>2, <1>3, <2>3, ConnectionAssumption
  <2>. QED BY <2>1, <2>2, <2>3
<1>. QED BY <1>3 DEF QueueBound

\* The types of what _cleanup_connection assigns, and of the end of a frame.
LEMMA StopTypes ==
  ASSUME TypeOK, StopConnection
  PROVE  /\ state' \in {"ACTIVE", "DEAD"} /\ sender' \in {"get", "window", "write", "done"}
         /\ inHand' \in Seq(Frame) /\ hb' \in {"sleep", "poll", "dead", "done"} /\ open' \in BOOLEAN
         /\ reader' \in [at : {"recv", "ack", "pong", "done"}, ch : Channels \cup {NoChannel}, seq : Nat]
<1>1. reader' \in [at : {"recv", "ack", "pong", "done"}, ch : Channels \cup {NoChannel}, seq : Nat]
  BY DEF StopConnection, Idle
<1>2. hb' \in {"sleep", "poll", "dead", "done"}
  BY DEF StopConnection
<1>3. inHand' \in Seq(Frame)
  <2>1. inHand' = <<>>
    BY DEF StopConnection
  <2>. QED BY <2>1
<1>. QED BY ZenonT(60), <1>1, <1>2, <1>3 DEF StopConnection

\* The test of the frame loop's condition (handler.py:136) keeps the variables it
\* may assign, through _cleanup_connection, in their types.
LEMMA NextFrameTypes ==
  ASSUME TypeOK, NextFrame
  PROVE  /\ state' \in {"ACTIVE", "DEAD"} /\ sender' \in {"get", "window", "write", "done"}
         /\ inHand' \in Seq(Frame) /\ hb' \in {"sleep", "poll", "dead", "done"} /\ open' \in BOOLEAN
         /\ reader' \in [at : {"recv", "ack", "pong", "done"}, ch : Channels \cup {NoChannel}, seq : Nat]
<1>1. CASE Live
  <2>1. reader' \in [at : {"recv", "ack", "pong", "done"}, ch : Channels \cup {NoChannel}, seq : Nat]
    BY <1>1 DEF NextFrame, Idle
  <2>. QED BY <1>1, <2>1 DEF NextFrame, TypeOK
<1>2. CASE ~Live
  <2>1. StopConnection
    BY <1>2 DEF NextFrame
  <2>. QED BY <2>1, StopTypes
<1>. QED BY <1>1, <1>2

\* The actions keep the types.
LEMMA TypeStep == ASSUME TypeOK, HandOK, ChannelsOK, [Next]_vars PROVE TypeOK'
<1>. USE ConnectionAssumption
<1>1. ASSUME NEW c \in Channels, NEW n \in Sizes, Deliver(c, n) PROVE TypeOK'
  <2>1. nextSeq[c] \in Nat
    BY DEF TypeOK
  <2>2. CASE ~OverLimit(n) /\ Put(Message(c, nextSeq[c], n)) /\ UNCHANGED <<slow, rejected>>
    <3>1. queue' \in Seq(Frame) /\ accepted' \in Seq(Frame) /\ queueBytes' \in Int
      BY <2>1, <2>2, PutFacts, FrameTypes
    <3>2. nextSeq' \in [Channels -> Nat] /\ turn' \in Channels \cup {NoChannel}
      BY SMTT(30), <1>1, <2>1 DEF Deliver, TypeOK
    <3>. QED BY SMTT(60), <1>1, <2>2, <3>1, <3>2 DEF Deliver, TypeOK, windowVars, senderVars, hbVars, socketVars
  <2>3. CASE OverLimit(n) /\ Refuse(c, n)
    <3>1. nextSeq' \in [Channels -> Nat] /\ turn' \in Channels \cup {NoChannel}
      BY SMTT(30), <1>1, <2>1 DEF Deliver, TypeOK
    <3>2. slow' \subseteq Channels /\ rejected' \subseteq Channels \X Nat \X Sizes
      BY <2>1, <2>3 DEF Refuse, TypeOK
    <3>3. UNCHANGED <<state, queueVars, windowVars, senderVars, reader, hbVars, socketVars, lows>>
      BY Zenon, <1>1, <2>3 DEF Deliver, Refuse
    <3>. QED BY SMTT(30), <3>1, <3>2, <3>3 DEF TypeOK, queueVars, windowVars, senderVars, hbVars, socketVars
  <2>. QED BY <1>1, <2>2, <2>3 DEF Deliver
<1>2. ASSUME NEW n \in Sizes, EnqueueLow(n) PROVE TypeOK'
  <2>1. CASE Put(Control("LOW", n))
    <3>1. queue' \in Seq(Frame) /\ accepted' \in Seq(Frame) /\ queueBytes' \in Int
      <4>1. Control("LOW", n) \in Frame
        BY DEF Control, Frame, Priorities
      <4>. QED BY <2>1, <4>1, PutFacts
    <3>. QED BY SMTT(30), <1>2, <3>1 DEF EnqueueLow, TypeOK, windowVars, senderVars, hbVars, fanoutVars, socketVars
  <2>2. CASE UNCHANGED queueVars
    BY SMTT(30), <1>2, <2>2 DEF EnqueueLow, TypeOK, queueVars, windowVars, senderVars, hbVars, fanoutVars, socketVars
  <2>. QED BY <1>2, <2>1, <2>2 DEF EnqueueLow
<1>3. CASE SenderGet
  <2>1. queue # <<>> /\ queue \in Seq(Frame)
    BY <1>3 DEF SenderGet, TypeOK
  <2>2. Head(queue) \in Frame /\ Tail(queue) \in Seq(Frame) /\ Head(queue) = queue[1] /\ 1 \in DOMAIN queue
    BY <2>1
  <2>3. Head(queue).size \in Nat /\ Head(queue).seq \in Nat
    BY ZenonT(60), <2>2 DEF Frame
  <2>4. Head(queue).prio = "NORMAL" => Head(queue).ch \in Channels
    BY <2>2 DEF ChannelsOK
  <2>5. inHand' \in Seq(Frame) /\ sender' \in {"get", "window", "write", "done"}
    <3>1. inHand' = <<>> \/ inHand' = <<Head(queue)>>
      BY <1>3 DEF SenderGet, TakeNormal, Admit
    <3>2. sender' \in {"get", "window", "write", "done"}
      BY <1>3 DEF SenderGet, TakeNormal, Admit
    <3>3. <<>> \in Seq(Frame) /\ <<Head(queue)>> \in Seq(Frame)
      BY <2>2
    <3>. QED BY ZenonT(60), <3>1, <3>2, <3>3
  <2>7. windowEvent' \in BOOLEAN
    BY <1>3, Zenon DEF SenderGet, TakeNormal, TypeOK, windowVars
  <2>6. inflight' \subseteq Channels \X Nat \X Nat
    BY SMTT(30), <1>3, <2>3, <2>4 DEF SenderGet, TakeNormal, Admit, TypeOK, windowVars
  <2>8. queue' \in Seq(Frame) /\ queueBytes' \in Int
    BY <1>3, <2>2, <2>3 DEF SenderGet, TypeOK
  <2>. QED BY Zenon, <1>3, <2>5, <2>6, <2>7, <2>8 DEF SenderGet, TypeOK, hbVars, fanoutVars, socketVars
<1>4. CASE SenderWake
  <2>1. inHand \in Seq(Frame) /\ Len(inHand) = 1 /\ inHand[1].prio = "NORMAL"
    BY <1>4 DEF SenderWake, TypeOK, HandOK
  <2>2. Head(inHand) = inHand[1] /\ 1 \in DOMAIN inHand /\ Head(inHand) \in Frame
    BY SMTT(30), <2>1
  <2>3. Head(inHand).seq \in Nat /\ Head(inHand).ch \in Channels
    BY <2>1, <2>2 DEF Frame, ChannelsOK
  <2>4. inHand' \in Seq(Frame) /\ sender' \in {"get", "window", "write", "done"}
    <3>1. inHand' = <<>> \/ inHand' = <<Head(inHand)>>
      BY ZenonT(60), <1>4 DEF SenderWake, TakeNormal, Admit
    <3>2. sender' \in {"get", "window", "write", "done"}
      BY ZenonT(60), <1>4 DEF SenderWake, TakeNormal, Admit
    <3>3. <<>> \in Seq(Frame) /\ <<Head(inHand)>> \in Seq(Frame)
      BY <2>2
    <3>. QED BY ZenonT(60), <3>1, <3>2, <3>3
  <2>6. windowEvent' \in BOOLEAN
    BY <1>4, Zenon DEF SenderWake, TakeNormal, TypeOK
  <2>5. inflight' \subseteq Channels \X Nat \X Nat
    <3>1. Len(written) + 1 \in Nat
      BY DEF TypeOK
    <3>2. inflight' = inflight \/ inflight' = inflight \cup {<<Head(inHand).ch, Head(inHand).seq, Len(written) + 1>>}
      BY ZenonT(60), <1>4 DEF SenderWake, TakeNormal, Admit
    <3>. QED BY SMTT(30), <2>3, <3>1, <3>2 DEF TypeOK
  <2>. QED BY Zenon, <1>4, <2>4, <2>5, <2>6 DEF SenderWake, TypeOK, queueVars, hbVars, fanoutVars, socketVars
<1>5. CASE SenderWrite
  BY <1>5 DEF SenderWrite, TypeOK, queueVars, windowVars, fanoutVars, socketVars
<1>6. CASE SenderFail
  BY <1>6 DEF SenderFail, TypeOK, queueVars, windowVars, hbVars, fanoutVars, socketVars
<1>7. CASE ClientAck
  <2>1. PICK c \in Channels : \E s \in Received(c) : AckReceived(c, s)
    BY <1>7 DEF ClientAck
  <2>2. PICK s \in Received(c) : AckReceived(c, s)
    BY <2>1
  <2>3. s \in Nat
    <3>1. PICK i \in DOMAIN written : s = written[i].seq
      BY <2>2 DEF Received
    <3>2. written[i] \in Frame
      BY SMTT(30), <3>1 DEF TypeOK
    <3>. QED BY <3>1, <3>2 DEF Frame
  <2>. QED BY <2>2, <2>3 DEF AckReceived, TypeOK, queueVars, windowVars, senderVars, hbVars, fanoutVars, socketVars
<1>8. CASE AckApplied
  <2>1. inflight' \subseteq Channels \X Nat \X Nat
    BY <1>8 DEF AckApplied, OnAck, Unreleased, TypeOK
  <2>2. windowEvent' \in BOOLEAN
    BY <1>8, Zenon DEF AckApplied, OnAck
  <2>3. NextFrame
    BY <1>8 DEF AckApplied
  <2>. QED
    BY ZenonT(60), <1>8, <2>1, <2>2, <2>3, NextFrameTypes DEF AckApplied, TypeOK, queueVars, fanoutVars
<1>9. CASE PongReceived
  <2>1. reader' \in [at : {"recv", "ack", "pong", "done"}, ch : Channels \cup {NoChannel}, seq : Nat]
    BY <1>9 DEF PongReceived, Idle
  <2>. QED BY ZenonT(60), <1>9, <2>1 DEF PongReceived, TypeOK, queueVars, windowVars, senderVars, fanoutVars, socketVars
<1>10. CASE PongApplied
  <2>1. NextFrame
    BY <1>10 DEF PongApplied
  <2>. QED BY ZenonT(60), <1>10, <2>1, NextFrameTypes DEF PongApplied, TypeOK, queueVars, windowVars, fanoutVars
<1>11. CASE FrameLoopEnds
  <2>1. StopConnection
    BY <1>11 DEF FrameLoopEnds
  <2>. QED BY Zenon, <1>11, <2>1, StopTypes DEF FrameLoopEnds, TypeOK, queueVars, windowVars, fanoutVars
<1>12. ASSUME NEW n \in Sizes, HeartbeatPing(n) PROVE TypeOK'
  <2>1. CASE Live /\ Put(Control("HIGH", n)) /\ hb' = "poll" /\ ping' = "queued" /\ pings' = pings + 1
    <3>1. queue' \in Seq(Frame) /\ accepted' \in Seq(Frame) /\ queueBytes' \in Int
      <4>1. Control("HIGH", n) \in Frame
        BY DEF Control, Frame, Priorities
      <4>. QED BY <2>1, <4>1, PutFacts
    <3>. QED BY SMTT(30), <1>12, <2>1, <3>1 DEF HeartbeatPing, TypeOK, windowVars, senderVars, fanoutVars, socketVars
  <2>2. CASE hb' = "done" /\ UNCHANGED <<queueVars, ping, pings>>
    BY ZenonT(30), <1>12, <2>2 DEF HeartbeatPing, TypeOK, queueVars, windowVars, senderVars, fanoutVars, socketVars
  <2>. QED BY <1>12, <2>1, <2>2 DEF HeartbeatPing
<1>13. CASE HeartbeatPoll
  BY ZenonT(60), <1>13 DEF HeartbeatPoll, TypeOK, queueVars, windowVars, senderVars, fanoutVars, socketVars
<1>14. CASE HeartbeatTimeout
  BY Zenon, <1>14 DEF HeartbeatTimeout, TypeOK, queueVars, windowVars, senderVars, fanoutVars
<1>15. CASE TerminateSlowConsumer
  BY ZenonT(30), <1>15 DEF TerminateSlowConsumer, TypeOK, queueVars, windowVars, senderVars, hbVars
<1>16. CASE CloseSocket \/ PeerGone
  BY ZenonT(60), <1>16 DEF CloseSocket, PeerGone, TypeOK, queueVars, windowVars, senderVars, hbVars, fanoutVars
<1>17. CASE UNCHANGED vars
  BY <1>17 DEF vars, TypeOK, queueVars, windowVars, senderVars, hbVars, fanoutVars, socketVars
<1>. QED
  BY Zenon, <1>1, <1>2, <1>3, <1>4, <1>5, <1>6, <1>7, <1>8, <1>9, <1>10, <1>11, <1>12, <1>13, <1>14,
     <1>15, <1>16, <1>17 DEF Next

\* A step that leaves queue, window and sender alone keeps all that is about them.
LEMMA QuietStep ==
  ASSUME IInv, UNCHANGED <<queue, accepted, written, sender, inHand, inflight, windowEvent>>
  PROVE  HandOK' /\ ChannelsOK' /\ WindowOK' /\ QueueBound' /\ PipelineOK'
<1>1. HandOK' /\ ChannelsOK'
  BY DEF IInv, HandOK, ChannelsOK
<1>2. WindowOK'
  BY DEF IInv, WindowOK, WindowBound, NoLostWakeup, WindowFull
<1>3. QueueBound' /\ PipelineOK'
  BY DEF IInv, QueueBound, PipelineOK, FifoDelivery
<1>. QED BY <1>1, <1>2, <1>3

\* The same when the sender task ends: only what was written matters then.
LEMMA SenderEnds ==
  ASSUME IInv, sender' = "done", inHand' = <<>>,
         UNCHANGED <<queue, accepted, written>>, WindowOK'
  PROVE  HandOK' /\ ChannelsOK' /\ WindowOK' /\ QueueBound' /\ PipelineOK'
<1>1. HandOK' /\ ChannelsOK'
  BY DEF IInv, HandOK, ChannelsOK
<1>2. QueueBound' /\ PipelineOK'
  BY DEF IInv, QueueBound, PipelineOK, FifoDelivery
<1>. QED BY <1>1, <1>2

\* Admitting one message into a window that is not full keeps the bound.
LEMMA AdmitWindow ==
  ASSUME WindowOK, NEW f, ~WindowFull, Admit(f)
  PROVE  IsFiniteSet(inflight') /\ Cardinality(inflight') <= MaxInflight /\ sender' \in {"write", "done"}
<1>. DEFINE e == <<f.ch, f.seq, Len(written) + 1>>
<1>1. IsFiniteSet(inflight) /\ Cardinality(inflight) \in Nat
  BY FS_CardinalityType DEF WindowOK
<1>2. Cardinality(inflight) + 1 <= MaxInflight
  BY <1>1, ConnectionAssumption DEF WindowFull
<1>3. /\ IsFiniteSet(inflight \cup {e})
      /\ Cardinality(inflight \cup {e}) = IF e \in inflight THEN Cardinality(inflight) ELSE Cardinality(inflight) + 1
  BY ZenonT(60), <1>1, FS_AddElement
<1>4. inflight' = inflight \/ inflight' = inflight \cup {e}
  BY DEF Admit
<1>5. sender' \in {"write", "done"}
  BY DEF Admit
<1>6. CASE inflight' = inflight
  BY <1>1, <1>5, <1>6 DEF WindowOK, WindowBound
<1>7. CASE inflight' = inflight \cup {e}
  <2>1. Cardinality(inflight \cup {e}) <= Cardinality(inflight) + 1
    BY <1>1, <1>3
  <2>2. Cardinality(inflight \cup {e}) \in Nat
    BY <1>3, FS_CardinalityType
  <2>3. Cardinality(inflight \cup {e}) <= MaxInflight
    BY SMTT(30), <1>1, <1>2, <2>1, <2>2, ConnectionAssumption
  <2>. QED BY <1>3, <1>5, <1>7, <2>3
<1>. QED BY <1>4, <1>6, <1>7

\* _wait_for_window and what follows it: the window stays bounded, and a sender
\* is suspended only with the window full.
LEMMA TakeNormalWindow ==
  ASSUME WindowOK, NEW f, TakeNormal(f)
  PROVE  WindowOK'
<1>1. CASE WindowFull
  <2>1. inflight' = inflight
    BY <1>1 DEF TakeNormal
  <2>2. WindowFull'
    BY <1>1, <2>1 DEF WindowFull
  <2>. QED BY <2>1, <2>2 DEF WindowOK, WindowBound, NoLostWakeup
<1>2. CASE ~WindowFull
  <2>1. Admit(f)
    BY <1>2 DEF TakeNormal
  <2>2. IsFiniteSet(inflight') /\ Cardinality(inflight') <= MaxInflight /\ sender' \in {"write", "done"}
    BY <1>2, <2>1, AdmitWindow
  <2>. QED BY <2>2 DEF WindowOK, WindowBound, NoLostWakeup
<1>. QED BY <1>1, <1>2

\* on_ack: fewer entries, and the event is set as soon as there is room.
LEMMA OnAckWindow ==
  ASSUME WindowOK, NEW c, NEW s, OnAck(c, s)
  PROVE  WindowOK'
<1>1. IsFiniteSet(inflight) /\ Cardinality(inflight) \in Nat /\ Cardinality(inflight) <= MaxInflight
  BY FS_CardinalityType DEF WindowOK, WindowBound
<1>2. inflight' \subseteq inflight
  BY DEF OnAck, Unreleased
<1>3. IsFiniteSet(inflight') /\ Cardinality(inflight') <= Cardinality(inflight)
  BY <1>1, <1>2, FS_Subset
<1>4. Cardinality(inflight') \in Nat
  BY <1>3, FS_CardinalityType
<1>5. WindowBound'
  BY <1>1, <1>3, <1>4, ConnectionAssumption DEF WindowBound
<1>6. NoLostWakeup'
  <2>1. ASSUME ~(Cardinality(inflight') >= MaxInflight) PROVE Cardinality(inflight') < MaxInflight
    BY <1>4, <2>1, ConnectionAssumption
  <2>2. windowEvent' = (windowEvent \/ Cardinality(inflight') < MaxInflight)
    BY DEF OnAck
  <2>. QED BY <2>1, <2>2, Zenon DEF NoLostWakeup, WindowFull
<1>. QED BY <1>3, <1>5, <1>6 DEF WindowOK

\* Taking the head of the queue in hand: written, inHand and queue still make up
\* accepted, and every queued frame moves one place forward.
LEMMA TakeHead ==
  ASSUME IInv, sender = "get", queue # <<>>, queue' = Tail(queue), UNCHANGED <<accepted, written>>,
         sender' \in {"window", "write", "done"},
         sender' = "done" => inHand' = <<>>,
         sender' # "done" => inHand' = <<Head(queue)>>,
         sender' = "window" => Head(queue).prio = "NORMAL"
  PROVE  HandOK' /\ ChannelsOK' /\ QueueBound' /\ PipelineOK'
<1>1. queue \in Seq(Frame) /\ written \in Seq(Frame) /\ accepted \in Seq(Frame) /\ inHand = <<>>
  BY DEF IInv, TypeOK, HandOK
<1>2. /\ Head(queue) = queue[1] /\ Len(queue) >= 1 /\ Tail(queue) \in Seq(Frame)
      /\ Len(Tail(queue)) = Len(queue) - 1 /\ \A i \in 1..Len(queue) - 1 : Tail(queue)[i] = queue[i + 1]
      /\ DOMAIN queue = 1..Len(queue) /\ DOMAIN Tail(queue) = 1..Len(queue) - 1
  BY <1>1
<1>3. HandOK'
  BY DEF HandOK
<1>4. ChannelsOK'
  <2>1. ASSUME NEW i \in DOMAIN queue', queue'[i].prio = "NORMAL" PROVE queue'[i].ch \in Channels
    <3>1. i + 1 \in DOMAIN queue /\ queue'[i] = queue[i + 1]
      BY <1>2, <2>1
    <3>. QED BY <2>1, <3>1 DEF IInv, ChannelsOK
  <2>2. ASSUME NEW i \in DOMAIN inHand', inHand'[i].prio = "NORMAL" PROVE inHand'[i].ch \in Channels
    <3>1. inHand'[i] = queue[1] /\ 1 \in DOMAIN queue
      BY <1>2, <2>2
    <3>. QED BY <2>2, <3>1 DEF IInv, ChannelsOK
  <2>. QED BY <2>1, <2>2 DEF ChannelsOK
<1>5. QueueBound'
  <2>1. ASSUME NEW i \in DOMAIN queue', queue'[i].prio # "HIGH" PROVE i <= QueueMaxMessages
    <3>1. i + 1 \in DOMAIN queue /\ queue'[i] = queue[i + 1] /\ i \in Nat
      BY <1>2, <2>1
    <3>2. i + 1 <= QueueMaxMessages
      BY <2>1, <3>1 DEF IInv, QueueBound
    <3>. QED BY SMTT(30), <3>1, <3>2, ConnectionAssumption
  <2>. QED BY <2>1 DEF QueueBound
<1>6. PipelineOK'
  <2>1. /\ Len(accepted) = Len(written) + Len(queue) /\ Len(inHand) = 0
        /\ \A i \in DOMAIN queue : queue[i] = accepted[Len(written) + i]
    BY <1>1 DEF IInv, PipelineOK
  <2>2. Len(written') <= Len(accepted') /\ FifoDelivery'
    BY DEF IInv, PipelineOK, FifoDelivery
  <2>3. ASSUME sender' # "done"
        PROVE  /\ Len(accepted') = Len(written') + Len(inHand') + Len(queue')
               /\ \A i \in DOMAIN inHand' : inHand'[i] = accepted'[Len(written') + i]
               /\ \A i \in DOMAIN queue' : queue'[i] = accepted'[Len(written') + Len(inHand') + i]
    <3>1. Len(inHand') = 1 /\ DOMAIN inHand' = {1} /\ inHand'[1] = queue[1]
      BY <1>2, <2>3
    <3>2. Len(accepted') = Len(written') + Len(inHand') + Len(queue')
      BY SMTT(30), <1>1, <1>2, <2>1, <3>1
    <3>3. ASSUME NEW i \in DOMAIN inHand' PROVE inHand'[i] = accepted'[Len(written') + i]
      BY SMTT(30), <1>2, <2>1, <3>1, <3>3
    <3>4. ASSUME NEW i \in DOMAIN queue' PROVE queue'[i] = accepted'[Len(written') + Len(inHand') + i]
      <4>1. i + 1 \in DOMAIN queue /\ queue'[i] = queue[i + 1] /\ i \in Nat /\ Len(written) \in Nat
        BY SMTT(30), <1>1, <1>2, <3>4
      <4>2. Len(written) + (i + 1) = Len(written) + 1 + i
        BY <4>1
      <4>. QED BY Zenon, <2>1, <3>1, <4>1, <4>2
    <3>. QED BY <3>2, <3>3, <3>4
  <2>. QED BY <2>2, <2>3 DEF PipelineOK
<1>. QED BY Zenon, <1>3, <1>4, <1>5, <1>6

\* Handing the frame in hand to the transport extends written by what is next in
\* accepted.
LEMMA WriteKeepsRest ==
  ASSUME IInv, SenderWrite
  PROVE  HandOK' /\ ChannelsOK' /\ WindowOK' /\ QueueBound' /\ PipelineOK'
<1>1. /\ sender = "write" /\ inHand' = <<>> /\ sender' \in {"get", "done"} /\ written' = written \o inHand
      /\ UNCHANGED <<queue, accepted, inflight, windowEvent>>
  BY DEF SenderWrite, queueVars, windowVars
<1>2. /\ queue \in Seq(Frame) /\ written \in Seq(Frame) /\ accepted \in Seq(Frame) /\ inHand \in Seq(Frame)
      /\ Len(inHand) = 1
  BY <1>1 DEF IInv, TypeOK, HandOK
<1>3. /\ written' \in Seq(Frame) /\ Len(written') = Len(written) + 1
      /\ \A i \in 1..Len(written) : written'[i] = written[i]
      /\ written'[Len(written) + 1] = inHand[1]
  <2>1. /\ written \o inHand \in Seq(Frame) /\ Len(written \o inHand) = Len(written) + Len(inHand)
        /\ \A i \in 1..Len(written) + Len(inHand) : (written \o inHand)[i] =
             IF i <= Len(written) THEN written[i] ELSE inHand[i - Len(written)]
    BY ZenonT(60), <1>2, ConcatProperties
  <2>2. Len(written) \in Nat
    BY <1>2
  <2>. QED BY SMTT(30), <1>1, <1>2, <2>1, <2>2
<1>4. HandOK' /\ ChannelsOK' /\ QueueBound'
  BY <1>1 DEF IInv, HandOK, ChannelsOK, QueueBound
<1>5. WindowOK'
  BY <1>1 DEF IInv, WindowOK, WindowBound, NoLostWakeup, WindowFull
<1>6. PipelineOK'
  <2>1. /\ Len(accepted) = Len(written) + 1 + Len(queue)
        /\ inHand[1] = accepted[Len(written) + 1]
        /\ \A i \in DOMAIN queue : queue[i] = accepted[Len(written) + 1 + i]
    BY <1>1, <1>2 DEF IInv, PipelineOK
  <2>2. Len(written') <= Len(accepted')
    BY SMTT(30), <1>1, <1>2, <1>3, <2>1
  <2>3. FifoDelivery'
    <3>1. ASSUME NEW i \in DOMAIN written' PROVE i \in DOMAIN accepted' /\ written'[i] = accepted'[i]
      <4>1. i \in 1..Len(written) \/ i = Len(written) + 1
        BY SMTT(30), <1>2, <1>3
      <4>2. CASE i \in 1..Len(written)
        BY SMTT(30), <1>1, <1>2, <1>3, <4>2 DEF IInv, PipelineOK, FifoDelivery
      <4>3. CASE i = Len(written) + 1
        BY SMTT(30), <1>1, <1>2, <1>3, <2>1, <4>3
      <4>. QED BY <4>1, <4>2, <4>3
    <3>. QED BY <3>1 DEF FifoDelivery
  <2>4. Len(accepted') = Len(written') + Len(inHand') + Len(queue')
    BY SMTT(30), <1>1, <1>2, <1>3, <2>1
  <2>5. \A i \in DOMAIN inHand' : inHand'[i] = accepted'[Len(written') + i]
    BY <1>1
  <2>6. \A i \in DOMAIN queue' : queue'[i] = accepted'[Len(written') + Len(inHand') + i]
    <3>1. Len(written') + Len(inHand') = Len(written) + 1
      BY SMTT(30), <1>1, <1>2, <1>3
    <3>. QED BY Zenon, <1>1, <2>1, <3>1
  <2>. QED BY <2>2, <2>3, <2>4, <2>5, <2>6 DEF PipelineOK
<1>. QED BY Zenon, <1>4, <1>5, <1>6

\* The inductive step: every task's step keeps the invariant.
LEMMA IInvStep == ASSUME IInv, [Next]_vars PROVE IInv'
<1>. DEFINE Rest == HandOK /\ ChannelsOK /\ WindowOK /\ QueueBound /\ PipelineOK
<1>. USE ConnectionAssumption
<1>0. TypeOK'
  BY TypeStep DEF IInv
<1>. SUFFICES Rest'
  BY <1>0 DEF IInv
<1>1. ASSUME NEW f \in Frame, Put(f), f.prio = "NORMAL" => f.ch \in Channels,
             f.prio = "HIGH" \/ Len(queue) < QueueMaxMessages,
             UNCHANGED <<windowVars, senderVars>>
      PROVE  Rest'
  <2>1. PipelineOK' /\ ChannelsOK'
    BY <1>1, PutKeepsPipeline DEF IInv, senderVars
  <2>2. QueueBound'
    BY Zenon, <1>1, PutKeepsBound DEF IInv
  <2>3. HandOK' /\ WindowOK'
    BY <1>1 DEF IInv, HandOK, WindowOK, WindowBound, NoLostWakeup, WindowFull, windowVars, senderVars
  <2>. QED BY Zenon, <2>1, <2>2, <2>3
<1>2. ASSUME UNCHANGED <<queueVars, windowVars, senderVars>> PROVE Rest'
  BY <1>2, QuietStep DEF queueVars, windowVars, senderVars
<1>3. ASSUME StopConnection, UNCHANGED <<queueVars, written>>, WindowOK' PROVE Rest'
  BY <1>3, SenderEnds DEF StopConnection, queueVars
<1>4. ASSUME NextFrame, UNCHANGED <<queueVars, written>>, WindowOK' PROVE Rest'
  <2>1. CASE Live
    BY <1>4, <2>1 DEF NextFrame, IInv, HandOK, ChannelsOK, QueueBound, PipelineOK, FifoDelivery, queueVars
  <2>2. CASE ~Live
    BY <1>3, <1>4, <2>2 DEF NextFrame
  <2>. QED BY Zenon, <2>1, <2>2
<1>5. ASSUME UNCHANGED windowVars, sender' = sender \/ sender' = "done" PROVE WindowOK'
  BY <1>5 DEF IInv, WindowOK, WindowBound, NoLostWakeup, WindowFull, windowVars
<1>6. ASSUME NEW n \in Sizes, ~OverLimit(n) PROVE Len(queue) < QueueMaxMessages
  <2>1. Len(queue) \in Nat
    BY SMTT(30) DEF IInv, TypeOK
  <2>. QED BY SMTT(30), <1>6, <2>1 DEF OverLimit
<1>7. ASSUME NEW c \in Channels, NEW n \in Sizes, Deliver(c, n) PROVE Rest'
  <2>1. nextSeq[c] \in Nat
    BY Zenon DEF IInv, TypeOK
  <2>2. CASE ~OverLimit(n) /\ Put(Message(c, nextSeq[c], n))
    <3>1. Message(c, nextSeq[c], n) \in Frame /\ Message(c, nextSeq[c], n).ch \in Channels
      BY Zenon, <2>1, FrameTypes DEF Message
    <3>2. UNCHANGED <<windowVars, senderVars>>
      BY Zenon, <1>7 DEF Deliver
    <3>. QED BY Zenon, <1>1, <1>6, <2>2, <3>1, <3>2
  <2>3. CASE Refuse(c, n)
    BY Zenon, <1>2, <1>7, <2>3 DEF Deliver, Refuse
  <2>. QED BY Zenon, <1>7, <2>2, <2>3 DEF Deliver
<1>8. ASSUME NEW n \in Sizes, EnqueueLow(n) PROVE Rest'
  <2>1. UNCHANGED <<windowVars, senderVars>>
    BY Zenon, <1>8 DEF EnqueueLow
  <2>2. CASE ~OverLimit(n) /\ Put(Control("LOW", n))
    <3>1. Control("LOW", n) \in Frame /\ Control("LOW", n).prio # "NORMAL"
      BY DEF Control, Frame, Priorities
    <3>. QED BY Zenon, <1>1, <1>6, <2>1, <2>2, <3>1
  <2>3. CASE UNCHANGED queueVars
    BY Zenon, <1>2, <2>1, <2>3
  <2>. QED BY Zenon, <1>8, <2>2, <2>3 DEF EnqueueLow
<1>9. CASE SenderGet
  <2>1. /\ sender = "get" /\ queue # <<>> /\ queue' = Tail(queue) /\ UNCHANGED <<accepted, written>>
    BY Zenon, <1>9 DEF SenderGet
  <2>2. CASE Head(queue).prio = "NORMAL" /\ TakeNormal(Head(queue))
    <3>1. WindowOK'
      BY Zenon, <2>2, TakeNormalWindow DEF IInv
    <3>2. /\ sender' \in {"window", "write", "done"} /\ (sender' = "done" => inHand' = <<>>)
          /\ (sender' # "done" => inHand' = <<Head(queue)>>)
      BY Zenon, <2>2 DEF TakeNormal, Admit
    <3>. QED BY Zenon, <2>1, <2>2, <3>1, <3>2, TakeHead
  <2>3. CASE sender' = "write" /\ inHand' = <<Head(queue)>> /\ UNCHANGED windowVars
    <3>1. WindowOK'
      BY Zenon, <2>3 DEF IInv, WindowOK, WindowBound, NoLostWakeup, WindowFull, windowVars
    <3>. QED BY Zenon, <2>1, <2>3, <3>1, TakeHead
  <2>. QED BY Zenon, <1>9, <2>2, <2>3 DEF SenderGet
<1>10. CASE SenderWake
  <2>1. /\ sender = "window" /\ TakeNormal(Head(inHand)) /\ UNCHANGED <<queueVars, written>>
    BY <1>10 DEF SenderWake
  <2>2. WindowOK'
    BY Zenon, <2>1, TakeNormalWindow DEF IInv
  <2>3. inHand \in Seq(Frame) /\ Len(inHand) = 1 /\ inHand[1].prio = "NORMAL" /\ inHand = <<Head(inHand)>>
    BY <2>1 DEF IInv, TypeOK, HandOK
  <2>4. CASE sender' = "done" /\ inHand' = <<>>
    BY Zenon, <2>1, <2>2, <2>4, SenderEnds DEF queueVars
  <2>5. CASE sender' \in {"window", "write"} /\ inHand' = inHand
    <3>1. HandOK'
      BY Zenon, <2>3, <2>5 DEF HandOK
    <3>2. ChannelsOK' /\ QueueBound'
      BY Zenon, <2>1, <2>5 DEF IInv, ChannelsOK, QueueBound, queueVars
    <3>3. PipelineOK'
      BY Zenon, <2>1, <2>5 DEF IInv, PipelineOK, FifoDelivery, queueVars
    <3>. QED BY Zenon, <2>2, <3>1, <3>2, <3>3
  <2>6. \/ sender' = "done" /\ inHand' = <<>>
        \/ sender' \in {"window", "write"} /\ inHand' = <<Head(inHand)>>
    BY <2>1 DEF TakeNormal, Admit
  <2>. QED BY Zenon, <2>3, <2>4, <2>5, <2>6
<1>11. CASE SenderWrite
  BY Zenon, <1>11, WriteKeepsRest
<1>12. CASE SenderFail
  BY Zenon, <1>5, <1>12, SenderEnds DEF SenderFail, queueVars
<1>13. CASE ClientAck
  <2>1. PICK c \in Channels : \E s \in Received(c) : AckReceived(c, s)
    BY Zenon, <1>13 DEF ClientAck
  <2>. QED BY <1>2, <2>1 DEF AckReceived
<1>14. CASE AckApplied
  <2>1. WindowOK'
    <3>1. OnAck(reader.ch, reader.seq)
      BY <1>14 DEF AckApplied
    <3>. QED BY <3>1, OnAckWindow DEF IInv
  <2>. QED BY Zenon, <1>4, <1>14, <2>1 DEF AckApplied
<1>15. CASE PongReceived
  BY Zenon, <1>2, <1>15 DEF PongReceived
<1>16. CASE PongApplied
  <2>1. NextFrame /\ UNCHANGED <<queueVars, written, windowVars>>
    BY <1>16 DEF PongApplied
  <2>2. sender' = sender \/ sender' = "done"
    BY Zenon, <2>1 DEF NextFrame, StopConnection
  <2>. QED BY Zenon, <1>4, <1>5, <2>1, <2>2
<1>17. CASE FrameLoopEnds
  <2>1. StopConnection /\ UNCHANGED <<queueVars, written, windowVars>>
    BY <1>17 DEF FrameLoopEnds
  <2>2. sender' = "done"
    BY Zenon, <2>1 DEF StopConnection
  <2>. QED BY Zenon, <1>3, <1>5, <2>1, <2>2
<1>18. ASSUME NEW n \in Sizes, HeartbeatPing(n) PROVE Rest'
  <2>1. UNCHANGED <<windowVars, senderVars>>
    BY Zenon, <1>18 DEF HeartbeatPing
  <2>2. CASE Put(Control("HIGH", n))
    <3>1. Control("HIGH", n) \in Frame /\ Control("HIGH", n).prio = "HIGH"
      BY Zenon DEF Control, Frame, Priorities
    <3>. QED BY Zenon, <1>1, <2>1, <2>2, <3>1
  <2>3. CASE UNCHANGED queueVars
    BY <1>2, <2>1, <2>3
  <2>. QED BY Zenon, <1>18, <2>2, <2>3 DEF HeartbeatPing
<1>19. CASE HeartbeatPoll \/ HeartbeatTimeout \/ TerminateSlowConsumer \/ CloseSocket \/ PeerGone
  BY Zenon, <1>2, <1>19 DEF HeartbeatPoll, HeartbeatTimeout, TerminateSlowConsumer, CloseSocket, PeerGone
<1>20. CASE UNCHANGED vars
  BY <1>2, <1>20 DEF vars
<1>. QED
  BY Zenon, <1>7, <1>8, <1>9, <1>10, <1>11, <1>12, <1>13, <1>14, <1>15, <1>16, <1>17, <1>18, <1>19, <1>20
  DEF Next

\* A fresh connection satisfies the invariant.
LEMMA IInvInit == Init => IInv
<1>. SUFFICES ASSUME Init PROVE IInv
  OBVIOUS
<1>. USE ConnectionAssumption
<1>1. TypeOK
  <2>1. reader \in [at : {"recv", "ack", "pong", "done"}, ch : Channels \cup {NoChannel}, seq : Nat]
    BY DEF Init, Idle
  <2>2. <<>> \in Seq(Frame)
    OBVIOUS
  <2>3. nextSeq \in [Channels -> Nat]
    BY DEF Init
  <2>4. /\ inflight \subseteq Channels \X Nat \X Nat /\ slow \subseteq Channels
        /\ rejected \subseteq Channels \X Nat \X Sizes
    BY DEF Init
  <2>5. queue \in Seq(Frame) /\ inHand \in Seq(Frame) /\ accepted \in Seq(Frame) /\ written \in Seq(Frame)
    BY Zenon, <2>2 DEF Init
  <2>6. /\ state \in {"ACTIVE", "DEAD"} /\ queueBytes \in Int /\ pings \in Nat /\ lows \in Nat
        /\ sender \in {"get", "window", "write", "done"} /\ hb \in {"sleep", "poll", "dead", "done"}
        /\ ping \in {"none", "queued", "written", "answered"} /\ turn \in Channels \cup {NoChannel}
    BY DEF Init
  <2>7. windowEvent \in BOOLEAN /\ closing \in BOOLEAN /\ open \in BOOLEAN
    BY ZenonT(60) DEF Init
  <2>. QED BY ZenonT(60), <2>1, <2>3, <2>4, <2>5, <2>6, <2>7 DEF TypeOK
<1>2. HandOK /\ ChannelsOK /\ QueueBound /\ PipelineOK
  BY DEF Init, HandOK, ChannelsOK, QueueBound, PipelineOK, FifoDelivery
<1>3. WindowOK
  BY FS_EmptySet DEF Init, WindowOK, WindowBound, NoLostWakeup, WindowFull
<1>. QED BY <1>1, <1>2, <1>3 DEF IInv

\* The inductive invariant holds in every state of the connection's tasks.
LEMMA IInvHolds == Spec => []IInv
<1>1. IInv /\ [Next]_vars => IInv'
  BY IInvStep
<1>. QED BY <1>1, IInvInit, PTL DEF Spec

\* Type correctness of the connection's state.
THEOREM ConnectionTypes == Spec => []TypeOK
<1>1. IInv => TypeOK
  BY DEF IInv
<1>. QED BY <1>1, IInvHolds, PTL

\* Flow control: at most max_inflight_messages delivered and unacknowledged.
THEOREM ConnectionWindowBound == Spec => []WindowBound
<1>1. IInv => WindowBound
  BY DEF IInv, WindowOK
<1>. QED BY <1>1, IInvHolds, PTL

\* The sender is never left asleep in _wait_for_window with room in the window.
THEOREM ConnectionNoLostWakeup == Spec => []NoLostWakeup
<1>1. IInv => NoLostWakeup
  BY Zenon DEF IInv, WindowOK
<1>. QED BY <1>1, IInvHolds, PTL

\* Frames reach the transport in the order enqueue accepted them.
THEOREM ConnectionFifo == Spec => []FifoDelivery
<1>1. IInv => FifoDelivery
  BY DEF IInv, PipelineOK
<1>. QED BY <1>1, IInvHolds, PTL

\* No frame but a control frame is ever queued beyond the queue bound.
THEOREM ConnectionQueueBound == Spec => []QueueBound
<1>1. IInv => QueueBound
  BY DEF IInv
<1>. QED BY <1>1, IInvHolds, PTL

-----------------------------------------------------------------------------
(* The heartbeat's verdict *)

Pending(q) == \E i \in DOMAIN q : q[i].prio = "HIGH"

\* A PING that is not yet written is queued or in the sender's hand, and the
\* sender of a live connection is running.
PingOK ==
  /\ Live => sender # "done"
  /\ hb = "poll" => ping # "none"
  /\ ping = "queued" /\ sender # "done" => Pending(queue) \/ Pending(inHand)

\* A frame put into a queue leaves the others in it.
LEMMA PutPending ==
  ASSUME TypeOK, NEW f \in Frame, Put(f), Pending(queue) \/ f.prio = "HIGH"
  PROVE  Pending(queue')
<1>1. /\ queue' \in Seq(Frame) /\ Len(queue') = Len(queue) + 1
      /\ \A i \in 1..Len(queue) : queue'[i] = queue[i]
      /\ queue'[Len(queue) + 1] = f
  BY Zenon, PutFacts
<1>2. queue \in Seq(Frame)
  BY DEF TypeOK
<1>3. CASE f.prio = "HIGH"
  <2>1. Len(queue) + 1 \in DOMAIN queue'
    BY SMTT(30), <1>1, <1>2
  <2>. QED BY Zenon, <1>1, <1>3, <2>1 DEF Pending
<1>4. CASE Pending(queue)
  <2>1. PICK i \in DOMAIN queue : queue[i].prio = "HIGH"
    BY Zenon, <1>4 DEF Pending
  <2>2. i \in DOMAIN queue' /\ queue'[i] = queue[i]
    BY SMTT(30), <1>1, <1>2, <2>1
  <2>. QED BY Zenon, <2>1, <2>2 DEF Pending
<1>. QED BY Zenon, <1>3, <1>4

\* Taking the head of a queue: a pending PING is the head or stays queued.
LEMMA TailPending ==
  ASSUME NEW q \in Seq(Frame), q # <<>>, Pending(q), Head(q).prio # "HIGH"
  PROVE  Pending(Tail(q))
<1>1. PICK i \in DOMAIN q : q[i].prio = "HIGH"
  BY DEF Pending
<1>2. i # 1 /\ i \in 1..Len(q)
  BY SMTT(30), <1>1
<1>3. i - 1 \in DOMAIN Tail(q) /\ Tail(q)[i - 1] = q[i]
  BY SMTT(30), <1>2
<1>. QED BY Zenon, <1>1, <1>3 DEF Pending

\* Every step keeps PingOK: between run_heartbeat's enqueue of a PING and its
\* verdict (monitor.py:27-49) the PING is queued, in the sender's hand or written.
LEMMA PingStep == ASSUME IInv, PingOK, [Next]_vars PROVE PingOK'
<1>. USE ConnectionAssumption
<1>1. ASSUME UNCHANGED <<queueVars, senderVars>>, ping' = ping \/ ping' = "answered",
             hb' = hb \/ hb' # "poll", Live' => Live
      PROVE  PingOK'
  BY Zenon, <1>1 DEF PingOK, Pending, Live, queueVars, senderVars
<1>2. ASSUME sender' = "done", ~Live', hb' = hb \/ hb' # "poll", ping' = ping PROVE PingOK'
  BY Zenon, <1>2 DEF PingOK
<1>3. ASSUME NEW f \in Frame, Put(f), UNCHANGED <<state, hb, ping, senderVars>> PROVE PingOK'
  <2>1. ASSUME Pending(queue) PROVE Pending(queue')
    BY Zenon, <1>3, <2>1, PutPending DEF IInv
  <2>. QED BY Zenon, <1>3, <2>1 DEF PingOK, Live, senderVars, Pending
<1>4. ASSUME NEW c \in Channels, NEW n \in Sizes, Deliver(c, n) PROVE PingOK'
  <2>1. nextSeq[c] \in Nat
    BY DEF IInv, TypeOK
  <2>2. CASE Put(Message(c, nextSeq[c], n))
    <3>1. Message(c, nextSeq[c], n) \in Frame
      BY Zenon, <2>1, FrameTypes
    <3>2. UNCHANGED <<state, hb, ping, senderVars>>
      BY Zenon, <1>4 DEF Deliver, hbVars
    <3>. QED BY Zenon, <1>3, <2>2, <3>1, <3>2
  <2>3. CASE Refuse(c, n)
    BY Zenon, <1>1, <1>4, <2>3 DEF Deliver, Refuse, hbVars, Live
  <2>. QED BY Zenon, <1>4, <2>2, <2>3 DEF Deliver
<1>5. ASSUME NEW n \in Sizes, EnqueueLow(n) PROVE PingOK'
  <2>1. UNCHANGED <<state, hb, ping, senderVars>>
    BY Zenon, <1>5 DEF EnqueueLow, hbVars
  <2>2. CASE Put(Control("LOW", n))
    <3>1. Control("LOW", n) \in Frame
      BY DEF Control, Frame, Priorities
    <3>. QED BY Zenon, <1>3, <2>1, <2>2, <3>1
  <2>3. CASE UNCHANGED queueVars
    BY Zenon, <1>1, <2>1, <2>3 DEF Live
  <2>. QED BY Zenon, <1>5, <2>2, <2>3 DEF EnqueueLow
<1>6. CASE SenderGet
  <2>1. /\ sender = "get" /\ queue # <<>> /\ queue' = Tail(queue) /\ UNCHANGED <<state, hb, ping>>
    BY Zenon, <1>6 DEF SenderGet, hbVars
  <2>2. queue \in Seq(Frame) /\ inHand = <<>>
    BY Zenon, <2>1 DEF IInv, TypeOK, HandOK
  <2>3. Live' => sender' # "done"
    BY Zenon, <1>6, <2>1 DEF SenderGet, TakeNormal, Admit, Live
  <2>4. ASSUME ping' = "queued", sender' # "done" PROVE Pending(queue') \/ Pending(inHand')
    <3>1. inHand' = <<Head(queue)>>
      BY Zenon, <1>6, <2>4 DEF SenderGet, TakeNormal, Admit
    <3>2. Pending(queue)
      BY SMTT(30), <2>1, <2>2, <2>4 DEF PingOK, Pending
    <3>3. CASE Head(queue).prio = "HIGH"
      BY SMTT(30), <3>1, <3>3 DEF Pending
    <3>4. CASE Head(queue).prio # "HIGH"
      BY Zenon, <2>1, <2>2, <3>2, <3>4, TailPending
    <3>. QED BY Zenon, <3>3, <3>4
  <2>. QED BY Zenon, <2>1, <2>3, <2>4 DEF PingOK
<1>7. CASE SenderWake
  <2>1. /\ sender = "window" /\ UNCHANGED <<state, hb, ping, queue>>
    BY Zenon, <1>7 DEF SenderWake, hbVars, queueVars
  <2>2. inHand \in Seq(Frame) /\ Len(inHand) = 1 /\ inHand[1].prio = "NORMAL"
    BY Zenon, <2>1 DEF IInv, TypeOK, HandOK
  <2>3. Live' => sender' # "done"
    BY ZenonT(60), <1>7, <2>1 DEF SenderWake, TakeNormal, Admit, Live
  <2>4. ~Pending(inHand)
    BY <2>2 DEF Pending
  <2>. QED BY Zenon, <2>1, <2>3, <2>4 DEF PingOK, Pending
<1>8. CASE SenderWrite
  <2>1. /\ sender = "write" /\ UNCHANGED <<state, hb, queue>> /\ inHand' = <<>>
        /\ sender' = IF Live THEN "get" ELSE "done"
        /\ ping' = IF Head(inHand).prio = "HIGH" THEN "written" ELSE ping
    BY <1>8 DEF SenderWrite, queueVars
  <2>2. inHand \in Seq(Frame) /\ Len(inHand) = 1 /\ Head(inHand) = inHand[1]
    BY <2>1 DEF IInv, TypeOK, HandOK
  <2>3. CASE Head(inHand).prio = "HIGH"
    BY <2>1, <2>3 DEF PingOK, Live
  <2>4. CASE Head(inHand).prio # "HIGH"
    <3>1. ~Pending(inHand)
      BY SMTT(30), <2>2, <2>4 DEF Pending
    <3>. QED BY Zenon, <2>1, <2>4, <3>1 DEF PingOK, Live, Pending
  <2>. QED BY <2>3, <2>4
<1>9. CASE SenderFail
  BY Zenon, <1>2, <1>9 DEF SenderFail, hbVars, Live
<1>10. CASE ClientAck
  <2>1. PICK c \in Channels : \E s \in Received(c) : AckReceived(c, s)
    BY <1>10 DEF ClientAck
  <2>. QED BY Zenon, <1>1, <2>1 DEF AckReceived, hbVars, Live
<1>11. ASSUME StopConnection, UNCHANGED ping PROVE PingOK'
  BY <1>2, <1>11 DEF StopConnection, Live
<1>12. ASSUME NextFrame, UNCHANGED <<queueVars, written, ping>> PROVE PingOK'
  <2>1. CASE Live
    BY Zenon, <1>1, <1>12, <2>1 DEF NextFrame, senderVars, Live
  <2>2. CASE ~Live
    BY Zenon, <1>11, <1>12, <2>2 DEF NextFrame
  <2>. QED BY Zenon, <2>1, <2>2
<1>13. CASE AckApplied \/ PongApplied
  BY Zenon, <1>12, <1>13 DEF AckApplied, PongApplied
<1>14. CASE FrameLoopEnds
  BY <1>11, <1>14 DEF FrameLoopEnds
<1>15. CASE PongReceived
  BY Zenon, <1>1, <1>15 DEF PongReceived, Live
<1>16. ASSUME NEW n \in Sizes, HeartbeatPing(n) PROVE PingOK'
  <2>1. UNCHANGED <<state, senderVars>> /\ hb = "sleep"
    BY Zenon, <1>16 DEF HeartbeatPing
  <2>2. CASE Put(Control("HIGH", n)) /\ hb' = "poll" /\ ping' = "queued"
    <3>1. Control("HIGH", n) \in Frame /\ Control("HIGH", n).prio = "HIGH"
      BY DEF Control, Frame, Priorities
    <3>2. Pending(queue')
      BY Zenon, <2>2, <3>1, PutPending DEF IInv
    <3>. QED BY Zenon, <2>1, <2>2, <3>2 DEF PingOK, Live, senderVars
  <2>3. CASE hb' = "done" /\ UNCHANGED <<queueVars, ping, pings>>
    BY Zenon, <1>1, <2>1, <2>3 DEF Live
  <2>. QED BY Zenon, <1>16, <2>2, <2>3 DEF HeartbeatPing
<1>17. CASE HeartbeatPoll \/ HeartbeatTimeout \/ TerminateSlowConsumer \/ CloseSocket \/ PeerGone
  BY Zenon, <1>1, <1>17 DEF HeartbeatPoll, HeartbeatTimeout, TerminateSlowConsumer, CloseSocket, PeerGone, hbVars, Live
<1>18. CASE UNCHANGED vars
  BY Zenon, <1>1, <1>18 DEF vars, hbVars, Live
<1>. QED
  BY Zenon, <1>4, <1>5, <1>6, <1>7, <1>8, <1>9, <1>10, <1>13, <1>14, <1>15, <1>16, <1>17, <1>18 DEF Next

\* Only the timeout gives a connection up, and only in one of the two situations.
LEMMA VerdictStep ==
  ASSUME IInv, PingOK, [Next]_vars, hb # "dead", hb' = "dead"
  PROVE  ping = "written" \/ (sender = "window" /\ WindowFull)
<1>1. HeartbeatTimeout
  BY DEF Next, vars, hbVars, Deliver, EnqueueLow, SenderGet, SenderWake, SenderWrite, SenderFail, ClientAck,
         AckReceived, AckApplied, PongReceived, PongApplied, FrameLoopEnds, HeartbeatPing, HeartbeatPoll,
         TerminateSlowConsumer, CloseSocket, PeerGone, NextFrame, StopConnection
<1>2. hb = "poll" /\ Live /\ ping # "answered" /\ SenderBlocked
  BY Zenon, <1>1 DEF HeartbeatTimeout
<1>3. ping \in {"queued", "written"} /\ sender # "done"
  BY Zenon, <1>2 DEF IInv, TypeOK, PingOK
<1>4. CASE sender = "get" /\ queue = <<>>
  BY <1>3, <1>4 DEF PingOK, Pending, IInv, HandOK
<1>5. CASE sender = "window" /\ ~windowEvent
  BY <1>5 DEF IInv, WindowOK, NoLostWakeup
<1>. QED BY ZenonT(30), <1>2, <1>3, <1>4, <1>5 DEF SenderBlocked

\* run_heartbeat gives a connection up only after a written PING went unanswered,
\* or while a full window holds the sender.
THEOREM ConnectionHeartbeatVerdict == Spec => HeartbeatVerdict
<1>1. Init => PingOK
  BY DEF Init, PingOK
<1>2. IInv /\ PingOK /\ [Next]_vars => PingOK'
  BY PingStep
<1>3. IInv /\ PingOK /\ [Next]_vars
        => [hb # "dead" /\ hb' = "dead" => ping = "written" \/ (sender = "window" /\ WindowFull)]_vars
  BY VerdictStep
<1>. QED BY <1>1, <1>2, <1>3, IInvHolds, PTL DEF Spec, HeartbeatVerdict

-----------------------------------------------------------------------------
(* What the queue weighs.  Totals is recursive, so its facts are proved by   *)
(* induction, over sets of naturals.                                         *)

LEMMA LeastNatural ==
  ASSUME NEW T \in SUBSET Nat, T # {}
  PROVE  \E m \in T : \A n \in T : m <= n
<1>. DEFINE R == {ss \in Nat \X Nat : ss[1] < ss[2]}
<1>1. OpToRel(<, Nat) = R
  BY Zenon DEF OpToRel
<1>2. IsWellFoundedOn(R, Nat)
  BY Zenon, <1>1, NatLessThanWellFounded
<1>3. \A x, y \in Nat : y < x => <<y, x>> \in R
  OBVIOUS
<1>. HIDE DEF R
<1>4. PICK m \in T : \A y \in T : ~ (<<y, m>> \in R)
  BY Zenon, <1>2, WFMin, T \subseteq Nat
<1>5. ASSUME NEW n \in T PROVE m <= n
  <2>1. m \in Nat /\ n \in Nat
    OBVIOUS
  <2>2. ~(<<n, m>> \in R)
    BY <1>4
  <2>3. ~(n < m)
    BY Zenon, <1>3, <2>1, <2>2
  <2>. QED BY <2>1, <2>3
<1>. QED BY <1>5

LEMMA SetInduction ==
  ASSUME NEW S, 0 \in S, \A n \in Nat : n \in S => n + 1 \in S
  PROVE  Nat \subseteq S
<1>. SUFFICES ASSUME NEW k \in Nat, k \notin S PROVE FALSE
  OBVIOUS
<1>. DEFINE T == {n \in Nat : n \notin S}
<1>1. PICK m \in T : \A n \in T : m <= n
  <2>1. T \in SUBSET Nat /\ T # {}
    OBVIOUS
  <2>. HIDE DEF T
  <2>. QED BY <2>1, LeastNatural
<1>2. m # 0 /\ m - 1 \in Nat
  BY <1>1
<1>3. m - 1 \in S
  BY <1>1, <1>2
<1>4. (m - 1) + 1 \in S
  BY <1>2, <1>3
<1>5. (m - 1) + 1 = m
  BY <1>2
<1>. QED BY <1>1, <1>4, <1>5

Weight(f, P) == IF f.prio \in P THEN f.size ELSE 0

LEMMA WeightType ==
  ASSUME NEW f \in Frame, NEW P
  PROVE  Weight(f, P) \in Nat
BY Zenon, ConnectionAssumption DEF Frame, Weight

\* The running totals of q up to position n exist.
LEMMA TotalsExist ==
  ASSUME NEW q \in Seq(Frame), NEW P
  PROVE  \E t : t = [i \in 0..Len(q) |-> IF i = 0 THEN 0 ELSE t[i - 1] + Weight(q[i], P)]
<1>. DEFINE Upto(t, n) == t = [i \in 0..n |-> IF i = 0 THEN 0 ELSE t[i - 1] + Weight(q[i], P)]
            S == {n \in Nat : \E t : Upto(t, n)}
<1>1. 0 \in S
  <2>1. Upto([i \in 0..0 |-> 0], 0)
    OBVIOUS
  <2>. QED BY Zenon, <2>1
<1>2. ASSUME NEW n \in Nat, n \in S PROVE n + 1 \in S
  <2>1. PICK t : Upto(t, n)
    BY <1>2
  <2>. DEFINE u == [i \in 0..(n + 1) |-> IF i = n + 1 THEN t[n] + Weight(q[i], P) ELSE t[i]]
  <2>2. DOMAIN u = 0..(n + 1)
    OBVIOUS
  <2>3. ASSUME NEW i \in 0..(n + 1)
        PROVE  u[i] = IF i = 0 THEN 0 ELSE u[i - 1] + Weight(q[i], P)
    <3>1. CASE i = n + 1
      <4>1. u[n] = t[n] /\ i # 0 /\ i - 1 = n
        BY <3>1
      <4>. QED BY <3>1, <4>1
    <3>2. CASE i # n + 1 /\ i # 0
      <4>1. i \in 0..n /\ i - 1 \in 0..(n + 1) /\ i - 1 # n + 1
        BY <3>2
      <4>2. u[i] = t[i] /\ u[i - 1] = t[i - 1]
        BY <3>2, <4>1
      <4>3. t[i] = t[i - 1] + Weight(q[i], P)
        BY <2>1, <3>2, <4>1
      <4>. QED BY <3>2, <4>2, <4>3
    <3>3. CASE i # n + 1 /\ i = 0
      <4>1. u[i] = t[0] /\ t[0] = 0
        BY <2>1, <3>3
      <4>. QED BY <3>3, <4>1
    <3>. QED BY Zenon, <3>1, <3>2, <3>3
  <2>4. Upto(u, n + 1)
    BY <2>3
  <2>5. \E x : Upto(x, n + 1)
    <3>. HIDE DEF u, Upto
    <3>. QED BY <2>4
  <2>6. n + 1 \in Nat
    OBVIOUS
  <2>. QED BY Zenon, <2>5, <2>6
<1>3. Nat \subseteq S
  <2>. HIDE DEF S
  <2>. QED BY <1>1, <1>2, SetInduction
<1>4. Len(q) \in S
  BY <1>3
<1>. QED BY <1>4

\* Totals computes them, and they are naturals.
LEMMA TotalsFacts ==
  ASSUME NEW q \in Seq(Frame), NEW P
  PROVE  /\ Totals(q, P)[0] = 0
         /\ \A i \in 1..Len(q) : Totals(q, P)[i] = Totals(q, P)[i - 1] + Weight(q[i], P)
         /\ \A i \in 0..Len(q) : Totals(q, P)[i] \in Nat
<1>. DEFINE t == Totals(q, P)
<1>1. t = [i \in 0..Len(q) |-> IF i = 0 THEN 0 ELSE t[i - 1] + Weight(q[i], P)]
  BY Zenon, TotalsExist DEF Totals, Weight
<1>. HIDE DEF t
<1>2. Len(q) \in Nat /\ 0 \in 0..Len(q)
  OBVIOUS
<1>3. t[0] = 0
  BY <1>1, <1>2
<1>4. ASSUME NEW i \in 1..Len(q) PROVE t[i] = t[i - 1] + Weight(q[i], P)
  <2>1. i \in 0..Len(q) /\ i # 0
    BY <1>2
  <2>. QED BY <1>1, <2>1
<1>. DEFINE S == {n \in Nat : n <= Len(q) => t[n] \in Nat}
<1>5. 0 \in S
  BY <1>3
<1>6. ASSUME NEW n \in Nat, n \in S PROVE n + 1 \in S
  <2>. SUFFICES ASSUME n + 1 <= Len(q) PROVE t[n + 1] \in Nat
    OBVIOUS
  <2>1. n + 1 \in 1..Len(q) /\ (n + 1) - 1 = n /\ t[n] \in Nat
    BY <1>2, <1>6
  <2>2. t[n + 1] = t[n] + Weight(q[n + 1], P)
    BY <1>4, <2>1
  <2>3. Weight(q[n + 1], P) \in Nat
    BY <2>1, WeightType
  <2>. QED BY <2>1, <2>2, <2>3
<1>7. Nat \subseteq S
  <2>. HIDE DEF S
  <2>. QED BY <1>5, <1>6, SetInduction
<1>8. \A i \in 0..Len(q) : t[i] \in Nat
  BY <1>2, <1>7
<1>. QED BY <1>3, <1>4, <1>8 DEF t

\* Sequences that agree up to position k have the same totals up to k.
LEMMA TotalsAgree ==
  ASSUME NEW q \in Seq(Frame), NEW r \in Seq(Frame), NEW P, NEW k \in Nat,
         k <= Len(q), k <= Len(r), \A i \in 1..k : q[i] = r[i]
  PROVE  Totals(q, P)[k] = Totals(r, P)[k]
<1>. DEFINE t == Totals(q, P)
            u == Totals(r, P)
            S == {n \in Nat : n <= k => t[n] = u[n]}
<1>1. /\ t[0] = 0 /\ \A i \in 1..Len(q) : t[i] = t[i - 1] + Weight(q[i], P)
      /\ u[0] = 0 /\ \A i \in 1..Len(r) : u[i] = u[i - 1] + Weight(r[i], P)
  BY TotalsFacts
<1>. HIDE DEF t, u
<1>2. 0 \in S
  BY <1>1
<1>3. ASSUME NEW n \in Nat, n \in S PROVE n + 1 \in S
  <2>. SUFFICES ASSUME n + 1 <= k PROVE t[n + 1] = u[n + 1]
    OBVIOUS
  <2>1. /\ n + 1 \in 1..Len(q) /\ n + 1 \in 1..Len(r) /\ n + 1 \in 1..k
        /\ (n + 1) - 1 = n /\ t[n] = u[n]
    BY <1>3
  <2>2. t[n + 1] = t[n] + Weight(q[n + 1], P) /\ u[n + 1] = u[n] + Weight(r[n + 1], P)
    BY <1>1, <2>1
  <2>. QED BY <2>1, <2>2
<1>4. Nat \subseteq S
  <2>. HIDE DEF S
  <2>. QED BY Zenon, <1>2, <1>3, SetInduction
<1>. QED BY <1>4 DEF t, u

\* A frame put into the queue adds its size.
LEMMA BytesOfAppend ==
  ASSUME NEW q \in Seq(Frame), NEW f \in Frame, NEW P
  PROVE  Bytes(Append(q, f), P) = Bytes(q, P) + Weight(f, P)
<1>. DEFINE r == Append(q, f)
            k == Len(q)
<1>1. /\ r \in Seq(Frame) /\ Len(r) = k + 1 /\ r[k + 1] = f /\ k \in Nat
      /\ \A i \in 1..k : q[i] = r[i]
  OBVIOUS
<1>. HIDE DEF r
<1>2. Totals(q, P)[k] = Totals(r, P)[k]
  BY <1>1, TotalsAgree
<1>3. Totals(r, P)[k + 1] = Totals(r, P)[(k + 1) - 1] + Weight(r[k + 1], P)
  BY <1>1, TotalsFacts
<1>4. (k + 1) - 1 = k
  BY <1>1
<1>. QED BY <1>1, <1>2, <1>3, <1>4 DEF Bytes, r

\* A frame taken out at the head subtracts its size.
LEMMA BytesOfTail ==
  ASSUME NEW q \in Seq(Frame), q # <<>>, NEW P
  PROVE  Bytes(Tail(q), P) = Bytes(q, P) - Weight(Head(q), P)
<1>. DEFINE r == Tail(q)
            t == Totals(q, P)
            u == Totals(r, P)
            w == Weight(Head(q), P)
            S == {n \in Nat : n <= Len(r) => t[n + 1] = u[n] + w}
<1>1. /\ r \in Seq(Frame) /\ Len(q) = Len(r) + 1 /\ Len(r) \in Nat /\ Head(q) = q[1]
      /\ \A i \in 1..Len(r) : r[i] = q[i + 1]
  OBVIOUS
<1>2. Head(q) \in Frame
  BY <1>1
<1>. HIDE DEF r
<1>3. /\ t[0] = 0 /\ \A i \in 1..Len(q) : t[i] = t[i - 1] + Weight(q[i], P)
      /\ u[0] = 0 /\ \A i \in 1..Len(r) : u[i] = u[i - 1] + Weight(r[i], P)
      /\ \A i \in 0..Len(q) : t[i] \in Nat
      /\ \A i \in 0..Len(r) : u[i] \in Nat
  BY Zenon, <1>1, TotalsFacts
<1>4. w \in Nat
  BY <1>2, WeightType
<1>. HIDE DEF t, u
<1>5. 0 \in S
  <2>1. 1 \in 1..Len(q) /\ 1 - 1 = 0 /\ 0 + 1 = 1
    BY <1>1
  <2>2. t[1] = t[0] + w
    BY <1>1, <1>3, <2>1
  <2>. QED BY <1>3, <1>4, <2>1, <2>2
<1>6. ASSUME NEW n \in Nat, n \in S PROVE n + 1 \in S
  <2>. SUFFICES ASSUME n + 1 <= Len(r) PROVE t[(n + 1) + 1] = u[n + 1] + w
    OBVIOUS
  <2>1. /\ (n + 1) + 1 \in 1..Len(q) /\ ((n + 1) + 1) - 1 = n + 1
        /\ n + 1 \in 1..Len(r) /\ (n + 1) - 1 = n /\ n \in 0..Len(r)
        /\ t[n + 1] = u[n] + w
    BY <1>1, <1>6
  <2>2. t[(n + 1) + 1] = t[n + 1] + Weight(q[(n + 1) + 1], P) /\ u[n + 1] = u[n] + Weight(r[n + 1], P)
    BY <1>3, <2>1
  <2>3. r[n + 1] = q[(n + 1) + 1]
    BY <1>1, <2>1
  <2>4. Weight(r[n + 1], P) \in Nat /\ u[n] \in Nat
    BY <1>1, <1>3, <2>1, WeightType
  <2>. HIDE DEF w
  <2>. QED BY <1>4, <2>1, <2>2, <2>3, <2>4
<1>7. Nat \subseteq S
  <2>. HIDE DEF S
  <2>. QED BY <1>5, <1>6, SetInduction
<1>8. t[Len(q)] = u[Len(r)] + w /\ u[Len(r)] \in Nat
  <2>. HIDE DEF w
  <2>. QED BY <1>1, <1>3, <1>7
<1>9. Bytes(q, P) = t[Len(q)] /\ Bytes(Tail(q), P) = u[Len(r)]
  BY DEF Bytes, r, t, u
<1>. HIDE DEF w
<1>10. u[Len(r)] = t[Len(q)] - w
  BY <1>4, <1>8
<1>. QED BY <1>9, <1>10 DEF w

\* Some of the frames weigh no more than all of them.
LEMMA BytesOfSome ==
  ASSUME NEW q \in Seq(Frame), NEW P, NEW Q, P \subseteq Q
  PROVE  Bytes(q, P) \in Nat /\ Bytes(q, Q) \in Nat /\ Bytes(q, P) <= Bytes(q, Q)
<1>. DEFINE t == Totals(q, P)
            u == Totals(q, Q)
            S == {n \in Nat : n <= Len(q) => t[n] <= u[n]}
<1>1. /\ t[0] = 0 /\ \A i \in 1..Len(q) : t[i] = t[i - 1] + Weight(q[i], P)
      /\ u[0] = 0 /\ \A i \in 1..Len(q) : u[i] = u[i - 1] + Weight(q[i], Q)
      /\ \A i \in 0..Len(q) : t[i] \in Nat
      /\ \A i \in 0..Len(q) : u[i] \in Nat
  BY TotalsFacts
<1>. HIDE DEF t, u
<1>2. 0 \in S
  BY <1>1
<1>3. ASSUME NEW n \in Nat, n \in S PROVE n + 1 \in S
  <2>. SUFFICES ASSUME n + 1 <= Len(q) PROVE t[n + 1] <= u[n + 1]
    OBVIOUS
  <2>1. n + 1 \in 1..Len(q) /\ (n + 1) - 1 = n /\ n \in 0..Len(q) /\ t[n] <= u[n]
    BY <1>3
  <2>2. t[n + 1] = t[n] + Weight(q[n + 1], P) /\ u[n + 1] = u[n] + Weight(q[n + 1], Q)
    BY <1>1, <2>1
  <2>3. t[n] \in Nat /\ u[n] \in Nat /\ Weight(q[n + 1], P) \in Nat /\ Weight(q[n + 1], Q) \in Nat
    BY <1>1, <2>1, WeightType
  <2>4. Weight(q[n + 1], P) <= Weight(q[n + 1], Q)
    BY <2>3 DEF Weight
  <2>. QED BY <2>1, <2>2, <2>3, <2>4
<1>4. Nat \subseteq S
  <2>. HIDE DEF S
  <2>. QED BY <1>2, <1>3, SetInduction
<1>5. Len(q) \in 0..Len(q) /\ Len(q) \in Nat
  OBVIOUS
<1>. QED BY <1>1, <1>4, <1>5 DEF Bytes, t, u

\* _queue_bytes is what the queue weighs.
BytesOK == queueBytes = Bytes(queue, Priorities) /\ ByteBound

\* enqueue keeps the account, and the bound when its test let the frame through.
LEMMA PutBytes ==
  ASSUME TypeOK, BytesOK, NEW f \in Frame, Put(f),
         f.prio = "HIGH" \/ queueBytes + f.size <= QueueMaxBytes
  PROVE  BytesOK'
<1>. DEFINE P == {"NORMAL", "LOW"}
<1>1. queue \in Seq(Frame) /\ queue' = Append(queue, f) /\ queueBytes' = queueBytes + f.size
  BY DEF TypeOK, Put
<1>2. /\ Bytes(queue', Priorities) = Bytes(queue, Priorities) + Weight(f, Priorities)
      /\ Bytes(queue', P) = Bytes(queue, P) + Weight(f, P)
  BY <1>1, BytesOfAppend
<1>3. f.prio \in Priorities /\ f.size \in Nat
  BY Zenon, ConnectionAssumption DEF Frame
<1>4. Weight(f, Priorities) = f.size /\ Weight(f, P) = IF f.prio = "HIGH" THEN 0 ELSE f.size
  BY <1>3 DEF Weight, Priorities
<1>5. /\ Bytes(queue, P) \in Nat /\ Bytes(queue, Priorities) \in Nat
      /\ Bytes(queue, P) <= Bytes(queue, Priorities)
  BY <1>1, BytesOfSome DEF Priorities
<1>6. Bytes(queue', P) <= QueueMaxBytes
  BY <1>2, <1>3, <1>4, <1>5, ConnectionAssumption DEF BytesOK, ByteBound
<1>. QED BY <1>1, <1>2, <1>4, <1>6 DEF BytesOK, ByteBound

\* run_sender keeps the account.
LEMMA TakeBytes ==
  ASSUME TypeOK, BytesOK, queue # <<>>, queue' = Tail(queue),
         queueBytes' = queueBytes - Head(queue).size
  PROVE  BytesOK'
<1>. DEFINE P == {"NORMAL", "LOW"}
<1>1. queue \in Seq(Frame) /\ queue' \in Seq(Frame) /\ Head(queue) \in Frame
  BY DEF TypeOK
<1>2. /\ Bytes(queue', Priorities) = Bytes(queue, Priorities) - Weight(Head(queue), Priorities)
      /\ Bytes(queue', P) = Bytes(queue, P) - Weight(Head(queue), P)
  BY <1>1, BytesOfTail
<1>3. Weight(Head(queue), Priorities) = Head(queue).size /\ Weight(Head(queue), P) \in Nat
  BY <1>1, WeightType DEF Weight, Frame
<1>4. Bytes(queue, P) \in Nat
  BY <1>1, BytesOfSome
<1>. QED BY <1>2, <1>3, <1>4, ConnectionAssumption DEF BytesOK, ByteBound

LEMMA BytesStep == ASSUME IInv, BytesOK, [Next]_vars PROVE BytesOK'
<1>. USE ConnectionAssumption
<1>1. TypeOK
  BY DEF IInv
<1>2. ASSUME UNCHANGED queueVars PROVE BytesOK'
  BY <1>2 DEF queueVars, BytesOK, ByteBound
<1>3. ASSUME NEW n \in Sizes, ~OverLimit(n) PROVE queueBytes + n <= QueueMaxBytes
  BY <1>1, <1>3 DEF OverLimit, TypeOK
<1>4. ASSUME NEW c \in Channels, NEW n \in Sizes, Deliver(c, n) PROVE BytesOK'
  <2>1. nextSeq[c] \in Nat
    BY <1>1 DEF TypeOK
  <2>2. CASE ~OverLimit(n) /\ Put(Message(c, nextSeq[c], n))
    <3>1. Message(c, nextSeq[c], n) \in Frame /\ Message(c, nextSeq[c], n).size = n
      BY <2>1, FrameTypes DEF Message
    <3>. QED BY <1>1, <1>3, <2>2, <3>1, PutBytes
  <2>3. CASE UNCHANGED queueVars
    BY <1>2, <2>3
  <2>. QED BY <1>4, <2>2, <2>3 DEF Deliver, Refuse
<1>5. ASSUME NEW n \in Sizes, EnqueueLow(n) PROVE BytesOK'
  <2>1. CASE ~OverLimit(n) /\ Put(Control("LOW", n))
    <3>1. Control("LOW", n) \in Frame /\ Control("LOW", n).size = n
      BY DEF Control, Frame, Priorities
    <3>. QED BY <1>1, <1>3, <2>1, <3>1, PutBytes
  <2>2. CASE UNCHANGED queueVars
    BY <1>2, <2>2
  <2>. QED BY <1>5, <2>1, <2>2 DEF EnqueueLow
<1>6. ASSUME NEW n \in Sizes, HeartbeatPing(n) PROVE BytesOK'
  <2>1. CASE Put(Control("HIGH", n))
    <3>1. Control("HIGH", n) \in Frame /\ Control("HIGH", n).prio = "HIGH"
      BY DEF Control, Frame, Priorities
    <3>. QED BY <1>1, <2>1, <3>1, PutBytes
  <2>2. CASE UNCHANGED queueVars
    BY <1>2, <2>2
  <2>. QED BY <1>6, <2>1, <2>2 DEF HeartbeatPing
<1>7. CASE SenderGet
  <2>1. queue # <<>> /\ queue' = Tail(queue) /\ queueBytes' = queueBytes - Head(queue).size
    BY <1>7 DEF SenderGet
  <2>. QED BY <1>1, <2>1, TakeBytes
<1>8. CASE SenderWake \/ SenderWrite \/ SenderFail \/ AckApplied \/ PongReceived \/ PongApplied \/ FrameLoopEnds
  BY <1>2, <1>8 DEF SenderWake, SenderWrite, SenderFail, AckApplied, PongReceived, PongApplied, FrameLoopEnds
<1>9. CASE ClientAck
  BY <1>2, <1>9 DEF ClientAck, AckReceived
<1>10. CASE HeartbeatPoll \/ HeartbeatTimeout \/ TerminateSlowConsumer \/ CloseSocket \/ PeerGone
  BY <1>2, <1>10 DEF HeartbeatPoll, HeartbeatTimeout, TerminateSlowConsumer, CloseSocket, PeerGone
<1>11. CASE UNCHANGED vars
  BY <1>2, <1>11 DEF vars
<1>. QED BY <1>4, <1>5, <1>6, <1>7, <1>8, <1>9, <1>10, <1>11 DEF Next

LEMMA BytesHolds == Spec => []BytesOK
<1>1. Init => BytesOK
  <2>. SUFFICES ASSUME Init PROVE BytesOK
    OBVIOUS
  <2>1. queue = <<>> /\ queueBytes = 0 /\ queue \in Seq(Frame) /\ Len(queue) = 0
    BY DEF Init
  <2>2. \A P : Bytes(queue, P) = 0
    BY Zenon, <2>1, TotalsFacts DEF Bytes
  <2>. QED BY <2>1, <2>2, ConnectionAssumption DEF BytesOK, ByteBound
<1>2. IInv /\ BytesOK /\ [Next]_vars => BytesOK'
  BY BytesStep
<1>. QED BY <1>1, <1>2, IInvHolds, PTL DEF Spec

\* Frames other than HIGH never weigh more than connection_queue_max_bytes,
\* whatever mix of sizes and priorities is put in and taken out (enqueue and
\* run_sender of connections/manager.py).
THEOREM ConnectionByteBound == Spec => []ByteBound
<1>1. BytesOK => ByteBound
  BY DEF BytesOK
<1>. QED BY <1>1, BytesHolds, PTL

\* _queue_bytes, kept by additions in enqueue and subtractions in run_sender,
\* is at all times the exact weight of the queue: it neither drifts nor goes
\* below zero.
THEOREM ConnectionBytesExact == Spec => [](queueBytes = Bytes(queue, Priorities) /\ queueBytes >= 0)
<1>1. IInv /\ BytesOK => queueBytes = Bytes(queue, Priorities) /\ queueBytes >= 0
  <2>. SUFFICES ASSUME IInv, BytesOK PROVE queueBytes = Bytes(queue, Priorities) /\ queueBytes >= 0
    OBVIOUS
  <2>1. queue \in Seq(Frame)
    BY DEF IInv, TypeOK
  <2>2. Bytes(queue, Priorities) \in Nat
    BY Zenon, <2>1, BytesOfSome
  <2>. QED BY <2>2 DEF BytesOK
<1>. QED BY <1>1, IInvHolds, BytesHolds, PTL

-----------------------------------------------------------------------------
(* What follows a refused message. *)

\* What Deliver may still accept on the channel of m, and what it has accepted.
Smaller(m, f) ==
  f.prio = "NORMAL" /\ f.ch = m[1] => f.seq < m[2] \/ (f.seq > m[2] /\ f.size < m[3])

RefusedOK ==
  /\ \A i \in DOMAIN accepted :
       accepted[i].prio = "NORMAL" =>
         accepted[i].ch \in Channels /\ accepted[i].seq < nextSeq[accepted[i].ch]
  /\ \A m \in rejected :
       /\ m[2] < nextSeq[m[1]]
       /\ Live => m[1] \in slow
       /\ m[1] = turn => OverLimit(m[3])
       /\ \A i \in DOMAIN accepted : Smaller(m, accepted[i])

LEMMA RefusedPut ==
  ASSUME TypeOK, RefusedOK, NEW f \in Frame, Put(f), f.prio # "NORMAL",
         turn' = NoChannel, UNCHANGED <<state, slow, nextSeq, rejected>>
  PROVE  RefusedOK'
<1>1. /\ accepted \in Seq(Frame) /\ accepted' \in Seq(Frame)
      /\ Len(accepted') = Len(accepted) + 1
      /\ \A i \in 1..Len(accepted) : accepted'[i] = accepted[i]
      /\ accepted'[Len(accepted) + 1] = f
  BY PutFacts DEF TypeOK
<1>2. ASSUME NEW i \in DOMAIN accepted', accepted'[i].prio = "NORMAL"
      PROVE  i \in DOMAIN accepted /\ accepted'[i] = accepted[i]
  BY <1>1, <1>2
<1>3. \A m \in rejected : m[1] # NoChannel
  BY Zenon, ConnectionAssumption DEF TypeOK
<1>. QED BY ZenonT(30), <1>2, <1>3 DEF RefusedOK, Smaller, Live

\* A step that puts nothing into the queue and refuses nothing ends the turn.
LEMMA RefusedQuiet ==
  ASSUME TypeOK, RefusedOK, UNCHANGED <<accepted, nextSeq, rejected>>, turn' = NoChannel,
         state' = "DEAD" \/ UNCHANGED <<state, slow>>
  PROVE  RefusedOK'
<1>1. \A m \in rejected : m[1] # NoChannel
  BY ConnectionAssumption DEF TypeOK
<1>. QED BY Zenon, <1>1 DEF RefusedOK, Smaller, Live

\* Once a message of a channel was refused, deliver_local accepts only smaller
\* ones of that channel.
LEMMA RefusedDeliver ==
  ASSUME TypeOK, RefusedOK, NEW c \in Channels, NEW n \in Sizes, Deliver(c, n)
  PROVE  RefusedOK'
<1>1. /\ Live /\ Live' /\ nextSeq[c] \in Nat /\ nextSeq'[c] = nextSeq[c] + 1
      /\ \A d \in Channels : nextSeq[d] \in Nat /\ nextSeq'[d] >= nextSeq[d] /\ nextSeq'[d] \in Nat
      /\ turn' \in {c, NoChannel}
      /\ n \in Nat
  BY ConnectionAssumption DEF Deliver, TypeOK, Live
<1>2. \A m \in rejected : m[1] \in Channels /\ m[2] \in Nat /\ m[3] \in Nat /\ m[1] # NoChannel
  BY ZenonT(30), ConnectionAssumption DEF TypeOK
<1>6. accepted \in Seq(Frame) /\ queueBytes \in Int /\ Len(queue) \in Nat
  <2>1. accepted \in Seq(Frame) /\ queueBytes \in Int /\ queue \in Seq(Frame)
    BY Zenon DEF TypeOK
  <2>. QED BY <2>1
<1>7. ASSUME NEW i \in DOMAIN accepted PROVE accepted[i].seq \in Nat
  <2>1. accepted[i] \in Frame
    BY <1>6
  <2>. QED BY <2>1 DEF Frame
<1>8. ASSUME NEW m \in rejected PROVE m[2] < nextSeq'[m[1]] /\ m[1] \in slow
  <2>1. m[2] < nextSeq[m[1]] /\ m[1] \in slow
    BY Zenon, <1>1 DEF RefusedOK
  <2>2. m[1] \in Channels /\ m[2] \in Nat
    BY <1>2
  <2>3. nextSeq[m[1]] \in Nat /\ nextSeq'[m[1]] >= nextSeq[m[1]] /\ nextSeq'[m[1]] \in Nat
    BY Zenon, <1>1, <2>2
  <2>. QED BY SMTT(30), <2>1, <2>2, <2>3
<1>3. ASSUME NEW m \in rejected, m[1] = c PROVE OverLimit(m[3])
  BY ZenonT(30), <1>1, <1>3 DEF RefusedOK, Deliver
<1>4. CASE ~OverLimit(n) /\ Put(Message(c, nextSeq[c], n)) /\ UNCHANGED <<slow, rejected>>
  <2>. DEFINE f == Message(c, nextSeq[c], n)
              k == Len(accepted) + 1
  <2>1. f \in Frame /\ f.prio = "NORMAL" /\ f.ch = c /\ f.seq = nextSeq[c] /\ f.size = n
    BY Zenon, <1>1, FrameTypes DEF Message
  <2>2. Put(f)
    BY <1>4
  <2>. HIDE DEF f
  <2>3. /\ accepted' \in Seq(Frame) /\ Len(accepted') = k
        /\ \A i \in 1..Len(accepted) : accepted'[i] = accepted[i]
        /\ accepted'[k] = f
        /\ queueBytes' = queueBytes + n /\ Len(queue') = Len(queue) + 1
    BY Zenon, <2>1, <2>2, PutFacts DEF Put
  <2>4. ASSUME NEW i \in DOMAIN accepted'
        PROVE  (i \in DOMAIN accepted /\ accepted'[i] = accepted[i]) \/ accepted'[i] = f
    BY <1>6, <2>3
  <2>5. ASSUME NEW i \in DOMAIN accepted', accepted'[i].prio = "NORMAL"
        PROVE  accepted'[i].ch \in Channels /\ accepted'[i].seq < nextSeq'[accepted'[i].ch]
    <3>1. CASE accepted'[i] = f
      BY <1>1, <2>1, <3>1
    <3>2. CASE i \in DOMAIN accepted /\ accepted'[i] = accepted[i]
      <4>1. accepted[i].ch \in Channels /\ accepted[i].seq < nextSeq[accepted[i].ch]
        BY Zenon, <2>5, <3>2 DEF RefusedOK
      <4>2. accepted[i].seq \in Nat
        BY Zenon, <1>7, <3>2
      <4>3. nextSeq'[accepted[i].ch] >= nextSeq[accepted[i].ch]
        BY <1>1, <4>1
      <4>4. nextSeq'[accepted[i].ch] \in Nat /\ nextSeq[accepted[i].ch] \in Nat
        BY Zenon, <1>1, <4>1
      <4>5. accepted[i].seq < nextSeq'[accepted[i].ch]
        BY SMTT(30), <4>1, <4>2, <4>3, <4>4
      <4>. QED BY Zenon, <3>2, <4>1, <4>5
    <3>. QED BY Zenon, <2>4, <3>1, <3>2
  <2>6. ASSUME NEW m \in rejected
        PROVE  /\ m[2] < nextSeq'[m[1]]
               /\ m[1] \in slow'
               /\ m[1] = turn' => OverLimit(m[3])'
               /\ \A i \in DOMAIN accepted' : Smaller(m, accepted'[i])
    <3>1. m[2] < nextSeq'[m[1]] /\ m[1] \in slow'
      BY <1>4, <1>8
    <3>2. ASSUME m[1] = turn' PROVE OverLimit(m[3])'
      <4>1. m[1] = c
        BY <1>1, <1>2, <3>2
      <4>2. OverLimit(m[3]) /\ m[3] \in Nat
        BY <1>2, <1>3, <4>1
      <4>. QED BY SMTT(30), <1>6, <2>3, <4>2, ConnectionAssumption DEF OverLimit
    <3>3. Smaller(m, f)
      <4>1. ASSUME m[1] = c PROVE n < m[3]
        <5>1. OverLimit(m[3]) /\ m[3] \in Nat
          BY Zenon, <1>2, <1>3, <4>1
        <5>. QED BY <1>1, <1>4, <1>6, <5>1, ConnectionAssumption DEF OverLimit
      <4>2. ASSUME m[1] = c PROVE nextSeq[c] > m[2]
        BY Zenon, <1>1, <1>2, <4>2 DEF RefusedOK
      <4>. QED BY Zenon, <2>1, <4>1, <4>2 DEF Smaller
    <3>. QED BY Zenon, <2>4, <3>1, <3>2, <3>3 DEF RefusedOK
  <2>. QED BY ZenonT(30), <1>1, <1>4, <2>5, <2>6 DEF RefusedOK, Smaller
<1>5. CASE OverLimit(n) /\ Refuse(c, n)
  <2>. DEFINE r == <<c, nextSeq[c], n>>
  <2>1. /\ UNCHANGED <<queue, queueBytes, accepted>> /\ slow' = slow \cup {c}
        /\ rejected' = rejected \cup {r} /\ r[1] = c /\ r[2] = nextSeq[c] /\ r[3] = n
    BY Zenon, <1>5 DEF Refuse, queueVars
  <2>. HIDE DEF r
  <2>2. ASSUME NEW i \in DOMAIN accepted, accepted[i].prio = "NORMAL"
        PROVE  /\ accepted[i].ch \in Channels /\ accepted[i].seq < nextSeq[accepted[i].ch]
               /\ accepted[i].seq < nextSeq'[accepted[i].ch]
    <3>1. accepted[i].ch \in Channels /\ accepted[i].seq < nextSeq[accepted[i].ch]
      BY <2>2 DEF RefusedOK
    <3>2. accepted[i].seq \in Nat
      BY <1>7
    <3>3. nextSeq'[accepted[i].ch] >= nextSeq[accepted[i].ch]
      BY <1>1, <3>1
    <3>4. nextSeq'[accepted[i].ch] \in Nat /\ nextSeq[accepted[i].ch] \in Nat
      BY Zenon, <1>1, <3>1
    <3>5. accepted[i].seq < nextSeq'[accepted[i].ch]
      BY <3>1, <3>2, <3>3, <3>4
    <3>. QED BY Zenon, <3>1, <3>5
  <2>3. /\ r[2] < nextSeq'[r[1]] /\ r[1] \in slow' /\ OverLimit(n)'
        /\ \A i \in DOMAIN accepted : Smaller(r, accepted[i])
    <3>1. OverLimit(n)'
      BY Zenon, <1>5, <2>1 DEF OverLimit
    <3>2. \A i \in DOMAIN accepted : Smaller(r, accepted[i])
      BY Zenon, <2>1, <2>2 DEF Smaller
    <3>. QED BY <1>1, <2>1, <3>1, <3>2
  <2>4. ASSUME NEW m \in rejected
        PROVE  /\ m[2] < nextSeq'[m[1]] /\ m[1] \in slow' /\ (m[1] = turn' => OverLimit(m[3])')
               /\ \A i \in DOMAIN accepted : Smaller(m, accepted[i])
    <3>1. m[2] < nextSeq'[m[1]] /\ m[1] \in slow'
      BY <1>8, <2>1
    <3>2. ASSUME m[1] = turn' PROVE OverLimit(m[3])'
      <4>1. m[1] = c
        BY <1>1, <1>2, <3>2
      <4>. QED BY <1>3, <2>1, <4>1 DEF OverLimit
    <3>. QED BY Zenon, <3>1, <3>2 DEF RefusedOK
  <2>5. ASSUME NEW m \in rejected'
        PROVE  /\ m[2] < nextSeq'[m[1]] /\ m[1] \in slow' /\ (m[1] = turn' => OverLimit(m[3])')
               /\ \A i \in DOMAIN accepted' : Smaller(m, accepted'[i])
    <3>1. CASE m \in rejected
      BY <2>1, <2>4, <3>1
    <3>2. CASE m = r
      <4>1. m[3] = n
        BY <2>1, <3>2
      <4>. QED BY Zenon, <2>1, <2>3, <3>2, <4>1
    <3>. QED BY <2>1, <3>1, <3>2
  <2>. QED BY ZenonT(30), <2>1, <2>2, <2>5 DEF RefusedOK, Smaller
<1>. QED BY Zenon, <1>4, <1>5 DEF Deliver

LEMMA RefusedStep == ASSUME IInv, RefusedOK, [Next]_vars PROVE RefusedOK'
<1>1. TypeOK
  BY DEF IInv
<1>2. ASSUME NEW n \in Sizes, EnqueueLow(n) PROVE RefusedOK'
  <2>1. CASE Put(Control("LOW", n))
    <3>1. Control("LOW", n) \in Frame /\ Control("LOW", n).prio # "NORMAL"
      BY DEF Control, Frame, Priorities
    <3>2. turn' = NoChannel /\ UNCHANGED <<state, slow, nextSeq, rejected>>
      BY <1>2 DEF EnqueueLow, fanoutVars
    <3>. QED BY <1>1, <2>1, <3>1, <3>2, RefusedPut
  <2>2. CASE UNCHANGED queueVars
    BY <1>1, <1>2, <2>2, RefusedQuiet DEF EnqueueLow, queueVars, fanoutVars
  <2>. QED BY <1>2, <2>1, <2>2 DEF EnqueueLow
<1>3. ASSUME NEW n \in Sizes, HeartbeatPing(n) PROVE RefusedOK'
  <2>1. CASE Put(Control("HIGH", n))
    <3>1. Control("HIGH", n) \in Frame /\ Control("HIGH", n).prio # "NORMAL"
      BY DEF Control, Frame, Priorities
    <3>2. turn' = NoChannel /\ UNCHANGED <<state, slow, nextSeq, rejected>>
      BY <1>3 DEF HeartbeatPing, fanoutVars
    <3>. QED BY <1>1, <2>1, <3>1, <3>2, RefusedPut
  <2>2. CASE UNCHANGED queueVars
    BY Zenon, <1>1, <1>3, <2>2, RefusedQuiet DEF HeartbeatPing, queueVars, fanoutVars
  <2>. QED BY <1>3, <2>1, <2>2 DEF HeartbeatPing
<1>4. CASE SenderGet \/ SenderWake \/ SenderWrite \/ SenderFail
  BY <1>1, <1>4, RefusedQuiet DEF SenderGet, SenderWake, SenderWrite, SenderFail, queueVars, fanoutVars
<1>5. CASE AckApplied \/ PongApplied \/ FrameLoopEnds
  <2>1. UNCHANGED <<accepted, slow, nextSeq, rejected>> /\ turn' = NoChannel
    BY <1>5 DEF AckApplied, PongApplied, FrameLoopEnds, queueVars, fanoutVars
  <2>2. NextFrame \/ StopConnection
    BY <1>5 DEF AckApplied, PongApplied, FrameLoopEnds
  <2>3. state' = "DEAD" \/ state' = state
    BY <2>2 DEF NextFrame, StopConnection
  <2>. QED BY <1>1, <2>1, <2>3, RefusedQuiet
<1>6. CASE ClientAck \/ PongReceived
  BY Zenon, <1>1, <1>6, RefusedQuiet DEF ClientAck, AckReceived, PongReceived, queueVars, fanoutVars
<1>7. CASE HeartbeatPoll \/ HeartbeatTimeout \/ TerminateSlowConsumer \/ CloseSocket \/ PeerGone
  BY ZenonT(30), <1>1, <1>7, RefusedQuiet
     DEF HeartbeatPoll, HeartbeatTimeout, TerminateSlowConsumer, CloseSocket, PeerGone, queueVars, fanoutVars
<1>8. CASE UNCHANGED vars
  BY <1>8 DEF vars, queueVars, fanoutVars, RefusedOK, Smaller, Live, OverLimit
<1>. QED BY <1>1, <1>2, <1>3, <1>4, <1>5, <1>6, <1>7, <1>8, RefusedDeliver DEF Next

LEMMA RefusedHolds == Spec => []RefusedOK
<1>1. Init => RefusedOK
  BY DEF Init, RefusedOK
<1>2. IInv /\ RefusedOK /\ [Next]_vars => RefusedOK'
  BY RefusedStep
<1>. QED BY <1>1, <1>2, IInvHolds, PTL DEF Spec

\* A client is never sent a message that was refused, and after it only smaller
\* ones of that channel: the terminate task closes the connection before the
\* listener's next turn (deliver_local of publisher.py, enqueue of manager.py).
THEOREM ConnectionOnlySmaller == Spec => []OnlySmallerFollows
<1>1. IInv /\ RefusedOK => OnlySmallerFollows
  BY ZenonT(30) DEF IInv, PipelineOK, FifoDelivery, RefusedOK, Smaller, OnlySmallerFollows
<1>. QED BY <1>1, IInvHolds, RefusedHolds, PTL

\* With payloads of one size, nothing of the channel follows a refused message, so
\* a cumulative ACK never moves the resume position past it.
THEOREM ConnectionNothingFollows ==
  ASSUME \A m, n \in Sizes : m = n
  PROVE  Spec => []NothingFollowsRefused
<1>1. IInv /\ RefusedOK => NothingFollowsRefused
  <2>. SUFFICES ASSUME IInv, RefusedOK, NEW m \in rejected, NEW t \in Received(m[1])
                PROVE  t < m[2]
    BY DEF NothingFollowsRefused
  <2>1. PICK i \in DOMAIN written : written[i].prio = "NORMAL" /\ written[i].ch = m[1] /\ t = written[i].seq
    BY DEF Received
  <2>2. m[3] \in Sizes /\ written[i].size \in Sizes /\ m[3] \in Nat
    <3>1. m \in Channels \X Nat \X Sizes /\ written \in Seq(Frame)
      BY DEF IInv, TypeOK
    <3>2. written[i] \in Frame
      BY <3>1
    <3>. QED BY ZenonT(30), <3>1, <3>2, ConnectionAssumption DEF Frame
  <2>3. ~(written[i].size < m[3])
    BY <2>2
  <2>4. i \in DOMAIN accepted /\ written[i] = accepted[i]
    BY Zenon DEF IInv, PipelineOK, FifoDelivery
  <2>. QED BY <2>1, <2>3, <2>4 DEF RefusedOK, Smaller
<1>. QED BY <1>1, IInvHolds, RefusedHolds, PTL
=============================================================================
