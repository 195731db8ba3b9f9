------------------------------ MODULE Connection ------------------------------
(***************************************************************************)
(* One WebSocket connection of a Relay gateway node: its bounded outbound  *)
(* queue, the in-flight (delivered, unacknowledged) window, and the tasks  *)
(* that share them on one event loop:                                      *)
(*                                                                         *)
(*   the Pub/Sub listeners   deliver_local -> Connection.enqueue           *)
(*   the sender task         Connection.run_sender                         *)
(*   the frame loop          _frame_loop (ACK, PONG, end of the socket)    *)
(*   the heartbeat task      run_heartbeat                                 *)
(*   terminate_slow_consumer tasks spawned by deliver_local                *)
(*                                                                         *)
(* An action is what one task does between two suspension points, so it is *)
(* atomic.  Putting into the unbounded asyncio.Queue never suspends.       *)
(* Messages of a channel are offered in sequence order here; how they come *)
(* to be out of order is the subject of module Publish.                    *)
(***************************************************************************)
EXTENDS Integers, Sequences, FiniteSets

CONSTANTS
  Channels,          \* channels the connection is subscribed to
  NoChannel,         \* the `None` channel of a control frame
  Sizes,             \* payload sizes, in bytes
  MaxInflight,       \* settings.max_inflight_messages
  QueueMaxMessages,  \* settings.connection_queue_max_messages
  QueueMaxBytes,     \* settings.connection_queue_max_bytes
  MaxSeq,            \* bound: messages offered per channel
  MaxPings,          \* bound: heartbeat rounds
  MaxLow             \* bound: LOW frames offered

ASSUME ConnectionAssumption ==
  /\ NoChannel \notin Channels
  /\ Sizes \subseteq Nat \ {0}
  /\ MaxInflight \in Nat \ {0}
  /\ QueueMaxMessages \in Nat \ {0}
  /\ QueueMaxBytes \in Nat
  /\ MaxSeq \in Nat /\ MaxPings \in Nat /\ MaxLow \in Nat

VARIABLES
  state,        \* Connection.state: "ACTIVE" or "DEAD" (the rest is never assigned)
  queue,        \* Connection._queue
  queueBytes,   \* Connection._queue_bytes
  inflight,     \* Connection._inflight: <<channel, sequence, delivery number>>
  windowEvent,  \* Connection._window_event
  sender,       \* where run_sender stands
  inHand,       \* the item run_sender has taken out of the queue, if any
  reader,       \* where _frame_loop stands, with the ACK it is handling
  hb,           \* where run_heartbeat stands
  ping,         \* how far the PING of the current round has come
  slow,         \* channels whose listener spawned a terminate task not yet run
  turn,         \* listener whose event-loop turn, with an overflow in it, goes on
  closing,      \* a task has marked the connection DEAD and is closing the socket
  open,         \* the transport is up
  nextSeq,      \* next sequence the listener of a channel hands over
  pings, lows,  \* rounds and LOW frames so far (bounded)
  accepted,     \* history: frames put into the queue
  written,      \* history: frames handed to the transport
  rejected      \* history: messages refused with SlowConsumerError, with their size

queueVars   == <<queue, queueBytes, accepted>>
windowVars  == <<inflight, windowEvent>>
senderVars  == <<sender, inHand, written>>
hbVars      == <<hb, ping, pings>>
fanoutVars  == <<slow, nextSeq, rejected>>
socketVars  == <<closing, open>>
vars == <<state, queueVars, windowVars, senderVars, reader, hbVars, fanoutVars,
          turn, socketVars, lows>>

Priorities == {"HIGH", "NORMAL", "LOW"}
Frame == [prio : Priorities, ch : Channels \cup {NoChannel}, seq : Nat, size : Sizes]
Message(c, s, n) == [prio |-> "NORMAL", ch |-> c, seq |-> s, size |-> n]
Control(p, n) == [prio |-> p, ch |-> NoChannel, seq |-> 0, size |-> n]
Idle == [at |-> "recv", ch |-> NoChannel, seq |-> 0]

Live == state = "ACTIVE"
\* Mutant: the window is compared with > instead of >=.
WindowFullOffByOne == Cardinality(inflight) > MaxInflight
WindowFull == Cardinality(inflight) >= MaxInflight

TypeOK ==
  /\ state \in {"ACTIVE", "DEAD"}
  /\ queue \in Seq(Frame) /\ queueBytes \in Int
  /\ inflight \subseteq Channels \X Nat \X Nat /\ windowEvent \in BOOLEAN
  /\ sender \in {"get", "window", "write", "done"} /\ inHand \in Seq(Frame)
  /\ reader \in [at : {"recv", "ack", "pong", "done"},
                 ch : Channels \cup {NoChannel}, seq : Nat]
  /\ hb \in {"sleep", "poll", "dead", "done"}
  /\ ping \in {"none", "queued", "written", "answered"}
  /\ slow \subseteq Channels /\ turn \in Channels \cup {NoChannel}
  /\ closing \in BOOLEAN /\ open \in BOOLEAN
  /\ nextSeq \in [Channels -> Nat] /\ pings \in Nat /\ lows \in Nat
  /\ accepted \in Seq(Frame) /\ written \in Seq(Frame)
  /\ rejected \subseteq Channels \X Nat \X Sizes

\* A connection as handle_connection leaves it: ACTIVE, tasks created, window open.
Init ==
  /\ state = "ACTIVE"
  /\ queue = <<>> /\ queueBytes = 0 /\ accepted = <<>>
  /\ inflight = {} /\ windowEvent = TRUE
  /\ sender = "get" /\ inHand = <<>> /\ written = <<>>
  /\ reader = Idle
  /\ hb = "sleep" /\ ping = "none" /\ pings = 0
  /\ slow = {} /\ nextSeq = [c \in Channels |-> 1] /\ rejected = {}
  /\ turn = NoChannel
  /\ closing = FALSE /\ open = TRUE
  /\ lows = 0

-----------------------------------------------------------------------------
(* Connection.enqueue *)

\* Mutant: the queue length is compared with > instead of >=.
OverLimitCountOffByOne(n) == Len(queue) > QueueMaxMessages \/ queueBytes + n > QueueMaxBytes
\* Mutant: the byte bound is tested before the frame is added.
OverLimitIgnoresSize(n) == Len(queue) >= QueueMaxMessages \/ queueBytes > QueueMaxBytes
OverLimit(n) ==
  \/ Len(queue) >= QueueMaxMessages
  \/ queueBytes + n > QueueMaxBytes

\* Mutant: the newest frame is sent first.
PutAtHead(f) ==
  /\ queue' = <<f>> \o queue
  /\ queueBytes' = queueBytes + f.size
  /\ accepted' = Append(accepted, f)

Put(f) ==
  /\ queue' = Append(queue, f)
  /\ queueBytes' = queueBytes + f.size
  /\ accepted' = Append(accepted, f)

\* Mutant: the overflow is logged, the connection kept.
RefuseWithoutTerminate(c, n) ==
  /\ rejected' = rejected \cup {<<c, nextSeq[c], n>>}
  /\ UNCHANGED <<slow, queueVars>>

\* SlowConsumerError: the message is gone, a terminate task is spawned.
Refuse(c, n) ==
  /\ rejected' = rejected \cup {<<c, nextSeq[c], n>>}
  /\ slow' = slow \cup {c}
  /\ UNCHANGED queueVars

\* deliver_local for this connection, called by the listener of channel c.
\* While the terminate task it spawned has not run, that listener can only go
\* on within the same event-loop turn (further messages already buffered by
\* the Redis client): the ready queue is FIFO, so once the listener suspends
\* the terminate task runs before it.
Deliver(c, n) ==
  /\ Live
  /\ nextSeq[c] <= MaxSeq
  /\ c \in slow => turn = c
  /\ nextSeq' = [nextSeq EXCEPT ![c] = @ + 1]
  /\ \/ /\ ~OverLimit(n)
        /\ Put(Message(c, nextSeq[c], n))
        /\ UNCHANGED <<slow, rejected>>
     \/ /\ OverLimit(n)
        /\ Refuse(c, n)
  /\ turn' = IF c \in slow' THEN c ELSE NoChannel
  /\ UNCHANGED <<state, windowVars, senderVars, reader, hbVars, socketVars, lows>>

\* enqueue of an ephemeral frame: dropped over the limit, never an error.
EnqueueLow(n) ==
  /\ Live
  /\ lows < MaxLow
  /\ lows' = lows + 1
  /\ IF OverLimit(n) THEN UNCHANGED queueVars ELSE Put(Control("LOW", n))
  /\ turn' = NoChannel
  /\ UNCHANGED <<state, windowVars, senderVars, reader, hbVars, fanoutVars, socketVars>>

-----------------------------------------------------------------------------
(* Connection.run_sender and Connection._wait_for_window *)

\* The loop body up to send_text, once the window is open.  _inflight is a list
\* whose order nothing uses; the delivery number keeps two entries apart.
Admit(f) ==
  IF Live
  THEN /\ inflight' = inflight \cup {<<f.ch, f.seq, Len(written) + 1>>}
       /\ sender' = "write" /\ inHand' = <<f>>
  ELSE /\ sender' = "done" /\ inHand' = <<>>
       /\ UNCHANGED inflight

\* A NORMAL frame goes through _wait_for_window.
TakeNormal(f) ==
  IF WindowFull
  THEN /\ sender' = "window" /\ inHand' = <<f>>
       /\ windowEvent' = FALSE
       /\ UNCHANGED inflight
  ELSE Admit(f) /\ UNCHANGED windowEvent

\* queue.get() returns: take the head; a NORMAL frame waits for the window.
\* A frame taken out is not counted in _queue_bytes any more.
SenderGet ==
  /\ sender = "get"
  /\ queue # <<>>
  /\ queue' = Tail(queue)
  /\ queueBytes' = queueBytes - Head(queue).size
  /\ \/ /\ Head(queue).prio = "NORMAL"
        /\ TakeNormal(Head(queue))
     \/ /\ Head(queue).prio # "NORMAL"
        /\ sender' = "write" /\ inHand' = <<Head(queue)>>
        /\ UNCHANGED windowVars
  /\ turn' = NoChannel
  /\ UNCHANGED <<state, accepted, written, reader, hbVars, fanoutVars, socketVars, lows>>

\* _window_event.wait() returns; the while condition is tested again.
SenderWake ==
  /\ sender = "window"
  /\ windowEvent
  /\ TakeNormal(Head(inHand))
  /\ turn' = NoChannel
  /\ UNCHANGED <<state, queueVars, written, reader, hbVars, fanoutVars, socketVars, lows>>

\* websocket.send_text returns: the ASGI server has buffered the frame.
SenderWrite ==
  /\ sender = "write"
  /\ open
  /\ written' = written \o inHand
  /\ inHand' = <<>>
  /\ sender' = IF Live THEN "get" ELSE "done"
  /\ ping' = IF Head(inHand).prio = "HIGH" THEN "written" ELSE ping
  /\ turn' = NoChannel
  /\ UNCHANGED <<state, queueVars, windowVars, reader, hb, pings, fanoutVars, socketVars, lows>>

\* websocket.send_text raises: the connection is marked DEAD, the task ends.
SenderFail ==
  /\ sender = "write"
  /\ ~open
  /\ state' = "DEAD"
  /\ sender' = "done" /\ inHand' = <<>>
  /\ turn' = NoChannel
  /\ UNCHANGED <<queueVars, windowVars, written, reader, hbVars, fanoutVars, socketVars, lows>>

-----------------------------------------------------------------------------
(* _frame_loop: one frame at a time, with a Redis round trip inside *)

\* Sequences of channel c the client has been sent, hence may acknowledge.
Received(c) ==
  {written[i].seq : i \in {j \in DOMAIN written : written[j].prio = "NORMAL" /\ written[j].ch = c}}

\* _cleanup_connection up to its first suspension: stop writes, cancel tasks.
\* What follows (subscriptions, presence, registry) does not touch this state.
StopConnection ==
  /\ state' = "DEAD"
  /\ sender' = "done" /\ inHand' = <<>>
  /\ hb' = IF hb = "dead" THEN "dead" ELSE "done"
  /\ reader' = [Idle EXCEPT !.at = "done"]
  /\ open' = FALSE

\* The loop condition is tested after every frame.
NextFrame ==
  IF Live
  THEN reader' = Idle /\ UNCHANGED <<state, sender, inHand, hb, open>>
  ELSE StopConnection

\* ACK: record_ack suspends on Redis before on_ack runs.
AckReceived(c, s) ==
  /\ reader.at = "recv" /\ open
  /\ s \in Received(c)
  /\ reader' = [at |-> "ack", ch |-> c, seq |-> s]
  /\ turn' = NoChannel
  /\ UNCHANGED <<state, queueVars, windowVars, senderVars, hbVars, fanoutVars, socketVars, lows>>

\* Connection.on_ack: a cumulative ACK of channel c up to sequence s.
Unreleased(c, s) == {m \in inflight : ~(m[1] = c /\ m[2] <= s)}

\* Mutant: the window reopens only when it is empty.
OnAckWakesOnlyWhenEmpty(c, s) ==
  /\ inflight' = Unreleased(c, s)
  /\ windowEvent' = (windowEvent \/ inflight' = {})

\* Mutant: the sender is not woken.
OnAckForgetsEvent(c, s) ==
  /\ inflight' = Unreleased(c, s)
  /\ UNCHANGED windowEvent

OnAck(c, s) ==
  /\ inflight' = Unreleased(c, s)
  /\ windowEvent' = (windowEvent \/ Cardinality(inflight') < MaxInflight)

AckApplied ==
  /\ reader.at = "ack"
  /\ OnAck(reader.ch, reader.seq)
  /\ NextFrame
  /\ turn' = NoChannel
  /\ UNCHANGED <<queueVars, written, ping, pings, fanoutVars, closing, lows>>

\* PONG: last_pong_at advances at once, then session and presence are touched.
PongReceived ==
  /\ reader.at = "recv" /\ open
  /\ ping = "written"
  /\ ping' = "answered"
  /\ reader' = [Idle EXCEPT !.at = "pong"]
  /\ turn' = NoChannel
  /\ UNCHANGED <<state, queueVars, windowVars, senderVars, hb, pings, fanoutVars, socketVars, lows>>

PongApplied ==
  /\ reader.at = "pong"
  /\ NextFrame
  /\ turn' = NoChannel
  /\ UNCHANGED <<queueVars, windowVars, written, ping, pings, fanoutVars, closing, lows>>

\* The loop ends (disconnect, DISCONNECT frame, or a Redis error while a frame
\* is handled): the finally clause runs _cleanup_connection.
FrameLoopEnds ==
  /\ reader.at # "done"
  /\ StopConnection
  /\ turn' = NoChannel
  /\ UNCHANGED <<queueVars, windowVars, written, ping, pings, fanoutVars, closing, lows>>

-----------------------------------------------------------------------------
(* run_heartbeat *)

\* The interval is over: put a PING into the queue, unless the connection ended.
HeartbeatPing(n) ==
  /\ hb = "sleep"
  /\ \/ /\ Live /\ pings < MaxPings
        /\ Put(Control("HIGH", n))
        /\ hb' = "poll" /\ ping' = "queued" /\ pings' = pings + 1
     \/ /\ ~Live
        /\ hb' = "done"
        /\ UNCHANGED <<queueVars, ping, pings>>
  /\ turn' = NoChannel
  /\ UNCHANGED <<state, windowVars, senderVars, reader, fanoutVars, socketVars, lows>>

\* A poll finds the connection ended, or a PONG not older than the PING.
HeartbeatPoll ==
  /\ hb = "poll"
  /\ \/ ~Live /\ hb' = "done"
     \/ Live /\ ping = "answered" /\ hb' = "sleep"
  /\ turn' = NoChannel
  /\ UNCHANGED <<state, queueVars, windowVars, senderVars, reader, ping, pings,
                 fanoutVars, socketVars, lows>>

\* The sender has nothing it could do without an outside event.
SenderBlocked ==
  \/ sender = "get" /\ queue = <<>>
  \/ sender = "window" /\ ~windowEvent
  \/ sender = "done"

\* Mutant: the deadline does not look at the PONG.
HeartbeatTimeoutIgnoresPong ==
  /\ hb = "poll"
  /\ Live
  /\ SenderBlocked
  /\ state' = "DEAD"
  /\ hb' = "dead"
  /\ closing' = TRUE
  /\ turn' = NoChannel
  /\ UNCHANGED <<queueVars, windowVars, senderVars, reader, ping, pings, fanoutVars, open, lows>>

\* The deadline passes without a PONG: _on_dead_connection.  Timers of seconds
\* expire only after the steps of a task that is ready to run.
HeartbeatTimeout ==
  /\ hb = "poll"
  /\ Live /\ ping # "answered"
  /\ SenderBlocked
  /\ state' = "DEAD"
  /\ hb' = "dead"
  /\ closing' = TRUE
  /\ turn' = NoChannel
  /\ UNCHANGED <<queueVars, windowVars, senderVars, reader, ping, pings, fanoutVars, open, lows>>

-----------------------------------------------------------------------------
(* terminate_slow_consumer, and the transport *)

\* Mutant: the connection is marked DEAD and its socket left open.
TerminateKeepsSocket ==
  /\ slow # {}
  /\ state' = "DEAD"
  /\ slow' = {}
  /\ turn' = NoChannel
  /\ UNCHANGED <<queueVars, windowVars, senderVars, reader, hbVars, nextSeq, rejected, socketVars, lows>>

TerminateSlowConsumer ==
  /\ slow # {}
  /\ state' = "DEAD"
  /\ slow' = {}
  /\ closing' = TRUE
  /\ turn' = NoChannel
  /\ UNCHANGED <<queueVars, windowVars, senderVars, reader, hbVars, nextSeq, rejected, open, lows>>

\* websocket.close by the task that ended the connection, or the peer is gone.
CloseSocket ==
  /\ open /\ closing
  /\ open' = FALSE
  /\ turn' = NoChannel
  /\ UNCHANGED <<state, queueVars, windowVars, senderVars, reader, hbVars, fanoutVars, closing, lows>>

PeerGone ==
  /\ open
  /\ open' = FALSE
  /\ turn' = NoChannel
  /\ UNCHANGED <<state, queueVars, windowVars, senderVars, reader, hbVars, fanoutVars, closing, lows>>

Sender == SenderGet \/ SenderWake \/ SenderWrite \/ SenderFail
ClientAck == \E c \in Channels : \E s \in Received(c) : AckReceived(c, s)

Next ==
  \/ \E c \in Channels, n \in Sizes : Deliver(c, n)
  \/ \E n \in Sizes : EnqueueLow(n)
  \/ SenderGet
  \/ SenderWake
  \/ SenderWrite
  \/ SenderFail
  \/ ClientAck
  \/ AckApplied
  \/ PongReceived
  \/ PongApplied
  \/ FrameLoopEnds
  \/ \E n \in Sizes : HeartbeatPing(n)
  \/ HeartbeatPoll
  \/ HeartbeatTimeout
  \/ TerminateSlowConsumer
  \/ CloseSocket
  \/ PeerGone

Spec == Init /\ [][Next]_vars

\* A client that keeps acknowledging: it acks the newest message it was sent.
AckNewest(c) ==
  \E s \in Received(c) :
    /\ \A t \in Received(c) : t <= s
    /\ \E m \in inflight : m[1] = c /\ m[2] = s
    /\ AckReceived(c, s)

\* The event loop runs every ready task, a closed socket is noticed by the
\* frame loop, and the client keeps acknowledging.
Fairness ==
  /\ WF_vars(Sender)
  /\ WF_vars(AckApplied) /\ WF_vars(PongApplied)
  /\ WF_vars(TerminateSlowConsumer) /\ WF_vars(CloseSocket)
  /\ WF_vars(~open /\ FrameLoopEnds)
  /\ \A c \in Channels : SF_vars(AckNewest(c))

FairSpec == Spec /\ Fairness

-----------------------------------------------------------------------------
(* Properties *)

\* Flow control (manager.py:16-20): never more than max_inflight_messages
\* delivered and unacknowledged, whatever the order of ACKs and sends.
WindowBound == Cardinality(inflight) <= MaxInflight

\* A sender suspended in _wait_for_window (manager.py:156-159) is never left
\* asleep once an ACK has made room: the event it waits for is set.
NoLostWakeup == sender = "window" /\ ~WindowFull => windowEvent

\* run_sender hands frames to the transport in the order enqueue accepted them,
\* none skipped and none twice (docs/ordering.md:58-60).
FifoDelivery == \A i \in DOMAIN written : i \in DOMAIN accepted /\ written[i] = accepted[i]

\* The queue bound (manager.py:123-133): a frame that is not HIGH never stands
\* beyond position connection_queue_max_messages.
QueueBound == \A i \in DOMAIN queue : queue[i].prio # "HIGH" => i <= QueueMaxMessages

\* run_heartbeat gives a connection up (monitor.py:47-49) only after a PING that
\* was written went unanswered, or while the full window holds the sender.
HeartbeatVerdict ==
  [][hb # "dead" /\ hb' = "dead" => ping = "written" \/ (sender = "window" /\ WindowFull)]_vars

\* A message refused with SlowConsumerError (publisher.py:116-120) is recovered by
\* RESUME only if the client is sent no later message of its channel: otherwise
\* its cumulative ACK moves the resume position past the refused one.
NothingFollowsRefused ==
  \A m \in rejected : \A t \in Received(m[1]) : t < m[2]

\* With payloads of different sizes, a message that still fits may follow the
\* refused one in the same turn of the listener (manager.py:126-133): whatever
\* of that channel reaches the client later is smaller than what was refused.
OnlySmallerFollows ==
  \A m \in rejected : \A i \in DOMAIN written :
    written[i].prio = "NORMAL" /\ written[i].ch = m[1] =>
      written[i].seq < m[2] \/ (written[i].seq > m[2] /\ written[i].size < m[3])

\* What the frames of q with a priority in P weigh.
Totals(q, P) ==
  LET t[i \in 0..Len(q)] ==
        IF i = 0 THEN 0 ELSE t[i - 1] + (IF q[i].prio \in P THEN q[i].size ELSE 0)
  IN t
Bytes(q, P) == Totals(q, P)[Len(q)]

\* connection_queue_max_bytes (manager.py:122-126) bounds what is queued, the
\* HIGH frames that enqueue exempts from it aside.
ByteBound == Bytes(queue, {"NORMAL", "LOW"}) <= QueueMaxBytes

\* Every frame accepted by enqueue is handed to the transport, as long as the
\* connection lives and the client keeps acknowledging (manager.py:161-177).
EventuallyWritten ==
  \A n \in 1..(MaxSeq * Cardinality(Channels) + MaxPings + MaxLow) :
    Len(accepted) >= n ~> Len(written) >= n \/ ~Live

\* A connection marked DEAD by any task is cleaned up: its socket is closed and
\* its frame loop runs _cleanup_connection (handler.py:125-130, 236-267).
DeadIsCleanedUp == ~Live ~> reader.at = "done"
=============================================================================
