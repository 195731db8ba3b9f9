------------------------------ MODULE Delivery ------------------------------
(***************************************************************************)
(* One subscriber end to end: the publisher appends to the replay buffer   *)
(* and announces (main.publish, abstracted from module Publish), the       *)
(* node's channel listener hands an announcement to the subscribed         *)
(* connection, RESUME replays the buffer, and RelayClient consumes the     *)
(* frames, loses its connection and comes back.  Redis steps are separate: *)
(* the buffer is read at one instant, the reply is used at a later one, and *)
(* the listener attaches later still.                                      *)
(***************************************************************************)
EXTENDS ClientStream, FiniteSets

CONSTANTS MaxSeq,       \* messages published on each channel
          MaxLen,       \* message_buffer_maxlen
          QueueMax,     \* max_queue_messages
          MaxBreaks, MaxExpiries, MaxDrops, MaxCalls   \* bounds on faults and API calls

ASSUME DeliveryAssumption ==
  /\ IsFiniteSet(Channels)
  /\ MaxSeq \in [Channels -> Nat] /\ MaxLen \in Nat \ {0} /\ QueueMax \in Nat
  /\ MaxBreaks \in Nat /\ MaxExpiries \in Nat /\ MaxDrops \in Nat /\ MaxCalls \in Nat

VARIABLES top, announced, base,  \* newest appended, newest announced, last trimmed sequence
          session,      \* "none", "alive" or "expired": the session the client knows
          up,           \* a connection is established
          inbox,        \* frames of the client the server has not taken
          loop,         \* where the connection's frame loop stands
          subscribed,   \* channels of the connection in the registry
          listening,    \* channels with a listener task on the node
          attached,     \* ... whose Redis subscription is in effect
          wire,         \* frames queued for the client or on their way to it
          unheard,      \* history: messages no listener handed to the connection
          breaks, expiries, drops, calls

buffer == <<top, announced, base>>
server == <<inbox, loop, subscribed, listening, attached>>
bounds == <<breaks, expiries, drops, calls>>
dvars == <<stream, buffer, session, up, server, wire, unheard, bounds>>

Idle == [at |-> "receive"]
Message(c, s) == [type |-> "MESSAGE", channel |-> c, sequence |-> s]
ResumeGap(c) == [type |-> "RESUME_GAP", channel |-> c]
Request(t, c) == [type |-> t, channel |-> c]
Resume == [type |-> "RESUME", from |-> lastAck]

Positions == [Channels -> Nat]   \* 0: the channel is not named
NoPositions == [c \in Channels |-> 0]
Requests == [type : {"SUBSCRIBE", "UNSUBSCRIBE"}, channel : Channels]
            \cup [type : {"RESUME"}, from : Positions]
Frames == [type : {"MESSAGE"}, channel : Channels, sequence : Nat]
          \cup [type : {"RESUME_GAP"}, channel : Channels]
Loops == [at : {"receive"}]
         \cup [at : {"read"}, todo : SUBSET Channels, from : Positions]
         \cup [at : {"replay"}, channel : Channels, todo : SUBSET Channels, from : Positions,
               oldest : Nat, newest : Nat]
         \cup [at : {"listen"}, channel : Channels, todo : SUBSET Channels, from : Positions]

DeliveryTypeOK ==
  /\ StreamTypeOK
  /\ top \in [Channels -> Nat] /\ announced \in [Channels -> Nat] /\ base \in [Channels -> Nat]
  /\ session \in {"none", "alive", "expired"} /\ up \in BOOLEAN
  /\ inbox \in Seq(Requests) /\ loop \in Loops /\ wire \in Seq(Frames)
  /\ subscribed \subseteq Channels /\ listening \subseteq Channels /\ attached \subseteq Channels
  /\ unheard \in [Channels -> SUBSET Nat]
  /\ breaks \in Nat /\ expiries \in Nat /\ drops \in Nat /\ calls \in Nat

DeliveryInit ==
  /\ StreamInit
  /\ top = [c \in Channels |-> 0] /\ announced = top /\ base = top
  /\ session = "none" /\ up = FALSE
  /\ inbox = <<>> /\ loop = Idle /\ wire = <<>>
  /\ subscribed = {} /\ listening = {} /\ attached = {}
  /\ unheard = [c \in Channels |-> {}]
  /\ breaks = 0 /\ expiries = 0 /\ drops = 0 /\ calls = 0

-----------------------------------------------------------------------------
(* The publisher: INCR and XADD, then PUBLISH (or its failure, a 503). *)

AppendMessage(c) ==
  /\ top[c] < MaxSeq[c] /\ announced[c] = top[c]
  /\ top' = [top EXCEPT ![c] = @ + 1]
  \* XADD trims by length, XTRIM by age may take more, never the new entry.
  /\ \E b \in base[c]..top[c] :
       /\ b >= top[c] + 1 - MaxLen
       /\ base' = [base EXCEPT ![c] = b]
  /\ UNCHANGED <<stream, announced, session, up, server, wire, unheard, bounds>>

\* The listener fans the announcement out to the subscribed connection.
Announce(c) ==
  /\ announced[c] < top[c]
  /\ announced' = [announced EXCEPT ![c] = top[c]]
  /\ \/ /\ up /\ c \in subscribed /\ c \in attached
        /\ wire' = Append(wire, Message(c, top[c]))
        /\ UNCHANGED unheard
     \/ /\ ~(up /\ c \in subscribed /\ c \in attached)
        /\ unheard' = [unheard EXCEPT ![c] = IF up THEN @ \cup {top[c]} ELSE @]
        /\ UNCHANGED wire
  /\ UNCHANGED <<stream, top, base, session, up, server, bounds>>

AnnounceFails(c) ==
  /\ announced[c] < top[c] /\ drops < MaxDrops
  /\ drops' = drops + 1
  /\ announced' = [announced EXCEPT ![c] = top[c]]
  /\ unheard' = [unheard EXCEPT ![c] = @ \cup {top[c]}]
  /\ UNCHANGED <<stream, top, base, session, up, server, wire, breaks, expiries, calls>>

-----------------------------------------------------------------------------
(* The connection. *)

Orders(S) == {o \in [1..Cardinality(S) -> S] : \A i, j \in DOMAIN o : o[i] = o[j] => i = j}

\* onConnected: RESUME for a kept session with acknowledged positions, then
\* SUBSCRIBE for every channel.
Greeting(resuming) ==
  {(IF resuming /\ Resumable # {} THEN <<Resume>> ELSE <<>>)
     \o [i \in DOMAIN order |-> Request("SUBSCRIBE", order[i])] : order \in Orders(subscriptions)}

\* CONNECT and CONNECTED; the node may run listeners for other connections.
\* A session that expired, or a channel without an acknowledged position, is
\* not resumed: what was published meanwhile is not asked for.
Connect ==
  /\ ~up /\ up' = TRUE
  /\ session' = "alive"
  /\ inbox' \in Greeting(session = "alive")
  /\ unheard' = [c \in Channels |->
                   IF session = "alive" /\ c \in Resumable THEN unheard[c]
                   ELSE unheard[c] \cup 1..announced[c]]
  /\ loop' = Idle /\ wire' = <<>> /\ subscribed' = {}
  /\ listening' \in SUBSET Channels /\ attached' = listening'
  /\ UNCHANGED <<stream, buffer, bounds>>

Disconnected ==
  /\ up' = FALSE /\ inbox' = <<>> /\ wire' = <<>> /\ loop' = Idle
  /\ subscribed' = {} /\ listening' = {} /\ attached' = {}

\* The socket dies: heartbeat timeout, slow consumer, node crash, network.
Break ==
  /\ up /\ breaks < MaxBreaks
  /\ breaks' = breaks + 1
  /\ Disconnected
  /\ UNCHANGED <<stream, buffer, session, unheard, expiries, drops, calls>>

SessionExpires ==
  /\ ~up /\ session = "alive" /\ expiries < MaxExpiries
  /\ session' = "expired" /\ expiries' = expiries + 1
  /\ UNCHANGED <<stream, buffer, up, server, wire, unheard, breaks, drops, calls>>

\* The node's listener for a channel loses Redis; and attaches (again).
ListenerDrops(c) ==
  /\ c \in attached /\ drops < MaxDrops
  /\ attached' = attached \ {c} /\ drops' = drops + 1
  /\ UNCHANGED <<stream, buffer, session, up, inbox, loop, subscribed, listening,
                 wire, unheard, breaks, expiries, calls>>

ListenerAttaches(c) ==
  /\ c \in listening \ attached
  /\ attached' = attached \cup {c}
  /\ UNCHANGED <<stream, buffer, session, up, inbox, loop, subscribed, listening,
                 wire, unheard, bounds>>

-----------------------------------------------------------------------------
(* The frame loop of the connection (websocket/handler.py). *)

TakeFrame ==
  /\ up /\ loop.at = "receive" /\ inbox # <<>>
  /\ inbox' = Tail(inbox)
  /\ LET f == Head(inbox) IN
       \/ /\ f.type = "SUBSCRIBE"
          /\ subscribed' = subscribed \cup {f.channel}
          /\ loop' = [at |-> "listen", channel |-> f.channel, todo |-> {}, from |-> NoPositions]
          /\ UNCHANGED <<listening, attached>>
       \/ /\ f.type = "UNSUBSCRIBE"
          /\ subscribed' = subscribed \ {f.channel}
          \* on_local_unsubscribe ends the listener unless others share it.
          /\ listening' \in {listening, listening \ {f.channel}}
          /\ attached' = attached \cap listening'
          /\ UNCHANGED loop
       \/ /\ f.type = "RESUME"
          /\ loop' = [at |-> "read", todo |-> {c \in Channels : f.from[c] # 0}, from |-> f.from]
          /\ UNCHANGED <<subscribed, listening, attached>>
  /\ UNCHANGED <<stream, buffer, session, up, wire, unheard, bounds>>

\* XRANGE of the next channel of RESUME.
ReadBuffer ==
  /\ loop.at = "read"
  /\ \E c \in loop.todo :
       loop' = [at |-> "replay", channel |-> c, todo |-> loop.todo \ {c}, from |-> loop.from,
                oldest |-> base[c] + 1, newest |-> top[c]]
  /\ UNCHANGED <<stream, buffer, session, up, inbox, subscribed, listening, attached,
                 wire, unheard, bounds>>

NextChannel(todo, from) ==
  loop' = IF todo = {} THEN Idle ELSE [at |-> "read", todo |-> todo, from |-> from]

\* Mutant: the first message after the acknowledged one is left out.
FirstReplayedOffByOne(from, oldest) == IF from + 2 < oldest THEN oldest ELSE from + 2

\* replay_channel: every retained sequence above the position, in order.
FirstReplayed(from, oldest) == IF from + 1 < oldest THEN oldest ELSE from + 1
Replayed(c, first, newest) == [i \in 1..(newest + 1 - first) |-> Message(c, first + i - 1)]

\* replay_channel: the position is older than what is retained.
Gap(from, oldest, newest) == oldest <= newest /\ from + 1 < oldest

\* RESUME_GAP goes straight to the socket and may overtake queued messages.
ReplayGap(c) ==
  /\ \E i \in 0..Len(wire) :
       wire' = SubSeq(wire, 1, i) \o <<ResumeGap(c)>> \o SubSeq(wire, i + 1, Len(wire))
  /\ NextChannel(loop.todo, loop.from)
  /\ UNCHANGED <<up, inbox, subscribed, listening, attached, unheard>>

\* The replay is enqueued and the channel subscribed.
ReplayFits(c, first, replayed) ==
  /\ Len(replayed) <= QueueMax
  /\ wire' = wire \o replayed
  /\ subscribed' = subscribed \cup {c}
  /\ loop' = [at |-> "listen", channel |-> c, todo |-> loop.todo, from |-> loop.from]
  /\ unheard' = [unheard EXCEPT ![c] = @ \ (first..loop.newest)]
  /\ UNCHANGED <<up, inbox, listening, attached>>

\* A replay that does not fit raises SlowConsumerError and ends the connection;
\* how much of the wire is still in the queue is left open.
ReplayOverflows(replayed) ==
  /\ replayed # <<>> /\ Len(wire) + Len(replayed) > QueueMax
  /\ Disconnected /\ UNCHANGED unheard

\* The reply of XRANGE is used.
Replay ==
  /\ loop.at = "replay"
  /\ LET c == loop.channel
         first == FirstReplayed(loop.from[c], loop.oldest)
         replayed == Replayed(c, first, loop.newest) IN
       IF Gap(loop.from[c], loop.oldest, loop.newest) THEN ReplayGap(c)
       ELSE ReplayFits(c, first, replayed) \/ ReplayOverflows(replayed)
  /\ UNCHANGED <<stream, buffer, session, bounds>>

\* on_local_subscribe after the entry in the route index: the listener starts.
Listen ==
  /\ loop.at = "listen"
  /\ listening' = listening \cup {loop.channel}
  /\ NextChannel(loop.todo, loop.from)
  /\ UNCHANGED <<stream, buffer, session, up, inbox, subscribed, attached, wire, unheard, bounds>>

-----------------------------------------------------------------------------
(* The client. *)

Receive ==
  /\ wire # <<>>
  /\ wire' = Tail(wire)
  /\ LET f == Head(wire) IN
       \/ f.type = "MESSAGE" /\ OnMessage(f.channel, f.sequence)
       \/ f.type = "RESUME_GAP" /\ OnResumeGap
  /\ UNCHANGED <<buffer, session, up, server, unheard, bounds>>

Handlers ==
  /\ \E c \in Channels : \E s \in running[c] : HandlerReturns(c, s) \/ HandlerRejects(c, s)
  /\ UNCHANGED <<buffer, session, up, server, wire, unheard, bounds>>

\* subscribe and unsubscribe of the application.
Call ==
  /\ calls < MaxCalls /\ calls' = calls + 1
  /\ \E c \in Channels :
       \/ /\ c \notin subscriptions /\ Subscribe(c)
          /\ inbox' = IF up THEN Append(inbox, Request("SUBSCRIBE", c)) ELSE inbox
       \/ /\ c \in subscriptions /\ Unsubscribe(c)
          /\ inbox' = IF up THEN Append(inbox, Request("UNSUBSCRIBE", c)) ELSE inbox
  /\ UNCHANGED <<buffer, session, up, loop, subscribed, listening, attached, wire, unheard,
                 breaks, expiries, drops>>

-----------------------------------------------------------------------------
DeliveryNext ==
  \/ \E c \in Channels :
       \/ AppendMessage(c) \/ Announce(c) \/ AnnounceFails(c)
       \/ ListenerDrops(c) \/ ListenerAttaches(c)
  \/ Connect \/ Break \/ SessionExpires
  \/ TakeFrame \/ ReadBuffer \/ Replay \/ Listen
  \/ Receive \/ Handlers \/ Call

DeliverySpec == DeliveryInit /\ [][DeliveryNext]_dvars

\* The event loop runs every ready task, the listener retries, the client
\* reconnects for as long as it is not closed, handlers settle.
Fairness ==
  /\ WF_dvars(Connect) /\ WF_dvars(TakeFrame) /\ WF_dvars(ReadBuffer)
  /\ WF_dvars(Replay) /\ WF_dvars(Listen)
  /\ WF_dvars(Receive) /\ WF_dvars(Handlers)
  /\ \A c \in Channels : WF_dvars(Announce(c)) /\ WF_dvars(ListenerAttaches(c))

FairSpec == DeliverySpec /\ Fairness

-----------------------------------------------------------------------------
(* Properties *)

Promise == INSTANCE AtLeastOnce WITH published <- top

\* The whole path, from XADD to the application's handler through crashes,
\* reconnects and replay, implements the promise of module AtLeastOnce.
Implements == Promise!Spec

Settled(c) ==
  /\ up /\ inbox = <<>> /\ loop = Idle /\ wire = <<>>
  /\ c \in subscriptions /\ announced[c] = top[c]

\* failure-model.md:19 as the code keeps it: once a reconnected client has
\* caught up, every message of its view was handed over or reported, except
\* those announced while its connection was up but not yet attached, not asked
\* for because the session or the position was gone, or passed by an ACK left
\* over from an earlier view.
SettledIsComplete ==
  \A c \in Channels : Settled(c) /\ start[c] # 0 =>
    \A s \in start[c]..top[c] : Accounted(c, s) \/ s \in unheard[c] \cup passed[c]

\* "Lost | Nothing, if the client returns within the window"
\* (failure-model.md:19): no exception.
NothingLost ==
  \A c \in Channels : Settled(c) /\ start[c] # 0 =>
    \A s \in start[c]..top[c] : Accounted(c, s)

\* What RESUME would have to replay does not fit into the queue.
Overlong(c) == top[c] + 1 - FirstReplayed(lastAck[c], base[c] + 1) > QueueMax

\* Every announced message of the view is handed over or reported in the end, as
\* long as no listener missed it, no ACK left over from an earlier view passed it
\* by, and the view is not started anew.  The
\* exception is a client that falls behind by more than its queue holds and
\* stays there: every replay then ends the connection (handler.py:209).
EventuallyAccounted ==
  \A c \in Channels : \A s \in 1..MaxSeq[c] :
    []<>~Overlong(c) =>
      ((start[c] \in 1..s /\ s <= announced[c])
         ~> (\/ Accounted(c, s) \/ s \in unheard[c] \cup passed[c]
             \/ start[c] \notin 1..s \/ c \notin subscriptions))
=============================================================================
