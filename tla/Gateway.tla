------------------------------ MODULE Gateway ------------------------------
(***************************************************************************)
(* One gateway node: the life of its WebSocket connections (handler.py),   *)
(* the local registry (connections/manager.py) and the Pub/Sub listener of *)
(* one channel with its subscriber count (rooms/subscriptions.py).  All    *)
(* connections belong to one tenant.                                       *)
(*                                                                         *)
(* A connection's handler is one task: its steps are separated by the      *)
(* awaits at which the other handlers run, and pc names the await it is    *)
(* at.  Every await on Redis may raise, and the code decides what that     *)
(* leaves behind.  The listener is a task of its own.                      *)
(***************************************************************************)
EXTENDS Integers, FiniteSets

CONSTANTS Conns,          \* connections of one tenant
          Named,          \* those whose CONNECT carries a user_id
          TenantLimit,    \* settings.max_connections_per_tenant
          MaxHandshakes,  \* settings.max_handshakes_in_flight
          MaxFrames,      \* bound: SUBSCRIBE, UNSUBSCRIBE and RESUME frames of a connection
          MaxFaults,      \* bound: awaits that raise
          MaxDrops        \* bound: Pub/Sub connections lost

ASSUME GatewayAssumption ==
  /\ IsFiniteSet(Conns) /\ Named \subseteq Conns
  /\ TenantLimit \in Nat \ {0} /\ MaxHandshakes \in Nat \ {0}
  /\ MaxFrames \in Nat /\ MaxFaults \in Nat /\ MaxDrops \in Nat

VARIABLES pc,         \* the await each handler is at
          registry,   \* ConnectionRegistry._by_id
          subs,       \* connections subscribed to the channel (_by_channel)
          count,      \* _local_subscriber_counts[channel], 0 when absent
          entry,      \* _listeners holds a task for the channel
          tasks,      \* listener tasks that were not cancelled
          attached,   \* the listener in _listeners has its Pub/Sub subscription
          noted,      \* the node is a member of relay:room:{channel}:nodes
          frames,     \* channel frames each connection has sent
          faults,     \* awaits that have raised
          drops       \* Pub/Sub connections that were lost

listenerVars == <<entry, tasks, attached, drops>>
channelVars == <<subs, count, noted, listenerVars>>
vars == <<pc, registry, channelVars, frames, faults>>

\* Mutant: a handler that raises does not give its slot back.
HandshakePcOrRaised == {"hello", "session", "online", "connected", "raised"}

\* Inside `async with _handshake_semaphore'.
HandshakePc == {"hello", "session", "online", "connected"}
\* Between the tenant limit check and registry.add.
Admitted == {c \in Conns : pc[c] = "session"}
Handshaking == {c \in Conns : pc[c] \in HandshakePc}
CleanupPc == {"cleanup_srem", "offline"}
Pcs == {"new", "recv", "replay", "sadd", "expire", "srem", "ended", "raised"}
       \cup HandshakePc \cup CleanupPc

TypeOK ==
  /\ pc \in [Conns -> Pcs]
  /\ registry \subseteq Conns /\ subs \subseteq registry
  /\ count \in Nat /\ tasks \in Nat
  /\ entry \in BOOLEAN /\ attached \in BOOLEAN /\ noted \in BOOLEAN
  /\ frames \in [Conns -> 0..MaxFrames]
  /\ faults \in 0..MaxFaults /\ drops \in 0..MaxDrops

Init ==
  /\ pc = [c \in Conns |-> "new"]
  /\ registry = {} /\ subs = {} /\ count = 0
  /\ entry = FALSE /\ tasks = 0 /\ attached = FALSE /\ noted = FALSE
  /\ frames = [c \in Conns |-> 0] /\ faults = 0 /\ drops = 0

Goto(c, at) == pc' = [pc EXCEPT ![c] = at]

-----------------------------------------------------------------------------
(* The handshake *)

Accept(c) ==
  /\ pc[c] = "new" /\ Cardinality(Handshaking) < MaxHandshakes
  /\ Goto(c, "hello")
  /\ UNCHANGED <<registry, channelVars, frames, faults>>

\* Mutant: the limit is compared with > instead of >=.
ConnectFrameOffByOne(c) ==
  /\ pc[c] = "hello"
  /\ IF Cardinality(registry) > TenantLimit THEN Goto(c, "ended") ELSE Goto(c, "session")
  /\ UNCHANGED <<registry, channelVars, frames, faults>>

\* CONNECT arrived and the token is good: the tenant's limit is checked.
ConnectFrame(c) ==
  /\ pc[c] = "hello"
  /\ IF Cardinality(registry) >= TenantLimit THEN Goto(c, "ended") ELSE Goto(c, "session")
  /\ UNCHANGED <<registry, channelVars, frames, faults>>

\* Ten seconds without CONNECT, another frame, a bad token, a closed socket.
HandshakeRefused(c) ==
  /\ pc[c] = "hello"
  /\ Goto(c, "ended")
  /\ UNCHANGED <<registry, channelVars, frames, faults>>

\* The session is found or created: the connection is registered.
SessionReady(c) ==
  /\ pc[c] = "session"
  /\ registry' = registry \cup {c}
  /\ Goto(c, IF c \in Named THEN "online" ELSE "connected")
  /\ UNCHANGED <<channelVars, frames, faults>>

PresenceOnline(c) ==
  /\ pc[c] = "online"
  /\ Goto(c, "connected")
  /\ UNCHANGED <<registry, channelVars, frames, faults>>

\* CONNECTED is on the wire and the handshake slot is free.
ConnectedSent(c) ==
  /\ pc[c] = "connected"
  /\ Goto(c, "recv")
  /\ UNCHANGED <<registry, channelVars, frames, faults>>

\* Redis or the socket fails before the try block: nothing is undone.
HandshakeRaises(c) ==
  /\ pc[c] \in {"session", "online", "connected"} /\ faults < MaxFaults
  /\ faults' = faults + 1
  /\ Goto(c, "raised")
  /\ UNCHANGED <<registry, channelVars, frames>>

-----------------------------------------------------------------------------
(* ChannelSubscriptionManager *)

\* registry.subscribe, and on_local_subscribe up to its first await.
CountSubscriber(c) ==
  /\ subs' = subs \cup {c}
  /\ count' = count + 1

\* Mutant: a listener is started without looking for one that runs.
StartListenerAlways ==
  /\ tasks' = tasks + 1
  /\ entry' = TRUE /\ attached' = FALSE

\* on_local_subscribe after its awaits.
StartListener ==
  IF entry THEN UNCHANGED <<entry, tasks, attached>>
  ELSE entry' = TRUE /\ tasks' = tasks + 1 /\ attached' = FALSE

\* Mutant: the last subscriber's listener is left running.
ReleaseKeepsListener ==
  /\ count' = IF count > 0 THEN count - 1 ELSE 0
  /\ UNCHANGED <<entry, tasks, attached>>

\* Mutant: the listener is torn down one subscriber early.
ReleaseEarly ==
  /\ count' = IF count > 0 THEN count - 1 ELSE 0
  /\ IF count <= 2 /\ entry
     THEN entry' = FALSE /\ tasks' = tasks - 1 /\ attached' = FALSE
     ELSE UNCHANGED <<entry, tasks, attached>>

\* on_local_unsubscribe up to its await: the last one stops the listener.
ReleaseSubscriber ==
  /\ count' = IF count > 0 THEN count - 1 ELSE 0
  /\ IF count <= 1 /\ entry
     THEN entry' = FALSE /\ tasks' = tasks - 1 /\ attached' = FALSE
     ELSE UNCHANGED <<entry, tasks, attached>>

-----------------------------------------------------------------------------
(* The frame loop *)

ChannelFrame(c) ==
  /\ pc[c] = "recv" /\ frames[c] < MaxFrames
  /\ frames' = [frames EXCEPT ![c] = @ + 1]

SubscribeFrame(c) ==
  /\ ChannelFrame(c)
  /\ CountSubscriber(c)
  /\ Goto(c, "sadd")
  /\ UNCHANGED <<registry, noted, listenerVars, faults>>

SubscribeAdds(c) ==
  /\ pc[c] = "sadd"
  /\ noted' = TRUE
  /\ Goto(c, "expire")
  /\ UNCHANGED <<registry, subs, count, listenerVars, frames, faults>>

\* The listener runs and SUBSCRIBED (or RESUMED) is sent.
SubscribeDone(c) ==
  /\ pc[c] = "expire"
  /\ StartListener
  /\ Goto(c, "recv")
  /\ UNCHANGED <<registry, subs, count, noted, drops, frames, faults>>

UnsubscribeFrame(c) ==
  /\ ChannelFrame(c)
  /\ subs' = subs \ {c}
  /\ ReleaseSubscriber
  /\ Goto(c, IF count <= 1 THEN "srem" ELSE "recv")
  /\ UNCHANGED <<registry, noted, drops, faults>>

UnsubscribeDone(c) ==
  /\ pc[c] = "srem"
  /\ noted' = FALSE
  /\ Goto(c, "recv")
  /\ UNCHANGED <<registry, subs, count, listenerVars, frames, faults>>

ResumeFrame(c) ==
  /\ ChannelFrame(c)
  /\ Goto(c, "replay")
  /\ UNCHANGED <<registry, channelVars, faults>>

\* The buffer was read: a gap ends the channel's resume, otherwise the replay is
\* queued and the subscription attached.
ReplayDone(c) ==
  /\ pc[c] = "replay"
  /\ \/ Goto(c, "recv") /\ UNCHANGED <<subs, count>>
     \/ CountSubscriber(c) /\ Goto(c, "sadd")
  /\ UNCHANGED <<registry, noted, listenerVars, frames, faults>>

-----------------------------------------------------------------------------
(* The end of a connection *)

\* _cleanup_connection up to its next await; with neither a channel nor a user
\* there is none.
Cleanup(c) ==
  LET last == c \in subs /\ count <= 1
      done == ~last /\ c \notin Named
  IN  /\ IF c \in subs THEN ReleaseSubscriber ELSE UNCHANGED <<count, entry, tasks, attached>>
      /\ Goto(c, IF last THEN "cleanup_srem" ELSE IF done THEN "ended" ELSE "offline")
      /\ registry' = IF done THEN registry \ {c} ELSE registry
      /\ subs' = IF done THEN subs \ {c} ELSE subs

\* DISCONNECT, a closed socket, or the connection was given up.
FrameLoopEnds(c) ==
  /\ pc[c] = "recv"
  /\ Cleanup(c)
  /\ UNCHANGED <<noted, drops, frames, faults>>

\* An await of a frame's handler raises: the loop ends and finally cleans up.
FrameRaises(c) ==
  /\ pc[c] \in {"sadd", "expire", "srem", "replay"} /\ faults < MaxFaults
  /\ faults' = faults + 1
  /\ Cleanup(c)
  /\ UNCHANGED <<noted, drops, frames>>

\* Mutant: a connection without a user returns before registry.remove.
CleanupRemovesOnlyNamed(c) ==
  /\ pc[c] = "cleanup_srem"
  /\ noted' = FALSE
  /\ Goto(c, IF c \in Named THEN "offline" ELSE "ended")
  /\ UNCHANGED <<registry, subs, count, listenerVars, frames, faults>>

CleanupRemoves(c) ==
  /\ pc[c] = "cleanup_srem"
  /\ noted' = FALSE
  /\ IF c \in Named
     THEN Goto(c, "offline") /\ UNCHANGED <<registry, subs>>
     ELSE Goto(c, "ended") /\ registry' = registry \ {c} /\ subs' = subs \ {c}
  /\ UNCHANGED <<count, listenerVars, frames, faults>>

PresenceOffline(c) ==
  /\ pc[c] = "offline"
  /\ Goto(c, "ended")
  /\ registry' = registry \ {c} /\ subs' = subs \ {c}
  /\ UNCHANGED <<count, noted, listenerVars, frames, faults>>

\* Redis fails during the cleanup: what follows the await never runs.
CleanupRaises(c) ==
  /\ pc[c] \in CleanupPc /\ faults < MaxFaults
  /\ faults' = faults + 1
  /\ Goto(c, "raised")
  /\ UNCHANGED <<registry, channelVars, frames>>

-----------------------------------------------------------------------------
(* The listener *)

\* Mutant: a lost Pub/Sub connection ends the listener's loop.
ListenerAttachesOnce ==
  /\ entry /\ ~attached /\ drops = 0
  /\ attached' = TRUE
  /\ UNCHANGED <<pc, registry, subs, count, noted, entry, tasks, drops, frames, faults>>

ListenerAttaches ==
  /\ entry /\ ~attached
  /\ attached' = TRUE
  /\ UNCHANGED <<pc, registry, subs, count, noted, entry, tasks, drops, frames, faults>>

\* The Pub/Sub connection breaks; run_pubsub_listener backs off and subscribes anew.
ListenerDrops ==
  /\ attached /\ drops < MaxDrops
  /\ attached' = FALSE /\ drops' = drops + 1
  /\ UNCHANGED <<pc, registry, subs, count, noted, entry, tasks, frames, faults>>

\* relay:room:{channel}:nodes reaches its TTL, which only a SUBSCRIBE extends.
RoomNodesExpire ==
  /\ noted
  /\ noted' = FALSE
  /\ UNCHANGED <<pc, registry, subs, count, listenerVars, frames, faults>>

-----------------------------------------------------------------------------
(* Specifications *)

\* The steps of a handler that the server takes on its own.
Step(c) ==
  \/ SessionReady(c) \/ PresenceOnline(c) \/ ConnectedSent(c)
  \/ SubscribeAdds(c) \/ SubscribeDone(c) \/ UnsubscribeDone(c) \/ ReplayDone(c)
  \/ CleanupRemoves(c) \/ PresenceOffline(c)

Fault(c) == HandshakeRaises(c) \/ FrameRaises(c) \/ CleanupRaises(c)

Client(c) ==
  \/ ConnectFrame(c) \/ HandshakeRefused(c) \/ FrameLoopEnds(c)
  \/ SubscribeFrame(c) \/ UnsubscribeFrame(c) \/ ResumeFrame(c)

Next ==
  \/ \E c \in Conns : Accept(c) \/ Step(c) \/ Fault(c) \/ Client(c)
  \/ ListenerAttaches \/ ListenerDrops \/ RoomNodesExpire

Spec == Init /\ [][Next]_vars

\* What a step asks for: a client attaches the channel only when it does not
\* hold it, and gives it up only when it does.
NoResubscribe == \A c \in Conns : pc[c] \in {"recv", "replay"} /\ pc'[c] = "sadd" => c \notin subs
NoStrayUnsubscribe == \A c \in Conns : UnsubscribeFrame(c) => c \in subs

PairedSpec == Init /\ [][Next /\ NoResubscribe /\ NoStrayUnsubscribe]_vars

\* RelayClient after a reconnect: RESUME, then SUBSCRIBE for the same channel.
ReconnectSpec == Init /\ [][Next /\ NoStrayUnsubscribe]_vars

\* The event loop runs every handler; Redis answers, CONNECT arrives or times
\* out; the semaphore hands a free slot to its waiters in turn; the listener's
\* backoff is capped.
Fairness ==
  /\ \A c \in Conns : SF_vars(Accept(c)) /\ WF_vars(Step(c))
  /\ \A c \in Conns : WF_vars(ConnectFrame(c) \/ HandshakeRefused(c))
  /\ WF_vars(ListenerAttaches)

FairPairedSpec == PairedSpec /\ Fairness

-----------------------------------------------------------------------------
(* Properties *)

\* Connections that were told they hold the channel.
Settled == {c \in subs : pc[c] \in {"recv", "replay"}}

\* Connections whose subscription the count stands for.
Holders == {c \in subs : pc[c] \notin CleanupPc \cup {"raised"}}

\* "Each Relay node runs at most one Redis Pub/Sub listener task per channel"
\* (subscriptions.py:3-5), for any frames and any faults: no task outlives its
\* entry in _listeners and none is started beside another.
OneListener == tasks = IF entry THEN 1 ELSE 0

\* A connection that was sent SUBSCRIBED has a listener on its node
\* (subscriptions.py:27-39), whoever leaves or fails meanwhile.
ListenerForSubscribers == Settled # {} => entry

\* The listener is torn down with the last local subscriber
\* (subscriptions.py:41-49, docs/failure-model.md:22-24).
ListenerIsNeeded == entry => Holders # {}

\* _local_subscriber_counts counts the subscribed connections, those that are
\* still waiting for Redis included and those being cleaned up not.
CountIsExact == count = Cardinality(Holders)

\* The tenant limit (handler.py:82) is checked before the awaits that precede
\* registry.add (handler.py:106): it can be passed by the other handshakes in
\* flight and by no more.
TenantOvershoot == Cardinality(registry) <= TenantLimit + MaxHandshakes - 1

\* "No connection stays registered indefinitely" (docs/failure-model.md:36-37): a
\* handler that came to its end has left the registry; only one that an error of
\* Redis or of the socket cut short can leave its connection behind.
NoGhosts == \A c \in registry : pc[c] # "ended"

\* A connection that waits for a handshake slot (handler.py:56) gets one: every
\* path out of the handshake gives its slot back.
WaitingIsServed == \A c \in Conns : pc[c] = "new" ~> pc[c] # "new"

\* A subscriber's listener attaches, and attaches again after a lost Pub/Sub
\* connection (publisher.py:125-171), unless the subscriber leaves.
SubscriberIsAttached == \A c \in Conns : c \in Settled ~> attached \/ c \notin Settled
=============================================================================
