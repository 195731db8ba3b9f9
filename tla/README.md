# Relay: TLA+ specifications

Models, model checking and proofs for Relay, the distributed WebSocket
reliability layer in this repository (a FastAPI gateway, Redis, Postgres and a
TypeScript client). Paths below are relative to the repository's `src/`;
`gateway/` stands for `apps/gateway/`.

## 1. Inventory

| Part | State | Operations that change it | What is hard about it |
| --- | --- | --- | --- |
| Outbound queue and window (`gateway/connections/manager.py`) | `_queue`, `_queue_bytes`, `_inflight`, `_window_event`, `state` | `enqueue`, `on_ack`, `_wait_for_window`, `run_sender` | sender, frame loop, heartbeat and listeners interleave at every await; a lost wake-up stalls a client |
| Heartbeat (`gateway/heartbeat/monitor.py`) | `last_pong_at`, its own round | `run_heartbeat`, `_on_dead_connection` | PONG against deadline; the PING waits in the same queue as the messages |
| Fanout (`gateway/fanout/publisher.py`) | Pub/Sub subscription, connection state | `publish_message`, `deliver_local`, `terminate_slow_consumer`, `run_pubsub_listener` | order of concurrent publishers; what happens after an overflow; reconnecting |
| Publish API (`gateway/main.py`) | idempotency keys | `publish` | a chain of Redis commands, each of which may fail, or succeed and lose its reply |
| Redis access (`packages/redis/client.py`) | sequence counter, recovery stream | `allocate_sequence`, `append_to_channel_buffer` | commands sent again by the retry policy; trimming by length and age |
| Replay (`gateway/recovery/replay.py`) | reads the stream | `replay_channel` | the edge of the buffer |
| Handler (`gateway/websocket/handler.py`) | handshake slots, registry, subscriptions | handshake, frame loop, cleanup | values read before an await and used after it; Redis failing half-way |
| Subscriptions (`gateway/rooms/subscriptions.py`) | counts, listeners, node set | `on_local_subscribe`, `on_local_unsubscribe`, `shutdown` | the listener's life against subscribers that come and go |
| Presence (`gateway/presence/tracker.py`) | connection set, IDLE key, TTLs | `connection_online`, `refresh`, `connection_offline`, `set_state` | several connections of one user; crashes; three commands for one decision |
| Sessions (`gateway/sessions/manager.py`) | session hash, ack positions, TTLs | `create_session`, `touch_session`, `record_ack` | read then write; HSET then EXPIRE; different TTLs |
| Node (`gateway/nodes/registration.py`, `lifespan`) | node key, draining flag | `start`, `_loop`, `mark_draining`, `stop`, `_drain_connections` | a snapshot of the registry against handshakes in flight |
| Client (`client/src/RelayClient.ts`) | session, positions, seen ids, socket | `connect`, `onConnected`, `onMessage`, `ack`, `disconnect` | overlapping asynchronous handlers; old and new sockets |
| Control plane, database, metrics, frontend, scripts | rows, counters | independent CRUD | nothing concurrent of their own |

They interact as follows. A publish call goes through Redis (`Publish`) to the
listener of every node with subscribers (`Gateway`), which puts the message
into the queue of each subscribed connection (`Connection`). The client's ACK
releases the window and records the position from which, after a reconnect,
RESUME replays the recovery buffer; `Delivery` composes this path from buffer
to application with the client (`ClientStream`). PONGs keep the connection, the
session (`Sessions`) and the user's presence (`Presence`) alive. When a node
starts, drains or crashes (`Lifespan`, `Registrar`) its clients
(`ClientSocket`) are refused or closed and come back; `Drain` composes these.

## 2. Plan

| Step | Modules | Status |
| --- | --- | --- |
| 1 | `Connection`: queue, window, tasks of one connection | done, proved |
| 2 | `Publish`: publish calls, recovery buffer, gap verdict | done, proved |
| 3 | `Gateway`: handshake, registry, subscriptions, listener, cleanup | done, proved |
| 4 | `Presence`: one user's presence | done, proved |
| 5 | `Sessions`: tenants, keys, session hashes, ack positions and their TTLs | done, proved |
| 6 | `Lifespan`, `Registrar`: a node's life, draining and its key in Redis | done, proved in `Drain` |
| 7 | `ClientStream`, `ClientSocket`: the two halves of `RelayClient` | done, proved in `Delivery` and `Drain` |
| 8 | `AtLeastOnce`, `Delivery`: the composition of buffer, listener, resume and client, and that it implements the abstract promise | done, proved |
| 9 | `Drain`: the composition of a restarting node with its clients | done, proved |
| 10 | every safety property of a run proved: bytes and refusals of `Connection`, `Presence`, what an ACK covers and what a client that has caught up holds in `Delivery` | done |

## 3. Modules

A configuration `M_*.cfg` instantiates module `MCM`, which adds to `M` the
symmetry sets or constant values of the run; `Sessions` needs no such module.
Definitions marked "Mutant" are plausible bugs used to see that each property
can fail; no specification uses them.

In the asyncio code everything between two suspension points is atomic, so an
action is what one task does from one await to the next. A Redis command is an
await; a pipeline is one command. Putting into the unbounded `asyncio.Queue`
does not suspend.

**Connection** is one connection. `queue`, `queueBytes`, `inflight`,
`windowEvent` and `state` are the fields of the class; `sender`, `reader` and
`hb` say where the three tasks stand; `accepted`, `written` and `rejected` (the
refused messages with their sizes) are histories. A payload is its size and a
message its channel and sequence. `Bytes` adds up the sizes of a queue through
`Totals`, the function of its partial sums.
`Deliver` is `deliver_local` for this connection; `slow` and `turn` express that
the terminate task spawned by an overflow runs before the listener's next
event-loop turn, but after the messages left in this one. Timers of seconds
expire only when the sender cannot move without an outside event. `EnqueueLow`
models a priority that `enqueue` implements and the unit tests use although no
caller in the gateway passes it.

**Publish** is one channel and any number of publish calls on any nodes. A
call's `pc` is the Redis command it sends next. Each command may fail without
effect (`RedisUnavailable`), or take effect and be answered, be resent
(`ReplyLost`) or end in an error (`Executed`). The buffer is `arrivals` past its
first `base` entries. A gateway crash leaves a call as an error does.

**Gateway** is one node, one tenant and one channel. `pc` is the await a
connection's handler is at; `subs`, `count`, `entry`, `tasks` and `attached`
are the registry's index, the subscriber count, the entry in `_listeners`, the
running listener tasks and the listener's Pub/Sub subscription. Every Redis
await may raise; `HandshakeRaises`, `FrameRaises` and `CleanupRaises` are what
the code then leaves behind. Looking up, creating or touching the session is one
step. `PairedSpec` restricts the clients to those that attach a channel only
when they do not hold it and release it only when they do; `ReconnectSpec`
allows the RESUME followed by SUBSCRIBE of `RelayClient`.

**Presence** is one user. Time is counted in heartbeat intervals: an interval
ends when every live connection has answered its PING. `CalmSpec` excludes a
connection that opens while another one's `connection_offline` runs.

**Sessions** is the life of session keys and who may use them. `tenants`,
`keyTenant` and `revoked` are the rows of the control plane; `Authenticate` is
`authenticate_token`; `Lookup`, `Create`, `Touch` and `Expire` are the Redis
commands of the handshake and of a PONG, one step each, and `Close` may end a
connection at any of them. `AckGet` and `AckSet` are the two commands of
`record_ack`. `left` and `positionLeft` are the TTLs in heartbeat intervals;
`left = Forever` is a hash without a TTL. The histories `shared`, `lapsed` and
`stranded` name the sessions that the qualified properties except.

**ClientStream** is the protocol half of `RelayClient`: `lastAck`, `lastSeen`
and `seenOrder` are its fields, `running` the messages whose handlers have not
settled (`HandlerReturns`, `HandlerRejects`), and `start`, `handled`, `reported`
the application's view: since when it listens, what it was handed and what
`onGap` named. `passed` is the history of messages that an ACK of an earlier
view of the channel ran ahead of. A message is its channel and sequence.

**AtLeastOnce** is abstract: a channel on which messages may come twice and
late, but are never skipped without a report. No code is mapped to it.

**Delivery** composes a publisher (`AppendMessage`, `Announce`), the frame loop
of one connection (`TakeFrame`, `ReadBuffer`, `Replay`, `Listen`), the node's
listeners and `ClientStream`. `base` and `top` delimit the retained buffer;
XTRIM by age may take more than the length bound asks. XRANGE, the use of its
reply and the attachment of the listener are separate steps. `wire` is the
outbound queue and the socket; whether a frame has left the queue is not
recorded, so a replay that overflows may do so whenever queue and socket
together exceed the bound. Live messages that overflow the queue are one of the
reasons of `Break`. `unheard` is the history of messages announced while the
connection was up but nobody forwarded them, or skipped because the client did
not resume. One publisher at a time, because concurrent ones announce out of
order (`Publish` models them).

**Lifespan** is `main.lifespan` with `_drain_connections`, the draining check of
`websocket_endpoint` and the server side of each WebSocket; **Registrar** adds
`NodeRegistrar`. `carried` is the status in the heartbeat write under way and
`stray` the one in a write whose task was cancelled: both may reach Redis after
a later command, because commands travel on different pooled connections.
**ClientSocket** is the lifecycle half of `RelayClient`: `connect`,
`disconnect`, `onclose` of every socket ever made, and the reconnect timer.
**Drain** composes the three: a followed client whose sockets land on the node
or elsewhere, and connections of others. That connections are still open when
the `finally` block of `lifespan` runs is up to the ASGI server, which is
external; the model lets any number of them be open or in their handshake.

## 4. Runs

Passing runs:

| Run | Shows | Bounds |
| --- | --- | --- |
| `Connection_window` | `WindowBound`, `NoLostWakeup`, `FifoDelivery`, `QueueBound`, `HeartbeatVerdict`; `NothingFollowsRefused` when all frames have one size | 2 channels of 3 messages, window 2, queue 2, one PING: the queue overflows, the window fills and reopens out of order across channels |
| `Connection_live` | `ByteBound`, `OnlySmallerFollows`, and under fairness `EventuallyWritten`, `DeadIsCleanedUp` | sizes 1 and 2 against 3 bytes, window 1, two messages, one PING and one LOW frame: both bounds bite and the sender has to be woken |
| `Publish_concurrent` | `UniqueSequence`, `AcceptedIsPublished` | 2 calls, one key, each command resent once, buffer of 1 |
| `Publish_sequential` | `AnnouncedInOrder`, `GapIsReported` for one publisher at a time | 3 calls, buffer of 2: trimming happens with something retained |
| `Gateway_node` | `OneListener`, `TenantOvershoot`, `NoGhosts`, `ListenerForSubscribers`, `ListenerIsNeeded`, and under fairness `WaitingIsServed`, `SubscriberIsAttached` | 3 connections, 2 slots, limit 1 (so it is passed), 2 channel frames each, 2 faults (one for each slot), 1 lost Pub/Sub connection |
| `Presence_user` | `LiveIsMember`, `FreshIsOnline`, and under fairness `GoneIsOffline` | 3 connections, TTL of 2 intervals, 1 crash |
| `Delivery_resume` | `NoSilentSkip`, `AckedIsAccounted`, `SettledIsComplete`, the refinement `Implements`, and under fairness `EventuallyAccounted` | 1 channel, 3 messages, buffer of 2 (so there are gaps), duplicate window of 2 (so ids are forgotten), queue of 1 (so replays overflow), 2 broken connections, 1 expired session, 1 failure of PUBLISH or of the listener, 2 calls of subscribe or unsubscribe |
| `Sessions_tenants` | `SessionOfTenant`, `ConnectedIsResumable`, `PositionAdvances`, and under fairness `AbandonedExpires` | 2 tenants, keys, connections and sessions (so that a session of the other tenant can be named, and shared), window of 2 intervals (so that sessions expire during a handshake), sequences up to 2 |
| `Drain_restart` | `DrainedIsEmpty`, `ServingIsListed`, `OneSocket`, `ClosedStaysClosed`, and under fairness `ActiveIsCorrected`, `EndedIsForgotten`, `ComesBack` | 1 followed client with 2 sockets (one reconnect), 1 other connection (for the snapshot), TTL of 3 intervals (so that one failed heartbeat is survived) |

The type invariants are proved (section 5) and not among the properties of the
runs. `Gateway_node` restricts the
clients to `PairedSpec`; the proofs show its first three properties for `Spec`.

Runs that TLC ends with a counterexample; each states a sentence of the
repository's documentation or comments that the code does not keep:

| Run | Sentence | What the code does |
| --- | --- | --- |
| `Publish_retry` | docs/failure-model.md:167-169 | a retry after a lost reply publishes again |
| `Gateway_resubscribe` | docs/session-resumption.md:40-41, docs/failure-model.md:23-24 | RESUME then SUBSCRIBE counts twice |
| `Delivery_lost` | docs/failure-model.md:19 | a client cut off before its first ACK does not RESUME and misses a message without a report |

The restrictions and qualifications in the passing runs mark further places
where the documentation says more than the code does; no run is kept for them:

- `GapIsReported` needs one publisher at a time (out-of-order arrivals let a
  newer message be trimmed before an older one) and a position other than 0
  (replay.py:49), against docs/protocol.md:171-173 and docs/architecture.md:73.
- `TenantOvershoot` is what is left of the limit of docs/security.md:49-54,
  because the check and `registry.add` are separated by awaits.
- `NoGhosts` excepts handlers that an error cut short, against
  docs/failure-model.md:36-37.
- `NoStrayUnsubscribe` is needed because UNSUBSCRIBE of a channel that is not
  held takes another connection's count, against docs/protocol.md:103-105.
- LOW frames do not wait for the window (`SenderGet`), against
  docs/backpressure.md:69.
- The set of interested nodes (`noted`) expires under subscribers
  (`RoomNodesExpire`), against subscriptions.py:5-6.
- `GoneIsOffline` speaks of all connections: a sibling's refreshes keep the id of
  a crashed one in the set, against docs/presence.md:28-29.
- `LiveIsMember` needs `CalmSpec`: a connection that opens between SCARD and DEL
  of a closing one is deleted from the set, against docs/presence.md:33-34 and
  tracker.py:68-69.
- `AnnouncedInOrder` needs one publisher at a time, against docs/ordering.md:8-10
  and publisher.py:14-16.
- `NothingFollowsRefused` needs frames of one size: a smaller message accepted
  after a refused one hides it from RESUME, against docs/failure-model.md:45-46
  and docs/delivery-semantics.md:5-7. `OnlySmallerFollows` is what holds for mixed
  sizes.
- `HeartbeatVerdict` excepts a full window, because a PING waits behind the
  message that waits for it, against docs/protocol.md:70-72.
- `SettledIsComplete` excepts what is announced between the XRANGE of a RESUME
  and the attachment of the listener (handler.py:194-214).
- `EventuallyAccounted` excepts a client that is and stays further behind than
  its queue holds: each replay ends the connection, and the next one starts at
  the same position (handler.py:209).
- `PositionAdvances` excepts sessions that two connections have shared, where
  `record_ack` may go back, against sessions/manager.py:53.
- `AbandonedExpires` excepts hashes whose connection ended between HSET and
  EXPIRE, against packages/redis/client.py:3-5.
- `AckedIsAccounted` says "handed over", not "handled": the ACK of a later message
  covers an earlier one whose handler still runs or has failed.
- `AckedIsAccounted`, `SettledIsComplete` and `EventuallyAccounted` except `passed`:
  a handler that was running when the view of its channel was reset (by
  `unsubscribe` or RESUME_GAP) settles afterwards, and its ACK moves `lastAck`
  (RelayClient.ts:282-287) past messages the new view has not been handed, against
  docs/protocol.md:133, docs/session-resumption.md:45 and
  packages/protocol/frames.py:111. Within the bounds of `Delivery_resume` this
  hardly happens; the proofs cover it, and fail without the exception.
- `OneSocket` and `ClosedStaysClosed` need an application that calls `connect`
  only when the client is at rest (`AtRest`). After `disconnect(); connect();` the
  old socket's `onclose` clears `ws` and schedules a reconnect of its own.
- `DrainedIsEmpty` excepts handshakes under way when the registry is listed.

Deadlock is not checked: publish calls end, connections close, and the bounds
on frames and messages let every behaviour come to rest.

### Fairness

- `Connection`: asyncio runs every ready task (weak fairness of the sender, the
  frame loop and the terminate task), a closed socket ends `receive_json`, and
  the client acknowledges the newest message it was sent. The last is the
  client's contract (`RelayClient.onMessage` with `autoAck`), is strong because
  the frame loop is busy with other frames in between, and is the only
  assumption about the peer.
- `Gateway`: Redis answers (weak fairness of each handler's own steps), CONNECT
  arrives or times out after ten seconds, `asyncio.Semaphore` serves its waiters
  in order (strong fairness of `Accept`), and the listener retries with a capped
  backoff. Faults, frames and closing sockets are never forced.
- `Presence`: Redis keeps time, a started `connection_offline` goes on, and a
  live client answers its PINGs.
- `Delivery`: the event loop runs the frame loop, a PUBLISH is executed (or, as a
  bounded fault, fails), the listener retries, the client receives what is on
  the wire and reconnects as long as it is not closed, and handlers settle
  (return or reject). All weak; breaks, expiries and drops are never forced.
- `Sessions`: time passes, and a connection that owes a PONG answers or is closed
  by `run_heartbeat`.
- `Drain`: the heartbeat task runs, time passes, a cancelled write arrives or is
  lost, handshakes are answered, `onclose` is called and timers fire. No
  shutdown has to end, no Redis write has to succeed, nobody has to connect.

## 5. Proofs

`tlapm` checks every proof. They hold for all values of the constants that
satisfy each module's named assumption (limits positive, `None` and `NoChannel`
distinct from the values they stand beside, finitely many connections).

- **ConnectionProofs** (`IInv`). `WindowBound` is not inductive alone: the sender
  adds to `_inflight` what it holds in its hand, so the invariant says what the
  sender holds at each stage (`HandOK`, `ChannelsOK`), that the window is finite,
  bounded, and can wake a suspended sender (`WindowOK`), and that `accepted` is
  `written`, then the frame in hand, then the queue (`PipelineOK`), from which
  `FifoDelivery` follows.
  `ConnectionHeartbeatVerdict` adds `PingOK`: an unwritten PING is in the queue
  or in the sender's hand, so a blocked sender can only be waiting for the window.
  `ByteBound` needs `BytesOK`: `_queue_bytes` is the sum of the sizes of the
  queue, exactly and at every moment. What `Totals` computes when a frame is added
  or taken is shown by induction over the length of the queue (see below).
  `OnlySmallerFollows` needs `RefusedOK`: while the connection is live, the
  channel of a refused message is in `slow`, and as long as the listener's turn
  lasts the refused size is still over the limit, since nothing leaves the queue
  within a turn.
  `NothingFollowsRefused` is the case of one size.
- **PublishProofs** (`PInv`). `StageOK` says what each command has left behind
  (a sequence, an arrival, an announcement), `IdemOK` that a stored key names a
  message that went the whole way, `BufferOK` bounds what is retained. For one
  publisher at a time `SInv` adds that the call in flight holds the newest
  sequence and that both logs ascend, which gives `AnnouncedInOrder` and
  `GapIsReported`.
- **GatewayProofs** (`GInv`). `LimitOK` counts registered and admitted
  connections together: a connection is admitted with the registry below the
  limit and at most the other slots' holders admitted beside it. For paired
  clients the invariant ties the count to the set of holders.
- **DeliveryProofs** (`IInv`). `NoSilentSkip` needs the view to start where
  `lastSeen` does (`ViewStarts`), and the refinement needs every frame on the
  wire, and every replay under way, to carry published sequences
  (`WirePublished`). `AckedIsAccounted` needs what lies between `lastSeen` and a
  larger `lastAck` to be `passed` (`AheadIsPassed`), and an id in the duplicate
  window to have been handed over (`SeenIsHandled`). `DeliveryImplements` maps every step to
  a step of `AtLeastOnce` or a stutter: `AppendMessage` publishes, `Receive` hands
  over (a duplicate is a stutter) or restarts the view, `Unsubscribe` restarts it.
- **CatchUpProofs** (`CatchUp`, on top of `IInv`). A client that is behind may be
  served by the wire, by a RESUME it has sent, by one the server is working on or
  by the listener, and every step of a resume moves messages from one of these to
  the next. `Covered` says that a message is accounted for, in one of those
  places, recorded in `unheard`, or not yet announced. The invariant is that
  all of the view is covered or `passed` unless a RESUME_GAP on the wire is about to
  reset it (`ViewCovered`), that so is everything after a message on the wire
  (`WireCovered`: a message may start a view), that RESUME is the first
  frame of a connection and nothing of a channel precedes its replay
  (`ConnectionOK`), and that what was announced since XRANGE was read is unheard
  (`BufferOK`). With an empty wire and no RESUME under way only "accounted for",
  "unheard" and "passed" are left, which is `SettledIsComplete`.
- **SessionsProofs** (`IInv`). Whether a session belongs to the connection's
  tenant rests on the field of the hash, which expires and may be recreated
  without a tenant: `FieldIsOwner` says that a field that is there is the tenant
  the session was made for. `ConnectedIsResumable` needs how much of the TTL is
  left to a connection that has, or has not yet, answered its PING in this
  interval (`HashIsComplete`, `HashIsFresh`), and `PositionAdvances` that an
  unshared session has one holder, whose ACK in hand is above the stored
  position (`OneHolder`, `AckInHand`).
- **DrainProofs**. `DrainInv` says what the snapshot covers (an open connection is
  still to be closed, or was in its handshake), `KeyInv` bounds the age of the key
  by the heartbeats missed, `ClientInv` ties the sockets to the one timer.
- **PresenceProofs** (under `CalmSpec`). `LiveIsMember` needs the set to be fresh
  when somebody has answered in this interval (`AnsweredIsFresh`), so that it
  cannot expire under a live connection, and a DEL that is on its way to find
  nobody live (`DeleteIsLast`). `FreshIsOnline` needs, as long as no node has
  crashed, the set to hold only live connections and those whose SREM is still to
  come (`MembersAreHere`), and an IDLE state to have somebody who will delete it
  (`IdleIsHeld`).

Some theorems state what no run does, because the runs' properties follow from
it or say more: the type invariants, `ConnectionBytesExact`, `BufferBound` and
`AnnouncedWasAppended` of `Publish`, `CountIsExact` of `Gateway`,
`EverlastingIsStranded` of `Sessions` and `CatchUpHolds`.

The induction theorems of the library take an operator as a parameter, which the
provers cannot instantiate. `ConnectionProofs` therefore derives induction for a
set of numbers (`SetInduction`, from the well-foundedness of the naturals), and
applies it to the set of lengths for which the claim holds.

Every safety invariant, action property and refinement that a passing run checks
has a theorem. Left to TLC are the liveness properties, because fairness is beyond
the prover: `EventuallyWritten`, `DeadIsCleanedUp`, `WaitingIsServed`,
`SubscriberIsAttached`, `GoneIsOffline`, `EventuallyAccounted`,
`AbandonedExpires`, `ActiveIsCorrected`, `EndedIsForgotten` and `ComesBack`.

## 6. Not modelled

- Channel and room rows of the control plane: created and listed, read by no
  other part. Its other endpoints are in `Sessions` and `Registrar`.
- Frame shapes and validation, beyond the refusals in `Publish` and `Gateway` and
  the end of a connection that a validation error may cause; RESUMED, which the
  client only counts.
- Subscriptions made by a handshake that was in flight at a drain, after
  `ChannelSubscriptionManager.shutdown`: the process ends right after it.
- The client's statistics, its state callback, and the length of its backoff:
  timers fire in any order with everything else.
- Metrics, logging, configuration (the limits are the constants), the frontend,
  the demo publisher and the scripts.
