---------------------------- MODULE ClientStream ----------------------------
(***************************************************************************)
(* The protocol half of RelayClient.ts: what it remembers of each channel  *)
(* (the acknowledged and the highest sequence, the recently seen ids), the *)
(* asynchronous message handlers that overlap, gap detection, and what it  *)
(* sends when a connection is established.  A message is its channel and   *)
(* sequence: message_id and sequence name each other (module Publish).     *)
(***************************************************************************)
EXTENDS Integers, Sequences

CONSTANTS Channels,
          DedupWindow    \* dedupWindowSize

ASSUME ClientStreamAssumption == DedupWindow \in Nat \ {0}

VARIABLES subscriptions,  \* RelayClient.subscriptions
          lastAck,        \* RelayClient.lastAck, 0 for no entry
          lastSeen,       \* RelayClient.lastSeen, 0 for no entry
          seenOrder,      \* RelayClient.seenOrder, with seenIds its elements
          running,        \* messages whose handlers have not returned
          start,          \* history: first message since the positions were reset
          passed,         \* history: acknowledged since then, before they were seen
          handled,        \* history: messages handed to the handlers
          reported        \* history: messages named by onGap

positions == <<lastAck, lastSeen, start, passed>>
stream == <<subscriptions, positions, seenOrder, running, handled, reported>>

StreamTypeOK ==
  /\ subscriptions \subseteq Channels
  /\ lastAck \in [Channels -> Nat] /\ lastSeen \in [Channels -> Nat]
  /\ seenOrder \in Seq(Channels \X Nat)
  /\ running \in [Channels -> SUBSET Nat]
  /\ start \in [Channels -> Nat] /\ passed \in [Channels -> SUBSET Nat]
  /\ handled \in [Channels -> SUBSET Nat] /\ reported \in [Channels -> SUBSET Nat]

StreamInit ==
  /\ subscriptions = {}
  /\ lastAck = [c \in Channels |-> 0] /\ lastSeen = [c \in Channels |-> 0]
  /\ start = [c \in Channels |-> 0] /\ passed = [c \in Channels |-> {}]
  /\ seenOrder = <<>>
  /\ running = [c \in Channels |-> {}]
  /\ handled = [c \in Channels |-> {}] /\ reported = [c \in Channels |-> {}]

Seen(c, s) == \E i \in DOMAIN seenOrder : seenOrder[i] = <<c, s>>

\* rememberId: the oldest id goes once the window is full.
Remember(c, s) ==
  seenOrder' = IF Len(seenOrder) < DedupWindow
               THEN Append(seenOrder, <<c, s>>)
               ELSE Append(Tail(seenOrder), <<c, s>>)

\* ack: cumulative, never backwards.  A handler of an earlier view, or the
\* duplicate of a message of it, acknowledges what this view has not seen.
Ack(c, s) ==
  /\ lastAck' = [lastAck EXCEPT ![c] = IF s > @ THEN s ELSE @]
  /\ passed' = [passed EXCEPT ![c] = @ \cup (lastSeen[c] + 1..s)]

\* Mutant: a gap of one message is not noticed.
MissingOffByOne(c, s) == IF lastSeen[c] = 0 THEN {} ELSE lastSeen[c] + 2..s - 1

\* The messages onGap reports when s arrives.
Missing(c, s) == IF lastSeen[c] = 0 THEN {} ELSE lastSeen[c] + 1..s - 1

\* onMessage up to its first await: a duplicate is acknowledged and dropped.
OnMessage(c, s) ==
  IF Seen(c, s)
  THEN Ack(c, s) /\ UNCHANGED <<subscriptions, lastSeen, start, seenOrder, running, handled, reported>>
  ELSE /\ Remember(c, s)
       /\ reported' = [reported EXCEPT ![c] = @ \cup Missing(c, s)]
       /\ lastSeen' = [lastSeen EXCEPT ![c] = IF s > @ THEN s ELSE @]
       /\ start' = [start EXCEPT ![c] = IF @ = 0 THEN s ELSE @]
       /\ running' = [running EXCEPT ![c] = @ \cup {s}]
       /\ handled' = [handled EXCEPT ![c] = @ \cup {s}]
       /\ UNCHANGED <<subscriptions, lastAck, passed>>

\* The handlers of a message have returned: it is acknowledged (autoAck).
HandlerReturns(c, s) ==
  /\ s \in running[c]
  /\ running' = [running EXCEPT ![c] = @ \ {s}]
  /\ Ack(c, s)
  /\ UNCHANGED <<subscriptions, lastSeen, start, seenOrder, handled, reported>>

\* A handler rejects: onMessage ends there, the id stays remembered.
HandlerRejects(c, s) ==
  /\ s \in running[c]
  /\ running' = [running EXCEPT ![c] = @ \ {s}]
  /\ UNCHANGED <<subscriptions, positions, seenOrder, handled, reported>>

\* ERROR(RESUME_GAP) for any channel: the positions of all of them are cleared.
OnResumeGap ==
  /\ lastAck' = [c \in Channels |-> 0] /\ lastSeen' = [c \in Channels |-> 0]
  /\ start' = [c \in Channels |-> 0] /\ passed' = [c \in Channels |-> {}]
  /\ UNCHANGED <<subscriptions, seenOrder, running, handled, reported>>

Subscribe(c) ==
  /\ subscriptions' = subscriptions \cup {c}
  /\ UNCHANGED <<positions, seenOrder, running, handled, reported>>

Unsubscribe(c) ==
  /\ subscriptions' = subscriptions \ {c}
  /\ lastAck' = [lastAck EXCEPT ![c] = 0] /\ lastSeen' = [lastSeen EXCEPT ![c] = 0]
  /\ start' = [start EXCEPT ![c] = 0] /\ passed' = [passed EXCEPT ![c] = {}]
  /\ UNCHANGED <<seenOrder, running, handled, reported>>

\* The channels RESUME names, when onConnected sends one.
Resumable == {c \in Channels : lastAck[c] # 0}

-----------------------------------------------------------------------------
(* Properties *)

Accounted(c, s) == s \in handled[c] \/ s \in reported[c]

\* onMessage (RelayClient.ts:227-239): from the first message of the view to the
\* highest one seen, each was handed to the handlers or reported by onGap,
\* whatever is lost, repeated or reordered on the way and across reconnects.
NoSilentSkip == \A c \in Channels : \A s \in start[c]..lastSeen[c] : start[c] # 0 => Accounted(c, s)

\* The cumulative ACK (RelayClient.ts:282-287), from which the server replays,
\* never covers a message of the view that the application neither got nor was
\* told of, except where an ACK left over from an earlier view, of a handler that
\* outlived unsubscribe or RESUME_GAP, ran ahead of this one.
AckedIsAccounted ==
  \A c \in Channels : \A s \in start[c]..lastAck[c] :
    start[c] # 0 => Accounted(c, s) \/ s \in passed[c]
=============================================================================
