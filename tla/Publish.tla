------------------------------ MODULE Publish ------------------------------
(***************************************************************************)
(* POST /v1/publish on one channel (main.publish, publish_message and the  *)
(* Redis access layer).  Every request runs the same chain of Redis        *)
(* commands: GET of the idempotency key, INCR of the channel's sequence,   *)
(* XADD and XTRIM on the recovery buffer, PUBLISH, SET of the idempotency  *)
(* key.  Requests on any number of gateway nodes interleave between the    *)
(* commands.  A command may fail without effect, take effect and lose its  *)
(* reply, and then be sent again by the client library's retry policy or   *)
(* end in an error; a gateway that crashes leaves a request in the same    *)
(* states as an error does.                                                *)
(*                                                                         *)
(* A message is named by the request that creates it (message_id is a      *)
(* fresh uuid4).  The buffer is the part of `arrivals', everything ever    *)
(* appended, that is past the first `base' entries, which were trimmed.    *)
(***************************************************************************)
EXTENDS Integers, Sequences, FiniteSets

CONSTANTS Requests,     \* the HTTP publish calls
          Keys,         \* Idempotency-Key values
          None,         \* no key, no message
          MaxLen,       \* settings.channel_buffer_max_messages
          Retries       \* times a command whose reply was lost is sent again

ASSUME PublishAssumption ==
  /\ MaxLen \in Nat \ {0}
  /\ Retries \in Nat
  /\ None \notin Requests \cup Keys

VARIABLES pc,           \* the command a request is about to send, or its end
          key,          \* its Idempotency-Key
          seq,          \* the last sequence INCR gave it, 0 before
          result,       \* the message its 200 response names
          retries,      \* times the current command was sent again
          counter,      \* relay:sequence:{channel}
          arrivals,     \* messages in the order XADD appended them
          base,         \* number of entries trimmed from the buffer
          announced,    \* messages in the order PUBLISH sent them
          idem          \* relay:idempotency:{tenant}:{key}

vars == <<pc, key, seq, result, retries, counter, arrivals, base, announced, idem>>
buffer == <<arrivals, base>>

Commands == {"lookup", "allocate", "append", "trim", "announce", "store"}
Ends == {"ok", "failed", "rejected"}

TypeOK ==
  /\ pc \in [Requests -> {"idle"} \cup Commands \cup Ends]
  /\ key \in [Requests -> Keys \cup {None}]
  /\ seq \in [Requests -> Nat]
  /\ result \in [Requests -> Requests \cup {None}]
  /\ retries \in [Requests -> 0..Retries]
  /\ counter \in Nat
  /\ arrivals \in Seq(Requests)
  /\ base \in 0..Len(arrivals)
  /\ announced \in Seq(Requests)
  /\ idem \in [Keys -> Requests \cup {None}]

Init ==
  /\ pc = [p \in Requests |-> "idle"]
  /\ key = [p \in Requests |-> None]
  /\ seq = [p \in Requests |-> 0]
  /\ result = [p \in Requests |-> None]
  /\ retries = [p \in Requests |-> 0]
  /\ counter = 0 /\ arrivals = <<>> /\ base = 0 /\ announced = <<>>
  /\ idem = [k \in Keys |-> None]

-----------------------------------------------------------------------------
(* What becomes of a Redis command *)

Reply(p, next) ==
  /\ pc' = [pc EXCEPT ![p] = next]
  /\ retries' = [retries EXCEPT ![p] = 0]

\* The command took effect but its reply was lost: Retry(...) sends it again.
ReplyLost(p) ==
  /\ retries[p] < Retries
  /\ retries' = [retries EXCEPT ![p] = @ + 1]
  /\ UNCHANGED pc

\* The outcomes of a command that took effect.
Executed(p, next) == Reply(p, next) \/ ReplyLost(p) \/ Reply(p, "failed")

\* ConnectionError, every retry used up and no effect: 503 (500 for the last SET).
RedisUnavailable(p) ==
  /\ pc[p] \in Commands
  /\ Reply(p, "failed")
  /\ UNCHANGED <<key, seq, result, counter, buffer, announced, idem>>

-----------------------------------------------------------------------------
(* The handler *)

\* The request is refused (401, 400, 403, 413) or goes on to Redis.
Receive(p) ==
  /\ pc[p] = "idle"
  /\ \/ /\ \E k \in Keys : key' = [key EXCEPT ![p] = k]
        /\ Reply(p, "lookup")
     \/ UNCHANGED key /\ Reply(p, "allocate")
     \/ UNCHANGED key /\ Reply(p, "rejected")
  /\ UNCHANGED <<seq, result, counter, buffer, announced, idem>>

\* A cached result is returned as it is; without one the message is published.
LookupKey(p) ==
  /\ pc[p] = "lookup"
  /\ IF idem[key[p]] # None
     THEN Reply(p, "ok") /\ result' = [result EXCEPT ![p] = idem[key[p]]]
     ELSE Reply(p, "allocate") /\ UNCHANGED result
  /\ UNCHANGED <<key, seq, counter, buffer, announced, idem>>

\* Mutant: the next sequence is read off the buffer instead of counted.
AllocateFromLength(p) ==
  /\ pc[p] = "allocate"
  /\ counter' = Len(arrivals) - base + 1
  /\ seq' = [seq EXCEPT ![p] = Len(arrivals) - base + 1]
  /\ Executed(p, "append")
  /\ UNCHANGED <<key, result, buffer, announced, idem>>

\* Mutant: the counter is read and written in two commands, the write is lost.
AllocateWithoutIncrement(p) ==
  /\ pc[p] = "allocate"
  /\ seq' = [seq EXCEPT ![p] = counter + 1]
  /\ \/ counter' = counter + 1 /\ Reply(p, "append")
     \/ UNCHANGED counter /\ Reply(p, "append")
  /\ UNCHANGED <<key, result, buffer, announced, idem>>

\* Mutant: the key is reserved as soon as the message has a sequence.
AllocateReservesKey(p) ==
  /\ pc[p] = "allocate"
  /\ counter' = counter + 1
  /\ seq' = [seq EXCEPT ![p] = counter + 1]
  /\ idem' = [k \in Keys |-> IF k = key[p] THEN p ELSE idem[k]]
  /\ Executed(p, "append")
  /\ UNCHANGED <<key, result, buffer, announced>>

AllocateSequence(p) ==
  /\ pc[p] = "allocate"
  /\ counter' = counter + 1
  /\ seq' = [seq EXCEPT ![p] = counter + 1]
  /\ Executed(p, "append")
  /\ UNCHANGED <<key, result, buffer, announced, idem>>

\* XADD with an exact MAXLEN: the oldest arrivals go when there are too many.
AppendToBuffer(p) ==
  /\ pc[p] = "append"
  /\ arrivals' = Append(arrivals, p)
  /\ base' = IF Len(arrivals) + 1 - base > MaxLen THEN Len(arrivals) + 1 - MaxLen ELSE base
  /\ Executed(p, "trim")
  /\ UNCHANGED <<key, seq, result, counter, announced, idem>>

\* XTRIM MINID: some of the entries older than the request's own are past their age.
TrimByAge(p) ==
  /\ pc[p] = "trim"
  /\ base' \in {b \in base..Len(arrivals) : b = base \/ \A i \in 1..b : arrivals[i] # p}
  /\ Executed(p, "announce")
  /\ UNCHANGED <<key, seq, result, counter, arrivals, announced, idem>>

\* The response names the request's own message.
Respond(p) == result' = IF pc'[p] = "ok" THEN [result EXCEPT ![p] = p] ELSE result

Announce(p) ==
  /\ pc[p] = "announce"
  /\ announced' = Append(announced, p)
  /\ Executed(p, IF key[p] = None THEN "ok" ELSE "store")
  /\ Respond(p)
  /\ UNCHANGED <<key, seq, counter, buffer, idem>>

StoreKey(p) ==
  /\ pc[p] = "store"
  /\ idem' = [idem EXCEPT ![key[p]] = p]
  /\ Executed(p, "ok")
  /\ Respond(p)
  /\ UNCHANGED <<key, seq, counter, buffer, announced>>

\* The idempotency entry reaches settings.idempotency_ttl_seconds.
ExpireKey(k) ==
  /\ idem[k] # None
  /\ idem' = [idem EXCEPT ![k] = None]
  /\ UNCHANGED <<pc, key, seq, result, retries, counter, buffer, announced>>

Publisher(p) ==
  \/ Receive(p) \/ LookupKey(p) \/ AllocateSequence(p) \/ AppendToBuffer(p)
  \/ TrimByAge(p) \/ Announce(p) \/ StoreKey(p) \/ RedisUnavailable(p)

Next == (\E p \in Requests : Publisher(p)) \/ (\E k \in Keys : ExpireKey(k))

Spec == Init /\ [][Next]_vars

\* One publisher that waits for each answer before it sends the next request.
InFlight == {p \in Requests : pc[p] \in Commands}
OneAtATime == \A p, q \in InFlight : p = q
SequentialSpec == Init /\ [][Next /\ OneAtATime']_vars

-----------------------------------------------------------------------------
(* replay_channel on this buffer *)

Retained == {seq[arrivals[i]] : i \in base + 1..Len(arrivals)}

\* Mutant: off by one at the edge of the buffer.
GapOffByOne(lastAck) ==
  /\ Retained # {}
  /\ \A s \in Retained : lastAck + 2 < s
  /\ lastAck # 0

\* The verdict of replay_channel: the oldest retained sequence is past ack + 1.
Gap(lastAck) ==
  /\ Retained # {}
  /\ \A s \in Retained : lastAck + 1 < s
  /\ lastAck # 0

-----------------------------------------------------------------------------
(* Properties *)

Sent(p) == \E i \in DOMAIN announced : announced[i] = p
Appended(p) == \E i \in DOMAIN arrivals : arrivals[i] = p

\* allocate_sequence (client.py:106-110): no two messages of a channel share a
\* sequence, whatever the interleaving and however often INCR is sent again.
UniqueSequence == \A p, q \in Requests : p # q /\ seq[p] = seq[q] => seq[p] = 0

\* append_to_channel_buffer (client.py:113-140) keeps at most MAXLEN messages,
\* a message that XADD appended twice included.
BufferBound == Len(arrivals) - base <= MaxLen

\* A 200 (main.py:156), cached (main.py:136-138) or not, names a message that is
\* in the recovery buffer or was trimmed from it, and that every node was sent.
AcceptedIsPublished ==
  \A p \in Requests : pc[p] = "ok" =>
    /\ result[p] # None
    /\ Appended(result[p]) /\ Sent(result[p])

\* publish_message (publisher.py:45-62) appends a message before any node is
\* sent it: what a subscriber saw live, RESUME can replay until it is trimmed.
AnnouncedWasAppended == \A p \in Requests : Sent(p) => Appended(p)

\* Every subscriber is sent the messages of a channel in the order of their
\* sequences: "sequence assignment happens once, before fanout, so every
\* subscriber sees the same order" (publisher.py:14-16).
AnnouncedInOrder ==
  \A i, j \in DOMAIN announced :
    i < j => announced[i] = announced[j] \/ seq[announced[i]] < seq[announced[j]]

\* A message past the client's position that was trimmed and is no longer
\* retained makes replay_channel report a gap (replay.py:43-49).
LossIsReported(lastAck) ==
  \A i \in 1..base : seq[arrivals[i]] > lastAck /\ seq[arrivals[i]] \notin Retained => Gap(lastAck)

\* Any position the client has acknowledged: the verdict never hides a loss.
GapIsReported == \A lastAck \in 1..counter : LossIsReported(lastAck)

\* A retried publish "returns the original message_id and sequence rather than
\* creating a second logical message" (docs/failure-model.md:167-170): two
\* messages with one key never both reach the subscribers.
OneMessagePerKey ==
  \A p, q \in Requests : key[p] = key[q] /\ key[p] # None /\ Sent(p) /\ Sent(q) => p = q
=============================================================================
