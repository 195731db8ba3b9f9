--------------------------- MODULE PublishProofs ---------------------------
(***************************************************************************)
(* Proofs about Publish for any number of requests and keys, any buffer    *)
(* length and any number of retries.  Under concurrent publishers: the     *)
(* safety of the chain of Redis commands.  Under one publisher at a time:  *)
(* the order of the announcements and the truth of the gap verdict.        *)
(***************************************************************************)
EXTENDS Publish, SequenceTheorems, TLAPS

In(p, s) == \E i \in DOMAIN s : s[i] = p

\* What each stage of a request implies about Redis.
StageOK(p) ==
  /\ pc[p] \in {"lookup", "store"} => key[p] \in Keys
  /\ pc[p] \in {"append", "trim", "announce", "store"} => seq[p] # 0
  /\ pc[p] \in {"trim", "announce", "store"} => In(p, arrivals)
  /\ pc[p] \in {"idle", "lookup", "allocate"} => ~In(p, arrivals)
  /\ pc[p] = "store" => In(p, announced)
  /\ In(p, announced) => In(p, arrivals)
  /\ pc[p] = "ok" => result[p] # None /\ In(result[p], announced)
  /\ seq[p] <= counter

IdemOK == \A k \in Keys : idem[k] # None => In(idem[k], announced)

BufferOK ==
  /\ BufferBound
  /\ arrivals # <<>> => base < Len(arrivals)

PInv ==
  /\ TypeOK
  /\ \A p \in Requests : StageOK(p)
  /\ UniqueSequence
  /\ IdemOK
  /\ BufferOK

\* What Append does to a sequence of messages.
LEMMA AppendFacts ==
  ASSUME NEW s \in Seq(Requests), NEW p \in Requests
  PROVE  /\ Append(s, p) \in Seq(Requests) /\ Append(s, p) # <<>>
         /\ Len(Append(s, p)) = Len(s) + 1
         /\ \A i \in 1..Len(s) : Append(s, p)[i] = s[i]
         /\ Append(s, p)[Len(s) + 1] = p
         /\ \A q : In(q, Append(s, p)) <=> q = p \/ In(q, s)
<1>1. /\ Append(s, p) \in Seq(Requests) /\ Append(s, p) # <<>>
      /\ Len(Append(s, p)) = Len(s) + 1
      /\ \A i \in 1..Len(s) : Append(s, p)[i] = s[i]
      /\ Append(s, p)[Len(s) + 1] = p
  OBVIOUS
<1>2. ASSUME NEW q, In(q, Append(s, p)) PROVE q = p \/ In(q, s)
  <2>1. PICK i \in DOMAIN Append(s, p) : Append(s, p)[i] = q
    BY <1>2 DEF In
  <2>2. i = Len(s) + 1 \/ i \in 1..Len(s)
    BY <1>1, <2>1
  <2>. QED BY <1>1, <2>1, <2>2 DEF In
<1>3. ASSUME NEW q, q = p \/ In(q, s) PROVE In(q, Append(s, p))
  <2>1. CASE q = p
    <3>1. Len(s) + 1 \in DOMAIN Append(s, p)
      BY <1>1
    <3>. QED BY <1>1, <2>1, <3>1 DEF In
  <2>2. CASE In(q, s)
    <3>1. PICK i \in DOMAIN s : s[i] = q
      BY <2>2 DEF In
    <3>2. i \in DOMAIN Append(s, p) /\ Append(s, p)[i] = q
      BY <1>1, <3>1
    <3>. QED BY <3>2 DEF In
  <2>. QED BY <1>3, <2>1, <2>2
<1>. QED BY <1>1, <1>2, <1>3

\* The outcomes of a command touch only the request's own stage and retries.
LEMMA ReplyTypes ==
  ASSUME TypeOK, NEW p \in Requests, NEW next \in {"idle"} \cup Commands \cup Ends,
         Executed(p, next)
  PROVE  /\ pc' \in [Requests -> {"idle"} \cup Commands \cup Ends]
         /\ retries' \in [Requests -> 0..Retries]
         /\ \A q \in Requests : q # p => pc'[q] = pc[q]
         /\ pc'[p] \in {pc[p], next, "failed"}
<1>. USE PublishAssumption DEF TypeOK, Commands, Ends
<1>1. CASE Reply(p, next)
  BY <1>1 DEF Reply
<1>2. CASE ReplyLost(p)
  <2>1. retries[p] + 1 \in 0..Retries
    BY <1>2 DEF ReplyLost
  <2>. QED BY <1>2, <2>1 DEF ReplyLost
<1>3. CASE Reply(p, "failed")
  BY <1>3 DEF Reply
<1>. QED BY <1>1, <1>2, <1>3 DEF Executed

\* The invariant holds before any publish has reached Redis.
LEMMA PInvInit == Init => PInv
<1>. SUFFICES ASSUME Init PROVE PInv
  OBVIOUS
<1>. USE PublishAssumption
<1>1. TypeOK
  BY DEF Init, TypeOK, Commands, Ends
<1>2. \A p \in Requests : StageOK(p)
  BY DEF Init, StageOK, In
<1>3. UniqueSequence /\ IdemOK /\ BufferOK
  BY DEF Init, UniqueSequence, IdemOK, BufferOK, BufferBound
<1>. QED BY <1>1, <1>2, <1>3 DEF PInv

\* A step that leaves Redis alone and moves one request between stages.
LEMMA QuietRequest ==
  ASSUME PInv, NEW p \in Requests, UNCHANGED <<seq, counter, buffer, announced, idem>>,
         TypeOK', StageOK(p)',
         \A q \in Requests : q # p => pc'[q] = pc[q] /\ key'[q] = key[q] /\ result'[q] = result[q]
  PROVE  PInv'
<1>1. ASSUME NEW q \in Requests, q # p PROVE StageOK(q)'
  BY <1>1 DEF PInv, StageOK, In, buffer
<1>2. (UniqueSequence /\ IdemOK /\ BufferOK)'
  BY DEF PInv, UniqueSequence, IdemOK, BufferOK, BufferBound, In, buffer
<1>. QED BY <1>1, <1>2 DEF PInv

\* Every Redis command of publish_message and of main.publish, failed, executed
\* or executed with a lost reply, keeps the invariant.
LEMMA PInvStep == ASSUME PInv, [Next]_vars PROVE PInv'
<1>. USE PublishAssumption
<1>t. TypeOK
  BY DEF PInv
<1>1. ASSUME NEW p \in Requests, Receive(p) PROVE PInv'
  <2>1. StageOK(p) /\ pc[p] = "idle"
    BY <1>1 DEF PInv, Receive
  <2>2. PICK n \in {"lookup", "allocate", "rejected"} : Reply(p, n)
    BY <1>1 DEF Receive
  <2>3. key' \in [Requests -> Keys \cup {None}] /\ (n = "lookup" => key'[p] \in Keys)
        /\ \A q \in Requests : q # p => key'[q] = key[q]
    <3>1. CASE \E k \in Keys : key' = [key EXCEPT ![p] = k]
      BY <1>t, <3>1 DEF TypeOK
    <3>2. CASE UNCHANGED key /\ n # "lookup"
      BY <1>t, <3>2 DEF TypeOK
    <3>3. n = "lookup" => \E k \in Keys : key' = [key EXCEPT ![p] = k]
      <4>. SUFFICES ASSUME n = "lookup" PROVE \E k \in Keys : key' = [key EXCEPT ![p] = k]
        OBVIOUS
      <4>1. pc'[p] = "lookup"
        BY <1>t, <2>2 DEF Reply, TypeOK
      <4>2. ~Reply(p, "allocate") /\ ~Reply(p, "rejected")
        BY <1>t, <4>1 DEF Reply, TypeOK
      <4>. QED BY <1>1, <4>2 DEF Receive
    <3>. QED BY <1>1, <3>1, <3>2, <3>3 DEF Receive
  <2>4. TypeOK' /\ pc'[p] = n
    <3>1. UNCHANGED <<seq, result, counter, arrivals, base, announced, idem>>
      BY <1>1 DEF Receive, buffer
    <3>2. pc' \in [Requests -> {"idle"} \cup Commands \cup Ends] /\ pc'[p] = n
      BY <1>t, <2>2 DEF Reply, TypeOK, Commands, Ends
    <3>3. retries' \in [Requests -> 0..Retries]
      BY <1>t, <2>2 DEF Reply, TypeOK
    <3>. QED BY <1>t, <2>3, <3>1, <3>2, <3>3 DEF TypeOK
  <2>5. StageOK(p)'
    BY <1>1, <1>t, <2>1, <2>2, <2>3, <2>4 DEF Receive, Reply, StageOK, TypeOK, In, buffer
  <2>. QED BY ZenonT(60), <1>1, <1>t, <2>2, <2>3, <2>4, <2>5, QuietRequest DEF Receive, Reply, TypeOK
<1>2. ASSUME NEW p \in Requests, LookupKey(p) PROVE PInv'
  <2>1. StageOK(p) /\ pc[p] = "lookup" /\ key[p] \in Keys /\ IdemOK
    BY <1>2 DEF PInv, LookupKey, StageOK
  <2>2. CASE idem[key[p]] # None
    <3>1. Reply(p, "ok") /\ result' = [result EXCEPT ![p] = idem[key[p]]]
      BY <1>2, <2>2 DEF LookupKey
    <3>2. TypeOK'
      BY <1>2, <1>t, <2>1, <3>1 DEF LookupKey, Reply, TypeOK, Commands, Ends, buffer
    <3>3. In(idem[key[p]], announced)
      BY <2>1, <2>2 DEF IdemOK
    <3>4. StageOK(p)'
      BY <1>2, <1>t, <2>1, <2>2, <3>1, <3>3 DEF LookupKey, Reply, StageOK, TypeOK, In, buffer
    <3>. QED BY ZenonT(60), <1>2, <1>t, <3>1, <3>2, <3>4, QuietRequest DEF LookupKey, Reply, TypeOK
  <2>3. CASE idem[key[p]] = None
    <3>1. Reply(p, "allocate") /\ result' = result
      BY <1>2, <2>3 DEF LookupKey
    <3>2. TypeOK'
      BY <1>2, <1>t, <2>1, <3>1 DEF LookupKey, Reply, TypeOK, Commands, Ends, buffer
    <3>3. StageOK(p)'
      BY <1>2, <1>t, <2>1, <3>1 DEF LookupKey, Reply, StageOK, TypeOK, In, buffer
    <3>. QED BY ZenonT(60), <1>2, <1>t, <3>1, <3>2, <3>3, QuietRequest DEF LookupKey, Reply, TypeOK
  <2>. QED BY <2>2, <2>3
<1>3. ASSUME NEW p \in Requests, RedisUnavailable(p) PROVE PInv'
  <2>1. StageOK(p) /\ pc[p] \in Commands /\ Reply(p, "failed")
    BY <1>3 DEF PInv, RedisUnavailable
  <2>2. TypeOK'
    BY <1>3, <1>t, <2>1 DEF RedisUnavailable, Reply, TypeOK, Commands, Ends, buffer
  <2>3. StageOK(p)'
    BY <1>3, <1>t, <2>1 DEF RedisUnavailable, Reply, StageOK, TypeOK, In, buffer
  <2>. QED BY ZenonT(60), <1>3, <1>t, <2>1, <2>2, <2>3, QuietRequest DEF RedisUnavailable, Reply, TypeOK
<1>4. ASSUME NEW p \in Requests, AllocateSequence(p) PROVE PInv'
  <2>1. StageOK(p) /\ pc[p] = "allocate" /\ counter \in Nat
    BY <1>4, <1>t DEF PInv, AllocateSequence, TypeOK
  <2>2. /\ pc' \in [Requests -> {"idle"} \cup Commands \cup Ends]
        /\ retries' \in [Requests -> 0..Retries]
        /\ \A q \in Requests : q # p => pc'[q] = pc[q]
        /\ pc'[p] \in {"allocate", "append", "failed"}
    BY <1>4, <1>t, <2>1, ReplyTypes DEF AllocateSequence, Commands
  <2>3. TypeOK'
    BY <1>4, <1>t, <2>1, <2>2 DEF AllocateSequence, TypeOK, buffer
  <2>4. \A q \in Requests : seq[q] \in Nat /\ seq[q] <= counter
    BY <1>t DEF PInv, StageOK, TypeOK
  <2>5. seq'[p] = counter + 1 /\ counter' = counter + 1 /\ \A q \in Requests : q # p => seq'[q] = seq[q]
    BY <1>4, <1>t DEF AllocateSequence, TypeOK
  <2>6. StageOK(p)'
    BY <1>4, <2>1, <2>2, <2>5 DEF AllocateSequence, StageOK, In, buffer
  <2>7. ASSUME NEW q \in Requests, q # p PROVE StageOK(q)'
    BY <1>4, <2>1, <2>2, <2>4, <2>5, <2>7 DEF AllocateSequence, PInv, StageOK, In, buffer
  <2>8. UniqueSequence'
    BY <2>1, <2>4, <2>5 DEF PInv, UniqueSequence
  <2>9. IdemOK' /\ BufferOK'
    BY <1>4 DEF AllocateSequence, PInv, IdemOK, BufferOK, BufferBound, In, buffer
  <2>. QED BY <2>3, <2>6, <2>7, <2>8, <2>9 DEF PInv
<1>5. ASSUME NEW p \in Requests, AppendToBuffer(p) PROVE PInv'
  <2>1. StageOK(p) /\ pc[p] = "append" /\ arrivals \in Seq(Requests) /\ base \in 0..Len(arrivals)
        /\ arrivals' = Append(arrivals, p) /\ MaxLen \in Nat /\ MaxLen > 0 /\ Len(arrivals) \in Nat
    BY <1>5, <1>t DEF PInv, AppendToBuffer, TypeOK
  <2>2. /\ pc' \in [Requests -> {"idle"} \cup Commands \cup Ends]
        /\ retries' \in [Requests -> 0..Retries]
        /\ \A q \in Requests : q # p => pc'[q] = pc[q]
        /\ pc'[p] \in {"append", "trim", "failed"}
    BY SMTT(30), <1>5, <1>t, <2>1, ReplyTypes DEF AppendToBuffer, Commands
  <2>3. /\ arrivals' \in Seq(Requests) /\ Len(arrivals') = Len(arrivals) + 1
        /\ \A q : In(q, arrivals') <=> q = p \/ In(q, arrivals)
    BY <2>1, AppendFacts
  <2>4. base' \in 0..Len(arrivals) /\ Len(arrivals') - base' <= MaxLen
    BY <1>5, <2>1, <2>3 DEF AppendToBuffer, PInv, BufferOK, BufferBound
  <2>5. TypeOK'
    <3>1. base' \in 0..Len(arrivals')
      BY <2>1, <2>3, <2>4
    <3>. QED BY ZenonT(60), <1>5, <1>t, <2>2, <2>3, <3>1 DEF AppendToBuffer, TypeOK
  <2>6. ASSUME NEW q \in Requests PROVE StageOK(q)'
    <3>1. CASE q = p
      BY ZenonT(60), <1>5, <2>1, <2>2, <2>3, <3>1 DEF AppendToBuffer, StageOK, In
    <3>2. CASE q # p
      <4>1. StageOK(q) /\ pc'[q] = pc[q] /\ (In(q, arrivals') <=> In(q, arrivals))
        BY <2>2, <2>3, <3>2 DEF PInv
      <4>. QED BY <1>5, <4>1 DEF AppendToBuffer, StageOK, In
    <3>. QED BY <3>1, <3>2
  <2>7. UniqueSequence' /\ IdemOK'
    BY <1>5 DEF AppendToBuffer, PInv, UniqueSequence, IdemOK, In
  <2>8. BufferOK'
    BY SMTT(30), <2>1, <2>3, <2>4 DEF BufferOK, BufferBound
  <2>. QED BY <2>5, <2>6, <2>7, <2>8 DEF PInv
<1>6. ASSUME NEW p \in Requests, TrimByAge(p) PROVE PInv'
  <2>1. StageOK(p) /\ pc[p] = "trim" /\ In(p, arrivals) /\ base \in 0..Len(arrivals) /\ Len(arrivals) \in Nat
    BY <1>6, <1>t DEF PInv, TrimByAge, TypeOK, StageOK
  <2>2. /\ pc' \in [Requests -> {"idle"} \cup Commands \cup Ends]
        /\ retries' \in [Requests -> 0..Retries]
        /\ \A q \in Requests : q # p => pc'[q] = pc[q]
        /\ pc'[p] \in {"trim", "announce", "failed"}
    BY <1>6, <1>t, <2>1, ReplyTypes DEF TrimByAge, Commands
  <2>3. TypeOK'
    BY <1>6, <1>t, <2>1, <2>2 DEF TrimByAge, TypeOK
  <2>4. ASSUME NEW q \in Requests PROVE StageOK(q)'
    <3>1. CASE q = p
      BY SMTT(30), <1>6, <2>1, <2>2, <3>1 DEF TrimByAge, StageOK, In
    <3>2. CASE q # p
      BY <1>6, <2>2, <3>2 DEF TrimByAge, PInv, StageOK, In
    <3>. QED BY <3>1, <3>2
  <2>5. UniqueSequence' /\ IdemOK'
    BY <1>6 DEF TrimByAge, PInv, UniqueSequence, IdemOK, In
  <2>6. BufferOK'
    <3>1. PICK i \in 1..Len(arrivals) : arrivals[i] = p
      BY <1>t, <2>1 DEF In, TypeOK
    <3>2. base' \in base..Len(arrivals) /\ (base' = base \/ base' < i)
      BY <1>6, <2>1, <3>1 DEF TrimByAge
    <3>. QED BY <1>6, <2>1, <3>1, <3>2 DEF TrimByAge, PInv, BufferOK, BufferBound
  <2>. QED BY <2>3, <2>4, <2>5, <2>6 DEF PInv
<1>7. ASSUME NEW p \in Requests, Announce(p) PROVE PInv'
  <2>1. StageOK(p) /\ pc[p] = "announce" /\ announced \in Seq(Requests) /\ announced' = Append(announced, p)
    BY <1>7, <1>t DEF PInv, Announce, TypeOK
  <2>2. /\ pc' \in [Requests -> {"idle"} \cup Commands \cup Ends]
        /\ retries' \in [Requests -> 0..Retries]
        /\ \A q \in Requests : q # p => pc'[q] = pc[q]
        /\ pc'[p] \in {"announce", IF key[p] = None THEN "ok" ELSE "store", "failed"}
    <3>1. (IF key[p] = None THEN "ok" ELSE "store") \in {"idle"} \cup Commands \cup Ends
      BY DEF Commands, Ends
    <3>. QED BY <1>7, <1>t, <2>1, <3>1, ReplyTypes DEF Announce
  <2>3. announced' \in Seq(Requests) /\ \A q : In(q, announced') <=> q = p \/ In(q, announced)
    BY <2>1, AppendFacts
  <2>4. result' \in [Requests -> Requests \cup {None}] /\ (pc'[p] = "ok" => result'[p] = p)
        /\ \A q \in Requests : q # p => result'[q] = result[q]
    BY <1>7, <1>t DEF Announce, Respond, TypeOK
  <2>5. TypeOK'
    BY SMTT(30), <1>7, <1>t, <2>2, <2>3, <2>4 DEF Announce, TypeOK, buffer
  <2>6. ASSUME NEW q \in Requests PROVE StageOK(q)'
    <3>1. CASE q = p
      <4>1. key[p] \in Keys \cup {None} /\ p # None
        BY SMTT(30), <1>t DEF TypeOK
      <4>. QED BY <1>7, <2>1, <2>2, <2>3, <2>4, <3>1, <4>1 DEF Announce, StageOK, In, buffer
    <3>2. CASE q # p
      <4>1. StageOK(q) /\ pc'[q] = pc[q] /\ result'[q] = result[q]
        BY <2>2, <2>4, <3>2 DEF PInv
      <4>2. UNCHANGED <<key, seq, counter, arrivals>>
        BY <1>7 DEF Announce, buffer
      <4>3. In(q, announced') <=> In(q, announced)
        BY <2>3, <3>2
      <4>4. In(result[q], announced) => In(result[q], announced')
        BY <2>3
      <4>. QED BY <4>1, <4>2, <4>3, <4>4 DEF StageOK, In
    <3>. QED BY <3>1, <3>2
  <2>7. UniqueSequence' /\ BufferOK'
    BY <1>7 DEF Announce, PInv, UniqueSequence, BufferOK, BufferBound, buffer
  <2>8. IdemOK'
    <3>1. \A q : In(q, announced) => In(q, announced')
      BY SMTT(30), <2>3
    <3>. QED BY <1>7, <3>1 DEF Announce, PInv, IdemOK
  <2>. QED BY <2>5, <2>6, <2>7, <2>8 DEF PInv
<1>8. ASSUME NEW p \in Requests, StoreKey(p) PROVE PInv'
  <2>1. StageOK(p) /\ pc[p] = "store" /\ key[p] \in Keys /\ In(p, announced) /\ p # None
    BY SMTT(30), <1>8 DEF PInv, StoreKey, StageOK
  <2>2. /\ pc' \in [Requests -> {"idle"} \cup Commands \cup Ends]
        /\ retries' \in [Requests -> 0..Retries]
        /\ \A q \in Requests : q # p => pc'[q] = pc[q]
        /\ pc'[p] \in {"store", "ok", "failed"}
    BY <1>8, <1>t, <2>1, ReplyTypes DEF StoreKey, Ends
  <2>3. result' \in [Requests -> Requests \cup {None}] /\ (pc'[p] = "ok" => result'[p] = p)
        /\ \A q \in Requests : q # p => result'[q] = result[q]
    BY <1>8, <1>t DEF StoreKey, Respond, TypeOK
  <2>4. TypeOK'
    BY SMTT(30), <1>8, <1>t, <2>1, <2>2, <2>3 DEF StoreKey, TypeOK, buffer
  <2>5. ASSUME NEW q \in Requests PROVE StageOK(q)'
    <3>1. CASE q = p
      BY SMTT(30), <1>8, <2>1, <2>2, <2>3, <3>1 DEF StoreKey, StageOK, In, buffer
    <3>2. CASE q # p
      BY SMTT(30), <1>8, <2>2, <2>3, <3>2 DEF StoreKey, PInv, StageOK, In, buffer
    <3>. QED BY <3>1, <3>2
  <2>6. UniqueSequence' /\ BufferOK'
    BY SMTT(30), <1>8 DEF StoreKey, PInv, UniqueSequence, BufferOK, BufferBound, buffer
  <2>7. IdemOK'
    BY <1>8, <1>t, <2>1 DEF StoreKey, PInv, IdemOK, In, TypeOK
  <2>. QED BY <2>4, <2>5, <2>6, <2>7 DEF PInv
<1>9. ASSUME NEW k \in Keys, ExpireKey(k) PROVE PInv'
  <2>1. TypeOK'
    BY <1>9, <1>t DEF ExpireKey, TypeOK, buffer
  <2>2. \A q \in Requests : StageOK(q)'
    BY <1>9 DEF ExpireKey, PInv, StageOK, In, buffer
  <2>3. (UniqueSequence /\ BufferOK)'
    BY <1>9 DEF ExpireKey, PInv, UniqueSequence, BufferOK, BufferBound, buffer
  <2>4. IdemOK'
    BY <1>9, <1>t DEF ExpireKey, PInv, IdemOK, In, TypeOK
  <2>. QED BY <2>1, <2>2, <2>3, <2>4 DEF PInv
<1>10. CASE UNCHANGED vars
  BY <1>10 DEF vars, PInv, TypeOK, StageOK, UniqueSequence, IdemOK, BufferOK, BufferBound, In
<1>. QED
  BY <1>1, <1>2, <1>3, <1>4, <1>5, <1>6, <1>7, <1>8, <1>9, <1>10 DEF Next, Publisher

\* The invariant holds under any interleaving of publish calls.
LEMMA PInvHolds == Spec => []PInv
BY PInvInit, PInvStep, PTL DEF Spec

-----------------------------------------------------------------------------
(* Any number of concurrent publishers *)

\* Every variable of the publish path keeps its type.
THEOREM PublishTypes == Spec => []TypeOK
BY PInvHolds, PTL DEF PInv

\* INCR gives no sequence to two messages, retried commands included.
THEOREM PublishUniqueSequence == Spec => []UniqueSequence
BY PInvHolds, PTL DEF PInv

\* The recovery buffer never holds more than channel_buffer_max_messages.
THEOREM PublishBufferBound == Spec => []BufferBound
BY PInvHolds, PTL DEF PInv, BufferOK

\* A message is in the buffer, or was, before any node is sent it.
THEOREM PublishAnnouncedWasAppended == Spec => []AnnouncedWasAppended
<1>1. PInv => AnnouncedWasAppended
  BY DEF PInv, StageOK, AnnouncedWasAppended, Sent, Appended, In
<1>. QED BY <1>1, PInvHolds, PTL

\* A 200 response names a message that was appended and announced.
THEOREM PublishAcceptedIsPublished == Spec => []AcceptedIsPublished
<1>1. PInv => AcceptedIsPublished
  <2>. SUFFICES ASSUME PInv, NEW p \in Requests, pc[p] = "ok"
                PROVE  result[p] # None /\ Appended(result[p]) /\ Sent(result[p])
    BY DEF AcceptedIsPublished
  <2>1. result[p] # None /\ In(result[p], announced)
    BY DEF PInv, StageOK
  <2>2. result[p] \in Requests
    BY <2>1 DEF PInv, TypeOK
  <2>3. In(result[p], arrivals)
    BY SMTT(30), <2>1, <2>2 DEF PInv, StageOK
  <2>. QED BY SMTT(30), <2>1, <2>3 DEF Appended, Sent, In
<1>. QED BY <1>1, PInvHolds, PTL

-----------------------------------------------------------------------------
(* One publisher at a time *)

Ascending(s) == \A i, j \in DOMAIN s : i < j => s[i] = s[j] \/ seq[s[i]] < seq[s[j]]

\* The request past INCR holds the newest sequence, and both logs ascend.
SInv ==
  /\ PInv
  /\ OneAtATime
  /\ \A p \in Requests : pc[p] \in {"append", "trim", "announce", "store"} => seq[p] = counter
  /\ Ascending(arrivals) /\ Ascending(announced)

\* Appending the message with the newest sequence keeps a log ascending.
LEMMA AppendNewest ==
  ASSUME PInv, NEW s \in Seq(Requests), Ascending(s), NEW p \in Requests,
         seq[p] = counter, seq[p] # 0
  PROVE  \A i, j \in DOMAIN Append(s, p) : i < j =>
           Append(s, p)[i] = Append(s, p)[j] \/ seq[Append(s, p)[i]] < seq[Append(s, p)[j]]
<1>. SUFFICES ASSUME NEW i \in DOMAIN Append(s, p), NEW j \in DOMAIN Append(s, p), i < j
              PROVE  Append(s, p)[i] = Append(s, p)[j] \/ seq[Append(s, p)[i]] < seq[Append(s, p)[j]]
  OBVIOUS
<1>1. /\ Len(Append(s, p)) = Len(s) + 1 /\ Append(s, p)[Len(s) + 1] = p
      /\ \A k \in 1..Len(s) : Append(s, p)[k] = s[k]
  BY AppendFacts
<1>2. i \in 1..Len(s) /\ (j \in 1..Len(s) \/ j = Len(s) + 1)
  BY <1>1
<1>3. CASE j \in 1..Len(s)
  BY <1>1, <1>2, <1>3 DEF Ascending
<1>4. CASE j = Len(s) + 1
  <2>1. s[i] \in Requests
    BY <1>2
  <2>2. seq[s[i]] \in Nat /\ seq[s[i]] <= counter
    BY <2>1 DEF PInv, StageOK, TypeOK
  <2>3. s[i] = p \/ seq[s[i]] # seq[p]
    BY <2>1 DEF PInv, UniqueSequence
  <2>. QED BY SMTT(30), <1>1, <1>2, <1>4, <2>2, <2>3 DEF PInv, TypeOK
<1>. QED BY <1>2, <1>3, <1>4

\* A new sequence leaves the logs alone: its request is in neither.
LEMMA AllocateKeepsAscending ==
  ASSUME PInv, NEW p \in Requests, NEW n, seq' = [seq EXCEPT ![p] = n],
         NEW s \in Seq(Requests), ~In(p, s), Ascending(s), s' = s
  PROVE  Ascending(s)'
<1>1. \A i \in DOMAIN s : s[i] \in Requests /\ s[i] # p
  BY DEF In
<1>2. \A i \in DOMAIN s : seq'[s[i]] = seq[s[i]]
  BY <1>1 DEF PInv, TypeOK
<1>. QED BY <1>2 DEF Ascending

\* A publisher that waits for each answer keeps the recovery buffer and the
\* announcements in the order of the sequences allocate_sequence gave.
LEMMA SInvStep == ASSUME SInv, [Next /\ OneAtATime']_vars PROVE SInv'
<1>1. PInv /\ TypeOK /\ PInv'
  BY SMTT(30), PInvStep DEF SInv, PInv
<1>2. CASE UNCHANGED vars
  BY <1>1, <1>2 DEF SInv, vars, OneAtATime, InFlight, Ascending
<1>3. ASSUME Next, OneAtATime' PROVE SInv'
  <2>1. ASSUME UNCHANGED <<seq, counter, buffer, announced>>,
               \A p \in Requests : pc'[p] \in {"append", "trim", "announce", "store"} => pc'[p] = pc[p]
        PROVE  SInv'
    BY <1>1, <1>3, <2>1 DEF SInv, Ascending, buffer
  <2>2. ASSUME NEW p \in Requests, Receive(p) \/ LookupKey(p) \/ RedisUnavailable(p) PROVE SInv'
    BY SMTT(30), <1>1, <2>1, <2>2 DEF Receive, LookupKey, RedisUnavailable, Reply, TypeOK
  <2>3. ASSUME NEW p \in Requests, StoreKey(p) PROVE SInv'
    <3>1. (\A q \in Requests : q # p => pc'[q] = pc[q]) /\ pc'[p] \in {pc[p], "ok", "failed"}
      BY <1>1, <2>3, ReplyTypes DEF StoreKey, Ends
    <3>. QED BY <2>1, <2>3, <3>1 DEF StoreKey
  <2>4. ASSUME NEW k \in Keys, ExpireKey(k) PROVE SInv'
    BY <2>1, <2>4 DEF ExpireKey
  <2>5. ASSUME NEW p \in Requests, AllocateSequence(p) PROVE SInv'
    <3>1. pc[p] = "allocate" /\ seq' = [seq EXCEPT ![p] = counter + 1] /\ counter' = counter + 1
          /\ arrivals' = arrivals /\ announced' = announced
      BY <2>5 DEF AllocateSequence, buffer
    <3>2. ~In(p, arrivals) /\ ~In(p, announced)
      BY <1>1, <3>1 DEF PInv, StageOK
    <3>3. Ascending(arrivals)'
      BY ZenonT(60), <1>1, <3>1, <3>2, AllocateKeepsAscending DEF SInv, TypeOK
    <3>4. Ascending(announced)'
      BY ZenonT(60), <1>1, <3>1, <3>2, AllocateKeepsAscending DEF SInv, TypeOK
    <3>5. \A q \in Requests : q # p => pc'[q] = pc[q]
      BY <1>1, <2>5, ReplyTypes DEF AllocateSequence, Commands
    <3>6. ASSUME NEW q \in Requests, pc'[q] \in {"append", "trim", "announce", "store"}
          PROVE  seq'[q] = counter'
      <4>1. q # p => q \in InFlight /\ p \in InFlight
        BY <3>1, <3>5, <3>6 DEF InFlight, Commands
      <4>2. q = p
        BY <4>1 DEF SInv, OneAtATime
      <4>. QED BY <1>1, <3>1, <4>2 DEF TypeOK
    <3>. QED BY <1>1, <1>3, <3>3, <3>4, <3>6 DEF SInv
  <2>6. ASSUME NEW p \in Requests, AppendToBuffer(p) \/ TrimByAge(p) \/ Announce(p) PROVE SInv'
    <3>1. UNCHANGED <<seq, counter>> /\ pc[p] \in {"append", "trim", "announce"}
      BY SMTT(30), <2>6 DEF AppendToBuffer, TrimByAge, Announce
    <3>2. seq[p] = counter /\ seq[p] # 0
      BY <1>1, <3>1 DEF SInv, PInv, StageOK
    <3>3. \A q \in Requests : q # p => pc'[q] = pc[q]
      <4>1. \E n \in {"idle"} \cup Commands \cup Ends : Executed(p, n)
        BY SMTT(30), <2>6 DEF AppendToBuffer, TrimByAge, Announce, Commands, Ends
      <4>. QED BY SMTT(30), <1>1, <4>1, ReplyTypes
    <3>4. \A q \in Requests : pc'[q] \in {"append", "trim", "announce", "store"} => seq'[q] = counter'
      BY <3>1, <3>2, <3>3 DEF SInv
    <3>5. arrivals' = arrivals \/ arrivals' = Append(arrivals, p)
      BY <2>6 DEF AppendToBuffer, TrimByAge, Announce, buffer
    <3>6. announced' = announced \/ announced' = Append(announced, p)
      BY <2>6 DEF AppendToBuffer, TrimByAge, Announce
    <3>7. Ascending(arrivals)'
      <4>1. CASE arrivals' = arrivals
        BY <3>1, <4>1 DEF SInv, Ascending
      <4>2. CASE arrivals' = Append(arrivals, p)
        <5>1. \A i, j \in DOMAIN arrivals' : i < j => arrivals'[i] = arrivals'[j] \/ seq[arrivals'[i]] < seq[arrivals'[j]]
          BY ZenonT(60), <1>1, <3>2, <4>2, AppendNewest DEF SInv, TypeOK
        <5>. QED BY <3>1, <5>1 DEF Ascending
      <4>. QED BY <3>5, <4>1, <4>2
    <3>8. Ascending(announced)'
      <4>1. CASE announced' = announced
        BY <3>1, <4>1 DEF SInv, Ascending
      <4>2. CASE announced' = Append(announced, p)
        <5>1. \A i, j \in DOMAIN announced' : i < j => announced'[i] = announced'[j] \/ seq[announced'[i]] < seq[announced'[j]]
          BY ZenonT(60), <1>1, <3>2, <4>2, AppendNewest DEF SInv, TypeOK
        <5>. QED BY <3>1, <5>1 DEF Ascending
      <4>. QED BY <3>6, <4>1, <4>2
    <3>. QED BY SMTT(30), <1>1, <1>3, <3>4, <3>7, <3>8 DEF SInv
  <2>. QED BY <1>3, <2>2, <2>3, <2>4, <2>5, <2>6 DEF Next, Publisher
<1>. QED BY <1>2, <1>3

\* The sequential invariant holds for one publisher at a time.
LEMMA SInvHolds == SequentialSpec => []SInv
<1>1. Init => SInv
  BY PInvInit DEF Init, SInv, OneAtATime, InFlight, Ascending, Commands
<1>2. SInv /\ [Next /\ OneAtATime']_vars => SInv'
  BY SInvStep
<1>. QED BY <1>1, <1>2, PTL DEF SequentialSpec

\* With one publisher at a time, every node is sent the messages in order.
THEOREM SequentialAnnouncedInOrder == SequentialSpec => []AnnouncedInOrder
BY SInvHolds, PTL DEF SInv, Ascending, AnnouncedInOrder

\* With one publisher at a time, replay_channel's verdict never hides a message
\* that was trimmed past the client's position.
THEOREM SequentialGapIsReported == SequentialSpec => []GapIsReported
<1>1. SInv => GapIsReported
  <2>. SUFFICES ASSUME SInv, NEW a \in 1..counter, NEW i \in 1..base,
                       seq[arrivals[i]] > a, seq[arrivals[i]] \notin Retained
                PROVE  Gap(a)
    BY DEF GapIsReported, LossIsReported
  <2>1. TypeOK /\ counter \in Nat /\ arrivals \in Seq(Requests) /\ base \in 0..Len(arrivals) /\ Len(arrivals) \in Nat
    BY SMTT(30) DEF SInv, PInv, TypeOK
  <2>2. base + 1 \in base + 1..Len(arrivals)
    BY <2>1 DEF SInv, PInv, BufferOK
  <2>3. Retained # {}
    BY ZenonT(60), <2>2 DEF Retained
  <2>4. ASSUME NEW j \in base + 1..Len(arrivals) PROVE a + 1 < seq[arrivals[j]]
    <3>1. i \in DOMAIN arrivals /\ j \in DOMAIN arrivals /\ i < j
      BY <2>1
    <3>2. seq[arrivals[i]] < seq[arrivals[j]]
      BY <3>1 DEF SInv, Ascending, Retained
    <3>3. seq[arrivals[i]] \in Nat /\ seq[arrivals[j]] \in Nat
      BY <2>1, <3>1 DEF TypeOK
    <3>. QED BY <2>1, <3>2, <3>3
  <2>. QED BY <2>1, <2>3, <2>4 DEF Gap, Retained
<1>. QED BY <1>1, SInvHolds, PTL
=============================================================================
