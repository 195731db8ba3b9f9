--------------------------- MODULE GatewayProofs ---------------------------
(***************************************************************************)
(* Proofs about Gateway for any number of connections and any bounds.      *)
(* For any clients: types, one listener at most, and how far the tenant    *)
(* limit can be passed.  For clients that pair SUBSCRIBE and UNSUBSCRIBE:  *)
(* the subscriber count is exact, so the listener runs exactly while it is *)
(* needed.                                                                 *)
(***************************************************************************)
EXTENDS Gateway, FiniteSetTheorems, TLAPS

RegisteredPc == {"online", "connected", "recv", "replay", "sadd", "expire", "srem"} \cup CleanupPc
UnregisteredPc == {"new", "hello", "session", "ended"}

RegistryOK ==
  \A c \in Conns : /\ pc[c] \in RegisteredPc => c \in registry
                   /\ pc[c] \in UnregisteredPc => c \notin registry

LimitOK ==
  /\ Cardinality(Handshaking) <= MaxHandshakes
  /\ Cardinality(registry \cup Admitted) <= TenantLimit + MaxHandshakes - 1

GInv == TypeOK /\ RegistryOK /\ OneListener /\ LimitOK

\* Any subset of the connections is finite.
LEMMA ConnsFinite ==
  ASSUME NEW S \in SUBSET Conns
  PROVE  IsFiniteSet(S) /\ Cardinality(S) \in Nat
BY GatewayAssumption, FS_Subset, FS_CardinalityType

\* A smaller set of connections has no more members.
LEMMA ConnsSubset ==
  ASSUME NEW S \in SUBSET Conns, NEW T \in SUBSET S
  PROVE  Cardinality(T) <= Cardinality(S)
<1>1. IsFiniteSet(S)
  BY ConnsFinite
<1>. QED BY <1>1, FS_Subset

\* What the listener helpers do: at most one task, and it is the entry's.
LEMMA ListenerSteps ==
  ASSUME TypeOK, OneListener
  PROVE  /\ StartListener => /\ entry' = TRUE /\ tasks' = 1 /\ attached' \in BOOLEAN
         /\ ReleaseSubscriber => /\ tasks' = IF entry' THEN 1 ELSE 0
                                 /\ entry' \in BOOLEAN /\ attached' \in BOOLEAN /\ count' \in Nat
         /\ UNCHANGED <<entry, tasks, attached>> => tasks' = IF entry' THEN 1 ELSE 0
<1>1. entry \in BOOLEAN /\ attached \in BOOLEAN /\ count \in Nat /\ tasks = IF entry THEN 1 ELSE 0
  BY DEF TypeOK, OneListener
<1>2. ASSUME StartListener PROVE entry' = TRUE /\ tasks' = 1 /\ attached' \in BOOLEAN
  <2>1. CASE entry
    <3>1. entry' = entry /\ tasks' = tasks /\ attached' = attached
      BY <1>2, <2>1 DEF StartListener
    <3>2. tasks = 1
      BY <1>1, <2>1
    <3>3. entry = TRUE
      BY <1>1, <2>1
    <3>. QED BY <1>1, <3>1, <3>2, <3>3
  <2>2. CASE ~entry
    <3>1. entry' = TRUE /\ tasks' = tasks + 1 /\ attached' = FALSE
      BY <1>2, <2>2 DEF StartListener
    <3>2. tasks = 0
      BY <1>1, <2>2
    <3>3. tasks' = 1
      BY <3>1, <3>2
    <3>. QED BY ZenonT(60), <3>1, <3>3
  <2>. QED BY ZenonT(60), <2>1, <2>2
<1>3. ASSUME ReleaseSubscriber
      PROVE  /\ tasks' = IF entry' THEN 1 ELSE 0
             /\ entry' \in BOOLEAN /\ attached' \in BOOLEAN /\ count' \in Nat
  <2>1. count' \in Nat
    BY <1>1, <1>3 DEF ReleaseSubscriber
  <2>2. CASE count <= 1 /\ entry
    <3>1. entry' = FALSE /\ tasks' = tasks - 1 /\ attached' = FALSE
      BY <1>3, <2>2 DEF ReleaseSubscriber
    <3>2. tasks = 1
      BY <1>1, <2>2
    <3>3. tasks' = 0
      BY <3>1, <3>2
    <3>. QED BY ZenonT(60), <2>1, <3>1, <3>3
  <2>3. CASE ~(count <= 1 /\ entry)
    BY <1>1, <1>3, <2>1, <2>3 DEF ReleaseSubscriber
  <2>. QED BY <2>2, <2>3
<1>. QED BY ZenonT(60), <1>1, <1>2, <1>3

\* A step of c that stays out of the handshake keeps the limits, as long as it
\* registers nobody.
LEMMA QuietLimit ==
  ASSUME GInv, registry' \subseteq registry, TypeOK', NEW c \in Conns, NEW at \in Pcs \ {"hello", "session"},
         Goto(c, at), at \in HandshakePc => pc[c] \in HandshakePc
  PROVE  LimitOK'
<1>1. pc' = [pc EXCEPT ![c] = at] /\ pc \in [Conns -> Pcs]
  BY DEF Goto, GInv, TypeOK
<1>2. Handshaking' \subseteq Handshaking /\ Admitted' \subseteq Admitted
  BY <1>1 DEF Handshaking, Admitted
<1>3. Handshaking \subseteq Conns /\ Admitted \subseteq Conns /\ registry \subseteq Conns
  BY DEF Handshaking, Admitted, GInv, TypeOK
<1>4. /\ Cardinality(Handshaking') <= Cardinality(Handshaking)
      /\ Cardinality(registry' \cup Admitted') <= Cardinality(registry \cup Admitted)
  BY <1>2, <1>3, ConnsSubset
<1>5. /\ Cardinality(Handshaking') \in Nat /\ Cardinality(Handshaking) \in Nat
      /\ Cardinality(registry' \cup Admitted') \in Nat /\ Cardinality(registry \cup Admitted) \in Nat
  BY <1>2, <1>3, ConnsFinite
<1>. QED BY <1>4, <1>5, GatewayAssumption DEF GInv, LimitOK

\* A step that moves no handler and changes no registry keeps the limits.
LEMMA StillLimit ==
  ASSUME GInv, UNCHANGED <<pc, registry>>
  PROVE  LimitOK' /\ RegistryOK'
BY DEF GInv, LimitOK, Handshaking, Admitted, RegistryOK

\* _cleanup_connection up to its first await.
LEMMA CleanupStep ==
  ASSUME GInv, NEW c \in Conns, pc[c] \in {"recv", "sadd", "expire", "srem", "replay"}, Cleanup(c),
         UNCHANGED <<noted, drops, frames>>, faults' \in 0..MaxFaults
  PROVE  GInv'
<1>1. TypeOK /\ OneListener /\ c \in registry
  BY DEF GInv, RegistryOK, RegisteredPc
<1>2. PICK at \in {"cleanup_srem", "ended", "offline"} :
        /\ Goto(c, at)
        /\ registry' = IF at = "ended" THEN registry \ {c} ELSE registry
        /\ subs' = IF at = "ended" THEN subs \ {c} ELSE subs
  <2>1. CASE c \in subs /\ count <= 1
    BY <2>1 DEF Cleanup
  <2>2. CASE ~(c \in subs /\ count <= 1) /\ c \notin Named
    BY <2>2 DEF Cleanup
  <2>3. CASE ~(c \in subs /\ count <= 1) /\ c \in Named
    BY <2>3 DEF Cleanup
  <2>. QED BY <2>1, <2>2, <2>3
<1>3. ReleaseSubscriber \/ UNCHANGED <<count, entry, tasks, attached>>
  BY DEF Cleanup
<1>4. OneListener' /\ entry' \in BOOLEAN /\ attached' \in BOOLEAN /\ count' \in Nat
  <2>1. CASE ReleaseSubscriber
    BY <1>1, <2>1, ListenerSteps DEF OneListener
  <2>2. CASE UNCHANGED <<count, entry, tasks, attached>>
    BY <1>1, <2>2 DEF OneListener, TypeOK
  <2>. QED BY <1>3, <2>1, <2>2
<1>5. tasks' \in Nat
  BY <1>4 DEF OneListener
<1>6. pc' \in [Conns -> Pcs] /\ pc'[c] = at /\ \A d \in Conns : d # c => pc'[d] = pc[d]
  BY <1>1, <1>2 DEF Goto, TypeOK, Pcs, CleanupPc
<1>7. registry' \subseteq registry /\ registry' \subseteq Conns /\ subs' \subseteq registry'
  BY <1>1, <1>2 DEF TypeOK
<1>8. noted' \in BOOLEAN
  BY <1>1 DEF TypeOK
<1>9. TypeOK'
  BY <1>1, <1>4, <1>5, <1>6, <1>7, <1>8 DEF TypeOK
<1>10. RegistryOK'
  BY <1>1, <1>2, <1>6 DEF GInv, RegistryOK, RegisteredPc, UnregisteredPc, CleanupPc
<1>11. at \in Pcs \ {"hello", "session"} /\ at \notin HandshakePc
  BY DEF Pcs, CleanupPc, HandshakePc
<1>12. LimitOK'
  BY <1>2, <1>7, <1>9, <1>11, QuietLimit
<1>. QED BY <1>4, <1>9, <1>10, <1>12 DEF GInv

\* A step of one handler that leaves the listener and the count alone.
LEMMA HandlerStep ==
  ASSUME GInv, NEW c \in Conns, NEW at \in Pcs \ {"hello", "session"}, Goto(c, at),
         at \in HandshakePc => pc[c] \in HandshakePc,
         UNCHANGED listenerVars, count' \in Nat, noted' \in BOOLEAN,
         frames' \in [Conns -> 0..MaxFrames], faults' \in 0..MaxFaults,
         registry' = IF at = "ended" THEN registry \ {c} ELSE registry,
         subs' \subseteq registry',
         c \in registry => at \notin UnregisteredPc \ {"ended"},
         c \notin registry => at \notin RegisteredPc
  PROVE  GInv'
<1>1. pc' \in [Conns -> Pcs] /\ pc'[c] = at /\ \A d \in Conns : d # c => pc'[d] = pc[d]
  BY DEF Goto, GInv, TypeOK
<1>2. OneListener' /\ tasks' \in Nat /\ drops' \in 0..MaxDrops
  BY DEF GInv, OneListener, listenerVars, TypeOK
<1>3. entry' \in BOOLEAN /\ attached' \in BOOLEAN
  BY DEF GInv, listenerVars, TypeOK
<1>4. registry' \subseteq registry /\ registry' \subseteq Conns
  BY DEF GInv, TypeOK
<1>5. TypeOK'
  BY <1>1, <1>2, <1>3, <1>4 DEF TypeOK
<1>6. RegistryOK'
  <2>1. ASSUME NEW d \in Conns, d # c PROVE d \in registry' <=> d \in registry
    BY <2>1
  <2>2. c \in registry' <=> c \in registry /\ at # "ended"
    OBVIOUS
  <2>3. "ended" \notin RegisteredPc
    BY DEF RegisteredPc, CleanupPc
  <2>. QED BY <1>1, <2>1, <2>2, <2>3 DEF GInv, RegistryOK
<1>7. LimitOK'
  BY <1>4, <1>5, QuietLimit
<1>. QED BY <1>2, <1>5, <1>6, <1>7 DEF GInv

\* Every step keeps the invariant: one case per action.
LEMMA GInvStep == ASSUME GInv, [Next]_vars PROVE GInv'
<1>. USE GatewayAssumption
<1>t. TypeOK /\ RegistryOK /\ OneListener /\ LimitOK
  BY DEF GInv
<1>p. HandshakePc \subseteq Pcs /\ CleanupPc \subseteq Pcs
  BY DEF Pcs
<1>1. ASSUME NEW c \in Conns, Accept(c) PROVE GInv'
  <2>1. pc[c] = "new" /\ pc' = [pc EXCEPT ![c] = "hello"] /\ UNCHANGED <<registry, channelVars, frames, faults>>
    BY <1>1 DEF Accept, Goto
  <2>2. TypeOK'
    BY <1>t, <2>1 DEF TypeOK, channelVars, listenerVars, Pcs, HandshakePc
  <2>3. RegistryOK' /\ OneListener'
    BY <1>t, <2>1 DEF TypeOK, RegistryOK, OneListener, channelVars, listenerVars, RegisteredPc, UnregisteredPc, CleanupPc
  <2>4. Handshaking' = Handshaking \cup {c} /\ Admitted' = Admitted /\ c \notin Handshaking
    BY <1>t, <2>1 DEF TypeOK, Handshaking, Admitted, HandshakePc
  <2>5. Handshaking \subseteq Conns
    BY DEF Handshaking
  <2>6. Cardinality(Handshaking') = Cardinality(Handshaking) + 1 /\ Cardinality(Handshaking) \in Nat
    BY <2>4, <2>5, ConnsFinite, FS_AddElement
  <2>7. LimitOK'
    BY <1>1, <1>t, <2>1, <2>4, <2>6 DEF Accept, LimitOK
  <2>. QED BY <2>2, <2>3, <2>7 DEF GInv
<1>2. ASSUME NEW c \in Conns, ConnectFrame(c), Cardinality(registry) < TenantLimit PROVE GInv'
  <2>0. Cardinality(registry) \in Nat
    BY <1>t, ConnsFinite DEF TypeOK
  <2>1. pc[c] = "hello" /\ pc' = [pc EXCEPT ![c] = "session"] /\ UNCHANGED <<registry, channelVars, frames, faults>>
    BY <1>2, <2>0 DEF ConnectFrame, Goto
  <2>2. TypeOK'
    BY <1>t, <2>1 DEF TypeOK, channelVars, listenerVars, Pcs, HandshakePc
  <2>3. RegistryOK' /\ OneListener'
    BY <1>t, <2>1 DEF TypeOK, RegistryOK, OneListener, channelVars, listenerVars, RegisteredPc, UnregisteredPc, CleanupPc
  <2>4. Handshaking' = Handshaking /\ Admitted' \subseteq Handshaking /\ Handshaking \subseteq Conns
    BY <1>t, <2>1 DEF TypeOK, Handshaking, Admitted, HandshakePc
  <2>5. Cardinality(Admitted') <= Cardinality(Handshaking) /\ Cardinality(Admitted') \in Nat
        /\ Cardinality(Handshaking) \in Nat /\ IsFiniteSet(Admitted') /\ IsFiniteSet(registry)
    BY <1>t, <2>4, ConnsSubset, ConnsFinite DEF TypeOK
  <2>6. Cardinality(registry \cup Admitted') = Cardinality(registry) + Cardinality(Admitted')
                                               - Cardinality(registry \cap Admitted')
    BY <2>5, FS_Union
  <2>7. Cardinality(registry \cap Admitted') \in Nat /\ Cardinality(registry \cup Admitted') \in Nat
    <3>1. registry \cap Admitted' \subseteq Conns /\ registry \cup Admitted' \subseteq Conns
      BY <1>t, <2>4 DEF TypeOK
    <3>. QED BY <3>1, ConnsFinite
  <2>8. LimitOK'
    BY <1>2, <1>t, <2>0, <2>1, <2>4, <2>5, <2>6, <2>7 DEF LimitOK
  <2>. QED BY <2>2, <2>3, <2>8 DEF GInv
<1>3. ASSUME NEW c \in Conns, HandshakeRefused(c) \/ (ConnectFrame(c) /\ ~(Cardinality(registry) < TenantLimit))
      PROVE  GInv'
  <2>0. Cardinality(registry) \in Nat
    BY <1>t, ConnsFinite DEF TypeOK
  <2>1. pc[c] = "hello" /\ Goto(c, "ended") /\ UNCHANGED <<registry, channelVars, frames, faults>>
    BY <1>3, <2>0 DEF ConnectFrame, HandshakeRefused
  <2>2. c \notin registry
    BY <1>t, <2>1 DEF RegistryOK, UnregisteredPc
  <2>3. "ended" \in Pcs \ {"hello", "session"} /\ "ended" \notin HandshakePc /\ "ended" \notin RegisteredPc
    BY DEF Pcs, HandshakePc, RegisteredPc, CleanupPc
  <2>4. registry' = registry \ {c} /\ subs' \subseteq registry' /\ count' \in Nat /\ UNCHANGED listenerVars
        /\ frames' \in [Conns -> 0..MaxFrames] /\ faults' \in 0..MaxFaults
    BY <1>t, <2>1, <2>2 DEF TypeOK, channelVars
  <2>5. noted' \in BOOLEAN
    BY <1>t, <2>1 DEF TypeOK, channelVars
  <2>. QED BY <2>1, <2>2, <2>3, <2>4, <2>5, HandlerStep
<1>4. ASSUME NEW c \in Conns, SessionReady(c) PROVE GInv'
  <2>1. PICK at \in {"online", "connected"} : pc' = [pc EXCEPT ![c] = at]
    BY ZenonT(60), <1>4 DEF SessionReady, Goto
  <2>2. pc[c] = "session" /\ registry' = registry \cup {c} /\ UNCHANGED <<channelVars, frames, faults>>
    BY <1>4 DEF SessionReady
  <2>3. TypeOK'
    BY <1>t, <2>1, <2>2 DEF TypeOK, channelVars, listenerVars, Pcs, HandshakePc
  <2>4. RegistryOK' /\ OneListener'
    BY <1>t, <2>1, <2>2 DEF TypeOK, RegistryOK, OneListener, channelVars, listenerVars, RegisteredPc, UnregisteredPc, CleanupPc
  <2>5. Handshaking' = Handshaking /\ registry' \cup Admitted' = registry \cup Admitted
    BY <1>t, <2>1, <2>2 DEF TypeOK, Handshaking, Admitted, HandshakePc
  <2>6. LimitOK'
    BY ZenonT(60), <1>t, <2>5 DEF LimitOK
  <2>. QED BY <2>3, <2>4, <2>6 DEF GInv
<1>5. ASSUME NEW c \in Conns,
             PresenceOnline(c) \/ ConnectedSent(c) \/ HandshakeRaises(c) \/ CleanupRaises(c) PROVE GInv'
  <2>1. PICK at \in {"connected", "recv", "raised"} : Goto(c, at)
    BY <1>5 DEF PresenceOnline, ConnectedSent, HandshakeRaises, CleanupRaises
  <2>2. UNCHANGED <<registry, channelVars, frames>> /\ faults' \in 0..MaxFaults
    BY <1>5, <1>t DEF PresenceOnline, ConnectedSent, HandshakeRaises, CleanupRaises, TypeOK
  <2>3. pc[c] \in {"session", "online", "connected"} \cup CleanupPc
        /\ (at # "raised" => pc[c] \in {"online", "connected"})
        /\ (at = "connected" => pc[c] \in HandshakePc)
    <3>1. pc' = [pc EXCEPT ![c] = at] /\ pc'[c] = at
      BY <1>t, <2>1 DEF Goto, TypeOK
    <3>2. ASSUME at # "raised" PROVE ~HandshakeRaises(c) /\ ~CleanupRaises(c)
      BY <1>t, <3>1, <3>2 DEF HandshakeRaises, CleanupRaises, Goto, TypeOK
    <3>. QED BY <1>5, <3>2 DEF PresenceOnline, ConnectedSent, HandshakeRaises, CleanupRaises, HandshakePc
  <2>4. at \in Pcs \ {"hello", "session"} /\ (at \in HandshakePc => pc[c] \in HandshakePc)
    BY <2>3 DEF Pcs, HandshakePc
  <2>5. (at \in RegisteredPc => c \in registry) /\ at \notin UnregisteredPc
    BY <1>t, <2>3 DEF RegistryOK, RegisteredPc, UnregisteredPc, CleanupPc
  <2>6. registry' = registry /\ subs' \subseteq registry' /\ count' \in Nat /\ UNCHANGED listenerVars
        /\ frames' \in [Conns -> 0..MaxFrames] /\ at # "ended"
    BY <1>t, <2>2 DEF TypeOK, channelVars
  <2>7. noted' \in BOOLEAN
    BY <1>t, <2>2 DEF TypeOK, channelVars
  <2>. QED BY <2>1, <2>2, <2>4, <2>5, <2>6, <2>7, HandlerStep
<1>6. ASSUME NEW c \in Conns,
             SubscribeFrame(c) \/ ResumeFrame(c) \/ ReplayDone(c) \/ SubscribeAdds(c) \/ UnsubscribeDone(c)
      PROVE  GInv'
  <2>1. PICK at \in {"sadd", "replay", "recv", "expire"} : Goto(c, at)
    BY <1>6 DEF SubscribeFrame, ResumeFrame, ReplayDone, SubscribeAdds, UnsubscribeDone
  <2>2. pc[c] \in {"recv", "replay", "sadd", "srem"}
    BY <1>6 DEF SubscribeFrame, ResumeFrame, ReplayDone, SubscribeAdds, UnsubscribeDone, ChannelFrame
  <2>3. c \in registry
    BY <1>t, <2>2 DEF RegistryOK, RegisteredPc
  <2>4. UNCHANGED <<registry, faults, listenerVars>>
    BY <1>6 DEF SubscribeFrame, ResumeFrame, ReplayDone, SubscribeAdds, UnsubscribeDone, channelVars
  <2>5. frames' \in [Conns -> 0..MaxFrames]
    BY <1>6, <1>t DEF SubscribeFrame, ResumeFrame, ReplayDone, SubscribeAdds, UnsubscribeDone, ChannelFrame, TypeOK
  <2>6. (subs' = subs \/ subs' = subs \cup {c}) /\ count' \in Nat
    BY <1>6, <1>t DEF SubscribeFrame, ResumeFrame, ReplayDone, SubscribeAdds, UnsubscribeDone,
                      CountSubscriber, channelVars, TypeOK
  <2>7. noted' \in BOOLEAN
    BY ZenonT(60), <1>6, <1>t DEF SubscribeFrame, ResumeFrame, ReplayDone, SubscribeAdds, UnsubscribeDone, channelVars, TypeOK
  <2>8. subs' \subseteq registry' /\ registry' = registry /\ faults' \in 0..MaxFaults
    BY <1>t, <2>3, <2>4, <2>6 DEF TypeOK
  <2>9. at \in Pcs \ {"hello", "session"} /\ at \notin HandshakePc /\ at # "ended" /\ at \notin UnregisteredPc
    BY DEF Pcs, HandshakePc, UnregisteredPc
  <2>. QED BY SMTT(30), <2>1, <2>3, <2>4, <2>5, <2>6, <2>7, <2>8, <2>9, HandlerStep
<1>7. ASSUME NEW c \in Conns, CleanupRemoves(c) \/ PresenceOffline(c) PROVE GInv'
  <2>1. PICK at \in {"offline", "ended"} :
          /\ Goto(c, at) /\ registry' = IF at = "ended" THEN registry \ {c} ELSE registry
          /\ subs' = IF at = "ended" THEN subs \ {c} ELSE subs
    BY <1>7 DEF CleanupRemoves, PresenceOffline
  <2>2. pc[c] \in CleanupPc /\ UNCHANGED <<count, listenerVars, frames, faults>>
    BY <1>7 DEF CleanupRemoves, PresenceOffline, CleanupPc
  <2>3. noted' \in BOOLEAN
    BY ZenonT(60), <1>7, <1>t DEF CleanupRemoves, PresenceOffline, TypeOK
  <2>4. c \in registry
    BY <1>t, <2>2 DEF RegistryOK, RegisteredPc
  <2>5. at \in Pcs \ {"hello", "session"} /\ at \notin HandshakePc /\ at \notin UnregisteredPc \ {"ended"}
    BY DEF Pcs, HandshakePc, UnregisteredPc, CleanupPc
  <2>6. subs' \subseteq registry' /\ count' \in Nat /\ frames' \in [Conns -> 0..MaxFrames] /\ faults' \in 0..MaxFaults
    BY <1>t, <2>1, <2>2 DEF TypeOK
  <2>. QED BY <2>1, <2>2, <2>3, <2>4, <2>5, <2>6, HandlerStep
<1>8. ASSUME NEW c \in Conns, SubscribeDone(c) \/ UnsubscribeFrame(c) PROVE GInv'
  <2>1. PICK at \in {"recv", "srem"} : Goto(c, at)
    BY <1>8 DEF SubscribeDone, UnsubscribeFrame
  <2>2. UNCHANGED <<registry, noted, drops, faults>> /\ pc[c] \in {"expire", "recv"}
    BY <1>8 DEF SubscribeDone, UnsubscribeFrame, ChannelFrame
  <2>3. OneListener' /\ entry' \in BOOLEAN /\ attached' \in BOOLEAN /\ count' \in Nat
    <3>1. CASE SubscribeDone(c)
      <4>1. entry' = TRUE /\ tasks' = 1 /\ attached' \in BOOLEAN
        BY <1>t, <3>1, ListenerSteps DEF SubscribeDone
      <4>2. count' \in Nat
        BY <1>t, <3>1 DEF SubscribeDone, TypeOK
      <4>. QED BY <4>1, <4>2 DEF OneListener
    <3>2. CASE UnsubscribeFrame(c)
      BY <1>t, <3>2, ListenerSteps DEF UnsubscribeFrame, OneListener
    <3>. QED BY <1>8, <3>1, <3>2
  <2>4. tasks' \in Nat
    BY <2>3 DEF OneListener
  <2>5. frames' \in [Conns -> 0..MaxFrames] /\ subs' \subseteq subs
    BY <1>8, <1>t DEF SubscribeDone, UnsubscribeFrame, ChannelFrame, TypeOK
  <2>6. pc' \in [Conns -> Pcs] /\ pc'[c] = at /\ \A d \in Conns : d # c => pc'[d] = pc[d]
    BY <1>t, <2>1 DEF Goto, TypeOK, Pcs
  <2>7. noted' \in BOOLEAN
    BY <1>t, <2>2 DEF TypeOK
  <2>8. TypeOK'
    BY <1>t, <2>2, <2>3, <2>4, <2>5, <2>6, <2>7 DEF TypeOK
  <2>9. RegistryOK'
    BY <1>t, <2>2, <2>6 DEF RegistryOK, RegisteredPc, UnregisteredPc
  <2>10. at \in Pcs \ {"hello", "session"} /\ at \notin HandshakePc /\ registry' \subseteq registry
    BY <2>2 DEF Pcs, HandshakePc
  <2>11. LimitOK'
    BY <2>1, <2>8, <2>10, QuietLimit
  <2>. QED BY <2>3, <2>8, <2>9, <2>11 DEF GInv
<1>9. ASSUME NEW c \in Conns, FrameLoopEnds(c) PROVE GInv'
  BY <1>9, <1>t, CleanupStep DEF FrameLoopEnds, TypeOK
<1>10. ASSUME NEW c \in Conns, FrameRaises(c) PROVE GInv'
  <2>1. faults' \in 0..MaxFaults
    BY <1>10, <1>t DEF FrameRaises, TypeOK
  <2>. QED BY <1>10, <2>1, CleanupStep DEF FrameRaises
<1>11. ASSUME ListenerAttaches \/ ListenerDrops \/ RoomNodesExpire \/ UNCHANGED vars PROVE GInv'
  <2>1. UNCHANGED <<pc, registry, subs, count, entry, tasks, frames, faults>>
    BY <1>11 DEF ListenerAttaches, ListenerDrops, RoomNodesExpire, vars, channelVars, listenerVars
  <2>2. drops' \in 0..MaxDrops
    BY <1>11, <1>t DEF ListenerAttaches, ListenerDrops, RoomNodesExpire, vars, channelVars, listenerVars, TypeOK
  <2>3. attached' \in BOOLEAN /\ noted' \in BOOLEAN
    BY ZenonT(60), <1>11, <1>t DEF ListenerAttaches, ListenerDrops, RoomNodesExpire, vars, channelVars, listenerVars, TypeOK
  <2>4. TypeOK'
    BY <1>t, <2>1, <2>2, <2>3 DEF TypeOK
  <2>5. OneListener'
    BY <1>t, <2>1 DEF OneListener
  <2>. QED BY <2>1, <2>4, <2>5, StillLimit DEF GInv
<1>. QED
  BY SMTT(30), <1>1, <1>2, <1>3, <1>4, <1>5, <1>6, <1>7, <1>8, <1>9, <1>10, <1>11 DEF Next, Step, Fault, Client

\* The invariant holds initially.
LEMMA GInvInit == Init => GInv
<1>. SUFFICES ASSUME Init PROVE GInv
  OBVIOUS
<1>1. TypeOK
  <2>1. entry \in BOOLEAN /\ attached \in BOOLEAN /\ noted \in BOOLEAN
    BY ZenonT(60) DEF Init
  <2>. QED BY <2>1, GatewayAssumption DEF Init, TypeOK, Pcs
<1>2. RegistryOK /\ OneListener
  BY DEF Init, RegistryOK, OneListener, RegisteredPc, CleanupPc
<1>3. Handshaking = {} /\ Admitted = {} /\ registry \cup Admitted = {}
  BY DEF Init, Handshaking, Admitted, HandshakePc
<1>4. LimitOK
  BY <1>3, GatewayAssumption, FS_EmptySet DEF LimitOK
<1>. QED BY <1>1, <1>2, <1>4 DEF GInv

\* The invariant holds in every state, whatever the clients send.
LEMMA GInvHolds == Spec => []GInv
BY GInvInit, GInvStep, PTL DEF Spec

\* The node's state keeps its type; subscribers are registered connections.
THEOREM GatewayTypes == Spec => []TypeOK
BY GInvHolds, PTL DEF GInv

\* A node never runs two listeners of one channel, nor one it has forgotten.
THEOREM GatewayOneListener == Spec => []OneListener
BY GInvHolds, PTL DEF GInv

\* A handler that came to its end has left the registry (_cleanup_connection).
THEOREM GatewayNoGhosts == Spec => []NoGhosts
<1>1. GInv => NoGhosts
  BY DEF GInv, TypeOK, RegistryOK, UnregisteredPc, NoGhosts
<1>. QED BY <1>1, GInvHolds, PTL

\* The tenant limit is passed by the handshakes in flight at most.
THEOREM GatewayTenantOvershoot == Spec => []TenantOvershoot
<1>1. GInv => TenantOvershoot
  <2>. SUFFICES ASSUME GInv PROVE TenantOvershoot
    OBVIOUS
  <2>1. registry \cup Admitted \subseteq Conns /\ registry \subseteq registry \cup Admitted
    BY DEF GInv, TypeOK, Admitted
  <2>2. Cardinality(registry) <= Cardinality(registry \cup Admitted)
        /\ Cardinality(registry) \in Nat /\ Cardinality(registry \cup Admitted) \in Nat
    BY <2>1, ConnsSubset, ConnsFinite
  <2>. QED BY <2>2, GatewayAssumption DEF GInv, LimitOK, TenantOvershoot
<1>. QED BY <1>1, GInvHolds, PTL

-----------------------------------------------------------------------------
(* Clients that pair SUBSCRIBE and UNSUBSCRIBE *)

\* A handler between its awaits holds the channel or has given it up.
HandlerOK(c) ==
  /\ pc[c] \in {"sadd", "expire"} => c \in subs
  /\ pc[c] \in {"new", "srem"} \cup HandshakePc => c \notin subs

\* The count is exact and a settled subscriber has its listener.
PairedInv ==
  /\ GInv
  /\ CountIsExact
  /\ ListenerForSubscribers
  /\ entry => count > 0
  /\ \A c \in Conns : HandlerOK(c)

\* The holders are finitely many.
LEMMA HoldersFinite ==
  ASSUME GInv
  PROVE  Holders \subseteq Conns /\ IsFiniteSet(Holders) /\ Cardinality(Holders) \in Nat /\ count \in Nat
<1>1. Holders \subseteq Conns /\ count \in Nat
  BY DEF Holders, GInv, TypeOK
<1>. QED BY <1>1, ConnsFinite

\* A step of c that changes neither the holders nor the listener, and settles
\* nobody.
LEMMA KeepHolders ==
  ASSUME PairedInv, GInv', NEW c \in Conns, Holders' = Holders, count' = count, entry' = entry,
         Settled' \subseteq Settled, HandlerOK(c)',
         \A d \in Conns : d # c => pc'[d] = pc[d] /\ (d \in subs' <=> d \in subs)
  PROVE  PairedInv'
<1>1. CountIsExact' /\ ListenerForSubscribers' /\ (entry' => count' > 0)
  BY DEF PairedInv, CountIsExact, ListenerForSubscribers
<1>. QED BY <1>1 DEF PairedInv, HandlerOK

\* One holder less, through UNSUBSCRIBE or _cleanup_connection.
LEMMA ReleaseHolder ==
  ASSUME PairedInv, GInv', NEW c \in Holders, Holders' = Holders \ {c}, ReleaseSubscriber,
         HandlerOK(c)', Settled' \subseteq Settled,
         \A d \in Conns : d # c => pc'[d] = pc[d] /\ (d \in subs' <=> d \in subs)
  PROVE  PairedInv'
<1>1. Holders \subseteq Conns /\ IsFiniteSet(Holders) /\ Cardinality(Holders) \in Nat /\ count \in Nat
  BY HoldersFinite DEF PairedInv
<1>2. Cardinality(Holders') = Cardinality(Holders) - 1 /\ IsFiniteSet(Holders')
  BY <1>1, FS_RemoveElement, FS_Subset
<1>3. Cardinality(Holders) > 0
  BY SMTT(30), <1>1, FS_EmptySet
<1>4. count' = count - 1 /\ CountIsExact' /\ count' \in Nat
  BY <1>1, <1>2, <1>3 DEF PairedInv, CountIsExact, ReleaseSubscriber
<1>5. CASE count = 1
  <2>1. entry' = FALSE
    <3>1. entry => entry' = FALSE
      BY <1>5 DEF ReleaseSubscriber
    <3>2. ~entry => entry' = entry
      BY <1>5 DEF ReleaseSubscriber
    <3>3. entry \in BOOLEAN
      BY DEF PairedInv, GInv, TypeOK
    <3>. QED BY <3>1, <3>2, <3>3
  <2>2. Holders' = {}
    BY SMTT(30), <1>2, <1>4, <1>5, FS_EmptySet DEF CountIsExact
  <2>3. Settled' \subseteq Holders'
    BY DEF Settled, Holders, CleanupPc
  <2>4. ListenerForSubscribers' /\ (entry' => count' > 0)
    BY SMTT(30), <2>1, <2>2, <2>3 DEF ListenerForSubscribers
  <2>. QED BY <1>1, <1>4, <2>4 DEF PairedInv, HandlerOK
<1>6. CASE count > 1
  <2>1. entry' = entry
    BY <1>1, <1>6 DEF ReleaseSubscriber
  <2>2. ListenerForSubscribers' /\ (entry' => count' > 0)
    BY <1>1, <1>4, <1>6, <2>1 DEF PairedInv, ListenerForSubscribers
  <2>. QED BY <1>1, <1>4, <2>2 DEF PairedInv, HandlerOK
<1>7. count = 1 \/ count > 1
  BY <1>1, <1>3 DEF PairedInv, CountIsExact
<1>. QED BY <1>5, <1>6, <1>7

\* One holder more, through SUBSCRIBE or a replay.
LEMMA AddHolder ==
  ASSUME PairedInv, GInv', NEW c \in Conns, c \notin subs, CountSubscriber(c), Goto(c, "sadd"), entry' = entry
  PROVE  PairedInv'
<1>0. pc \in [Conns -> Pcs] /\ pc' = [pc EXCEPT ![c] = "sadd"] /\ subs' = subs \cup {c} /\ count' = count + 1
  BY DEF PairedInv, GInv, TypeOK, Goto, CountSubscriber
<1>1. Holders \subseteq Conns /\ IsFiniteSet(Holders) /\ Cardinality(Holders) \in Nat /\ count \in Nat
  BY HoldersFinite DEF PairedInv
<1>2. Holders' = Holders \cup {c} /\ c \notin Holders
  BY <1>0 DEF Holders, CleanupPc, PairedInv, GInv, TypeOK
<1>3. Cardinality(Holders') = Cardinality(Holders) + 1
  BY SMTT(30), <1>1, <1>2, FS_AddElement
<1>4. Settled' \subseteq Settled
  BY <1>0 DEF Settled, PairedInv, GInv, TypeOK
<1>5. CountIsExact' /\ ListenerForSubscribers' /\ (entry' => count' > 0)
  BY <1>0, <1>1, <1>3, <1>4 DEF PairedInv, CountIsExact, ListenerForSubscribers
<1>6. \A d \in Conns : HandlerOK(d)'
  BY <1>0 DEF PairedInv, HandlerOK, HandshakePc
<1>. QED BY <1>5, <1>6 DEF PairedInv

\* _cleanup_connection gives up the channel if the connection held it.
LEMMA CleanupPaired ==
  ASSUME PairedInv, GInv', NEW c \in Conns, pc[c] \in {"recv", "sadd", "expire", "srem", "replay"}, Cleanup(c)
  PROVE  PairedInv'
<1>0. pc \in [Conns -> Pcs] /\ subs \subseteq Conns
  BY DEF PairedInv, GInv, TypeOK
<1>1. PICK at \in {"cleanup_srem", "ended", "offline"} :
        /\ pc' = [pc EXCEPT ![c] = at]
        /\ subs' = IF at = "ended" THEN subs \ {c} ELSE subs
  <2>1. CASE c \in subs /\ count <= 1
    BY <2>1 DEF Cleanup, Goto
  <2>2. CASE ~(c \in subs /\ count <= 1) /\ c \notin Named
    BY ZenonT(60), <2>2 DEF Cleanup, Goto
  <2>3. CASE ~(c \in subs /\ count <= 1) /\ c \in Named
    BY ZenonT(60), <2>3 DEF Cleanup, Goto
  <2>. QED BY <2>1, <2>2, <2>3
<1>2. \A d \in Conns : d # c => pc'[d] = pc[d] /\ (d \in subs' <=> d \in subs)
  BY <1>0, <1>1
<1>3. HandlerOK(c)' /\ Settled' \subseteq Settled /\ Holders' = Holders \ {c}
  <2>1. pc'[c] = at /\ c \notin Holders' /\ c \notin Settled'
    BY <1>0, <1>1 DEF Holders, Settled, CleanupPc
  <2>2. HandlerOK(c)'
    BY <2>1 DEF HandlerOK, HandshakePc
  <2>3. Settled' \subseteq Settled
    BY <1>0, <1>1, <1>2, <2>1 DEF Settled
  <2>4. Holders' = Holders \ {c}
    BY SMTT(30), <1>0, <1>1, <1>2, <2>1 DEF Holders
  <2>. QED BY <2>2, <2>3, <2>4
<1>4. CASE c \in subs
  <2>1. c \in Holders /\ ReleaseSubscriber
    BY <1>4 DEF Holders, CleanupPc, Cleanup
  <2>. QED BY <1>2, <1>3, <2>1, ReleaseHolder
<1>5. CASE c \notin subs
  <2>1. c \notin Holders /\ count' = count /\ entry' = entry
    BY <1>5 DEF Holders, Cleanup
  <2>2. Holders' = Holders
    BY <1>3, <2>1
  <2>. QED BY <1>2, <1>3, <2>1, <2>2, KeepHolders
<1>. QED BY <1>4, <1>5

\* Every step of paired clients keeps the count exact: one case per action.
LEMMA PairedStep ==
  ASSUME PairedInv, [Next /\ NoResubscribe /\ NoStrayUnsubscribe]_vars
  PROVE  PairedInv'
<1>g. GInv /\ GInv' /\ pc \in [Conns -> Pcs] /\ subs \subseteq Conns
  BY GInvStep DEF PairedInv, GInv, TypeOK
<1>0. CASE UNCHANGED vars
  BY SMTT(30), <1>g, <1>0 DEF vars, channelVars, listenerVars, PairedInv, CountIsExact, ListenerForSubscribers, Holders, Settled, HandlerOK
<1>n. ASSUME Next, NoResubscribe, NoStrayUnsubscribe PROVE PairedInv'
  <2>1. ASSUME NEW c \in Conns, NEW at \in Pcs, pc' = [pc EXCEPT ![c] = at], UNCHANGED <<subs, count, entry>>,
               at \notin {"recv", "replay"} \/ c \notin subs \/ pc[c] \in {"recv", "replay"},
               c \in subs => (at \in CleanupPc \cup {"raised"} <=> pc[c] \in CleanupPc \cup {"raised"}),
               HandlerOK(c)'
        PROVE  PairedInv'
    <3>1. Holders' = Holders /\ Settled' \subseteq Settled
      BY <1>g, <2>1 DEF Holders, Settled
    <3>. QED BY <1>g, <2>1, <3>1, KeepHolders
  <2>2. ASSUME NEW c \in Conns,
               Accept(c) \/ ConnectFrame(c) \/ HandshakeRefused(c) \/ SessionReady(c) \/ PresenceOnline(c)
                 \/ ConnectedSent(c) \/ HandshakeRaises(c)
        PROVE  PairedInv'
    <3>1. UNCHANGED <<subs, count, entry>>
      BY <2>2 DEF Accept, ConnectFrame, HandshakeRefused, SessionReady, PresenceOnline, ConnectedSent,
                  HandshakeRaises, channelVars, listenerVars
    <3>2. PICK at \in {"hello", "ended", "session", "online", "connected", "recv", "raised"} :
            pc' = [pc EXCEPT ![c] = at]
      BY <2>2 DEF Accept, ConnectFrame, HandshakeRefused, SessionReady, PresenceOnline, ConnectedSent,
                  HandshakeRaises, Goto
    <3>3. pc[c] \in {"new"} \cup HandshakePc
      BY <2>2 DEF Accept, ConnectFrame, HandshakeRefused, SessionReady, PresenceOnline, ConnectedSent,
                  HandshakeRaises, HandshakePc
    <3>4. c \notin subs
      BY <3>3 DEF PairedInv, HandlerOK
    <3>5. at \in Pcs /\ HandlerOK(c)'
      BY <1>g, <3>1, <3>2, <3>4 DEF Pcs, HandshakePc, HandlerOK
    <3>. QED BY ZenonT(60), <2>1, <3>1, <3>2, <3>4, <3>5
  <2>3. ASSUME NEW c \in Conns, SubscribeFrame(c) \/ (ReplayDone(c) /\ pc'[c] = "sadd") PROVE PairedInv'
    <3>1. Goto(c, "sadd") /\ CountSubscriber(c) /\ entry' = entry /\ pc[c] \in {"recv", "replay"}
      <4>1. CASE SubscribeFrame(c)
        BY <4>1 DEF SubscribeFrame, ChannelFrame, listenerVars
      <4>2. CASE ReplayDone(c) /\ pc'[c] = "sadd"
        <5>1. ~Goto(c, "recv")
          BY <1>g, <4>2 DEF Goto
        <5>. QED BY <4>2, <5>1 DEF ReplayDone, listenerVars
      <4>. QED BY <2>3, <4>1, <4>2
    <3>2. c \notin subs
      BY <1>g, <1>n, <3>1 DEF NoResubscribe, Goto
    <3>. QED BY <1>g, <3>1, <3>2, AddHolder
  <2>4. ASSUME NEW c \in Conns, ReplayDone(c), pc'[c] # "sadd" PROVE PairedInv'
    <3>1. Goto(c, "recv") /\ UNCHANGED <<subs, count>> /\ entry' = entry /\ pc[c] = "replay"
      <4>1. ~Goto(c, "sadd")
        BY <1>g, <2>4 DEF Goto
      <4>. QED BY <2>4, <4>1 DEF ReplayDone, listenerVars
    <3>2. pc' = [pc EXCEPT ![c] = "recv"] /\ "recv" \in Pcs /\ HandlerOK(c)'
      BY <1>g, <3>1 DEF Goto, Pcs, HandlerOK, HandshakePc
    <3>. QED BY ZenonT(60), <2>1, <3>1, <3>2 DEF CleanupPc
  <2>5. ASSUME NEW c \in Conns, ResumeFrame(c) \/ SubscribeAdds(c) \/ UnsubscribeDone(c) PROVE PairedInv'
    <3>1. UNCHANGED <<subs, count>> /\ entry' = entry /\ HandlerOK(c)
      BY <2>5 DEF ResumeFrame, SubscribeAdds, UnsubscribeDone, channelVars, listenerVars, PairedInv
    <3>2. CASE ResumeFrame(c)
      <4>1. pc[c] = "recv" /\ pc' = [pc EXCEPT ![c] = "replay"] /\ "replay" \in Pcs
        BY <3>2 DEF ResumeFrame, ChannelFrame, Goto, Pcs
      <4>2. HandlerOK(c)'
        BY <1>g, <4>1 DEF HandlerOK, HandshakePc
      <4>. QED BY ZenonT(60), <2>1, <3>1, <4>1, <4>2 DEF CleanupPc
    <3>3. CASE SubscribeAdds(c)
      <4>1. pc[c] = "sadd" /\ pc' = [pc EXCEPT ![c] = "expire"] /\ "expire" \in Pcs
        BY <3>3 DEF SubscribeAdds, Goto, Pcs
      <4>2. HandlerOK(c)'
        BY <1>g, <3>1, <4>1 DEF HandlerOK, HandshakePc
      <4>. QED BY ZenonT(60), <2>1, <3>1, <4>1, <4>2 DEF CleanupPc
    <3>4. CASE UnsubscribeDone(c)
      <4>1. pc[c] = "srem" /\ pc' = [pc EXCEPT ![c] = "recv"] /\ "recv" \in Pcs
        BY <3>4 DEF UnsubscribeDone, Goto, Pcs
      <4>2. HandlerOK(c)' /\ c \notin subs
        BY <1>g, <3>1, <4>1 DEF HandlerOK, HandshakePc
      <4>. QED BY ZenonT(60), <2>1, <3>1, <4>1, <4>2 DEF CleanupPc
    <3>. QED BY <2>5, <3>2, <3>3, <3>4
  <2>6. ASSUME NEW c \in Conns, SubscribeDone(c) PROVE PairedInv'
    <3>1. pc[c] = "expire" /\ pc' = [pc EXCEPT ![c] = "recv"] /\ UNCHANGED <<subs, count>> /\ StartListener
      BY <2>6 DEF SubscribeDone, Goto
    <3>2. entry' = TRUE
      BY <3>1, ListenerSteps DEF PairedInv, GInv
    <3>3. Holders' = Holders /\ c \in Holders
      BY <1>g, <3>1 DEF Holders, CleanupPc, PairedInv, HandlerOK
    <3>4. count' > 0
      <4>1. IsFiniteSet(Holders) /\ Cardinality(Holders) \in Nat
        BY <1>g, HoldersFinite
      <4>2. Cardinality(Holders) > 0
        BY <3>3, <4>1, FS_EmptySet
      <4>. QED BY <3>1, <4>2 DEF PairedInv, CountIsExact
    <3>5. CountIsExact' /\ ListenerForSubscribers'
      BY <3>1, <3>2, <3>3 DEF PairedInv, CountIsExact, ListenerForSubscribers
    <3>6. \A d \in Conns : HandlerOK(d)'
      BY <1>g, <3>1 DEF PairedInv, HandlerOK, HandshakePc
    <3>. QED BY <1>g, <3>4, <3>5, <3>6 DEF PairedInv
  <2>7. ASSUME NEW c \in Conns, UnsubscribeFrame(c) PROVE PairedInv'
    <3>1. c \in subs /\ pc[c] = "recv" /\ subs' = subs \ {c} /\ ReleaseSubscriber
      BY ZenonT(60), <1>n, <2>7 DEF NoStrayUnsubscribe, UnsubscribeFrame, ChannelFrame
    <3>2. PICK at \in {"srem", "recv"} : pc' = [pc EXCEPT ![c] = at]
      BY ZenonT(60), <2>7 DEF UnsubscribeFrame, Goto
    <3>3. c \in Holders /\ Holders' = Holders \ {c} /\ Settled' \subseteq Settled
      BY <1>g, <3>1, <3>2 DEF Holders, Settled, CleanupPc
    <3>4. HandlerOK(c)'
      BY <1>g, <3>1, <3>2 DEF HandlerOK
    <3>. QED BY SMTT(30), <1>g, <3>1, <3>2, <3>3, <3>4, ReleaseHolder
  <2>8. ASSUME NEW c \in Conns, FrameLoopEnds(c) \/ FrameRaises(c) PROVE PairedInv'
    BY <1>g, <2>8, CleanupPaired DEF FrameLoopEnds, FrameRaises
  <2>9. ASSUME NEW c \in Conns, CleanupRemoves(c) \/ PresenceOffline(c) \/ CleanupRaises(c) PROVE PairedInv'
    <3>1. PICK at \in {"offline", "ended", "raised"} :
            pc' = [pc EXCEPT ![c] = at] /\ subs' = IF at = "ended" THEN subs \ {c} ELSE subs
      BY <2>9 DEF CleanupRemoves, PresenceOffline, CleanupRaises, channelVars, Goto
    <3>2. pc[c] \in CleanupPc /\ count' = count /\ entry' = entry
      BY <2>9 DEF CleanupRemoves, PresenceOffline, CleanupRaises, channelVars, listenerVars, CleanupPc
    <3>3. Holders' = Holders /\ Settled' \subseteq Settled
      BY <1>g, <3>1, <3>2 DEF Holders, Settled, CleanupPc
    <3>4. HandlerOK(c)'
      BY <1>g, <3>1 DEF HandlerOK, HandshakePc
    <3>. QED BY SMTT(30), <1>g, <3>1, <3>2, <3>3, <3>4, KeepHolders
  <2>10. ASSUME ListenerAttaches \/ ListenerDrops \/ RoomNodesExpire PROVE PairedInv'
    <3>1. UNCHANGED <<pc, subs, count>> /\ entry' = entry
      BY <2>10 DEF ListenerAttaches, ListenerDrops, RoomNodesExpire, listenerVars
    <3>. QED BY <1>g, <3>1 DEF PairedInv, CountIsExact, ListenerForSubscribers, Holders, Settled, HandlerOK
  <2>. QED BY SMTT(30), <1>n, <2>2, <2>3, <2>4, <2>5, <2>6, <2>7, <2>8, <2>9, <2>10 DEF Next, Step, Fault, Client
<1>. QED BY SMTT(30), <1>0, <1>n

\* The invariant of paired clients holds in every state.
LEMMA PairedInvHolds == PairedSpec => []PairedInv
<1>1. Init => PairedInv
  <2>. SUFFICES ASSUME Init PROVE PairedInv
    OBVIOUS
  <2>1. Holders = {} /\ Settled = {} /\ ~entry /\ \A c \in Conns : HandlerOK(c)
    BY DEF Init, Holders, Settled, HandlerOK
  <2>2. CountIsExact
    BY <2>1, FS_EmptySet DEF Init, CountIsExact
  <2>. QED BY <2>1, <2>2, GInvInit DEF PairedInv, ListenerForSubscribers
<1>2. PairedInv /\ [Next /\ NoResubscribe /\ NoStrayUnsubscribe]_vars => PairedInv'
  BY PairedStep
<1>. QED BY <1>1, <1>2, PTL DEF PairedSpec

\* The subscriber count is the number of connections that hold the channel.
THEOREM PairedCountIsExact == PairedSpec => []CountIsExact
BY PairedInvHolds, PTL DEF PairedInv

\* A connection that was sent SUBSCRIBED has a listener on its node.
THEOREM PairedListenerForSubscribers == PairedSpec => []ListenerForSubscribers
BY PairedInvHolds, PTL DEF PairedInv

\* The listener is gone once the last subscriber has left.
THEOREM PairedListenerIsNeeded == PairedSpec => []ListenerIsNeeded
<1>1. PairedInv => ListenerIsNeeded
  <2>. SUFFICES ASSUME PairedInv, entry, Holders = {} PROVE FALSE
    BY DEF ListenerIsNeeded
  <2>1. count > 0 /\ count = 0
    BY FS_EmptySet DEF PairedInv, CountIsExact
  <2>. QED BY <2>1
<1>. QED BY <1>1, PairedInvHolds, PTL
=============================================================================
