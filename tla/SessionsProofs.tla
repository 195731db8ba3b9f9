--------------------------- MODULE SessionsProofs ---------------------------
(***************************************************************************)
(* Proofs about Sessions for any number of tenants, keys, connections and  *)
(* sessions and any window of at least two heartbeat intervals.            *)
(***************************************************************************)
EXTENDS Sessions, TLAPS

\* What a connection knows at each point of its handshake; with the last
\* conjunct, the isolation of tenants.
Identified ==
  \A c \in Conns :
    /\ pc[c] = "auth" => key[c] \in Keys /\ keyTenant[key[c]] \in Tenants
    /\ pc[c] = "lookup" => tenant[c] \in Tenants /\ asked[c] \in SessionIds
    /\ pc[c] = "create" => tenant[c] \in Tenants
    /\ pc[c] \in Serving =>
         tenant[c] \in Tenants /\ session[c] \in SessionIds /\ madeFor[session[c]] = tenant[c]

\* The tenant_id of a hash is the tenant the session was made for.
FieldIsOwner == \A s \in SessionIds : field[s] # None => field[s] = madeFor[s]

\* The tenant_id is missing only from hashes that expired in use.
HashIsComplete == \A s \in SessionIds \ lapsed : left[s] # 0 => field[s] = madeFor[s]

\* The hash of a connection in use outlives the interval.
HashIsFresh ==
  \A c \in Conns : pc[c] \in {"live", "ackset"} /\ session[c] \notin lapsed =>
    left[session[c]] >= (IF due[c] THEN Window - 1 ELSE Window)

\* Without sharing, a session has one connection.
OneHolder ==
  \A c, d \in Conns :
    pc[c] \in Serving /\ pc[d] \in Serving /\ session[c] = session[d] /\ session[c] \notin shared
      => c = d

\* The ACK that is about to be stored is not behind the stored position.
AckInHand ==
  /\ \A s \in SessionIds : positionLeft[s] = 0 => position[s] = 0
  /\ \A c \in Conns : pc[c] = "ackset" /\ session[c] \notin shared =>
       ack[c] >= position[session[c]]

IInv ==
  /\ TypeOK /\ Identified /\ FieldIsOwner /\ HashIsComplete /\ HashIsFresh
  /\ EverlastingIsStranded /\ OneHolder /\ AckInHand

LEMMA InitInv == Init => IInv
<1> SUFFICES ASSUME Init PROVE IInv
  OBVIOUS
<1> USE DEF Init
<1>1. TypeOK
  BY SessionsAssumption DEF TypeOK, States, Serving, Forever
<1>2. Identified /\ HashIsFresh /\ OneHolder
  BY DEF Identified, HashIsFresh, OneHolder, Serving
<1>3. FieldIsOwner /\ HashIsComplete /\ EverlastingIsStranded
  BY SessionsAssumption DEF FieldIsOwner, HashIsComplete, EverlastingIsStranded, Forever
<1>4. AckInHand
  BY DEF AckInHand
<1> QED BY <1>1, <1>2, <1>3, <1>4 DEF IInv

-----------------------------------------------------------------------------
(* The control plane touches only its tables. *)

LEMMA ControlPlane ==
  ASSUME IInv, UNCHANGED <<pc, local, due, hash, positions, madeFor, shared, lapsed>>,
         tenants' \subseteq Tenants, keyTenant' \in [Keys -> Tenants \cup {None}],
         revoked' \subseteq Keys,
         \A k \in Keys : keyTenant[k] \in Tenants => keyTenant'[k] \in Tenants
  PROVE  IInv'
<1>1. UNCHANGED <<pc, local, due, hash, positions, madeFor, shared, lapsed>>
  OBVIOUS
<1>2. TypeOK'
  BY <1>1 DEF IInv, TypeOK, local, hash, positions
<1>3. Identified'
  BY <1>1 DEF IInv, Identified, local
<1>4. FieldIsOwner' /\ HashIsComplete' /\ HashIsFresh'
  BY <1>1 DEF IInv, FieldIsOwner, HashIsComplete, HashIsFresh, local, hash
<1>5. EverlastingIsStranded' /\ OneHolder'
  BY <1>1 DEF IInv, EverlastingIsStranded, OneHolder, local, hash
<1>6. AckInHand'
  BY <1>1 DEF IInv, AckInHand, local, positions
<1> QED BY <1>2, <1>3, <1>4, <1>5, <1>6 DEF IInv

-----------------------------------------------------------------------------
(* The handshake. *)

LEMMA HelloStep ==
  ASSUME IInv, NEW c \in Conns, NEW k \in Keys, NEW s \in SessionIds \cup {None}, Hello(c, k, s)
  PROVE  IInv'
<1> USE SessionsAssumption
<1>1. TypeOK'
  BY DEF IInv, TypeOK, Identified, Hello, Goto, database, hash, positions, States, Serving, Forever
<1>2. Identified'
  BY DEF IInv, TypeOK, Identified, Hello, Goto, database, hash, positions, Serving
<1>3. FieldIsOwner' /\ HashIsComplete'
  BY DEF IInv, TypeOK, Identified, FieldIsOwner, HashIsComplete, Hello, Goto, database, hash, positions, Serving
<1>4. HashIsFresh'
  BY DEF IInv, TypeOK, Identified, HashIsFresh, Hello, Goto, database, hash, positions, Serving, Forever
<1>5. EverlastingIsStranded'
  BY DEF IInv, TypeOK, Identified, EverlastingIsStranded, Hello, Goto, database, hash, positions, Serving, Forever
<1>6. OneHolder'
  BY DEF IInv, TypeOK, Identified, OneHolder, Hello, Goto, database, hash, positions, Serving
<1>7. AckInHand'
  BY DEF IInv, TypeOK, Identified, OneHolder, AckInHand, Hello, Goto, database, hash, positions, Serving
<1> QED BY <1>1, <1>2, <1>3, <1>4, <1>5, <1>6, <1>7 DEF IInv

LEMMA AuthenticateStep ==
  ASSUME IInv, NEW c \in Conns, Authenticate(c)
  PROVE  IInv'
<1> USE SessionsAssumption
<1>1. TypeOK'
  BY DEF IInv, TypeOK, Identified, Authenticate, Goto, database, hash, positions, States, Serving, Forever
<1>2. Identified'
  BY DEF IInv, TypeOK, Identified, Authenticate, Goto, database, hash, positions, Serving
<1>3. FieldIsOwner' /\ HashIsComplete'
  BY DEF IInv, TypeOK, Identified, FieldIsOwner, HashIsComplete, Authenticate, Goto, database, hash, positions, Serving
<1>4. HashIsFresh'
  BY DEF IInv, TypeOK, Identified, HashIsFresh, Authenticate, Goto, database, hash, positions, Serving, Forever
<1>5. EverlastingIsStranded'
  BY DEF IInv, TypeOK, Identified, EverlastingIsStranded, Authenticate, Goto, database, hash, positions, Serving, Forever
<1>6. OneHolder'
  BY DEF IInv, TypeOK, Identified, OneHolder, Authenticate, Goto, database, hash, positions, Serving
<1>7. AckInHand'
  BY DEF IInv, TypeOK, Identified, OneHolder, AckInHand, Authenticate, Goto, database, hash, positions, Serving
<1> QED BY <1>1, <1>2, <1>3, <1>4, <1>5, <1>6, <1>7 DEF IInv

LEMMA LookupStep ==
  ASSUME IInv, NEW c \in Conns, Lookup(c)
  PROVE  IInv'
<1> USE SessionsAssumption
<1>1. TypeOK'
  BY DEF IInv, TypeOK, Identified, Lookup, MayResume, Holders, FieldIsOwner, Goto, database, hash, positions, States, Serving, Forever
<1>2. Identified'
  BY DEF IInv, TypeOK, Identified, Lookup, MayResume, Holders, FieldIsOwner, Goto, database, hash, positions, Serving
<1>3. FieldIsOwner' /\ HashIsComplete'
  BY DEF IInv, TypeOK, Identified, FieldIsOwner, HashIsComplete, Lookup, MayResume, Holders, FieldIsOwner, Goto, database, hash, positions, Serving
<1>4. HashIsFresh'
  BY DEF IInv, TypeOK, Identified, HashIsFresh, Lookup, MayResume, Holders, FieldIsOwner, Goto, database, hash, positions, Serving, Forever
<1>5. EverlastingIsStranded'
  BY DEF IInv, TypeOK, Identified, EverlastingIsStranded, Lookup, MayResume, Holders, FieldIsOwner, Goto, database, hash, positions, Serving, Forever
<1>6. OneHolder'
  BY DEF IInv, TypeOK, Identified, OneHolder, Lookup, MayResume, Holders, FieldIsOwner, Goto, database, hash, positions, Serving
<1>7. AckInHand'
  BY DEF IInv, TypeOK, Identified, OneHolder, AckInHand, Lookup, MayResume, Holders, FieldIsOwner, Goto, database, hash, positions, Serving
<1> QED BY <1>1, <1>2, <1>3, <1>4, <1>5, <1>6, <1>7 DEF IInv

LEMMA CreateStep ==
  ASSUME IInv, NEW c \in Conns, NEW s \in SessionIds, Create(c, s)
  PROVE  IInv'
<1> USE SessionsAssumption
<1>1. TypeOK'
  BY DEF IInv, TypeOK, Identified, Create, Goto, database, positions, States, Serving, Forever
<1>2. Identified'
  BY DEF IInv, TypeOK, Identified, Create, Goto, database, positions, Serving
<1>3. FieldIsOwner' /\ HashIsComplete'
  BY DEF IInv, TypeOK, Identified, FieldIsOwner, HashIsComplete, Create, Goto, database, positions, Serving
<1>4. HashIsFresh'
  BY DEF IInv, TypeOK, Identified, HashIsFresh, Create, Goto, database, positions, Serving, Forever
<1>5. EverlastingIsStranded'
  BY DEF IInv, TypeOK, Identified, EverlastingIsStranded, Create, Goto, database, positions, Serving, Forever
<1>6. OneHolder'
  BY DEF IInv, TypeOK, Identified, OneHolder, Create, Goto, database, positions, Serving
<1>7. AckInHand'
  BY DEF IInv, TypeOK, Identified, OneHolder, AckInHand, Create, Goto, database, positions, Serving
<1> QED BY <1>1, <1>2, <1>3, <1>4, <1>5, <1>6, <1>7 DEF IInv

-----------------------------------------------------------------------------
(* A connection in use. *)

LEMMA PongStep ==
  ASSUME IInv, NEW c \in Conns, Pong(c)
  PROVE  IInv'
<1> USE SessionsAssumption
<1>1. TypeOK'
  BY DEF IInv, TypeOK, Identified, Pong, Goto, database, local, hash, positions, States, Serving, Forever
<1>2. Identified'
  BY DEF IInv, TypeOK, Identified, Pong, Goto, database, local, hash, positions, Serving
<1>3. FieldIsOwner' /\ HashIsComplete'
  BY DEF IInv, TypeOK, Identified, FieldIsOwner, HashIsComplete, Pong, Goto, database, local, hash, positions, Serving
<1>4. HashIsFresh'
  BY DEF IInv, TypeOK, Identified, HashIsFresh, Pong, Goto, database, local, hash, positions, Serving, Forever
<1>5. EverlastingIsStranded'
  BY DEF IInv, TypeOK, Identified, EverlastingIsStranded, Pong, Goto, database, local, hash, positions, Serving, Forever
<1>6. OneHolder'
  BY DEF IInv, TypeOK, Identified, OneHolder, Pong, Goto, database, local, hash, positions, Serving
<1>7. AckInHand'
  BY DEF IInv, TypeOK, Identified, OneHolder, AckInHand, Pong, Goto, database, local, hash, positions, Serving
<1> QED BY <1>1, <1>2, <1>3, <1>4, <1>5, <1>6, <1>7 DEF IInv

LEMMA TouchStep ==
  ASSUME IInv, NEW c \in Conns, Touch(c)
  PROVE  IInv'
<1> USE SessionsAssumption
<1>1. TypeOK'
  BY DEF IInv, TypeOK, Identified, Touch, NoteLapse, Goto, database, local, positions, States, Serving, Forever
<1>2. Identified'
  BY DEF IInv, TypeOK, Identified, Touch, NoteLapse, Goto, database, local, positions, Serving
<1>3. FieldIsOwner' /\ HashIsComplete'
  BY DEF IInv, TypeOK, Identified, FieldIsOwner, HashIsComplete, Touch, NoteLapse, Goto, database, local, positions, Serving
<1>4. HashIsFresh'
  BY DEF IInv, TypeOK, Identified, HashIsFresh, Touch, NoteLapse, Goto, database, local, positions, Serving, Forever
<1>5. EverlastingIsStranded'
  BY DEF IInv, TypeOK, Identified, EverlastingIsStranded, Touch, NoteLapse, Goto, database, local, positions, Serving, Forever
<1>6. OneHolder'
  BY DEF IInv, TypeOK, Identified, OneHolder, Touch, NoteLapse, Goto, database, local, positions, Serving
<1>7. AckInHand'
  BY DEF IInv, TypeOK, Identified, OneHolder, AckInHand, Touch, NoteLapse, Goto, database, local, positions, Serving
<1> QED BY <1>1, <1>2, <1>3, <1>4, <1>5, <1>6, <1>7 DEF IInv

LEMMA ExpireStep ==
  ASSUME IInv, NEW c \in Conns, Expire(c)
  PROVE  IInv'
<1> USE SessionsAssumption
<1>1. TypeOK'
  BY DEF IInv, TypeOK, Identified, Expire, NoteLapse, Goto, database, local, positions, States, Serving, Forever
<1>2. Identified'
  BY DEF IInv, TypeOK, Identified, Expire, NoteLapse, Goto, database, local, positions, Serving
<1>3. FieldIsOwner' /\ HashIsComplete'
  BY DEF IInv, TypeOK, Identified, FieldIsOwner, HashIsComplete, Expire, NoteLapse, Goto, database, local, positions, Serving
<1>4. HashIsFresh'
  BY DEF IInv, TypeOK, Identified, HashIsFresh, Expire, NoteLapse, Goto, database, local, positions, Serving, Forever
<1>5. EverlastingIsStranded'
  BY DEF IInv, TypeOK, Identified, EverlastingIsStranded, Expire, NoteLapse, Goto, database, local, positions, Serving, Forever
<1>6. OneHolder'
  BY DEF IInv, TypeOK, Identified, OneHolder, Expire, NoteLapse, Goto, database, local, positions, Serving
<1>7. AckInHand'
  BY DEF IInv, TypeOK, Identified, OneHolder, AckInHand, Expire, NoteLapse, Goto, database, local, positions, Serving
<1> QED BY <1>1, <1>2, <1>3, <1>4, <1>5, <1>6, <1>7 DEF IInv

LEMMA AckGetStep ==
  ASSUME IInv, NEW c \in Conns, NEW n \in 1..MaxSeq, AckGet(c, n)
  PROVE  IInv'
<1> USE SessionsAssumption
<1>1. TypeOK'
  BY DEF IInv, TypeOK, Identified, AckGet, Goto, database, hash, positions, States, Serving, Forever
<1>2. Identified'
  BY DEF IInv, TypeOK, Identified, AckGet, Goto, database, hash, positions, Serving
<1>3. FieldIsOwner' /\ HashIsComplete'
  BY DEF IInv, TypeOK, Identified, FieldIsOwner, HashIsComplete, AckGet, Goto, database, hash, positions, Serving
<1>4. HashIsFresh'
  BY DEF IInv, TypeOK, Identified, HashIsFresh, AckGet, Goto, database, hash, positions, Serving, Forever
<1>5. EverlastingIsStranded'
  BY DEF IInv, TypeOK, Identified, EverlastingIsStranded, AckGet, Goto, database, hash, positions, Serving, Forever
<1>6. OneHolder'
  BY DEF IInv, TypeOK, Identified, OneHolder, AckGet, Goto, database, hash, positions, Serving
<1>7. AckInHand'
  BY DEF IInv, TypeOK, Identified, OneHolder, AckInHand, AckGet, Goto, database, hash, positions, Serving
<1> QED BY <1>1, <1>2, <1>3, <1>4, <1>5, <1>6, <1>7 DEF IInv

LEMMA AckSetStep ==
  ASSUME IInv, NEW c \in Conns, AckSet(c)
  PROVE  IInv'
<1> USE SessionsAssumption
<1>1. TypeOK'
  BY DEF IInv, TypeOK, Identified, AckSet, Goto, database, hash, States, Serving, Forever
<1>2. Identified'
  BY DEF IInv, TypeOK, Identified, AckSet, Goto, database, hash, Serving
<1>3. FieldIsOwner' /\ HashIsComplete'
  BY DEF IInv, TypeOK, Identified, FieldIsOwner, HashIsComplete, AckSet, Goto, database, hash, Serving
<1>4. HashIsFresh'
  BY DEF IInv, TypeOK, Identified, HashIsFresh, AckSet, Goto, database, hash, Serving, Forever
<1>5. EverlastingIsStranded'
  BY DEF IInv, TypeOK, Identified, EverlastingIsStranded, AckSet, Goto, database, hash, Serving, Forever
<1>6. OneHolder'
  BY DEF IInv, TypeOK, Identified, OneHolder, AckSet, Goto, database, hash, Serving
<1>7. AckInHand'
  BY DEF IInv, TypeOK, Identified, OneHolder, AckInHand, AckSet, Goto, database, hash, Serving
<1> QED BY <1>1, <1>2, <1>3, <1>4, <1>5, <1>6, <1>7 DEF IInv

LEMMA CloseStep ==
  ASSUME IInv, NEW c \in Conns, Close(c)
  PROVE  IInv'
<1> USE SessionsAssumption
<1>1. TypeOK'
  BY DEF IInv, TypeOK, Identified, Close, Goto, database, positions, States, Serving, Forever
<1>2. Identified'
  BY DEF IInv, TypeOK, Identified, Close, Goto, database, positions, Serving
<1>3. FieldIsOwner' /\ HashIsComplete'
  BY DEF IInv, TypeOK, Identified, FieldIsOwner, HashIsComplete, Close, Goto, database, positions, Serving
<1>4. HashIsFresh'
  BY DEF IInv, TypeOK, Identified, HashIsFresh, Close, Goto, database, positions, Serving, Forever
<1>5. EverlastingIsStranded'
  BY DEF IInv, TypeOK, Identified, EverlastingIsStranded, Close, Goto, database, positions, Serving, Forever
<1>6. OneHolder'
  BY DEF IInv, TypeOK, Identified, OneHolder, Close, Goto, database, positions, Serving
<1>7. AckInHand'
  BY DEF IInv, TypeOK, Identified, OneHolder, AckInHand, Close, Goto, database, positions, Serving
<1> QED BY <1>1, <1>2, <1>3, <1>4, <1>5, <1>6, <1>7 DEF IInv

\* A Tick takes one interval off every TTL; whoever owed a PONG has answered.
LEMMA TickStep == IInv /\ Tick => IInv'
<1> SUFFICES ASSUME IInv, Tick PROVE IInv'
  OBVIOUS
<1> USE SessionsAssumption
<1>1. TypeOK'
  <2>1. left' \in [SessionIds -> 0..Forever] /\ field' \in [SessionIds -> Tenants \cup {None}]
    BY DEF IInv, TypeOK, Tick, Forever
  <2>2. position' \in [SessionIds -> 0..MaxSeq] /\ positionLeft' \in [SessionIds -> 0..Window]
    <3>1. \A s \in SessionIds : position[s] \in 0..MaxSeq /\ positionLeft[s] \in 0..Window
      BY DEF IInv, TypeOK
    <3>2. \A s \in SessionIds : /\ (IF positionLeft[s] = 0 THEN 0 ELSE positionLeft[s] - 1) \in 0..Window
                               /\ (IF positionLeft[s] <= 1 THEN 0 ELSE position[s]) \in 0..MaxSeq
      BY <3>1
    <3> QED BY <3>2 DEF Tick
  <2>3. due' \in [Conns -> BOOLEAN]
    BY DEF Tick
  <2> QED BY <2>1, <2>2, <2>3 DEF IInv, TypeOK, Tick, database, local
<1>2. Identified'
  BY DEF IInv, Identified, Tick, database, local
<1>3. FieldIsOwner' /\ HashIsComplete'
  BY DEF IInv, TypeOK, FieldIsOwner, HashIsComplete, Tick, Forever
<1>4. HashIsFresh'
  <2> SUFFICES ASSUME NEW c \in Conns, pc[c] \in {"live", "ackset"}, session[c] \notin lapsed
               PROVE  left'[session[c]] >= (IF due'[c] THEN Window - 1 ELSE Window)
    BY DEF HashIsFresh, Tick, local
  <2>1. due'[c] /\ ~due[c] /\ session[c] \in SessionIds
    BY Zenon DEF Tick, Serving, IInv, Identified
  <2>2. left[session[c]] >= Window /\ left[session[c]] \in 0..Forever
    BY <2>1 DEF IInv, HashIsFresh, TypeOK
  <2>3. left'[session[c]] >= Window - 1
    BY <2>1, <2>2 DEF Tick, Forever
  <2> QED BY SMTT(30), <2>1, <2>3
<1>5. EverlastingIsStranded'
  BY DEF IInv, TypeOK, EverlastingIsStranded, Tick, local, Forever
<1>6. OneHolder'
  BY DEF IInv, OneHolder, Tick, local
<1>7. AckInHand'
  <2>1. \A s \in SessionIds : positionLeft'[s] = 0 => position'[s] = 0
    BY DEF IInv, TypeOK, AckInHand, Tick
  <2>2. \A s \in SessionIds : position'[s] <= position[s] /\ position'[s] \in Nat /\ position[s] \in Nat
    BY DEF IInv, TypeOK, Tick
  <2>3. \A c \in Conns : pc[c] = "ackset" => session[c] \in SessionIds /\ ack[c] \in Nat
    BY DEF IInv, TypeOK, Identified, Serving
  <2> QED BY <2>1, <2>2, <2>3 DEF IInv, AckInHand, Tick, local
<1> QED BY <1>1, <1>2, <1>3, <1>4, <1>5, <1>6, <1>7 DEF IInv

-----------------------------------------------------------------------------
(* The theorems. *)

LEMMA NextInv == IInv /\ [Next]_vars => IInv'
<1> SUFFICES ASSUME IInv, [Next]_vars PROVE IInv'
  OBVIOUS
<1>1. CASE UNCHANGED vars
  BY <1>1, ControlPlane DEF vars, database, IInv, TypeOK
<1>2. ASSUME NEW t \in Tenants, CreateTenant(t)
      PROVE  IInv'
  BY <1>2, ControlPlane DEF CreateTenant, IInv, TypeOK
<1>3. ASSUME NEW t \in Tenants, NEW k \in Keys, CreateApiKey(k, t)
      PROVE  IInv'
  <2>1. keyTenant' = [keyTenant EXCEPT ![k] = t]
    BY <1>3 DEF CreateApiKey
  <2>2. /\ keyTenant' \in [Keys -> Tenants \cup {None}]
        /\ \A j \in Keys : keyTenant[j] \in Tenants => keyTenant'[j] \in Tenants
    BY <2>1 DEF IInv, TypeOK
  <2> QED BY <1>3, <2>2, ControlPlane DEF CreateApiKey, IInv, TypeOK
<1>4. ASSUME NEW k \in Keys, RevokeApiKey(k)
      PROVE  IInv'
  BY <1>4, ControlPlane DEF RevokeApiKey, IInv, TypeOK
<1>5. ASSUME NEW c \in Conns,
             \/ \E k \in Keys, s \in SessionIds \cup {None} : Hello(c, k, s)
             \/ Authenticate(c) \/ Lookup(c) \/ \E s \in SessionIds : Create(c, s)
      PROVE  IInv'
  BY <1>5, HelloStep, AuthenticateStep, LookupStep, CreateStep
<1>6. ASSUME NEW c \in Conns,
             \/ Pong(c) \/ Touch(c) \/ Expire(c)
             \/ \E n \in 1..MaxSeq : AckGet(c, n)
             \/ AckSet(c) \/ Close(c)
      PROVE  IInv'
  BY <1>6, PongStep, TouchStep, ExpireStep, AckGetStep, AckSetStep, CloseStep
<1>7. CASE Tick
  BY <1>7, TickStep
<1> QED BY <1>1, <1>2, <1>3, <1>4, <1>5, <1>6, <1>7 DEF Next

\* The inductive invariant holds throughout.
THEOREM Invariance == Spec => []IInv
BY InitInv, NextInv, PTL DEF Spec

\* Type correctness.
THEOREM TypeCorrect == Spec => []TypeOK
<1>1. IInv => TypeOK
  BY DEF IInv
<1> QED BY <1>1, Invariance, PTL

\* No connection ever uses a session made for another tenant.
THEOREM TenantsAreIsolated == Spec => []SessionOfTenant
<1>1. IInv => SessionOfTenant
  BY DEF IInv, Identified, SessionOfTenant
<1> QED BY <1>1, Invariance, PTL

\* A connected client's session can be resumed unless it expired in the handshake.
THEOREM ConnectedCanResume == Spec => []ConnectedIsResumable
<1>1. IInv => ConnectedIsResumable
  BY SMTT(30), SessionsAssumption
     DEF IInv, TypeOK, Identified, HashIsFresh, HashIsComplete, ConnectedIsResumable, MayResume, Serving
<1> QED BY <1>1, Invariance, PTL

\* A hash without a TTL is explained by a command under way or by a lost one.
THEOREM OnlyStrandedStay == Spec => []EverlastingIsStranded
<1>1. IInv => EverlastingIsStranded
  BY DEF IInv
<1> QED BY <1>1, Invariance, PTL

\* The stored position of a session in single use never moves backwards.
THEOREM PositionsAdvance == Spec => PositionAdvances
<1> DEFINE A == \A s \in SessionIds \ shared : positionLeft'[s] # 0 => position'[s] >= position[s]
<1>1. IInv /\ [Next]_vars => [A]_vars
  <2> SUFFICES ASSUME IInv, Next, NEW s \in SessionIds \ shared, positionLeft'[s] # 0
               PROVE  position'[s] >= position[s]
    OBVIOUS
  <2>1. position[s] \in Nat
    BY DEF IInv, TypeOK
  <2>2. CASE UNCHANGED position
    BY <2>1, <2>2
  <2>3. CASE Tick
    <3>1. positionLeft[s] \in Nat
      BY SessionsAssumption DEF IInv, TypeOK
    <3>2. /\ positionLeft'[s] = IF positionLeft[s] = 0 THEN 0 ELSE positionLeft[s] - 1
          /\ position'[s] = IF positionLeft[s] <= 1 THEN 0 ELSE position[s]
      BY <2>3 DEF Tick
    <3> QED BY <2>1, <3>1, <3>2
  <2>4. ASSUME NEW c \in Conns, AckSet(c)
        PROVE  position'[s] >= position[s]
    <3>1. position' = [position EXCEPT ![session[c]] = ack[c]] /\ pc[c] = "ackset"
      BY <2>4 DEF AckSet
    <3>2. CASE session[c] = s
      BY <3>1, <3>2, <2>1 DEF IInv, AckInHand, TypeOK
    <3>3. CASE session[c] # s
      BY SMTT(30), <3>1, <3>3, <2>1 DEF IInv, TypeOK
    <3> QED BY <3>2, <3>3
  <2>5. ASSUME NEW c \in Conns,
               \/ \E k \in Keys, d \in SessionIds \cup {None} : Hello(c, k, d)
               \/ Authenticate(c) \/ Lookup(c) \/ \E d \in SessionIds : Create(c, d)
               \/ Pong(c) \/ Touch(c) \/ Expire(c)
               \/ \E n \in 1..MaxSeq : AckGet(c, n)
               \/ Close(c)
        PROVE  UNCHANGED position
    BY Zenon, <2>5 DEF Hello, Authenticate, Lookup, Create, Pong, Touch, Expire, AckGet, Close, positions
  <2>6. ASSUME \/ \E t \in Tenants : CreateTenant(t) \/ \E k \in Keys : CreateApiKey(k, t)
               \/ \E k \in Keys : RevokeApiKey(k)
        PROVE  UNCHANGED position
    BY <2>6 DEF CreateTenant, CreateApiKey, RevokeApiKey, positions
  <2> QED BY <2>2, <2>3, <2>4, <2>5, <2>6 DEF Next
<1> QED BY <1>1, Invariance, PTL DEF Spec, PositionAdvances
=============================================================================
