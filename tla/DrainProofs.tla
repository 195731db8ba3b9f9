---------------------------- MODULE DrainProofs ----------------------------
(***************************************************************************)
(* The safety of a rolling restart, for any number of clients, sockets and *)
(* other connections and for any TTL.  The invariant has three parts that  *)
(* do not depend on each other: what the drain has still to close, how old *)
(* the node key may be, and what a client waits for.                       *)
(***************************************************************************)
EXTENDS Drain, TLAPS

\* A socket that is or may come to be open is in the list of the drain, or was
\* in its handshake when the list was made.
DrainInv ==
  /\ life \in {"marking", "draining", "deleting", "stopped"} => draining
  /\ life = "draining" => \A k \in Socks : /\ conn[k] = "open" => k \in todo \cup late
                                           /\ conn[k] = "handshake" => k \in late
  /\ life \in {"deleting", "stopped"} =>
       \A k \in Socks : conn[k] \in {"handshake", "open"} => k \in late

\* The age of the key: one interval per failed write, and one for the write due.
KeyInv ==
  /\ life = "starting" => missed = Ttl - 1 /\ loop = "none"
  /\ life = "serving" => loop # "none"
  /\ life = "serving" /\ missed + 1 < Ttl =>
       key # "absent" /\ age <= IF loop = "asleep" THEN missed ELSE missed + 1

\* A client waits for one thing, and reconnectTimer is the timer that is pending.
ClientInv ==
  \A c \in Clients :
    /\ timers[c] \in {0, 1} /\ (held[c] <=> timers[c] = 1)
    /\ \A k \in Unsettled(c) : timers[c] = 0 /\ ws[c] = k
    /\ closedByUser[c] => timers[c] = 0 /\ Alive(c) = {}

IInv == TypeOK /\ (loop = "sent" => carried \in Written) /\ DrainInv /\ KeyInv /\ ClientInv

USE RegistrarAssumption, ClientSocketAssumption, DrainAssumption

-----------------------------------------------------------------------------
\* Facts about the states in which a step is taken.

LEMMA InitIInv == Init => IInv
<1> SUFFICES ASSUME Init PROVE IInv
  OBVIOUS
<1>1. TypeOK
  <2>1. LifeTypeOK
    BY Zenon DEF Init, NodeInit, LifeInit, LifeTypeOK
  <2>2. SocketTypeOK
    BY DEF Init, SocketInit, SocketTypeOK
  <2> QED
    BY <2>1, <2>2 DEF Init, NodeInit, TypeOK, NodeTypeOK, Written
<1>2. (loop = "sent" => carried \in Written) /\ DrainInv /\ KeyInv
  BY DEF Init, NodeInit, LifeInit, DrainInv, KeyInv
<1>3. ClientInv
  BY DEF Init, SocketInit, ClientInv, Unsettled, Alive, Of
<1> QED
  BY <1>1, <1>2, <1>3 DEF IInv

-----------------------------------------------------------------------------
(* The node *)

\* The lifespan and the handlers keep the drain's list right.
LEMMA LifeStep ==
  ASSUME LifeTypeOK, DrainInv,
         \/ Start \/ Shutdown \/ Marked \/ Drained \/ Stop \/ Crash \/ UNCHANGED lifeVars
         \/ \E k \in Socks : Accept(k) \/ Refuse(k) \/ Register(k) \/ DrainOne(k) \/ Leave(k)
  PROVE  LifeTypeOK' /\ DrainInv'
<1>1. CASE Start
  BY <1>1 DEF Start, LifeTypeOK, DrainInv, Up, Ended
<1>2. CASE Shutdown
  BY <1>2 DEF Shutdown, LifeTypeOK, DrainInv, Up, Ended
<1>3. CASE Marked
  BY <1>3 DEF Marked, LifeTypeOK, DrainInv, Up, Ended
<1>4. CASE Drained
  BY <1>4 DEF Drained, LifeTypeOK, DrainInv, Up, Ended
<1>5. CASE Stop
  BY <1>5 DEF Stop, LifeTypeOK, DrainInv, Up, Ended
<1>6. CASE Crash
  BY <1>6 DEF Crash, LifeTypeOK, DrainInv, Up, Ended
<1>7. CASE UNCHANGED lifeVars
  BY <1>7 DEF lifeVars, LifeTypeOK, DrainInv
<1>8. ASSUME NEW k \in Socks, Accept(k)
      PROVE  LifeTypeOK' /\ DrainInv'
  BY <1>8 DEF Accept, Admits, LifeTypeOK, DrainInv, Up, Ended
<1>9. ASSUME NEW k \in Socks, Refuse(k) \/ Leave(k)
      PROVE  LifeTypeOK' /\ DrainInv'
  BY <1>9 DEF Refuse, Leave, LifeTypeOK, DrainInv
<1>10. ASSUME NEW k \in Socks, Register(k)
       PROVE  LifeTypeOK' /\ DrainInv'
  BY <1>10 DEF Register, LifeTypeOK, DrainInv
<1>11. ASSUME NEW k \in Socks, DrainOne(k)
       PROVE  LifeTypeOK' /\ DrainInv'
  BY <1>11 DEF DrainOne, LifeTypeOK, DrainInv
<1> QED
  BY <1>1, <1>2, <1>3, <1>4, <1>5, <1>6, <1>7, <1>8, <1>9, <1>10, <1>11

RegistrarTypeOK ==
  /\ status \in Written /\ loop \in {"none", "ready", "sent", "asleep"}
  /\ carried \in Written \cup {"none"} /\ stray \in Written \cup {"none"}
  /\ key \in Written \cup {"absent"} /\ age \in 0..Ttl - 1 /\ missed \in 0..Ttl - 1
  /\ loop = "sent" => carried \in Written

\* The registrar keeps the key young enough.
LEMMA RegistrarStep ==
  ASSUME RegistrarTypeOK, KeyInv, NodeStep \/ NodeCrash
  PROVE  RegistrarTypeOK' /\ KeyInv'
<1>1. CASE StartRegistrar
  BY <1>1 DEF StartRegistrar, Start, Set, NotSet, RegistrarTypeOK, KeyInv, Written
<1>2. CASE MarkDraining
  BY <1>2 DEF MarkDraining, Shutdown, RegistrarTypeOK, KeyInv, Written
<1>3. CASE MarkAnswered
  BY <1>3 DEF MarkAnswered, Marked, Set, NotSet, RegistrarTypeOK, KeyInv, Written
<1>4. CASE StopRegistrar
  BY <1>4 DEF StopRegistrar, Drained, CancelLoop, RegistrarTypeOK, KeyInv, Written
<1>5. CASE DeleteAnswered
  BY <1>5 DEF DeleteAnswered, Stop, Set, NotSet, RegistrarTypeOK, KeyInv, Written
<1>6. CASE LoopSends
  BY <1>6 DEF LoopSends, lifeVars, RegistrarTypeOK, KeyInv, Written
<1>7. CASE LoopAnswered
  <2>1. /\ loop = "sent" /\ loop' = "asleep" /\ carried' = "none" /\ life' = life
        /\ status' = status /\ stray' = stray
    BY <1>7 DEF LoopAnswered, lifeVars
  <2>2. CASE key' = carried /\ age' = 0 /\ missed' = 0
    BY <2>1, <2>2 DEF RegistrarTypeOK, KeyInv, Written
  <2>3. CASE /\ key' = key /\ age' = age
             /\ missed' = IF life = "serving" /\ missed + 1 < Ttl THEN missed + 1 ELSE missed
    <3>1. CASE life = "serving" /\ missed + 1 < Ttl
      <4>1. missed' = missed + 1 /\ key # "absent" /\ age <= missed + 1
        BY <2>1, <2>3, <3>1 DEF KeyInv, RegistrarTypeOK
      <4> QED
        BY <2>1, <2>3, <3>1, <4>1 DEF RegistrarTypeOK, KeyInv
    <3>2. CASE ~(life = "serving" /\ missed + 1 < Ttl)
      <4>1. missed' = missed
        BY <2>3, <3>2
      <4> QED
        BY <2>1, <2>3, <3>2, <4>1 DEF RegistrarTypeOK, KeyInv
    <3> QED
      BY <3>1, <3>2
  <2> QED
    BY <1>7, <2>2, <2>3 DEF LoopAnswered, Set, NotSet
<1>8. CASE StrayArrives
  BY <1>8 DEF StrayArrives, lifeVars, Set, NotSet, RegistrarTypeOK, KeyInv, Written
<1>9. CASE Tick
  BY <1>9 DEF Tick, lifeVars, Set, RegistrarTypeOK, KeyInv, Written
<1>10. CASE NodeCrash
  BY <1>10 DEF NodeCrash, Crash, CancelLoop, RegistrarTypeOK, KeyInv, Written
<1> QED
  BY <1>1, <1>2, <1>3, <1>4, <1>5, <1>6, <1>7, <1>8, <1>9, <1>10 DEF NodeStep

\* A step that leaves life and the registrar alone.
LEMMA RegistrarIdle ==
  ASSUME RegistrarTypeOK, KeyInv, UNCHANGED registrarVars, UNCHANGED life
  PROVE  RegistrarTypeOK' /\ KeyInv'
BY DEF registrarVars, RegistrarTypeOK, KeyInv

-----------------------------------------------------------------------------
(* The clients *)

\* Sockets that change from connecting or open to closing.
Closes(S) ==
  /\ \A k \in S : socket[k] \in {"connecting", "open"}
  /\ socket' = [k \in Sockets |-> IF k \in S THEN "closing" ELSE socket[k]]
  /\ UNCHANGED <<ws, closedByUser, timers, held>>

LEMMA ClosesStep ==
  ASSUME SocketTypeOK, ClientInv, NEW S \in SUBSET Sockets, Closes(S)
  PROVE  SocketTypeOK' /\ ClientInv'
<1>1. SocketTypeOK'
  BY DEF SocketTypeOK, Closes
<1>2. ASSUME NEW c \in Clients
      PROVE  Unsettled(c)' = Unsettled(c) /\ Alive(c)' \subseteq Alive(c)
  BY DEF Closes, Unsettled, Alive, Of, SocketTypeOK
<1>3. ClientInv'
  BY <1>2 DEF ClientInv, Closes
<1> QED
  BY <1>1, <1>3

LEMMA LostStep ==
  ASSUME SocketTypeOK, ClientInv, NEW k \in Sockets, Lost(k)
  PROVE  SocketTypeOK' /\ ClientInv'
<1>1. Closes({k})
  BY Zenon DEF Lost, Closes, SocketTypeOK
<1> QED
  BY <1>1, ClosesStep

LEMMA OpenedStep ==
  ASSUME SocketTypeOK, ClientInv, NEW k \in Sockets, Opened(k)
  PROVE  SocketTypeOK' /\ ClientInv'
<1>1. SocketTypeOK'
  BY DEF SocketTypeOK, Opened
<1>2. ASSUME NEW c \in Clients
      PROVE  Unsettled(c)' = Unsettled(c) /\ Alive(c)' = Alive(c)
  BY DEF Opened, Unsettled, Alive, Of, SocketTypeOK
<1>3. ClientInv'
  BY <1>2 DEF ClientInv, Opened
<1> QED
  BY <1>1, <1>3

LEMMA ConnectStep ==
  ASSUME SocketTypeOK, ClientInv, NEW c \in Clients, NEW k \in Sockets,
         \/ AtRest(c) /\ AppConnects(c, k)
         \/ TimerFires(c, k)
  PROVE  SocketTypeOK' /\ ClientInv'
<1>1. /\ k \in Of(c) /\ socket[k] = "unused"
      /\ closedByUser' = [closedByUser EXCEPT ![c] = FALSE]
      /\ socket' = [socket EXCEPT ![k] = "connecting"]
      /\ ws' = [ws EXCEPT ![c] = k]
  BY DEF AppConnects, TimerFires, Connect
<1>2. Unsettled(c) = {}
  BY DEF AtRest, TimerFires, ClientInv, SocketTypeOK
<1>3. /\ timers' \in [Clients -> Nat] /\ held' \in [Clients -> BOOLEAN]
      /\ timers'[c] = 0 /\ held'[c] = FALSE
      /\ \A d \in Clients \ {c} : timers'[d] = timers[d] /\ held'[d] = held[d]
  <2>1. CASE AtRest(c) /\ AppConnects(c, k)
    BY <2>1 DEF AtRest, AppConnects, ClientInv, SocketTypeOK
  <2>2. CASE TimerFires(c, k)
    <3>1. timers[c] = 1 /\ held[c]
      BY <2>2 DEF TimerFires, ClientInv
    <3>2. timers' = [timers EXCEPT ![c] = @ - 1] /\ held' = [held EXCEPT ![c] = FALSE]
      BY <2>2, <3>1 DEF TimerFires
    <3> QED
      BY <3>1, <3>2 DEF SocketTypeOK
  <2> QED
    BY Zenon, <2>1, <2>2
<1>4. SocketTypeOK'
  BY Zenon, <1>1, <1>3 DEF SocketTypeOK
<1>5. Unsettled(c)' = {k}
  BY <1>1, <1>2 DEF Unsettled, Of, SocketTypeOK
<1>6. ASSUME NEW d \in Clients \ {c}
      PROVE  Unsettled(d)' = Unsettled(d) /\ Alive(d)' = Alive(d)
  BY <1>1 DEF Unsettled, Alive, Of, SocketTypeOK
<1>7. /\ ws'[c] = k /\ closedByUser'[c] = FALSE
      /\ \A d \in Clients \ {c} : ws'[d] = ws[d] /\ closedByUser'[d] = closedByUser[d]
  BY <1>1 DEF SocketTypeOK
<1>8. ClientInv'
  BY <1>3, <1>5, <1>6, <1>7 DEF ClientInv
<1> QED
  BY <1>4, <1>8

LEMMA DisconnectStep ==
  ASSUME SocketTypeOK, ClientInv, NEW c \in Clients, Disconnect(c)
  PROVE  SocketTypeOK' /\ ClientInv'
<1>1. /\ closedByUser' = [closedByUser EXCEPT ![c] = TRUE]
      /\ timers' = [timers EXCEPT ![c] = IF held[c] THEN @ - 1 ELSE @]
      /\ held' = [held EXCEPT ![c] = FALSE] /\ ws' = ws
      /\ socket' = [k \in Sockets |-> IF k = ws[c] /\ k \in Alive(c) THEN "closing" ELSE socket[k]]
  BY DEF Disconnect
<1>2. timers[c] \in {0, 1} /\ (held[c] <=> timers[c] = 1)
  BY DEF ClientInv
<1>3. timers'[c] = 0 /\ \A d \in Clients \ {c} : timers'[d] = timers[d]
  BY <1>1, <1>2 DEF SocketTypeOK
<1>4. SocketTypeOK'
  BY <1>1, <1>2 DEF SocketTypeOK
<1>5. \A d \in Clients : Unsettled(d)' = Unsettled(d) /\ Alive(d)' \subseteq Alive(d)
  BY <1>1 DEF Unsettled, Alive, Of, SocketTypeOK
<1>6. Alive(c)' = {}
  <2>1. \A k \in Alive(c) : k = ws[c] /\ k \in Sockets
    BY DEF ClientInv, Alive, Unsettled, Of
  <2> QED
    BY <1>1, <2>1 DEF Alive, Of, SocketTypeOK
<1>7. ClientInv'
  BY <1>1, <1>3, <1>5, <1>6 DEF ClientInv, SocketTypeOK
<1> QED
  BY <1>4, <1>7

LEMMA OnCloseStep ==
  ASSUME SocketTypeOK, ClientInv, NEW k \in Sockets, OnClose(k)
  PROVE  SocketTypeOK' /\ ClientInv'
<1> DEFINE c == OwnerOf[k]
<1>1. c \in Clients /\ k \in Unsettled(c) /\ timers[c] = 0
  BY DEF OnClose, ClientInv, Unsettled, Of
<1>2. /\ socket' = [socket EXCEPT ![k] = "closed"] /\ ws' = [ws EXCEPT ![c] = NoSocket]
      /\ closedByUser' = closedByUser
  BY DEF OnClose
<1>3. /\ timers' \in [Clients -> Nat] /\ held' \in [Clients -> BOOLEAN]
      /\ timers'[c] \in {0, 1} /\ (held'[c] <=> timers'[c] = 1)
      /\ closedByUser[c] => timers'[c] = 0
      /\ \A d \in Clients \ {c} : timers'[d] = timers[d] /\ held'[d] = held[d]
  <2>1. held[c] <=> timers[c] = 1
    BY <1>1 DEF ClientInv
  <2>2. CASE closedByUser[c]
    <3>1. timers' = timers /\ held' = held
      BY <2>2 DEF OnClose
    <3> QED
      BY <1>1, <2>1, <3>1 DEF SocketTypeOK
  <2>3. CASE ~closedByUser[c]
    <3>1. timers' = [timers EXCEPT ![c] = @ + 1] /\ held' = [held EXCEPT ![c] = TRUE]
      BY <2>3 DEF OnClose
    <3> QED
      BY <1>1, <2>3, <3>1 DEF SocketTypeOK
  <2> QED
    BY <2>2, <2>3
<1>4. SocketTypeOK'
  BY Zenon, <1>2, <1>3 DEF SocketTypeOK
<1>5. Unsettled(c)' = {} /\ Alive(c)' = {}
  <2>1. \A j \in Unsettled(c) : j = k
    BY <1>1 DEF ClientInv
  <2> QED
    BY <1>2, <2>1 DEF Unsettled, Alive, Of, SocketTypeOK
<1>6. \A d \in Clients \ {c} : Unsettled(d)' = Unsettled(d) /\ Alive(d)' = Alive(d) /\ ws'[d] = ws[d]
  BY <1>2 DEF Unsettled, Alive, Of, SocketTypeOK
<1>7. ClientInv'
  BY <1>2, <1>3, <1>5, <1>6 DEF ClientInv
<1> QED
  BY <1>4, <1>7

LEMMA ClientIdle ==
  ASSUME SocketTypeOK, ClientInv, UNCHANGED clientVars
  PROVE  SocketTypeOK' /\ ClientInv'
BY DEF clientVars, SocketTypeOK, ClientInv, Unsettled, Alive, Of

-----------------------------------------------------------------------------
(* The whole *)

LEMMA Parts ==
  IInv <=> /\ LifeTypeOK /\ DrainInv /\ RegistrarTypeOK /\ KeyInv
           /\ SocketTypeOK /\ ClientInv /\ elsewhere \subseteq Sockets
BY DEF IInv, TypeOK, NodeTypeOK, RegistrarTypeOK

LEMMA NextIInv == IInv /\ [Next]_vars => IInv'
<1> SUFFICES ASSUME IInv, [Next]_vars PROVE IInv'
  OBVIOUS
<1> USE Parts
<1>0. /\ LifeTypeOK /\ DrainInv /\ RegistrarTypeOK /\ KeyInv
      /\ SocketTypeOK /\ ClientInv /\ elsewhere \subseteq Sockets
  BY DEF IInv
<1>1. (LifeTypeOK /\ DrainInv)'
  <2>1. \/ Start \/ Shutdown \/ Marked \/ Drained \/ Stop \/ Crash \/ UNCHANGED lifeVars
        \/ \E k \in Socks : Accept(k) \/ Refuse(k) \/ Register(k) \/ DrainOne(k) \/ Leave(k)
    BY DEF Next, Node, NodeStep, CrashOfNode, NodeCrash, Client, MakeSocket, Land, Established,
           DrainSocket, Break, Stranger, StartRegistrar, MarkDraining, MarkAnswered,
           StopRegistrar, DeleteAnswered, LoopSends, LoopAnswered, StrayArrives, Tick,
           vars, nodeVars
  <2> QED
    BY SMTT(30), <1>0, <2>1, LifeStep
<1>2. (RegistrarTypeOK /\ KeyInv)'
  <2>1. NodeStep \/ NodeCrash \/ (UNCHANGED registrarVars /\ UNCHANGED life)
    BY Zenon DEF Next, Node, CrashOfNode, Client, MakeSocket, Land, Established, DrainSocket, Break,
           Stranger, Accept, Refuse, Register, DrainOne, Leave, vars, nodeVars, lifeVars
  <2> QED
    BY SMTT(30), <1>0, <2>1, RegistrarStep, RegistrarIdle
<1>3. (SocketTypeOK /\ ClientInv)'
  <2>1. CASE CrashOfNode
    <3> DEFINE S == {k \in Sockets : /\ conn[k] \in {"handshake", "open"}
                                     /\ socket[k] \in {"connecting", "open"}}
    <3>1. Closes(S)
      BY <2>1 DEF CrashOfNode, Closes
    <3> QED
      BY <1>0, <3>1, ClosesStep
  <2>2. \/ CrashOfNode \/ UNCHANGED clientVars
        \/ \E c \in Clients : Disconnect(c)
        \/ \E k \in Sockets : OnClose(k) \/ Lost(k) \/ Opened(k)
        \/ \E c \in Clients, k \in Sockets :
             (AtRest(c) /\ AppConnects(c, k)) \/ TimerFires(c, k)
    BY ZenonT(30) DEF Next, Node, Client, MakeSocket, Land, Established, DrainSocket, Break, Gone,
           Stranger, vars
  <2> QED
    BY <1>0, <2>1, <2>2, ClientIdle, DisconnectStep, OnCloseStep, LostStep, OpenedStep, ConnectStep
<1>4. elsewhere' \subseteq Sockets
  BY Zenon, <1>0 DEF Next, Node, CrashOfNode, Client, MakeSocket, Land, Established, DrainSocket,
              Break, Stranger, vars
<1> QED
  BY <1>1, <1>2, <1>3, <1>4 DEF IInv, TypeOK, NodeTypeOK, RegistrarTypeOK

\* The invariant holds throughout a rolling restart.
THEOREM Invariance == Spec => []IInv
BY InitIInv, NextIInv, PTL DEF Spec

\* The state of node and clients keeps its types.
THEOREM DrainTypes == Spec => []TypeOK
<1>1. IInv => TypeOK
  BY DEF IInv
<1> QED
  BY <1>1, Invariance, PTL

\* After _drain_connections only late handshakes have a connection, however many
\* there are and whatever happens between its sends.
THEOREM DrainEmpties == Spec => []DrainedIsEmpty
<1>1. IInv => DrainedIsEmpty
  BY DEF IInv, DrainInv, DrainedIsEmpty
<1> QED
  BY <1>1, Invariance, PTL

\* The heartbeat loop keeps a serving node listed through Ttl - 2 failures in a
\* row, for every TTL of at least two heartbeat intervals.
THEOREM HeartbeatLists == Spec => []ServingIsListed
<1>1. IInv => ServingIsListed
  BY DEF IInv, KeyInv, ServingIsListed
<1> QED
  BY <1>1, Invariance, PTL

\* RelayClient has one socket or one timer when the application connects it
\* only at rest.
THEOREM ClientHasOneSocket == Spec => []OneSocket
<1>1. IInv => OneSocket
  <2> SUFFICES ASSUME IInv, NEW c \in Clients
               PROVE  /\ timers[c] <= 1
                      /\ \A k \in Unsettled(c) :
                           timers[c] = 0 /\ Unsettled(c) = {k} /\ ws[c] = k
    BY DEF OneSocket
  <2>1. timers[c] \in {0, 1} /\ \A k \in Unsettled(c) : timers[c] = 0 /\ ws[c] = k
    BY DEF IInv, ClientInv
  <2> QED
    BY <2>1
<1> QED
  BY <1>1, Invariance, PTL

\* disconnect() is final.
THEOREM DisconnectIsFinal == Spec => []ClosedStaysClosed
<1>1. IInv => ClosedStaysClosed
  BY DEF IInv, ClientInv, ClosedStaysClosed
<1> QED
  BY <1>1, Invariance, PTL
=============================================================================
