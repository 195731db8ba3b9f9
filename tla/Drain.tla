------------------------------- MODULE Drain -------------------------------
(***************************************************************************)
(* A rolling restart: a node that starts, serves, drains, stops or crashes *)
(* (module Registrar) and clients (module ClientSocket) whose sockets land *)
(* on it or on another node that stays.  A socket the node closes reaches  *)
(* its client as onclose.  The node has other connections as well, whose   *)
(* clients are not followed.                                               *)
(***************************************************************************)
EXTENDS Registrar, ClientSocket

ASSUME DrainAssumption == Sockets \subseteq Socks

VARIABLE elsewhere    \* sockets that the load balancer sent to another node

vars == <<nodeVars, clientVars, elsewhere>>

TypeOK == NodeTypeOK /\ SocketTypeOK /\ elsewhere \subseteq Sockets

Init == NodeInit /\ SocketInit /\ elsewhere = {}

\* Steps of the node that no client sees at once.
Node == NodeStep /\ UNCHANGED <<clientVars, elsewhere>>

\* A client makes a socket, for the application or because a timer fires.
MakeSocket(c, k) ==
  /\ \/ AtRest(c) /\ AppConnects(c, k)
     \/ TimerFires(c, k)
  /\ UNCHANGED <<nodeVars, elsewhere>>

\* The socket reaches the node, which accepts or refuses it, or another one.
Land(k) ==
  /\ socket[k] = "connecting" /\ k \notin elsewhere
  /\ \/ Accept(k) /\ UNCHANGED <<clientVars, elsewhere>>
     \/ Refuse(k) /\ Lost(k) /\ UNCHANGED elsewhere
     \/ /\ conn[k] = "none" /\ elsewhere' = elsewhere \cup {k}
        /\ Opened(k) /\ UNCHANGED lifeVars
  /\ UNCHANGED registrarVars

Gone(k) == socket[k] \in {"closing", "closed"} /\ UNCHANGED clientVars

\* CONNECTED reaches the client unless it has gone meanwhile.
Established(k) ==
  /\ Register(k) /\ (Opened(k) \/ Gone(k))
  /\ UNCHANGED <<registrarVars, elsewhere>>

DrainSocket(k) ==
  /\ DrainOne(k) /\ (Lost(k) \/ Gone(k))
  /\ UNCHANGED <<registrarVars, elsewhere>>

\* A connection breaks, or the node finds that the client is gone.
Break(k) ==
  /\ \/ Leave(k) /\ (Lost(k) \/ Gone(k))
     \/ k \in elsewhere /\ Lost(k) /\ UNCHANGED lifeVars
  /\ UNCHANGED <<registrarVars, elsewhere>>

\* Connections of other clients.
Stranger(k) ==
  /\ Accept(k) \/ Refuse(k) \/ Register(k) \/ DrainOne(k) \/ Leave(k)
  /\ UNCHANGED <<registrarVars, clientVars, elsewhere>>

CrashOfNode ==
  /\ NodeCrash
  /\ socket' = [k \in Sockets |-> IF /\ conn[k] \in {"handshake", "open"}
                                     /\ socket[k] \in {"connecting", "open"}
                                  THEN "closing" ELSE socket[k]]
  /\ UNCHANGED <<ws, closedByUser, timers, held, elsewhere>>

Client ==
  /\ \/ \E c \in Clients : ~closedByUser[c] /\ Disconnect(c)
     \/ \E k \in Sockets : OnClose(k)
  /\ UNCHANGED <<nodeVars, elsewhere>>

Next ==
  \/ Node \/ CrashOfNode \/ Client
  \/ \E c \in Clients, k \in Sockets : MakeSocket(c, k)
  \/ \E k \in Sockets : Land(k) \/ Established(k) \/ DrainSocket(k) \/ Break(k)
  \/ \E k \in Socks \ Sockets : Stranger(k)

Spec == Init /\ [][Next]_vars

\* The event loop runs the heartbeat task, a cancelled write arrives or never
\* does, time passes; handshakes are answered, callbacks called and timers
\* fire.  No shutdown has to come to its end, no write has to succeed, and
\* nobody has to connect.
Fairness ==
  /\ WF_vars(Node /\ (StartRegistrar \/ LoopSends \/ LoopAnswered))
  /\ WF_vars(Node /\ StrayArrives) /\ WF_vars(Node /\ Tick)
  /\ \A k \in Sockets : /\ WF_vars(Land(k)) /\ WF_vars(Established(k))
                        /\ WF_vars(Client /\ OnClose(k))
  /\ \A c \in Clients : WF_vars(\E k \in Sockets : MakeSocket(c, k) /\ TimerFires(c, k))

FairSpec == Spec /\ Fairness

-----------------------------------------------------------------------------
(* Properties *)

Started(c) == \E k \in Of(c) : socket[k] # "unused"
Connected(c) == \E k \in Of(c) : socket[k] = "open" /\ ws[c] = k
Spent(c) == \A k \in Of(c) : socket[k] = "closed"

\* failure-model.md:162-163, "Clients reconnect with jitter and land on a
\* remaining node": a client that was not told to stay away is connected again
\* in the end, through drains, crashes, refusals and broken connections (or
\* has used up the sockets it has in this model).
ComesBack ==
  \A c \in Clients :
    (Started(c) /\ ~closedByUser[c]) ~> (Connected(c) \/ closedByUser[c] \/ Spent(c))
=============================================================================
