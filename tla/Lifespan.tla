------------------------------ MODULE Lifespan ------------------------------
(***************************************************************************)
(* The life of a gateway node as its connections see it: the startup and   *)
(* shutdown sequence of main.lifespan, _drain_connections, the draining    *)
(* check of websocket_endpoint, and the server side of each WebSocket.     *)
(***************************************************************************)
CONSTANT Socks    \* WebSockets

VARIABLES life,      \* where lifespan stands
          draining,  \* app.state.draining
          conn,      \* the handler of each socket on this node
          todo,      \* connections _drain_connections has yet to close
          late       \* history: sockets in their handshake when it began

lifeVars == <<life, draining, conn, todo, late>>

Up == {"serving", "marking", "draining", "deleting"}
Ended == {"stopped", "crashed"}

LifeTypeOK ==
  /\ life \in {"starting"} \cup Up \cup Ended /\ draining \in BOOLEAN
  /\ conn \in [Socks -> {"none", "handshake", "open", "closed"}]
  /\ todo \subseteq Socks /\ late \subseteq Socks

LifeInit ==
  /\ life = "starting" /\ draining = FALSE
  /\ conn = [k \in Socks |-> "none"] /\ todo = {} /\ late = {}

-----------------------------------------------------------------------------
(* lifespan; the registrar's calls end where the step that follows begins *)

Start == life = "starting" /\ life' = "serving" /\ UNCHANGED <<draining, conn, todo, late>>

\* SIGTERM: the draining flag is set and mark_draining called.
Shutdown ==
  /\ life = "serving" /\ life' = "marking" /\ draining' = TRUE
  /\ UNCHANGED <<conn, todo, late>>

\* mark_draining has returned: _drain_connections lists the registry.
Marked ==
  /\ life = "marking" /\ life' = "draining"
  /\ todo' = {k \in Socks : conn[k] = "open"}
  /\ late' = {k \in Socks : conn[k] = "handshake"}
  /\ UNCHANGED <<draining, conn>>

\* DISCONNECT(NODE_DRAINING), then close 4503; errors are suppressed.
DrainOne(k) ==
  /\ life = "draining" /\ k \in todo
  /\ todo' = todo \ {k}
  /\ conn' = [conn EXCEPT ![k] = "closed"]
  /\ UNCHANGED <<life, draining, late>>

\* All are closed: the listeners are cancelled and registrar.stop is called.
Drained ==
  /\ life = "draining" /\ todo = {} /\ life' = "deleting"
  /\ UNCHANGED <<draining, conn, todo, late>>

\* registrar.stop has returned; close_redis.
Stop == life = "deleting" /\ life' = "stopped" /\ UNCHANGED <<draining, conn, todo, late>>

Crash ==
  /\ life \in Up /\ life' = "crashed"
  /\ conn' = [k \in Socks |-> IF conn[k] = "none" THEN "none" ELSE "closed"]
  /\ todo' = {}
  /\ UNCHANGED <<draining, late>>

-----------------------------------------------------------------------------
(* The WebSockets of the node *)

\* Mutant: new connections are accepted while the node drains.
AdmitsAlways == life \in Up

\* websocket_endpoint: a draining node refuses; one that is gone cannot answer.
Admits == life \in Up /\ ~draining

Accept(k) ==
  /\ conn[k] = "none" /\ Admits
  /\ conn' = [conn EXCEPT ![k] = "handshake"]
  /\ UNCHANGED <<life, draining, todo, late>>

Refuse(k) ==
  /\ conn[k] = "none" /\ ~Admits
  /\ conn' = [conn EXCEPT ![k] = "closed"]
  /\ UNCHANGED <<life, draining, todo, late>>

\* registry.add and CONNECTED.
Register(k) ==
  /\ conn[k] = "handshake"
  /\ conn' = [conn EXCEPT ![k] = "open"]
  /\ UNCHANGED <<life, draining, todo, late>>

\* The client or the network ends the connection, or the handshake fails.
Leave(k) ==
  /\ conn[k] \in {"handshake", "open"}
  /\ conn' = [conn EXCEPT ![k] = "closed"]
  /\ UNCHANGED <<life, draining, todo, late>>

-----------------------------------------------------------------------------

\* ADR-011: a node that has drained keeps no connection open, except those
\* whose handshake was under way when _drain_connections listed the registry.
DrainedIsEmpty ==
  life \in {"deleting", "stopped"} => \A k \in Socks : conn[k] = "open" => k \in late
=============================================================================
