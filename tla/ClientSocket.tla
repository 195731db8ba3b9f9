---------------------------- MODULE ClientSocket ----------------------------
(***************************************************************************)
(* The lifecycle half of RelayClient.ts: connect, disconnect, the onclose  *)
(* callback of each socket it has made, and the reconnect timer.  A socket *)
(* that closes calls onclose later, whatever the client has done since.    *)
(***************************************************************************)
EXTENDS Integers

CONSTANTS Clients,
          Sockets,    \* WebSocket objects a client may make
          OwnerOf,    \* the client of each
          NoSocket    \* null

ASSUME ClientSocketAssumption == OwnerOf \in [Sockets -> Clients]

VARIABLES ws,            \* RelayClient.ws
          socket,        \* readyState of each socket
          closedByUser,  \* RelayClient.closedByUser
          timers,        \* reconnect timers pending
          held           \* reconnectTimer is one of them

clientVars == <<ws, socket, closedByUser, timers, held>>

SocketTypeOK ==
  /\ ws \in [Clients -> Sockets \cup {NoSocket}]
  /\ socket \in [Sockets -> {"unused", "connecting", "open", "closing", "closed"}]
  /\ closedByUser \in [Clients -> BOOLEAN]
  /\ timers \in [Clients -> Nat] /\ held \in [Clients -> BOOLEAN]

SocketInit ==
  /\ ws = [c \in Clients |-> NoSocket]
  /\ socket = [k \in Sockets |-> "unused"]
  /\ closedByUser = [c \in Clients |-> FALSE]
  /\ timers = [c \in Clients |-> 0] /\ held = [c \in Clients |-> FALSE]

Of(c) == {k \in Sockets : OwnerOf[k] = c}
Alive(c) == {k \in Of(c) : socket[k] \in {"connecting", "open"}}
Unsettled(c) == {k \in Of(c) : socket[k] \in {"connecting", "open", "closing"}}

\* connect(), by the application or by the timer.
Connect(c, k) ==
  /\ k \in Of(c) /\ socket[k] = "unused"
  /\ closedByUser' = [closedByUser EXCEPT ![c] = FALSE]
  /\ socket' = [socket EXCEPT ![k] = "connecting"]
  /\ ws' = [ws EXCEPT ![c] = k]

AppConnects(c, k) == Connect(c, k) /\ UNCHANGED <<timers, held>>

\* The timer fires; it is the one reconnectTimer names, because AtRest below
\* lets no second one be pending (OneSocket).
TimerFires(c, k) ==
  /\ timers[c] > 0
  /\ timers' = [timers EXCEPT ![c] = @ - 1] /\ held' = [held EXCEPT ![c] = FALSE]
  /\ Connect(c, k)

\* Mutant: disconnect leaves the reconnect timer running.
DisconnectKeepsTimer(c) ==
  /\ closedByUser' = [closedByUser EXCEPT ![c] = TRUE]
  /\ socket' = [k \in Sockets |-> IF k = ws[c] /\ k \in Alive(c) THEN "closing" ELSE socket[k]]
  /\ UNCHANGED <<ws, timers, held>>

Disconnect(c) ==
  /\ closedByUser' = [closedByUser EXCEPT ![c] = TRUE]
  /\ timers' = [timers EXCEPT ![c] = IF held[c] THEN @ - 1 ELSE @]
  /\ held' = [held EXCEPT ![c] = FALSE]
  /\ socket' = [k \in Sockets |-> IF k = ws[c] /\ k \in Alive(c) THEN "closing" ELSE socket[k]]
  /\ UNCHANGED ws

Opened(k) ==
  /\ socket[k] = "connecting"
  /\ socket' = [socket EXCEPT ![k] = "open"]
  /\ UNCHANGED <<ws, closedByUser, timers, held>>

\* The peer or the network closes the socket.
Lost(k) ==
  /\ socket[k] \in {"connecting", "open"}
  /\ socket' = [socket EXCEPT ![k] = "closing"]
  /\ UNCHANGED <<ws, closedByUser, timers, held>>

\* Mutant: onerror schedules a reconnect as well.
OnCloseTwice(k) ==
  LET c == OwnerOf[k] IN
  /\ socket[k] = "closing" /\ socket' = [socket EXCEPT ![k] = "closed"]
  /\ ws' = [ws EXCEPT ![c] = NoSocket]
  /\ IF closedByUser[c] THEN UNCHANGED <<timers, held>>
     ELSE timers' = [timers EXCEPT ![c] = @ + 2] /\ held' = [held EXCEPT ![c] = TRUE]
  /\ UNCHANGED closedByUser

\* Mutant: a closed connection is not retried.
OnCloseGivesUp(k) ==
  LET c == OwnerOf[k] IN
  /\ socket[k] = "closing" /\ socket' = [socket EXCEPT ![k] = "closed"]
  /\ ws' = [ws EXCEPT ![c] = NoSocket]
  /\ UNCHANGED <<closedByUser, timers, held>>

\* onclose: whichever socket it is, ws is cleared; scheduleReconnect.
OnClose(k) ==
  LET c == OwnerOf[k] IN
  /\ socket[k] = "closing" /\ socket' = [socket EXCEPT ![k] = "closed"]
  /\ ws' = [ws EXCEPT ![c] = NoSocket]
  /\ IF closedByUser[c] THEN UNCHANGED <<timers, held>>
     ELSE timers' = [timers EXCEPT ![c] = @ + 1] /\ held' = [held EXCEPT ![c] = TRUE]
  /\ UNCHANGED closedByUser

\* An application that calls connect only when the client is at rest.
AtRest(c) == Unsettled(c) = {} /\ timers[c] = 0

-----------------------------------------------------------------------------
(* Properties *)

\* With such an application a client has one socket, or is waiting for one
\* timer, and ws is the socket it can send on (RelayClient.ts:95-119).
OneSocket ==
  \A c \in Clients :
    /\ timers[c] <= 1
    /\ \A k \in Unsettled(c) : timers[c] = 0 /\ Unsettled(c) = {k} /\ ws[c] = k

\* disconnect() is final (RelayClient.ts:124-130): no timer is left to bring
\* the connection back, and no socket stays open.
ClosedStaysClosed ==
  \A c \in Clients : closedByUser[c] => timers[c] = 0 /\ Alive(c) = {}
=============================================================================
