------------------------------ MODULE Presence ------------------------------
(***************************************************************************)
(* Presence of one user (presence/tracker.py): the Redis set of the user's *)
(* connection ids, the key with the reported IDLE state, and their TTLs.   *)
(* The user's connections are on any nodes; each one's handler runs the    *)
(* Redis commands of connection_online, refresh, set_state and             *)
(* connection_offline, and the commands of different handlers interleave.  *)
(* Time is counted in heartbeat intervals: an interval ends when every     *)
(* live connection has answered its PING.                                  *)
(***************************************************************************)
EXTENDS Integers, FiniteSets

CONSTANTS Conns,        \* the user's connections
          Ttl,          \* settings.presence_ttl_seconds, in heartbeat intervals
          MaxCrashes    \* bound: connections whose node dies

ASSUME PresenceAssumption == Ttl \in Nat \ {0} /\ MaxCrashes \in Nat

VARIABLES pc,        \* stage of each connection's handler
          members,   \* relay:presence:{tenant}:{user}; an empty set has no key
          age,       \* intervals since the key's TTL was set
          idle,      \* relay:presence:{tenant}:{user}:state holds IDLE
          idleAge,   \* intervals since that key's TTL was set
          due,       \* connections that have not answered this interval's PING
          crashes    \* connections lost with their node

keys == <<members, age, idle, idleAge>>
vars == <<pc, keys, due, crashes>>

Live == {c \in Conns : pc[c] = "live"}
Closing == {c \in Conns : pc[c] \in {"srem", "scard", "del"}}

TypeOK ==
  /\ pc \in [Conns -> {"new", "live", "srem", "scard", "del", "gone", "crashed"}]
  /\ members \subseteq Conns
  /\ age \in 0..Ttl /\ idle \in BOOLEAN /\ idleAge \in 0..Ttl
  /\ due \subseteq Conns /\ crashes \in 0..MaxCrashes

Init ==
  /\ pc = [c \in Conns |-> "new"]
  /\ members = {} /\ age = 0 /\ idle = FALSE /\ idleAge = 0
  /\ due = {} /\ crashes = 0

Goto(c, at) == pc' = [pc EXCEPT ![c] = at]

\* connection_online: SADD and EXPIRE in one transaction.
ConnectionOnline(c) ==
  /\ pc[c] = "new"
  /\ members' = members \cup {c} /\ age' = 0
  /\ Goto(c, "live")
  /\ UNCHANGED <<idle, idleAge, due, crashes>>

\* refresh, on PONG: EXPIRE of both keys; EXPIRE of a missing key does nothing.
Refresh(c) ==
  /\ c \in Live /\ c \in due
  /\ age' = 0 /\ idleAge' = 0
  /\ due' = due \ {c}
  /\ UNCHANGED <<pc, members, idle, crashes>>

\* set_state, on PRESENCE: IDLE sets the key, anything else deletes it.
SetState(c) ==
  /\ c \in Live
  /\ idle' \in BOOLEAN
  /\ idleAge' = 0
  /\ UNCHANGED <<pc, members, age, due, crashes>>

\* The connection ends: connection_offline runs, one command at a time.
Close(c) ==
  /\ c \in Live
  /\ Goto(c, "srem")
  /\ UNCHANGED <<keys, due, crashes>>

OfflineRemove(c) ==
  /\ pc[c] = "srem"
  /\ members' = members \ {c}
  /\ Goto(c, "scard")
  /\ UNCHANGED <<age, idle, idleAge, due, crashes>>

\* Mutant: the count is compared with one, as if it still held the connection.
OfflineCountOffByOne(c) ==
  /\ pc[c] = "scard"
  /\ Goto(c, IF Cardinality(members) <= 1 THEN "del" ELSE "gone")
  /\ UNCHANGED <<keys, due, crashes>>

OfflineCount(c) ==
  /\ pc[c] = "scard"
  /\ Goto(c, IF members = {} THEN "del" ELSE "gone")
  /\ UNCHANGED <<keys, due, crashes>>

\* Mutant: the reported state is left behind.
OfflineDeleteSetOnly(c) ==
  /\ pc[c] = "del"
  /\ members' = {}
  /\ Goto(c, "gone")
  /\ UNCHANGED <<age, idle, idleAge, due, crashes>>

OfflineDelete(c) ==
  /\ pc[c] = "del"
  /\ members' = {} /\ idle' = FALSE
  /\ Goto(c, "gone")
  /\ UNCHANGED <<age, idleAge, due, crashes>>

\* The node dies, or a command of connection_offline raises: nothing more runs.
Crash(c) ==
  /\ c \in Live \cup Closing /\ crashes < MaxCrashes
  /\ crashes' = crashes + 1
  /\ Goto(c, "crashed")
  /\ UNCHANGED <<keys, due>>

\* Mutant: the keys have no TTL.
TickWithoutExpiry ==
  /\ due \cap Live = {}
  /\ age' = IF age < Ttl THEN age + 1 ELSE age
  /\ idleAge' = IF idleAge < Ttl THEN idleAge + 1 ELSE idleAge
  /\ due' = Live
  /\ UNCHANGED <<pc, members, idle, crashes>>

\* An interval ends: a key whose TTL was not set for Ttl intervals expires.
Tick ==
  /\ due \cap Live = {}
  /\ members' = IF age = Ttl THEN {} ELSE members
  /\ age' = IF age = Ttl THEN 0 ELSE age + 1
  /\ idle' = (idle /\ idleAge < Ttl)
  /\ idleAge' = IF idleAge = Ttl THEN 0 ELSE idleAge + 1
  /\ due' = Live
  /\ UNCHANGED <<pc, crashes>>

Offline(c) == OfflineRemove(c) \/ OfflineCount(c) \/ OfflineDelete(c)

Next ==
  \/ \E c \in Conns : \/ ConnectionOnline(c) \/ Refresh(c) \/ SetState(c) \/ Close(c)
                      \/ Offline(c) \/ Crash(c)
  \/ Tick

Spec == Init /\ [][Next]_vars

\* No connection opens while another one's connection_offline runs.
Calm == \A c \in Conns : ConnectionOnline(c) => Closing = {}
CalmSpec == Init /\ [][Next /\ Calm]_vars

\* Redis keeps time and answers; a live client answers its PINGs.
Fairness ==
  /\ WF_vars(Tick)
  /\ \A c \in Conns : WF_vars(Offline(c)) /\ WF_vars(Refresh(c))

FairCalmSpec == CalmSpec /\ Fairness

-----------------------------------------------------------------------------
(* Properties *)

\* "Closing one must not mark them offline" (docs/presence.md:33-34): a live
\* connection is in the user's set, whichever siblings close, crash or expire.
LiveIsMember == Live \subseteq members

\* A user who left in order, and is back, is ONLINE and not the IDLE of an
\* earlier visit (tracker.py:73-75).
FreshIsOnline == members = {} /\ Closing = {} /\ crashes = 0 => ~idle

\* Presence outlives the connections by the TTL at most (tracker.py:56-58):
\* when every connection is gone, crashed ones included, the user goes OFFLINE.
GoneIsOffline == Live = {} ~> members = {} \/ Live # {}
=============================================================================
