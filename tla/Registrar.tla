----------------------------- MODULE Registrar -----------------------------
(***************************************************************************)
(* NodeRegistrar beside the lifespan that drives it: the heartbeat task,   *)
(* mark_draining, stop and the node key with its TTL.  Writes travel on    *)
(* pooled Redis connections, so two of them may arrive in either order and *)
(* one whose task was cancelled may still arrive.  Any write may fail, and *)
(* the failure is suppressed.  Time is counted in heartbeat intervals.     *)
(***************************************************************************)
EXTENDS Lifespan, Integers

CONSTANT Ttl    \* node_ttl_seconds, in node_heartbeat_interval_seconds

ASSUME RegistrarAssumption == Ttl \in Nat /\ Ttl > 1

VARIABLES status,    \* NodeRegistrar._status
          loop,      \* the heartbeat task
          carried,   \* the status in the loop's write under way
          stray,     \* the status in a write whose task was cancelled
          key, age,  \* relay:nodes:{id}, and the intervals since it was set
          missed     \* history: heartbeats of a serving node that failed in a row

registrarVars == <<status, loop, carried, stray, key, age, missed>>
nodeVars == <<lifeVars, registrarVars>>

Written == {"active", "draining"}

NodeTypeOK ==
  /\ LifeTypeOK
  /\ status \in Written /\ loop \in {"none", "ready", "sent", "asleep"}
  /\ carried \in Written \cup {"none"} /\ stray \in Written \cup {"none"}
  /\ key \in Written \cup {"absent"} /\ age \in 0..Ttl - 1 /\ missed \in 0..Ttl - 1

NodeInit ==
  /\ LifeInit
  /\ status = "active" /\ loop = "none" /\ carried = "none" /\ stray = "none"
  /\ key = "absent" /\ age = 0 /\ missed = Ttl - 1

\* _write: SET with the TTL, or a failure.
Set(value) == key' = value /\ age' = 0
NotSet == UNCHANGED <<key, age>>

\* start: one write, then the loop.
StartRegistrar ==
  /\ Start /\ loop' = "ready"
  /\ \/ Set(status) /\ missed' = 0
     \/ NotSet /\ UNCHANGED missed
  /\ UNCHANGED <<status, carried, stray>>

\* _loop: the command holds the status of the moment it is built.
LoopSends ==
  /\ loop = "ready" /\ loop' = "sent" /\ carried' = status
  /\ UNCHANGED <<lifeVars, status, stray, key, age, missed>>

\* Mutant: a failed write ends the loop.
LoopAnsweredOrEnds ==
  /\ loop = "sent" /\ carried' = "none"
  /\ \/ Set(carried) /\ missed' = 0 /\ loop' = "asleep"
     \/ NotSet /\ UNCHANGED missed /\ loop' = "none"
  /\ UNCHANGED <<lifeVars, status, stray>>

LoopAnswered ==
  /\ loop = "sent" /\ loop' = "asleep" /\ carried' = "none"
  /\ \/ Set(carried) /\ missed' = 0
     \/ /\ NotSet
        /\ missed' = IF life = "serving" /\ missed + 1 < Ttl THEN missed + 1 ELSE missed
  /\ UNCHANGED <<lifeVars, status, stray>>

\* Mutant: mark_draining writes the key but keeps the status of the loop.
MarkDrainingOnce == Shutdown /\ UNCHANGED registrarVars

MarkDraining ==
  /\ Shutdown /\ status' = "draining" /\ missed' = 0
  /\ UNCHANGED <<loop, carried, stray, key, age>>

MarkAnswered ==
  /\ Marked
  /\ Set("draining") \/ NotSet
  /\ UNCHANGED <<status, loop, carried, stray, missed>>

\* Mutant: stop deletes the key while the loop goes on.
CancelNothing == UNCHANGED <<loop, carried, stray>>

\* The loop ends, by stop's cancel or with the process: what it has sent may
\* reach Redis later.
CancelLoop == loop' = "none" /\ carried' = "none" /\ stray' = carried

StopRegistrar == Drained /\ CancelLoop /\ UNCHANGED <<status, key, age, missed>>

\* stop's DEL.
DeleteAnswered ==
  /\ Stop
  /\ Set("absent") \/ NotSet
  /\ UNCHANGED <<status, loop, carried, stray, missed>>

NodeCrash == Crash /\ CancelLoop /\ missed' = 0 /\ UNCHANGED <<status, key, age>>

StrayArrives ==
  /\ stray # "none" /\ stray' = "none"
  /\ Set(stray) \/ NotSet
  /\ UNCHANGED <<lifeVars, status, loop, carried, missed>>

\* One interval: writes take less, the loop wakes, the key ages and expires.
Tick ==
  /\ life # "starting" /\ loop \notin {"ready", "sent"} /\ stray = "none"
  /\ loop' = IF loop = "asleep" THEN "ready" ELSE loop
  /\ IF key = "absent" \/ age + 1 = Ttl THEN Set("absent")
     ELSE age' = age + 1 /\ UNCHANGED key
  /\ UNCHANGED <<lifeVars, status, carried, stray, missed>>

NodeStep ==
  \/ StartRegistrar \/ MarkDraining \/ MarkAnswered \/ StopRegistrar \/ DeleteAnswered
  \/ LoopSends \/ LoopAnswered \/ StrayArrives \/ Tick

-----------------------------------------------------------------------------
(* Properties *)

\* A serving node is listed (registration.py:44-48): the key outlives failed
\* heartbeat writes as long as fewer than Ttl - 1 fail in a row.
ServingIsListed == life = "serving" /\ missed + 1 < Ttl => key # "absent"

\* failure-model.md, "node draining": the status "active" of a draining node,
\* possibly set late by a heartbeat write that was under way when mark_draining
\* wrote "draining", does not stay.
ActiveIsCorrected == (draining /\ key = "active") ~> (key # "active")

\* control_plane list_nodes: after a shutdown or a crash the node disappears
\* from the list for good, whatever was still under way to Redis.
EndedIsForgotten == life \in Ended ~> [](key = "absent")
=============================================================================
