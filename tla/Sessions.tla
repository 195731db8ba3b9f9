------------------------------ MODULE Sessions ------------------------------
(***************************************************************************)
(* Sessions and who may use them: tenants and API keys of the control      *)
(* plane, the authentication and session part of the CONNECT handshake,    *)
(* touch_session on every PONG, record_ack on every ACK, and the TTLs of   *)
(* the session hash and of its ack position in Redis.  Every Redis command *)
(* is a step of its own, and a connection may end at any of them.          *)
(*                                                                         *)
(* Time is counted in heartbeat intervals: a connection that has not       *)
(* answered since the last Tick ends before the next one (run_heartbeat).  *)
(***************************************************************************)
EXTENDS Integers

CONSTANTS Tenants, Keys, Conns, SessionIds, None,
          Window,      \* session_resume_window_seconds, in heartbeat intervals
          MaxSeq       \* bound: sequences acknowledged

ASSUME SessionsAssumption ==
  /\ Window \in Nat /\ Window > 1 /\ MaxSeq \in Nat
  /\ None \notin Tenants \cup Keys \cup SessionIds

VARIABLES tenants,    \* rows of the tenants table
          keyTenant,  \* tenant of an API key, None before it is created
          revoked,    \* keys with status "revoked"
          pc,         \* the next await of a connection
          key, asked, \* token and session_id of its CONNECT, while needed
          tenant, session,   \* AuthContext.tenant_id, Connection.session_id
          ack,        \* sequence of the ACK in hand
          due,        \* a connection owes a PONG
          field,      \* tenant_id in the session hash
          left,       \* intervals until the hash expires, 0 for no hash
          position, positionLeft,   \* relay:session-ack and its time to live
          madeFor,    \* history: the tenant create_session was called for
          shared,     \* history: sessions two connections have used at once
          lapsed,     \* history: sessions that expired while a connection took them up
          stranded    \* history: hashes a connection left without a TTL

database == <<tenants, keyTenant, revoked>>
hash == <<field, left, stranded>>
positions == <<position, positionLeft>>
local == <<key, asked, tenant, session, ack>>
vars == <<database, pc, local, due, hash, positions, madeFor, shared, lapsed>>

Forever == Window + 1    \* a hash without a TTL
Serving == {"live", "touch", "expire", "ackset"}
States == {"new", "auth", "lookup", "create", "closed"} \cup Serving

TypeOK ==
  /\ tenants \subseteq Tenants /\ keyTenant \in [Keys -> Tenants \cup {None}] /\ revoked \subseteq Keys
  /\ pc \in [Conns -> States] /\ key \in [Conns -> Keys \cup {None}]
  /\ asked \in [Conns -> SessionIds \cup {None}] /\ tenant \in [Conns -> Tenants \cup {None}]
  /\ session \in [Conns -> SessionIds \cup {None}] /\ ack \in [Conns -> 0..MaxSeq]
  /\ due \in [Conns -> BOOLEAN]
  /\ field \in [SessionIds -> Tenants \cup {None}] /\ left \in [SessionIds -> 0..Forever]
  /\ position \in [SessionIds -> 0..MaxSeq] /\ positionLeft \in [SessionIds -> 0..Window]
  /\ madeFor \in [SessionIds -> Tenants \cup {None}]
  /\ shared \subseteq SessionIds /\ lapsed \subseteq SessionIds /\ stranded \subseteq SessionIds

Init ==
  /\ tenants = {} /\ keyTenant = [k \in Keys |-> None] /\ revoked = {}
  /\ pc = [c \in Conns |-> "new"] /\ key = [c \in Conns |-> None]
  /\ asked = [c \in Conns |-> None] /\ tenant = asked /\ session = asked
  /\ ack = [c \in Conns |-> 0] /\ due = [c \in Conns |-> FALSE]
  /\ field = [s \in SessionIds |-> None] /\ left = [s \in SessionIds |-> 0]
  /\ position = left /\ positionLeft = left
  /\ madeFor = field
  /\ shared = {} /\ lapsed = {} /\ stranded = {}

-----------------------------------------------------------------------------
(* The control plane *)

CreateTenant(t) ==
  /\ t \notin tenants
  /\ tenants' = tenants \cup {t}
  /\ UNCHANGED <<keyTenant, revoked, pc, local, due, hash, positions, madeFor, shared, lapsed>>

CreateApiKey(k, t) ==
  /\ t \in tenants /\ keyTenant[k] = None
  /\ keyTenant' = [keyTenant EXCEPT ![k] = t]
  /\ UNCHANGED <<tenants, revoked, pc, local, due, hash, positions, madeFor, shared, lapsed>>

RevokeApiKey(k) ==
  /\ keyTenant[k] # None
  /\ revoked' = revoked \cup {k}
  /\ UNCHANGED <<tenants, keyTenant, pc, local, due, hash, positions, madeFor, shared, lapsed>>

-----------------------------------------------------------------------------
(* The handshake *)

Goto(c, at) == pc' = [pc EXCEPT ![c] = at]

\* CONNECT with the token of a key and the id of a session made earlier, or none.
Hello(c, k, s) ==
  /\ pc[c] = "new" /\ Goto(c, "auth")
  /\ keyTenant[k] # None
  /\ s # None => madeFor[s] # None
  /\ key' = [key EXCEPT ![c] = k] /\ asked' = [asked EXCEPT ![c] = s]
  /\ UNCHANGED <<database, tenant, session, ack, due, hash, positions, madeFor, shared, lapsed>>

\* authenticate_token: one query joining the active key and its tenant.  Close
\* stands for AUTH_FAILED and for the connection limit (module Gateway).
Authenticate(c) ==
  /\ pc[c] = "auth"
  /\ key[c] \notin revoked
  /\ tenant' = [tenant EXCEPT ![c] = keyTenant[key[c]]]
  /\ key' = [key EXCEPT ![c] = None]
  /\ Goto(c, IF asked[c] = None THEN "create" ELSE "lookup")
  /\ UNCHANGED <<database, asked, session, ack, due, hash, positions, madeFor, shared, lapsed>>

\* A connection holds a session from the lookup on.
Holders(s) == {c \in Conns : pc[c] \in Serving /\ session[c] = s}

\* Mutant: a session is resumed without a look at its tenant.
MayResumeAny(c, s) == left[s] # 0

MayResume(c, s) == left[s] # 0 /\ field[s] = tenant[c]

\* get_session: resume a hash that exists and names this tenant, or create one.
Lookup(c) ==
  /\ pc[c] = "lookup"
  /\ \/ /\ MayResume(c, asked[c])
        /\ session' = [session EXCEPT ![c] = asked[c]]
        /\ shared' = IF Holders(asked[c]) = {} THEN shared ELSE shared \cup {asked[c]}
        /\ Goto(c, "touch")
     \/ ~MayResume(c, asked[c]) /\ Goto(c, "create") /\ UNCHANGED <<session, shared>>
  /\ asked' = [asked EXCEPT ![c] = None]
  /\ UNCHANGED <<database, key, tenant, ack, due, hash, positions, madeFor, lapsed>>

\* create_session: HSET of a fresh id.
Create(c, s) ==
  /\ pc[c] = "create" /\ Goto(c, "expire")
  /\ madeFor[s] = None
  /\ session' = [session EXCEPT ![c] = s]
  /\ madeFor' = [madeFor EXCEPT ![s] = tenant[c]]
  /\ field' = [field EXCEPT ![s] = tenant[c]]
  /\ left' = [left EXCEPT ![s] = Forever]
  /\ UNCHANGED <<database, key, asked, tenant, ack, due, positions, stranded, shared, lapsed>>

-----------------------------------------------------------------------------
(* A connection in use *)

\* PONG, in answer to the PING of this interval.
Pong(c) ==
  /\ pc[c] = "live" /\ due[c] /\ Goto(c, "touch")
  /\ UNCHANGED <<database, local, due, hash, positions, madeFor, shared, lapsed>>

\* Mutant: touch_session writes the hash and leaves its TTL alone.
TouchOnly(c) ==
  /\ pc[c] = "touch" /\ Goto(c, "live")
  /\ due' = [due EXCEPT ![c] = FALSE]
  /\ UNCHANGED <<database, local, hash, positions, madeFor, shared, lapsed>>

\* A command for session s finds its hash expired.
NoteLapse(s) == lapsed' = IF left[s] = 0 THEN lapsed \cup {s} ELSE lapsed

\* touch_session: HSET makes a new hash, without tenant_id, of an expired one.
Touch(c) ==
  /\ pc[c] = "touch" /\ Goto(c, "expire")
  /\ left' = [left EXCEPT ![session[c]] = IF @ = 0 THEN Forever ELSE @]
  /\ NoteLapse(session[c])
  /\ UNCHANGED <<database, local, due, field, positions, stranded, madeFor, shared>>

\* Mutant: the EXPIRE is forgotten.
ExpireForgotten(c) ==
  /\ pc[c] = "expire" /\ Goto(c, "live")
  /\ due' = [due EXCEPT ![c] = FALSE]
  /\ UNCHANGED <<database, local, hash, positions, madeFor, shared, lapsed>>

\* EXPIRE, which ends create_session and touch_session alike.
Expire(c) ==
  /\ pc[c] = "expire" /\ Goto(c, "live")
  /\ left' = [left EXCEPT ![session[c]] = IF @ = 0 THEN 0 ELSE Window]
  /\ NoteLapse(session[c])
  /\ stranded' = stranded \ {session[c]}
  /\ due' = [due EXCEPT ![c] = FALSE]
  /\ UNCHANGED <<database, local, field, positions, madeFor, shared>>

\* Mutant: record_ack overwrites the position without reading it.
AckGetBlind(c, n) ==
  /\ pc[c] = "live" /\ Goto(c, "ackset")
  /\ ack' = [ack EXCEPT ![c] = n]
  /\ UNCHANGED <<database, key, asked, tenant, session, due, hash, positions, madeFor, shared, lapsed>>

\* record_ack: GET; the SET follows only for a higher sequence.
AckGet(c, n) ==
  /\ pc[c] = "live"
  /\ positionLeft[session[c]] = 0 \/ position[session[c]] < n
  /\ Goto(c, "ackset") /\ ack' = [ack EXCEPT ![c] = n]
  /\ UNCHANGED <<database, key, asked, tenant, session, due, hash, positions, madeFor, shared, lapsed>>

AckSet(c) ==
  /\ pc[c] = "ackset" /\ Goto(c, "live")
  /\ position' = [position EXCEPT ![session[c]] = ack[c]]
  /\ positionLeft' = [positionLeft EXCEPT ![session[c]] = Window]
  /\ ack' = [ack EXCEPT ![c] = 0]
  /\ UNCHANGED <<database, key, asked, tenant, session, due, hash, madeFor, shared, lapsed>>

\* The socket ends, Redis fails or the node crashes, at any await; the session
\* stays.  EXPIRE that is not sent leaves a hash without a TTL, if there is one.
Close(c) ==
  /\ pc[c] \notin {"new", "closed"} /\ Goto(c, "closed")
  /\ stranded' = IF pc[c] = "expire" /\ left[session[c]] = Forever
                 THEN stranded \cup {session[c]} ELSE stranded
  /\ key' = [key EXCEPT ![c] = None] /\ asked' = [asked EXCEPT ![c] = None]
  /\ tenant' = [tenant EXCEPT ![c] = None] /\ session' = [session EXCEPT ![c] = None]
  /\ ack' = [ack EXCEPT ![c] = 0] /\ due' = [due EXCEPT ![c] = FALSE]
  /\ UNCHANGED <<database, field, left, positions, madeFor, shared, lapsed>>

-----------------------------------------------------------------------------
(* One heartbeat interval.  Every connection that owed a PONG has answered    *)
(* (or was closed) and owes the next one.                                     *)
Tick ==
  /\ \A c \in Conns : ~due[c]
  /\ due' = [c \in Conns |-> pc[c] \in Serving]
  /\ left' = [s \in SessionIds |-> IF left[s] \in 1..Window THEN left[s] - 1 ELSE left[s]]
  /\ field' = [s \in SessionIds |-> IF left[s] = 1 THEN None ELSE field[s]]
  /\ positionLeft' = [s \in SessionIds |-> IF positionLeft[s] = 0 THEN 0 ELSE positionLeft[s] - 1]
  /\ position' = [s \in SessionIds |-> IF positionLeft[s] <= 1 THEN 0 ELSE position[s]]
  /\ UNCHANGED <<database, pc, local, stranded, madeFor, shared, lapsed>>

Next ==
  \/ \E t \in Tenants : CreateTenant(t) \/ \E k \in Keys : CreateApiKey(k, t)
  \/ \E k \in Keys : RevokeApiKey(k)
  \/ \E c \in Conns :
       \/ \E k \in Keys, s \in SessionIds \cup {None} : Hello(c, k, s)
       \/ Authenticate(c) \/ Lookup(c) \/ \E s \in SessionIds : Create(c, s)
       \/ Pong(c) \/ Touch(c) \/ Expire(c)
       \/ \E n \in 1..MaxSeq : AckGet(c, n)
       \/ AckSet(c) \/ Close(c)
  \/ Tick

Spec == Init /\ [][Next]_vars

\* Time passes; a connection that owes a PONG answers or is closed by its
\* heartbeat task, and the handler of a frame runs on.
Fairness ==
  /\ WF_vars(Tick)
  /\ \A c \in Conns : /\ WF_vars(due[c] /\ (Pong(c) \/ Touch(c) \/ Expire(c) \/ Close(c)))
                      /\ WF_vars(AckSet(c))

FairSpec == Spec /\ Fairness

-----------------------------------------------------------------------------
(* Properties *)

\* Tenant isolation of sessions (handler.py:90-91): a connection only ever uses
\* a session that was created for its own tenant, whatever session_id the
\* client names and however lookups, expiry and touches interleave.
SessionOfTenant ==
  \A c \in Conns : pc[c] \in Serving => madeFor[session[c]] = tenant[c]

\* touch_session on every PONG (handler.py:140-143): the session of a connected
\* client can be resumed at any time.  The exception is a session that expired
\* between the lookup and the EXPIRE of a handshake: it is gone, or a later
\* touch_session has recreated it without its tenant_id.
ConnectedIsResumable ==
  \A c \in Conns : pc[c] = "live" /\ session[c] \notin lapsed => MayResume(c, session[c])

\* "Everything here uses TTLs or trimming" (packages/redis/client.py:3-5): a
\* session hash lacks a TTL only between HSET and EXPIRE, or when the
\* connection ended in between.
EverlastingIsStranded ==
  \A s \in SessionIds : left[s] = Forever =>
    s \in stranded \/ \E c \in Conns : pc[c] = "expire" /\ session[c] = s

\* record_ack (manager.py:53, "only advance, never move backwards"): the stored
\* position goes down only by expiry, as long as one connection at a time uses
\* the session.
PositionAdvances ==
  [][\A s \in SessionIds \ shared : positionLeft'[s] # 0 => position'[s] >= position[s]]_vars

\* A session nobody uses is forgotten, unless its TTL was never set.
AbandonedExpires ==
  \A s \in SessionIds :
    (left[s] # 0 /\ Holders(s) = {}) ~> (left[s] = 0 \/ Holders(s) # {} \/ s \in stranded)
=============================================================================
