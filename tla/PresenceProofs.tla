--------------------------- MODULE PresenceProofs ---------------------------
(***************************************************************************)
(* What holds of a user's presence for any set of connections, TTL and     *)
(* number of crashes.                                                      *)
(***************************************************************************)
EXTENDS Presence, TLAPS

\* A connection that has answered its PING in this interval, or came in it,
\* has set the TTL of the set.
AnsweredIsFresh == Live \ due # {} => age = 0

\* DEL is on its way only after SCARD found no connection, and no connection
\* opens meanwhile.
DeleteIsLast == \A c \in Conns : pc[c] = "del" => Live = {}

MemberInv == LiveIsMember /\ AnsweredIsFresh /\ DeleteIsLast

\* As long as no node has died, the set holds nobody whose SREM was executed.
MembersAreHere ==
  crashes = 0 => members \subseteq Live \cup {c \in Conns : pc[c] = "srem"}

\* As long as no node has died, somebody who will delete the reported state is
\* still there.
IdleIsHeld ==
  crashes = 0 /\ idle => Live \cup Closing # {}

StateInv == MembersAreHere /\ IdleIsHeld

-----------------------------------------------------------------------------

LEMMA TypeInit == Init => TypeOK
<1> SUFFICES ASSUME Init PROVE TypeOK
  OBVIOUS
<1>1. idle \in BOOLEAN
  BY Zenon DEF Init
<1> QED BY <1>1, PresenceAssumption DEF Init, TypeOK

LEMMA TypeStep == TypeOK /\ [Next]_vars => TypeOK'
<1> SUFFICES ASSUME TypeOK, [Next]_vars PROVE TypeOK'
  OBVIOUS
<1> USE PresenceAssumption DEF TypeOK, keys, Goto
<1>1. ASSUME NEW c \in Conns, ConnectionOnline(c) PROVE TypeOK'
  BY <1>1 DEF ConnectionOnline
<1>2. ASSUME NEW c \in Conns, Refresh(c) PROVE TypeOK'
  BY <1>2 DEF Refresh
<1>3. ASSUME NEW c \in Conns, SetState(c) PROVE TypeOK'
  BY <1>3 DEF SetState
<1>4. ASSUME NEW c \in Conns, Close(c) PROVE TypeOK'
  BY <1>4 DEF Close
<1>5. ASSUME NEW c \in Conns, Offline(c) PROVE TypeOK'
  BY Zenon, <1>5 DEF Offline, OfflineRemove, OfflineCount, OfflineDelete
<1>6. ASSUME NEW c \in Conns, Crash(c) PROVE TypeOK'
  BY <1>6 DEF Crash
<1>7. CASE Tick
  BY <1>7 DEF Tick, Live
<1>8. CASE UNCHANGED vars
  BY <1>8 DEF vars
<1> QED BY <1>1, <1>2, <1>3, <1>4, <1>5, <1>6, <1>7, <1>8 DEF Next

\* The state of a user's presence keeps its types, however the commands of
\* different handlers interleave.
THEOREM PresenceTypes == Spec => []TypeOK
BY TypeInit, TypeStep, PTL DEF Spec

-----------------------------------------------------------------------------
(* A live connection is in the set. *)

LEMMA MemberStep ==
  ASSUME TypeOK, MemberInv, [Next /\ Calm]_vars
  PROVE  MemberInv'
<1> USE PresenceAssumption DEF TypeOK, MemberInv, LiveIsMember, AnsweredIsFresh, DeleteIsLast, Live, keys, Goto
<1>1. ASSUME NEW c \in Conns, ConnectionOnline(c), Closing = {} PROVE MemberInv'
  BY <1>1 DEF ConnectionOnline, Closing
<1>2. ASSUME NEW c \in Conns, Refresh(c) PROVE MemberInv'
  BY <1>2 DEF Refresh
<1>3. ASSUME NEW c \in Conns, SetState(c) PROVE MemberInv'
  BY <1>3 DEF SetState
<1>4. ASSUME NEW c \in Conns, Close(c) PROVE MemberInv'
  BY <1>4 DEF Close
<1>5. ASSUME NEW c \in Conns, OfflineRemove(c) PROVE MemberInv'
  BY <1>5 DEF OfflineRemove
<1>6. ASSUME NEW c \in Conns, OfflineCount(c) PROVE MemberInv'
  BY <1>6 DEF OfflineCount
<1>7. ASSUME NEW c \in Conns, OfflineDelete(c) PROVE MemberInv'
  BY <1>7 DEF OfflineDelete
<1>8. ASSUME NEW c \in Conns, Crash(c) PROVE MemberInv'
  BY <1>8 DEF Crash
<1>9. CASE Tick
  <2>1. Live # {} => age = 0
    BY <1>9 DEF Tick
  <2>2. Live # {} => members' = members
    BY <1>9, <2>1 DEF Tick
  <2> QED BY <1>9, <2>1, <2>2 DEF Tick
<1>10. CASE UNCHANGED vars
  BY <1>10 DEF vars
<1> QED BY <1>1, <1>2, <1>3, <1>4, <1>5, <1>6, <1>7, <1>8, <1>9, <1>10 DEF Next, Calm, Offline

LEMMA MemberHolds == CalmSpec => [](TypeOK /\ MemberInv)
<1>1. Init => MemberInv
  BY DEF Init, MemberInv, LiveIsMember, AnsweredIsFresh, DeleteIsLast, Live
<1>2. TypeOK /\ MemberInv /\ [Next /\ Calm]_vars => (TypeOK /\ MemberInv)'
  BY TypeStep, MemberStep
<1> QED BY TypeInit, <1>1, <1>2, PTL DEF CalmSpec

\* A live connection is in the user's set whichever siblings close, crash or let
\* their TTL run: closing one does not mark them offline (connection_offline and
\* refresh of tracker.py), as long as no connection opens between the commands of
\* another one's connection_offline.
THEOREM LiveStaysMember == CalmSpec => []LiveIsMember
BY MemberHolds, PTL DEF MemberInv

-----------------------------------------------------------------------------
(* The reported state does not outlive an orderly departure. *)

LEMMA StateStep ==
  ASSUME TypeOK, StateInv, [Next]_vars
  PROVE  StateInv'
<1> USE PresenceAssumption DEF TypeOK, StateInv, MembersAreHere, IdleIsHeld, Live, Closing, keys, Goto
<1>1. ASSUME NEW c \in Conns, ConnectionOnline(c) PROVE StateInv'
  BY <1>1 DEF ConnectionOnline
<1>2. ASSUME NEW c \in Conns, Refresh(c) PROVE StateInv'
  BY <1>2 DEF Refresh
<1>3. ASSUME NEW c \in Conns, SetState(c) PROVE StateInv'
  BY <1>3 DEF SetState
<1>4. ASSUME NEW c \in Conns, Close(c) PROVE StateInv'
  BY <1>4 DEF Close
<1>5. ASSUME NEW c \in Conns, OfflineRemove(c) PROVE StateInv'
  BY <1>5 DEF OfflineRemove
<1>6. ASSUME NEW c \in Conns, OfflineCount(c) PROVE StateInv'
  BY <1>6 DEF OfflineCount
<1>7. ASSUME NEW c \in Conns, OfflineDelete(c) PROVE StateInv'
  BY <1>7 DEF OfflineDelete
<1>8. ASSUME NEW c \in Conns, Crash(c) PROVE StateInv'
  BY <1>8 DEF Crash
<1>9. CASE Tick
  BY <1>9 DEF Tick
<1>10. CASE UNCHANGED vars
  BY <1>10 DEF vars
<1> QED BY <1>1, <1>2, <1>3, <1>4, <1>5, <1>6, <1>7, <1>8, <1>9, <1>10 DEF Next, Offline

\* A user whose connections all left in order is not IDLE when the next one
\* comes: the last connection_offline to count the set deleted the reported state
\* with it (tracker.py), whatever the interleaving of the departures.
THEOREM DepartureForgetsState == CalmSpec => []FreshIsOnline
<1>1. Init => StateInv
  BY DEF Init, StateInv, MembersAreHere, IdleIsHeld
<1>2. TypeOK /\ StateInv /\ [Next /\ Calm]_vars => StateInv'
  BY StateStep
<1>3. MemberInv /\ StateInv => FreshIsOnline
  BY DEF MemberInv, LiveIsMember, StateInv, IdleIsHeld, FreshIsOnline
<1> QED BY MemberHolds, <1>1, <1>2, <1>3, PTL DEF CalmSpec
=============================================================================
