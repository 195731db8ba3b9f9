---------------------------- MODULE AtLeastOnce ----------------------------
(***************************************************************************)
(* What Relay promises an application that listens to a channel through    *)
(* RelayClient, without any of the machinery: from the first message it is *)
(* handed, no message is skipped in silence.  Whenever it is handed a      *)
(* message, every earlier one since that first was handed to it as well,   *)
(* or reported as missing.  Messages may come twice and late.  The view    *)
(* starts anew when the application gives the channel up or is told to     *)
(* resynchronize from its own source of truth.                             *)
(***************************************************************************)
EXTENDS Integers

CONSTANT Channels

VARIABLES published,   \* sequence of the newest message of each channel
          start,       \* first message of the application's view, 0 for none
          handled,     \* messages handed to the application
          reported     \* messages reported to it as missing

vars == <<published, start, handled, reported>>

Init ==
  /\ published = [c \in Channels |-> 0]
  /\ start = [c \in Channels |-> 0]
  /\ handled = [c \in Channels |-> {}]
  /\ reported = [c \in Channels |-> {}]

Publish(c) ==
  /\ published' = [published EXCEPT ![c] = @ + 1]
  /\ UNCHANGED <<start, handled, reported>>

Hand(c, s) ==
  /\ s \in 1..published[c]
  /\ handled' = [handled EXCEPT ![c] = @ \cup {s}]
  /\ \E missing \in SUBSET (1..published[c]) :
       reported' = [reported EXCEPT ![c] = @ \cup missing]
  /\ start' = [start EXCEPT ![c] = IF @ = 0 THEN s ELSE @]
  /\ \A t \in start'[c]..s : t \in handled'[c] \/ t \in reported'[c]
  /\ UNCHANGED published

Restart(S) ==
  /\ start' = [c \in Channels |-> IF c \in S THEN 0 ELSE start[c]]
  /\ UNCHANGED <<published, handled, reported>>

Next ==
  \/ \E c \in Channels : Publish(c) \/ \E s \in 1..published[c] : Hand(c, s)
  \/ \E S \in SUBSET Channels : Restart(S)

Spec == Init /\ [][Next]_vars
=============================================================================
