----------------------------- MODULE MCDelivery -----------------------------
(***************************************************************************)
(* One channel for TLC, with enough messages for the position to fall      *)
(* behind a trimmed buffer; the theorems hold for any set of channels.     *)
(***************************************************************************)
EXTENDS Delivery

CONSTANTS c1, Messages

OneChannel == {c1}
EachChannel == [c \in Channels |-> Messages]
=============================================================================
