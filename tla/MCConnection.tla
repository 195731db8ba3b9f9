----------------------------- MODULE MCConnection -----------------------------
(* Small instances of Connection for TLC. *)
EXTENDS Connection, TLC

\* The channels are interchangeable.
Perms == Permutations(Channels)
=============================================================================
