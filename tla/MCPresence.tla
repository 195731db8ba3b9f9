---------------------------- MODULE MCPresence ----------------------------
EXTENDS Presence, TLC

Perms == Permutations(Conns)
=============================================================================
