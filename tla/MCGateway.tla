----------------------------- MODULE MCGateway -----------------------------
EXTENDS Gateway, TLC

Perms == Permutations(Named) \cup Permutations(Conns \ Named)
=============================================================================
