----------------------------- MODULE MCPublish -----------------------------
EXTENDS Publish, TLC

Perms == Permutations(Requests) \cup Permutations(Keys)
=============================================================================
