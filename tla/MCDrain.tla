------------------------------ MODULE MCDrain ------------------------------
EXTENDS Drain, TLC

CONSTANTS a, a1, a2, x

\* One client that can make two sockets.
OneClient == (a1 :> a) @@ (a2 :> a)
=============================================================================
