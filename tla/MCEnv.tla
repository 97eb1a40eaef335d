------------------------------- MODULE MCEnv -------------------------------
(* Two slots and pages enough for every interleaving of allocation, switch,
   mapping, caching and release of three environments.                     *)
EXTENDS Env

CONSTANT p1
OnePage == {p1}

BothClients == BOOLEAN
CarefulOnly == {TRUE}
=============================================================================
