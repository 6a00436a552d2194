------------------------------ MODULE MCCache ------------------------------
(* Cache with two clients that share one key.                         *)
EXTENDS Cache, TLC

CONSTANTS c1, c2, k1, v1, v2

MCClients == {c1, c2}
MCKeys == {k1}
MCValues == {v1, v2}
MCDurations == {0, 1, Inf}
MCWalls == {1}

\* Nothing tells clients or values apart.
Symmetry == Permutations(MCClients) \cup Permutations(MCValues)
=============================================================================
