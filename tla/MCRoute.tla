------------------------------ MODULE MCRoute ------------------------------
(* Route with two workers, two storages and one key.                       *)
EXTENDS Route

CONSTANTS w1, w2, i1, i2, n1, n2, p1, k1

MCWorkers == {w1, w2}
MCItems == {i1, i2}
MCNames == {n1, n2}
MCPrefixes == {p1}
MCKeys == {k1}
MCMatching == {<<p1, k1>>}
=============================================================================
