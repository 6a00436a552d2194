-------------------------------- MODULE MCIO --------------------------------
(* IO with three workers, one key and two values.                          *)
EXTENDS IO, TLC

CONSTANTS t1, t2, t3, k1, v1, v2, s1, s2

MCThreads == {t1, t2, t3}
MCKey == {k1}
MCValues == {v1, v2}
MCOne == {s1}
MCTwo == {s1, s2}
MCLocal == <<s1>>
MCServes == {s1, s2} \X MCKey
MCServesOne == {s1} \X MCKey

MCRefuse == {"refuse"}
MCAllFaults == {"refuse", "lost", "nomem"}

\* Nothing tells workers or values apart.
Symmetry == Permutations(MCThreads) \cup Permutations(MCValues)
=============================================================================
