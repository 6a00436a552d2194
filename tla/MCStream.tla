------------------------------ MODULE MCStream ------------------------------
(* Stream with two callers on one connection, and with one connection per  *)
(* call.                                                                   *)
EXTENDS Stream

CONSTANTS t1, t2, k1, k2

MCCallers == {t1, t2}
MCConns == {k1, k2}
MCOps == {"get", "set", "del"}
MCLengths == {1, 2}

\* Callers with connections of their own share nothing: one is enough, with a
\* second connection while the child still serves the one it closed; data in
\* pieces needs no second call.
MCSetups == {
  [shared |-> TRUE, callers |-> MCCallers, faults |-> {"refuse", "close", "hang"}, maxCalls |-> 3],
  [shared |-> FALSE, callers |-> {t1}, faults |-> {"refuse", "close", "stop", "hang"},
   maxCalls |-> 2],
  [shared |-> FALSE, callers |-> {t1},
   faults |-> {"refuse", "nomem", "split", "close", "stop", "hang"}, maxCalls |-> 1]}
=============================================================================
