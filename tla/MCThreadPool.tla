---------------------------- MODULE MCThreadPool ----------------------------
(* ThreadPool with the two servers of propd and two workers.               *)
EXTENDS ThreadPool

CONSTANTS w1, w2, io, ctrl

MCWorkers == {w1, w2}
MCServers == {io, ctrl}
MCBoth == BOOLEAN
=============================================================================
