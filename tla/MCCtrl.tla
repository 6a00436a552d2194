------------------------------- MODULE MCCtrl -------------------------------
(* Ctrl with two clients and two workers.                                  *)
EXTENDS Ctrl, TLC

CONSTANTS c1, c2, w1, w2, p1, p2, p3

MCClients == {c1, c2}
MCWorkers == {w1, w2}
\* At most two requests are under way, and the server fills a third package.
MCPkgs == {p1, p2, p3}

\* One type that borrows from the server and one that does not.
MCTypes == {"register_child", "register_parent"}
MCDumps == {"dump_db_route"}
MCNothing == {}
MCFaults == {"nomem", "kill", "stop"}
=============================================================================
