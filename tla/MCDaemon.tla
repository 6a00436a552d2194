------------------------------ MODULE MCDaemon ------------------------------
(* Instances of Daemon: a background daemon with two storages, a child and   *)
(* two parents, and one in the foreground with two storages.                 *)
EXTENDS Daemon

Storages == <<"file", "memory">>
OneChild == <<"child">>
TwoParents == <<"p1", "p2">>
Nobody == <<>>
Served == {<<"file", "a">>, <<"memory", "b">>}
AllFaults == {"fail", "stale", "busy"}
=============================================================================
