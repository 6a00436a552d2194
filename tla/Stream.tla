------------------------------- MODULE Stream -------------------------------
(***************************************************************************)
(* A daemon as the storage of another one: get, set and del of             *)
(* lib/builtin/unix.c, called by the workers of the parent, and the loop   *)
(* of a worker of the child in lib/io_server.c, over stream sockets.  The  *)
(* callers share one connection under a mutex (Shared) or open one for     *)
(* every call.                                                             *)
(*                                                                         *)
(* A stream is a sequence of units of four bytes.  recv(n) waits for the   *)
(* first unit, also when n is 0, and takes up to n of those that are       *)
(* there, whoever they were meant for; what is short is EIO.  A send is    *)
(* one step unless the data exceeds the socket's buffer ("split").         *)
(***************************************************************************)
EXTENDS Integers, Sequences

CONSTANTS
  Callers,     \* the workers of the parent
  Conns,       \* connections
  NoConn, NoThread,
  Ops,         \* of {"get", "set", "del"}
  Lengths,     \* of values, in units
  Setups       \* the ways to set the two daemons up: whether the connection is
               \* shared, the callers, what goes wrong, and the bound on the calls

Constants ==
  /\ Conns # {} /\ NoConn \notin Conns /\ NoThread \notin Callers
  /\ Ops \subseteq {"get", "set", "del"}
  /\ Lengths \subseteq Nat
  /\ Setups \subseteq [shared : BOOLEAN, callers : SUBSET Callers,
                        faults : SUBSET {"refuse", "nomem", "split", "close", "stop", "hang"},
                        maxCalls : Nat]

ASSUME StreamAssumption == Constants

VARIABLES
  setup,    \* the setup, which does not change
  at,       \* at[t]: where the caller is
  me,       \* me[t]: its call
  conn,     \* conn[t]: connfd
  mutex,    \* priv->mutex
  upstream, \* upstream[k]: the units on their way to the child
  down,     \* down[k]: and those on their way back
  open,     \* the connections that the caller has not closed
  srv,      \* srv[k]: where the worker that serves k is, "none" without one
  cur,      \* cur[k]: the request it serves
  parent,   \* "up", "stop" (workers are cancelled), "killed" by SIGPIPE
  child,    \* "up", "hung" (its workers do not go on), "down"
  calls

caller == <<at, me, conn, mutex, open>>
server == <<srv, cur>>
streamVars == <<setup, caller, upstream, down, server, parent, child, calls>>

Shared == setup.shared
SetupFaults == setup.faults
TheConn == CHOOSE k \in Conns : TRUE     \* the shared one

NoCall == [id |-> 0, op |-> "none", len |-> 0, clean |-> TRUE, res |-> "none"]

StreamInit ==
  /\ setup \in Setups
  /\ at = [t \in Callers |-> "idle"]
  /\ me = [t \in Callers |-> NoCall]
  /\ conn = [t \in Callers |-> NoConn]
  /\ mutex = NoThread
  /\ upstream = [k \in Conns |-> <<>>] /\ down = [k \in Conns |-> <<>>]
  /\ open = IF Shared THEN {TheConn} ELSE {}
  /\ srv = [k \in Conns |-> IF k \in open THEN "recv" ELSE "none"]
  /\ cur = [k \in Conns |-> NoCall]
  /\ parent = "up" /\ child = "up"
  /\ calls = 0

Alive == parent # "killed"
Peer(k) == srv[k] # "none"          \* the other end has not been closed

\* n units of a part of message i; val is what the first unit carries.
Units(i, part, val, n) == [j \in 1 .. n |-> [id |-> i, part |-> part, val |-> val]]
Drop(s, n) == SubSeq(s, n + 1, Len(s))
Least(m, n) == IF m < n THEN m ELSE n

-----------------------------------------------------------------------------
(* The caller: lock or connect, io_begin, the receives, unlock or close.   *)

Call(t, o, n) ==
  /\ parent = "up"
  /\ t \in setup.callers
  /\ at[t] = "idle"
  /\ calls < setup.maxCalls
  /\ n \in IF o = "set" THEN Lengths ELSE {0}
  /\ calls' = calls + 1
  /\ me' = [me EXCEPT ![t] = [NoCall EXCEPT !.id = calls', !.op = o, !.len = n]]
  /\ at' = [at EXCEPT ![t] = IF Shared THEN "lock" ELSE "connect"]
  /\ UNCHANGED <<conn, mutex, open, upstream, down, server, parent, child>>

Mut_Free == TRUE
Free == mutex = NoThread

Lock(t) ==
  /\ Alive
  /\ at[t] = "lock"
  /\ Free
  /\ mutex' = t
  /\ conn' = [conn EXCEPT ![t] = TheConn]
  /\ at' = [at EXCEPT ![t] = "begin"]
  /\ UNCHANGED <<me, open, upstream, down, server, parent, child, calls>>

\* The child's server accepts and a worker takes the connection (a child that
\* hangs has a backlog); without a child the call returns ENXIO.
Connect(t) ==
  /\ Alive
  /\ at[t] = "connect"
  /\ IF child # "down"
       THEN \E k \in Conns \ open :
              /\ ~Peer(k)
              /\ conn' = [conn EXCEPT ![t] = k]
              /\ open' = open \cup {k}
              /\ upstream' = [upstream EXCEPT ![k] = <<>>] /\ down' = [down EXCEPT ![k] = <<>>]
              /\ srv' = [srv EXCEPT ![k] = "recv"]
              /\ at' = [at EXCEPT ![t] = "begin"]
              /\ UNCHANGED me
       ELSE /\ me' = [me EXCEPT ![t].res = "error"]
            /\ at' = [at EXCEPT ![t] = "idle"]
            /\ UNCHANGED <<conn, open, upstream, down, srv>>
  /\ UNCHANGED <<mutex, cur, parent, child, calls>>

\* send without MSG_NOSIGNAL: on a connection the child has closed it raises
\* SIGPIPE, which nobody handles.
SendUp(t, units, next) ==
  IF Peer(conn[t])
    THEN /\ upstream' = [upstream EXCEPT ![conn[t]] = @ \o units]
         /\ at' = [at EXCEPT ![t] = next]
         /\ UNCHANGED parent
    ELSE parent' = "killed" /\ UNCHANGED <<upstream, at>>

\* io_begin: the header, then the data of a set, maybe in pieces.
Begin(t) ==
  /\ Alive
  /\ at[t] = "begin"
  /\ SendUp(t, Units(me[t].id, me[t].op, me[t].len, 1),
            CASE me[t].op = "get" -> "duration"
              [] me[t].op = "set" -> "data.send"
              [] me[t].op = "del" -> "result")
  /\ UNCHANGED <<me, conn, mutex, open, down, server, child, calls>>

Pieces(n) == {n} \cup (IF "split" \in SetupFaults THEN 1 .. n ELSE {})

SendData(t) ==
  /\ Alive
  /\ at[t] = "data.send"
  /\ \E n \in Pieces(me[t].len) :
       /\ SendUp(t, Units(me[t].id, "data", 0, n), IF n < me[t].len THEN "data.send" ELSE "result")
       /\ me' = [me EXCEPT ![t].len = @ - n]
  /\ UNCHANGED <<conn, mutex, open, down, server, child, calls>>

-----------------------------------------------------------------------------
\* How many units each receive of the caller asks for, and what comes next.
Asks(t) ==
  CASE at[t] \in {"duration", "head"} -> 2
    [] at[t] = "data" -> me[t].len
    [] at[t] = "result" -> 1

Mut_NextRecv == [duration |-> "head", head |-> "data", data |-> "end", result |-> "end"]
NextRecv == [duration |-> "head", head |-> "data", data |-> "result", result |-> "end"]

EIO == 5       \* stands for every errno

\* A unit is read for what is expected; what it means to someone else is
\* anything (a length, a result).
Mine(t, u) == u.id = me[t].id /\ u.part = at[t]
Read(t, u, S) == IF Mine(t, u) THEN {u.val} ELSE S

\* recv returned less than it was asked for.
Short(t, n) == n < Asks(t)

\* One receive: all that was asked for, or EIO.  For a set or del EIO is the
\* result; a get discards what has arrived so far.
RecvDown(t) ==
  LET k == conn[t]
      n == Least(Asks(t), Len(down[k]))
      got == SubSeq(down[k], 1, n) IN
  /\ Alive
  /\ at[t] \in DOMAIN NextRecv
  /\ down[k] # <<>> \/ ~Peer(k)
  /\ down' = [down EXCEPT ![k] = Drop(@, n)]
  /\ \/ /\ Short(t, n)
        /\ me' = [me EXCEPT ![t].res = "error"]
        /\ at' = [at EXCEPT ![t] = IF me[t].op = "get" THEN "discard" ELSE "end"]
     \/ /\ ~Short(t, n)
        /\ \E v \in IF n = 0 THEN {0}
                    ELSE Read(t, got[1], IF at[t] = "result" THEN {0, EIO} ELSE Lengths) :
             me' = [me EXCEPT ![t].clean = @ /\ n = Asks(t) /\ \A j \in 1 .. n : Mine(t, got[j]),
                              ![t].len = IF at[t] = "head" THEN v ELSE @,
                              ![t].res = IF at[t] # "result" THEN @ ELSE IF v = 0 THEN "ok" ELSE "error"]
        /\ at' = [at EXCEPT ![t] =
                    IF at[t] = "result" /\ me[t].op = "get" /\ me'[t].res = "error"
                      THEN "discard" ELSE NextRecv[at[t]]]
  /\ UNCHANGED <<conn, mutex, open, upstream, server, parent, child, calls>>

\* malloc fails between the head and the data.
NoMemory(t) ==
  /\ Alive
  /\ "nomem" \in SetupFaults
  /\ at[t] = "data"
  /\ me' = [me EXCEPT ![t].res = "error"]
  /\ at' = [at EXCEPT ![t] = "discard"]
  /\ UNCHANGED <<conn, mutex, open, upstream, down, server, parent, child, calls>>

\* unix_stream_discard does not wait for what has not arrived yet.
Discard(t) ==
  /\ Alive
  /\ at[t] = "discard"
  /\ down' = [down EXCEPT ![conn[t]] = <<>>]
  /\ at' = [at EXCEPT ![t] = "end"]
  /\ UNCHANGED <<me, conn, mutex, open, upstream, server, parent, child, calls>>

Mut_Unlocked(t) == IF me[t].res = "ok" THEN NoThread ELSE t
Unlocked(t) == NoThread

End(t) ==
  /\ Alive
  /\ at[t] = "end"
  /\ IF Shared
       THEN mutex' = Unlocked(t) /\ UNCHANGED open
       ELSE open' = open \ {conn[t]} /\ UNCHANGED mutex
  /\ conn' = [conn EXCEPT ![t] = NoConn]
  /\ at' = [at EXCEPT ![t] = "idle"]
  /\ UNCHANGED <<me, upstream, down, server, parent, child, calls>>

-----------------------------------------------------------------------------
(* worker() of lib/io_server.c and its get, set and del                    *)

\* Goes(k, s): the worker of k goes on to s.
Goes(k, s) == srv' = [srv EXCEPT ![k] = s]
Outcomes == {"ok"} \cup (IF "refuse" \in SetupFaults THEN {"error"} ELSE {})

\* What the worker takes the unit u for.  Data that was left behind is no
\* header: its first byte may be any type, or none of the switch's cases.
Requested(u) ==
  IF u.part = "data"
    THEN [op : {"get", "set", "del", "none"}, len : Lengths]
    ELSE {[op |-> u.part, len |-> u.val]}

\* The header; what has no case has the result 0.  At the end of the stream
\* the worker closes the connection.
ServeRecv(k) ==
  /\ srv[k] = "recv"
  /\ \/ /\ upstream[k] # <<>>
        /\ upstream' = [upstream EXCEPT ![k] = Tail(@)]
        /\ LET u == Head(upstream[k]) IN
           \E r \in Outcomes, q \in Requested(u) :
             /\ cur' = [cur EXCEPT ![k] =
                          [NoCall EXCEPT !.id = u.id, !.op = q.op, !.len = q.len,
                                         !.res = IF q.op = "none" THEN "ok" ELSE r]]
             /\ Goes(k, CASE q.op = "get" -> "duration"
                          [] q.op = "set" -> "data"
                          [] OTHER -> "result")
     \/ /\ upstream[k] = <<>> /\ k \notin open
        /\ Goes(k, "none")
        /\ UNCHANGED <<upstream, cur>>
  /\ UNCHANGED <<caller, down, parent, child, calls>>

\* Whatever happened, the result is sent.
AfterData(r) == "result"

\* The data of a set; without memory what has arrived is discarded.
ServeData(k) ==
  LET n == Least(cur[k].len, Len(upstream[k])) IN
  /\ srv[k] = "data"
  /\ \/ /\ upstream[k] # <<>> \/ k \notin open
        /\ upstream' = [upstream EXCEPT ![k] = Drop(@, n)]
        /\ cur' = IF n = cur[k].len THEN cur ELSE [cur EXCEPT ![k].res = "error"]
     \/ /\ "nomem" \in SetupFaults
        /\ upstream' = [upstream EXCEPT ![k] = <<>>]
        /\ cur' = [cur EXCEPT ![k].res = "error"]
  /\ Goes(k, AfterData(cur'[k].res))
  /\ UNCHANGED <<caller, down, parent, child, calls>>

\* send with MSG_NOSIGNAL: on a connection the caller has closed the worker
\* gives up.
SendDown(k, units, next) ==
  IF k \in open
    THEN down' = [down EXCEPT ![k] = @ \o units] /\ Goes(k, next)
    ELSE Goes(k, "none") /\ UNCHANGED down

ServeDuration(k) ==
  /\ srv[k] = "duration"
  /\ SendDown(k, Units(cur[k].id, "duration", 0, 2), "value")
  /\ UNCHANGED <<caller, upstream, cur, parent, child, calls>>

\* The value, or an empty one for an error; the data maybe in pieces.
ServeValue(k) ==
  /\ srv[k] = "value"
  /\ \E n \in IF cur[k].res = "ok" THEN Lengths ELSE {0} : \E m \in Pieces(n) :
       /\ SendDown(k, Units(cur[k].id, "head", n, 2) \o Units(cur[k].id, "data", 0, m),
                   IF m < n THEN "rest" ELSE "result")
       /\ cur' = [cur EXCEPT ![k].len = n - m]
  /\ UNCHANGED <<caller, upstream, parent, child, calls>>

ServeRest(k) ==
  /\ srv[k] = "rest"
  /\ \E m \in Pieces(cur[k].len) :
       /\ SendDown(k, Units(cur[k].id, "data", 0, m), IF m < cur[k].len THEN "rest" ELSE "result")
       /\ cur' = [cur EXCEPT ![k].len = @ - m]
  /\ UNCHANGED <<caller, upstream, parent, child, calls>>

ServeResult(k) ==
  /\ srv[k] = "result"
  /\ SendDown(k, Units(cur[k].id, "result", IF cur[k].res = "ok" THEN 0 ELSE EIO, 1), "recv")
  /\ UNCHANGED <<caller, upstream, cur, parent, child, calls>>

-----------------------------------------------------------------------------
\* The child stops answering and keeps its connections: its storage blocks,
\* or the process is stopped.
Hang ==
  /\ "hang" \in SetupFaults
  /\ child = "up"
  /\ child' = "hung"
  /\ UNCHANGED <<caller, upstream, down, server, parent, calls>>

\* The child ends, and with it its connections.
Close ==
  /\ "close" \in SetupFaults
  /\ child # "down"
  /\ child' = "down"
  /\ srv' = [k \in Conns |-> "none"]
  /\ upstream' = [k \in Conns |-> <<>>]
  /\ UNCHANGED <<caller, down, cur, parent, calls>>

\* The parent's pool is destroyed: a caller ends in connect, send or recv,
\* where no handler unlocks or closes the connection, or between two calls.
\* A mutex is no such place.
Stop ==
  /\ "stop" \in SetupFaults
  /\ parent = "up"
  /\ parent' = "stop"
  /\ UNCHANGED <<caller, upstream, down, server, child, calls>>

Cancel(t) ==
  /\ parent = "stop"
  /\ at[t] \in {"idle", "connect", "begin", "data.send"} \cup DOMAIN NextRecv
  /\ at' = [at EXCEPT ![t] = "exited"]
  /\ UNCHANGED <<me, conn, mutex, open, upstream, down, server, parent, child, calls>>

-----------------------------------------------------------------------------
CallerStep(t) ==
  /\ \/ Lock(t) \/ Connect(t) \/ Begin(t) \/ SendData(t)
     \/ RecvDown(t) \/ NoMemory(t) \/ Discard(t) \/ End(t)
  /\ UNCHANGED setup

CancelStep(t) == Cancel(t) /\ UNCHANGED setup

ServerStep(k) ==
  /\ child # "hung"
  /\ \/ ServeRecv(k) \/ ServeData(k)
     \/ ServeDuration(k) \/ ServeValue(k) \/ ServeRest(k) \/ ServeResult(k)
  /\ UNCHANGED setup

Other ==
  /\ \/ \E t \in Callers, o \in Ops, n \in Lengths \cup {0} : Call(t, o, n)
     \/ Hang
     \/ Close
     \/ Stop
  /\ UNCHANGED setup

StreamNext ==
  \/ \E t \in Callers : CallerStep(t) \/ CancelStep(t)
  \/ \E k \in Conns : ServerStep(k)
  \/ Other

\* The data of a set has not come.
Starved(k) == srv[k] = "data" /\ upstream[k] = <<>> /\ k \in open

\* The workers of the parent keep running, those of the child unless it hangs,
\* and cancellation is acted upon.  Who waits for data is not saved by a malloc
\* that fails.
Fairness ==
  /\ \A t \in Callers :
       WF_streamVars(CallerStep(t) /\ ~NoMemory(t)) /\ WF_streamVars(CancelStep(t))
  /\ \A k \in Conns : WF_streamVars(~Starved(k) /\ ServerStep(k))

StreamSpec == StreamInit /\ [][StreamNext]_streamVars
FairSpec == StreamSpec /\ Fairness

-----------------------------------------------------------------------------
Parts == {"get", "set", "del", "duration", "head", "data", "result"}
Unit == [id : Nat, part : Parts, val : Nat]
CallRecord == [id : Nat, op : Parts \cup {"none"}, len : Nat, clean : BOOLEAN,
               res : {"none", "ok", "error"}]

StreamTypeOK ==
  /\ setup \in Setups
  /\ at \in [Callers -> {"idle", "lock", "connect", "begin", "data.send", "discard",
                         "end", "exited"} \cup DOMAIN NextRecv]
  /\ me \in [Callers -> CallRecord]
  /\ conn \in [Callers -> Conns \cup {NoConn}]
  /\ mutex \in Callers \cup {NoThread}
  /\ upstream \in [Conns -> Seq(Unit)] /\ down \in [Conns -> Seq(Unit)]
  /\ open \subseteq Conns
  /\ srv \in [Conns -> {"none", "recv", "data", "duration", "value", "rest", "result"}]
  /\ cur \in [Conns -> CallRecord]
  /\ parent \in {"up", "stop", "killed"} /\ child \in {"up", "hung", "down"}
  /\ calls \in Nat

\* A call that succeeds has received every part of the answer to its own
\* request, in its place, and nothing else.
AnswersMatch ==
  \A t \in Callers : at[t] \in {"end", "idle"} /\ me[t].res = "ok" => me[t].clean

\* The next user of a shared connection finds it drained: the child waits for
\* a header, or has ended.
LeftClean ==
  \A t \in Callers : at[t] = "begin" =>
    upstream[conn[t]] = <<>> /\ down[conn[t]] = <<>> /\ srv[conn[t]] \in {"recv", "none"}

\* A call returns, the parent is no more, or the child has stopped answering.
EveryCallReturns ==
  \A t \in Callers :
    (at[t] \in {"lock", "connect"}) ~> (at[t] \in {"idle", "exited"} \/ ~Alive \/ child = "hung")

\* `No persistent blocking (timeout needs to be implemented)': a call returns
\* whatever the child does.  unix.c sets no timeout.
NoPersistentBlocking ==
  \A t \in Callers :
    (at[t] \in {"lock", "connect"}) ~> (at[t] \in {"idle", "exited"} \/ ~Alive)

\* `Returns 0 on success, errno otherwise': a child that ends is an error of
\* the call, not the end of the parent.
ParentSurvives == Alive

\* `cancel all threads': the workers of the parent can be joined.
CallersEnd == (parent = "stop") ~> (~Alive \/ \A t \in Callers : at[t] = "exited")
=============================================================================
