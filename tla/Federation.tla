----------------------------- MODULE Federation -----------------------------
(***************************************************************************)
(* Daemons that are storages of each other.  What a client asks for is a   *)
(* chain of calls, each waiting in a worker of its daemon for the next:    *)
(* register_parent at a child asks the parent (ctrl_server.c), whose       *)
(* io_update connects back to the child (io.c, unix.c), whose get may be   *)
(* routed further.  There is one key.  Pools are taken as TaskPool has     *)
(* them, with as many slots as workers (propd.c:313), locks as KeyLock.    *)
(***************************************************************************)
EXTENDS Naturals, Sequences, FiniteSets

CONSTANTS
  Daemons,
  Num,          \* Num[d]: workers of d
  Offer,        \* Offer[d]: what d registers with, of {"now", "prefix"}
  Asks, Query,  \* Query[a]: what a client asks for: [op, at, peer]
  MaxAsks,      \* the bound of what is asked in one behaviour
  MaxLeave,     \* and of the daemons that end
  Own, Nobody   \* the storage of the daemon itself; no peer

ASSUME FederationAssumption ==
  /\ Num \in [Daemons -> Nat \ {0}]
  /\ Offer \in [Daemons -> SUBSET {"now", "prefix"}]
  /\ Own \notin Daemons /\ Nobody \notin Daemons

VARIABLES
  up,       \* the daemons whose servers run
  route,    \* route[d]: the children in the list of d, the newest first
  locked,   \* locked[d]: the key's mutex is held
  stack,    \* stack[a]: the calls of a, the innermost first
  asked,    \* what was asked
  orphaned  \* the daemons with a queue whose mutex nobody will unlock

vars == <<up, route, locked, stack, asked, orphaned>>

\* A call: what it does, at which daemon and for whom, where it is, and the
\* result of the last call it made.
Call(op, d, peer) == [op |-> op, at |-> d, peer |-> peer, pc |-> "arrived", res |-> "ok"]
Upward == {"register_parent", "unregister_parent"}
Stream == {"get", "idle"}     \* io connections; the others are datagrams

\* A call whose worker was cancelled: the caller finds the connection closed
\* ("cut"), or waits for a datagram that does not come ("lost").
Ended(op) == [Call(IF op \in Stream THEN "cut" ELSE "lost", Nobody, Nobody) EXCEPT !.pc = "ended"]

\* The calls of d that T holds of.
Calls(d, T(_)) ==
  UNION {{<<a, i>> : i \in {j \in DOMAIN stack[a] : stack[a][j].at = d /\ T(stack[a][j])}} : a \in asked}

\* The tasks in the ring, and those that occupy a worker: a connection until
\* its client has disconnected, a datagram until it is answered.
Queued(d) == Calls(d, LAMBDA c : c.pc = "queued")
Busy(d) ==
  Calls(d, LAMBDA c : c.pc \notin {"arrived", "queued"} /\ (c.pc = "answered" => c.op \in Stream))

Init ==
  /\ up = Daemons
  /\ route = [d \in Daemons |-> <<>>]
  /\ locked = [d \in Daemons |-> FALSE]
  /\ stack = [a \in Asks |-> <<>>]
  /\ asked = {}
  /\ orphaned = {}

\* The calls of a that do not wait for one that they made: the innermost, and
\* those that are rid of it.
Active(a) ==
  {j \in DOMAIN stack[a] : stack[a][j].pc # "ended" /\ (j = 1 \/ stack[a][j - 1].op = "cut")}

\* Call j of a is at pc and goes on.
At(a, j, pc) == j \in Active(a) /\ stack[a][j].pc = pc
Goto(a, j, pc, r) == stack' = [stack EXCEPT ![a][j].pc = pc, ![a][j].res = r]

\* The caller goes on at pc when the new call has ended.  Nobody listens at a
\* daemon that does not run: connect and sendto fail.
Push(a, j, call, pc) ==
  IF call.at \in up
    THEN stack' = [stack EXCEPT ![a] =
           SubSeq(@, 1, j - 1) \o <<call, [@[j] EXCEPT !.pc = pc]>> \o SubSeq(@, j + 1, Len(@))]
    ELSE Goto(a, j, pc, "error")

-----------------------------------------------------------------------------
Ask(a) ==
  /\ a \notin asked /\ Cardinality(asked) < MaxAsks
  /\ asked' = asked \cup {a}
  /\ LET q == Query[a] IN
     stack' = IF q.at \in up THEN [stack EXCEPT ![a] = <<Call(q.op, q.at, q.peer)>>] ELSE stack
  /\ UNCHANGED <<up, route, locked, orphaned>>

\* server() of io_server.c and of ctrl_server.c: accept or receive, submit.
Submit(a, j) ==
  LET d == stack[a][j].at IN
  /\ At(a, j, "arrived") /\ d \in up
  /\ Cardinality(Queued(d)) < Num[d]
  /\ Goto(a, j, "queued", "ok")
  /\ UNCHANGED <<up, route, locked, asked, orphaned>>

First(c) ==
  CASE c.op = "get" -> "cache"
    [] c.op = "idle" -> "hold"
    [] c.op \in Upward -> "ask"
    [] c.op = "unregister_child" -> "remove"
    [] c.op = "register_child" ->
         IF "now" \in Offer[c.peer] THEN "lock"
         ELSE IF "prefix" \in Offer[c.peer] THEN "register" ELSE "answered"

Start(a, j) ==
  LET first == First(stack[a][j]) IN
  /\ At(a, j, "queued") /\ stack[a][j].at \notin orphaned
  /\ Cardinality(Busy(stack[a][j].at)) < Num[stack[a][j].at]
  /\ Goto(a, j, first, IF first = "answered" THEN "einval" ELSE "ok")
  /\ UNCHANGED <<up, route, locked, asked, orphaned>>

-----------------------------------------------------------------------------
(* io_get, and io_update, which goes to the new child and not by the route *)

\* The cache has the key or not: an entry may expire at any time.
Lookup(a, j) ==
  LET d == stack[a][j].at IN
  /\ At(a, j, "cache")
  /\ \/ Goto(a, j, "answered", "ok")
     \/ stack' = [stack EXCEPT ![a][j].pc = "lock",
                               ![a][j].peer = IF route[d] = <<>> THEN Own ELSE Head(route[d])]
  /\ UNCHANGED <<up, route, locked, asked, orphaned>>

Lock(a, j) ==
  LET d == stack[a][j].at IN
  /\ At(a, j, "lock")
  /\ ~locked[d]
  /\ locked' = [locked EXCEPT ![d] = TRUE]
  /\ Goto(a, j, "storage", "ok")
  /\ UNCHANGED <<up, route, asked, orphaned>>

Storage(a, j) ==
  /\ At(a, j, "storage")
  /\ IF stack[a][j].peer = Own THEN Goto(a, j, "fill", "ok")
     ELSE Push(a, j, Call("get", stack[a][j].peer, Nobody), "fill")
  /\ UNCHANGED <<up, route, locked, asked, orphaned>>

Mut_Unlocked(d, ok) == [locked EXCEPT ![d] = ~ok]
Unlocked(d, ok) == [locked EXCEPT ![d] = FALSE]

\* If the storage answered, io_update registers the child; the key is unlocked
\* in any case.
Fill(a, j) ==
  LET c == stack[a][j]
      ok == c.res = "ok" IN
  /\ At(a, j, "fill")
  /\ locked' = Unlocked(c.at, ok)
  /\ Goto(a, j, IF ok /\ c.op = "register_child" /\ "prefix" \in Offer[c.peer]
                  THEN "register" ELSE "answered", c.res)
  /\ UNCHANGED <<up, route, asked, orphaned>>

-----------------------------------------------------------------------------
(* The control requests *)

Listed(d) == {route[d][i] : i \in DOMAIN route[d]}

Register(a, j) ==
  LET d == stack[a][j].at
      c == stack[a][j].peer IN
  /\ At(a, j, "register")
  /\ route' = [route EXCEPT ![d] = IF c \in Listed(d) THEN @ ELSE <<c>> \o @]
  /\ Goto(a, j, "answered", IF c \in Listed(d) THEN "eexist" ELSE "ok")
  /\ UNCHANGED <<up, locked, asked, orphaned>>

\* A get that uses the child has a reference from the match to its end.
Used(d, c) ==
  Calls(d, LAMBDA y : y.op = "get" /\ y.peer = c /\ y.pc \in {"lock", "storage", "fill"}) # {}

Remove(a, j) ==
  LET d == stack[a][j].at
      c == stack[a][j].peer
      r == IF c \notin Listed(d) THEN "enoent" ELSE IF Used(d, c) THEN "ebusy" ELSE "ok" IN
  /\ At(a, j, "remove")
  /\ route' = IF r = "ok" THEN [route EXCEPT ![d] = SelectSeq(@, LAMBDA x : x # c)] ELSE route
  /\ Goto(a, j, "answered", r)
  /\ UNCHANGED <<up, locked, asked, orphaned>>

\* ctrl_register_child and ctrl_unregister_child in a worker of the child.
Tell(a, j) ==
  LET c == stack[a][j] IN
  /\ At(a, j, "ask")
  /\ Push(a, j, Call(IF c.op = "register_parent" THEN "register_child" ELSE "unregister_child",
                     c.peer, c.at), "told")
  /\ UNCHANGED <<up, route, locked, asked, orphaned>>

Told(a, j) ==
  /\ At(a, j, "told")
  /\ Goto(a, j, "answered", stack[a][j].res)
  /\ UNCHANGED <<up, route, locked, asked, orphaned>>

\* What is left of the calls s once nobody waits above the innermost one.
Rest(s) ==
  LET left == {n \in DOMAIN s : s[n].op # "cut"} IN
  IF left = {} THEN <<>> ELSE SubSeq(s, CHOOSE n \in left : \A m \in left : n <= m, Len(s))

\* The calls s when call j has told its caller r.
Informed(s, j, r) ==
  IF j < Len(s) /\ s[j + 1].pc # "ended" THEN [s EXCEPT ![j + 1].res = r] ELSE s

\* The caller has the result, and disconnects if it was connected.  The socket
\* that datagrams are sent through is closed with its server.
Return(a, j) ==
  LET s == Informed(stack[a], j, stack[a][j].res) IN
  /\ At(a, j, "answered")
  /\ stack[a][j].op \in Stream \/ stack[a][j].at \in up
  /\ stack' = [stack EXCEPT ![a] = Rest(SubSeq(s, 1, j - 1) \o SubSeq(s, j + 1, Len(s)))]
  /\ UNCHANGED <<up, route, locked, asked, orphaned>>

\* A client that is connected and asks nothing; it disconnects when it likes.
Disconnect(a, j) ==
  /\ At(a, j, "hold")
  /\ Goto(a, j, "answered", "ok")
  /\ UNCHANGED <<up, route, locked, asked, orphaned>>

-----------------------------------------------------------------------------
\* A signal: the servers end, the route is cleared.  A server that waits for a
\* slot keeps the mutex of the queue (see Orphaned of ThreadPool).  The daemon
\* does not unregister itself: those that register_parent made its parents are
\* not in its configuration (propd.c).
Leave(d) ==
  /\ d \in up /\ Cardinality(Daemons \ up) < MaxLeave
  /\ up' = up \ {d}
  /\ route' = [route EXCEPT ![d] = <<>>]
  /\ orphaned' = IF Cardinality(Queued(d)) >= Num[d] /\ Calls(d, LAMBDA c : c.pc = "arrived") # {}
                   THEN orphaned \cup {d} ELSE orphaned
  /\ UNCHANGED <<locked, stack, asked>>

\* thread_pool_destroy and the end of the process: what was not started is
\* dropped, and a worker ends in connect, send or recv, where the handler of
\* io.c unlocks the key.  A mutex is no such place.  Calls that it made go on
\* without it, and its caller hears of it when the process has ended.
Cancel(a, j) ==
  LET c == stack[a][j] IN
  /\ c.pc # "ended" /\ c.at \notin up \cup orphaned
  /\ j \in Active(a) => c.pc \in {"arrived", "queued", "hold", "storage", "ask", "answered"}
  /\ locked' = IF c.pc \in {"storage", "fill"} THEN Unlocked(c.at, FALSE) ELSE locked
  /\ stack' = [stack EXCEPT ![a] =
       Rest([Informed(@, j, IF c.op \in Stream THEN "error" ELSE c.res) EXCEPT ![j] = Ended(c.op)])]
  /\ UNCHANGED <<up, route, asked, orphaned>>

-----------------------------------------------------------------------------
Step(a, j) ==
  \/ Submit(a, j) \/ Start(a, j) \/ Lookup(a, j) \/ Lock(a, j) \/ Storage(a, j) \/ Fill(a, j)
  \/ Register(a, j) \/ Remove(a, j) \/ Tell(a, j) \/ Told(a, j) \/ Return(a, j)
  \/ Cancel(a, j)

Work == \E a \in Asks : \E j \in DOMAIN stack[a] : Step(a, j)

Next ==
  \/ \E a \in Asks : Ask(a) \/ \E j \in DOMAIN stack[a] : Disconnect(a, j)
  \/ Work
  \/ \E d \in Daemons : Leave(d)

\* Some thread that can go on does, whichever it is.  A client that is
\* connected need not disconnect.
Spec == Init /\ [][Next]_vars /\ WF_vars(Work)

-----------------------------------------------------------------------------
\* Whom a call that has the key of d may ask: d's children, and the one that
\* is being registered.
Edges ==
  UNION {{<<d, c>> : c \in Listed(d)} : d \in Daemons} \cup
  UNION {{<<stack[a][j].at, stack[a][j].peer>> :
            j \in {n \in DOMAIN stack[a] : stack[a][n].op \in {"register_child", "get"}}} : a \in asked}

\* No daemon asks itself through others.
Acyclic ==
  LET edges == Edges IN
  \A S \in SUBSET Daemons \ {{}} : \E d \in S : \A e \in S : <<d, e>> \notin edges

\* A daemon's workers do not all wait for parents or for idle clients.
SpareWorker ==
  \A d \in Daemons : Cardinality(Calls(d, LAMBDA c : c.pc \in {"told", "hold"})) < Num[d]

\* Nobody is at work: what is not answered is a client that asks nothing, or
\* waits for a datagram of a daemon that has ended.
Settled == \A a \in Asks : \A j \in Active(a) : stack[a][j].pc = "hold"

\* Daemons that hold workers and keys while they wait for each other, and end
\* at any time, answer whatever they are asked, errors included, as long as
\* they are not routed in a circle, each keeps a worker that waits neither for
\* a parent nor for an idle client, and none ends with a full queue.
\* (The number of asks is bounded, so no new ones keep them busy.)
EveryAskReturns == []<>(Settled \/ ~Acyclic \/ ~SpareWorker \/ orphaned # {})

\* Without these conditions it is not true.
EveryAskReturnsAlways == []<>Settled
=============================================================================
