-------------------------------- MODULE Ctrl --------------------------------
(***************************************************************************)
(* The control protocol: lib/ctrl_client.c on one side, the receive loop   *)
(* and the worker of lib/ctrl_server.c on the other.  A client sends one   *)
(* datagram from a socket of its own and waits, without a timeout, for the *)
(* answer.  The server receives every datagram into a fresh package that   *)
(* the task it submits owns.  The tasks borrow the name, the lists and the *)
(* socket of the server, which server_cleanup releases when the server is  *)
(* cancelled.                                                              *)
(*                                                                         *)
(* The queue of the pool is taken as the bounded FIFO of TaskPool.  A      *)
(* request is known by its number, in the order of the calls.              *)
(***************************************************************************)
EXTENDS Integers, Sequences, FiniteSets

CONSTANTS
  Clients, Workers,
  Pkgs, NoPkg,        \* addresses of the server's packages, and NULL
  Types,              \* the types of requests that are made
  Freed,              \* the types that may be read from a freed package
  MaxEntries,         \* of a child's cache_now and prefix lists together
  NumPrefixMax,       \* ctx->num_prefix_max
  QueueLen,           \* slots of the pool's queue
  Faults,             \* of {"nomem", "kill", "stop"}
  MaxCalls            \* bound on the calls

Dumps == {"dump_db_route", "dump_db_cache"}
AsChild == {"register_parent", "unregister_parent"}
AllTypes == Dumps \cup AsChild \cup {"register_child", "unregister_child"}

ASSUME CtrlAssumption ==
  /\ NoPkg \notin Pkgs
  /\ Types \subseteq AllTypes /\ Freed \subseteq AllTypes
  /\ Faults \subseteq {"nomem", "kill", "stop"}
  /\ QueueLen \in Nat \ {0}
  /\ MaxEntries \in Nat /\ NumPrefixMax \in Nat /\ MaxCalls \in Nat

VARIABLES
  cl,        \* where each client is
  ask,       \* ask[c]: its request
  inbox,     \* inbox[c]: the datagrams at its socket
  sock,      \* the datagrams at the server's socket
  srv,       \* the server thread: "alloc", "recv", "submit", "wait" (for a slot),
             \* "ended", "lost" (cancelled while it waited for a slot)
  pkg,       \* its local variable
  live,      \* the packages that are allocated
  content,   \* content[p]: the request in package p
  queue,     \* the tasks that are submitted, as their packages
  wk,        \* wk[w]: "idle", "run", "send" or "gone"
  arg,       \* arg[w]: the package of w's task
  executed,  \* executed[n]: how often request n was carried out
  daemon     \* "up", "stop", "down", or how it was ruined

client == <<cl, ask, inbox>>
server == <<srv, pkg, sock>>
heap == <<live, content>>
worker == <<wk, arg, executed>>
vars == <<client, server, heap, queue, worker, daemon>>

Ids == 1 .. MaxCalls
NoAsk == [id |-> 0, type |-> "none"]
Request == [id : Ids, from : Clients, type : Types, entries : 0 .. MaxEntries]

Init ==
  /\ cl = [c \in Clients |-> "idle"]
  /\ ask = [c \in Clients |-> NoAsk]
  /\ inbox = [c \in Clients |-> <<>>]
  /\ sock = <<>>
  /\ srv = "alloc" /\ pkg = NoPkg
  /\ live = {}
  /\ content = [p \in Pkgs |-> NoAsk]
  /\ queue = <<>>
  /\ wk = [w \in Workers |-> "idle"]
  /\ arg = [w \in Workers |-> NoPkg]
  /\ executed = [n \in Ids |-> 0]
  /\ daemon = "up"

Running == daemon \in {"up", "stop"}
Ended == srv \in {"ended", "lost"}      \* server_cleanup has run
Listening == Running /\ ~Ended
Calls == Cardinality({n \in Ids : \E c \in Clients : n <= ask[c].id})

-----------------------------------------------------------------------------
(* lib/ctrl_client.c *)

\* ctrl_init and ctrl_update: the package is sent and freed.  Without a server
\* sendto fails and the call returns EIO.
Send(c, t, e) ==
  /\ cl[c] = "idle"
  /\ Calls < MaxCalls
  /\ t = "register_child" \/ e = 0
  /\ Listening
  /\ ask' = [ask EXCEPT ![c] = [id |-> Calls + 1, from |-> c, type |-> t, entries |-> e]]
  /\ sock' = Append(sock, ask'[c])
  /\ cl' = [cl EXCEPT ![c] = "sent"]
  /\ UNCHANGED <<inbox, srv, pkg, heap, queue, worker, daemon>>

\* ctrl_final0 switches on the type in the package that ctrl_update freed; only
\* the dumps pass pointers for the data, which the assertion wants.
Seen(c) == {ask[c].type} \cup Freed

ReadType(c) ==
  /\ cl[c] = "sent"
  /\ \E t \in Seen(c) :
       cl' = [cl EXCEPT ![c] =
                CASE t \notin Dumps -> "result"
                  [] t \in Dumps /\ ask[c].type \in Dumps -> "length"
                  [] OTHER -> "crashed"]
  /\ UNCHANGED <<ask, inbox, server, heap, queue, worker, daemon>>

\* Each datagram is taken for what the client waits for: the result ends the
\* call.  A dump waits for a length first; what comes is its result, -1, and
\* since malloc(-1) fails two more datagrams are to be discarded.
AfterRecv == [p \in {"result", "length", "discard data", "discard result"} |->
  CASE p = "length" -> "discard data"
    [] p = "discard data" -> "discard result"
    [] OTHER -> "idle"]

RecvAnswer(c) ==
  /\ cl[c] \in DOMAIN AfterRecv
  /\ inbox[c] # <<>>
  /\ inbox' = [inbox EXCEPT ![c] = Tail(@)]
  /\ cl' = [cl EXCEPT ![c] = AfterRecv[@]]
  /\ UNCHANGED <<ask, server, heap, queue, worker, daemon>>

\* The client's process is interrupted.
Kill(c) ==
  /\ "kill" \in Faults
  /\ cl[c] \notin {"idle", "gone", "crashed"}
  /\ cl' = [cl EXCEPT ![c] = "gone"]
  /\ UNCHANGED <<ask, inbox, server, heap, queue, worker, daemon>>

-----------------------------------------------------------------------------
(* server() of lib/ctrl_server.c *)

\* What server_cleanup does to the socket: whatever is queued there is lost.
Ends == srv' = "ended" /\ sock' = <<>> /\ pkg' = NoPkg

\* A package and an argument for the next datagram, or the end of the loop.
Mut_Static == IF pkg # NoPkg THEN {pkg} ELSE Pkgs \ live
Fresh == Pkgs \ live

Alloc ==
  /\ Listening
  /\ srv = "alloc"
  /\ \/ \E p \in Fresh :
          /\ live' = live \cup {p}
          /\ pkg' = p
          /\ srv' = "recv"
          /\ UNCHANGED sock
     \/ "nomem" \in Faults /\ Ends /\ UNCHANGED live
  /\ UNCHANGED <<client, content, queue, worker, daemon>>

Recv ==
  /\ Listening
  /\ srv = "recv"
  /\ sock # <<>>
  /\ content' = [content EXCEPT ![pkg] = Head(sock)]
  /\ sock' = Tail(sock)
  /\ srv' = "submit"
  /\ UNCHANGED <<client, pkg, live, queue, worker, daemon>>

\* The error path frees argument and package, but its break leaves only the
\* block of pthread_cleanup_push and the loop goes on to submit them.
RecvFails ==
  /\ Listening
  /\ srv = "recv"
  /\ live' = live \ {pkg}
  /\ content' = [content EXCEPT ![pkg] = NoAsk]
  /\ srv' = "submit"
  /\ UNCHANGED <<client, pkg, sock, queue, worker, daemon>>

\* pthread_cleanup_pop(false), twice: the task has the package from now on.
Mut_AfterPop == live \ {pkg}
AfterPop == live

\* thread_pool_submit: the argument is filled and pushed, as soon as a slot is
\* free.
Submit ==
  /\ Listening
  /\ srv \in {"submit", "wait"}
  /\ Len(queue) < QueueLen
  /\ queue' = Append(queue, pkg)
  /\ live' = AfterPop
  /\ srv' = "alloc"
  /\ UNCHANGED <<client, pkg, sock, content, worker, daemon>>

Wait ==
  /\ Listening
  /\ srv = "submit"
  /\ Len(queue) >= QueueLen
  /\ srv' = "wait"
  /\ UNCHANGED <<client, pkg, sock, heap, queue, worker, daemon>>

-----------------------------------------------------------------------------
(* worker() of lib/ctrl_server.c *)

\* A server that ended in "lost" has left the mutex of the queue locked.
Take(w) ==
  /\ Running
  /\ wk[w] = "idle"
  /\ queue # <<>> /\ srv # "lost"
  /\ arg' = [arg EXCEPT ![w] = Head(queue)]
  /\ queue' = Tail(queue)
  /\ wk' = [wk EXCEPT ![w] = "run"]
  /\ UNCHANGED <<client, server, heap, executed, daemon>>

\* The cases of the switch.  A package of another type is not answered.
Mut_Handled == AllTypes \ {"register_parent"}
Handled == AllTypes

\* As a child the daemon introduces itself with the name and the lists of its
\* server.
Borrows(r) == r.type \in AsChild

\* worker_cleanup: what is not allocated any more is freed a second time.
Finish(w) ==
  /\ live' = live \ {arg[w]}
  /\ daemon' = IF arg[w] \in live THEN daemon ELSE "double free"
  /\ arg' = [arg EXCEPT ![w] = NoPkg]

\* With strings that were freed the process ends, or goes on with whatever is
\* there.
Execute(w) ==
  LET r == content[arg[w]] IN
  /\ Running
  /\ wk[w] = "run"
  /\ IF r.type \notin Handled
       THEN /\ Finish(w)
            /\ wk' = [wk EXCEPT ![w] = "idle"]
            /\ UNCHANGED executed
       ELSE \/ /\ Borrows(r) /\ Ended
               /\ daemon' = "bad strings"
               /\ UNCHANGED <<executed, wk, arg, live>>
            \/ /\ executed' = [executed EXCEPT ![r.id] = @ + 1]
               /\ wk' = [wk EXCEPT ![w] = "send"]
               /\ UNCHANGED <<arg, live, daemon>>
  /\ UNCHANGED <<client, server, content, queue>>

\* sendto succeeds if the server's socket and the client's are still there.
Reachable(c) == ~Ended /\ cl[c] \notin {"idle", "gone", "crashed"}

\* The result is sent and worker_cleanup frees the task.  A result that cannot
\* be sent stops a build with assertions; one without goes on.
Answer(w) ==
  LET r == content[arg[w]] IN
  /\ Running
  /\ wk[w] = "send"
  /\ \/ /\ Finish(w)
        /\ wk' = [wk EXCEPT ![w] = "idle"]
        /\ inbox' = IF Reachable(r.from) THEN [inbox EXCEPT ![r.from] = Append(@, r.id)] ELSE inbox
     \/ /\ ~Reachable(r.from)
        /\ daemon' = "aborted"
        /\ UNCHANGED <<inbox, live, arg, wk>>
  /\ UNCHANGED <<cl, ask, server, content, queue, executed>>

-----------------------------------------------------------------------------
(* Shutdown *)

\* The server is cancelled where it blocks.  In recvfrom the handlers free
\* argument and package; in thread_pool_submit they have been popped, and the
\* thread ends with the mutex of the queue, which pthread_cond_wait takes again.
\* Then server_cleanup runs.
Stop ==
  /\ "stop" \in Faults
  /\ daemon = "up"
  /\ daemon' = "stop"
  /\ \/ srv \in {"recv", "ended"} /\ live' = live \ {pkg} /\ Ends
     \/ srv = "wait" /\ srv' = "lost" /\ sock' = <<>> /\ UNCHANGED <<live, pkg>>
  /\ UNCHANGED <<client, content, queue, worker>>

\* A worker is cancelled between two tasks, where it needs the mutex of the
\* queue to end, or where a task blocks: its handler frees the task.
CancelWorker(w) ==
  /\ daemon = "stop"
  /\ \/ wk[w] = "idle" /\ srv # "lost" /\ UNCHANGED <<live, arg, daemon>>
     \/ wk[w] \in {"run", "send"} /\ Finish(w)
  /\ wk' = [wk EXCEPT ![w] = "gone"]
  /\ UNCHANGED <<client, server, content, queue, executed>>

Down ==
  /\ daemon = "stop"
  /\ \A w \in Workers : wk[w] = "gone"
  /\ daemon' = "down"
  /\ UNCHANGED <<client, server, heap, queue, worker>>

-----------------------------------------------------------------------------
ClientStep(c) == ReadType(c) \/ RecvAnswer(c)
ServerStep == Alloc \/ Recv \/ Submit \/ Wait
WorkerStep(w) == Take(w) \/ Execute(w) \/ Answer(w)

Next ==
  \/ \E c \in Clients, t \in Types, e \in 0 .. MaxEntries : Send(c, t, e)
  \/ \E c \in Clients : ClientStep(c) \/ Kill(c)
  \/ ServerStep
  \/ \E w \in Workers : WorkerStep(w) \/ CancelWorker(w)
  \/ Stop
  \/ Down

\* Every thread keeps running.
Fairness ==
  /\ \A c \in Clients : WF_vars(ClientStep(c))
  /\ WF_vars(ServerStep)
  /\ \A w \in Workers : WF_vars(WorkerStep(w))

\* Datagrams that are there can be received, and with FaultySpec not always.
Spec == Init /\ [][Next]_vars
FairSpec == Spec /\ Fairness
FaultySpec == Init /\ [][Next \/ RecvFails]_vars

-----------------------------------------------------------------------------
TypeOK ==
  /\ cl \in [Clients -> {"idle", "sent", "gone", "crashed"} \cup DOMAIN AfterRecv]
  /\ ask \in [Clients -> Request \cup {NoAsk}]
  /\ inbox \in [Clients -> Seq(Ids)]
  /\ sock \in Seq(Request)
  /\ srv \in {"alloc", "recv", "submit", "wait", "ended", "lost"}
  /\ pkg \in Pkgs \cup {NoPkg}
  /\ live \subseteq Pkgs
  /\ content \in [Pkgs -> Request \cup {NoAsk}]
  /\ queue \in Seq(Pkgs)
  /\ wk \in [Workers -> {"idle", "run", "send", "gone"}]
  /\ arg \in [Workers -> Pkgs \cup {NoPkg}]
  /\ executed \in [Ids -> Nat]
  /\ daemon \in {"up", "stop", "down", "aborted", "double free", "bad strings"}

\* How many tasks, queued or in progress, have the package.
Owners(p) ==
  Cardinality({i \in 1 .. Len(queue) : queue[i] = p})
    + Cardinality({w \in Workers : arg[w] = p})

\* `package; /* own */' and `take ownership': a task has a package that is
\* allocated and nobody else's, so that it is freed once; and a package that no
\* task has is the one the server is filling or handing over, or was handing
\* over when it was cancelled -- nothing else is ever leaked.
PackageOwned ==
  \A p \in Pkgs :
    /\ Owners(p) <= 1
    /\ Owners(p) = 1 => p \in live
    /\ p \in live /\ Owners(p) = 0 => p = pkg /\ srv \in {"recv", "submit", "wait", "lost"}

\* What a client receives is the answer to its request, which was carried out
\* exactly once; no request is carried out twice.
AnsweredOnce ==
  /\ \A c \in Clients : \A i \in 1 .. Len(inbox[c]) :
       inbox[c][i] = ask[c].id /\ executed[ask[c].id] = 1
  /\ \A n \in Ids : executed[n] <= 1

\* A call returns as long as the server listens.
EveryCallReturns ==
  \A c \in Clients :
    (cl[c] = "sent") ~> (cl[c] \in {"idle", "gone", "crashed"} \/ ~Listening)

\* assert(n == sizeof(ret)) of worker: the result is sent.
ResultSent == daemon # "aborted"

\* The server can be cancelled through the thread id that start_ctrl_server
\* returns without pulling the strings away from under its tasks.
NoFreedStrings == daemon # "bad strings"

\* assert(data && data_length) of ctrl_final0.
DumpsHaveData == \A c \in Clients : cl[c] # "crashed"

\* num_prefix_max limits what a child can register: a worker finds every entry
\* that the package announces inside the buffer it was received into.
EntriesInBuffer ==
  \A w \in Workers : wk[w] = "run" => content[arg[w]].entries <= NumPrefixMax
=============================================================================
