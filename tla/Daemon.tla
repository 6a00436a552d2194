------------------------------- MODULE Daemon -------------------------------
(***************************************************************************)
(* app/propd/main.c and lib/propd.c: the storages of the command line come *)
(* into the route, then __propd_run creates the parts of the daemon one by *)
(* one, starts the servers, introduces the daemon to its children and      *)
(* parents, waits for a signal and takes everything down again.  A step    *)
(* that fails sets ret and skips the rest of the start.  With --daemon a   *)
(* launcher process waits for the outcome at the other end of a pipe.      *)
(***************************************************************************)
EXTENDS Integers, Sequences, FiniteSets

CONSTANTS
  Options,       \* the storages of the command line, in order
  Null,          \* the storage that main() adds
  Keys,
  Serves,        \* the pairs <<storage, key>> that a prefix of the storage matches
  Children, Parents,   \* --children and --parents, as sequences
  UseCache,      \* config->cache_interval # 0
  Background,    \* config->daemon
  Faults,        \* of {"fail", "stale", "busy"}
  MaxSignals     \* bound on the signals sent

ASSUME DaemonAssumption ==
  /\ Options \in Seq(STRING) /\ Children \in Seq(STRING) /\ Parents \in Seq(STRING)
  /\ UseCache \in BOOLEAN /\ Background \in BOOLEAN
  /\ Faults \subseteq {"fail", "stale", "busy"}
  /\ MaxSignals \in Nat

VARIABLES
  main,       \* the step that the main thread is at
  i,          \* the loop index of the step
  ret,
  list,       \* config->local_route, then the list of the route, from its head
  objs,       \* the parts that exist: "pool", "mutexes", "cache", "route" and
              \* the servers "io" and "ctrl"
  files,      \* the sockets in the namespace's directory
  knows,      \* the parents that have this daemon in their route
  pipe,       \* what was written and not yet read
  open,       \* some process holds the writing end of the pipe
  launcher,   \* "none", "read", "again", "done"
  lret,       \* what propd_run returns in the launcher
  handled,    \* the signal handlers are installed
  signals,    \* how many signals were sent
  history     \* found: the sockets that were there; refused: the parents that
              \* kept the daemon; served: a server was started; ready: the
              \* start succeeded; killed: a signal ended the process

proc == <<main, i, ret>>
report == <<pipe, open, launcher, lret>>
vars == <<proc, list, objs, files, knows, report, handled, signals, history>>

Elements(s) == {s[n] : n \in DOMAIN s}

Starting == {"pool", "mutexes", "cache", "route", "io", "ctrl", "children", "parents"}

\* propd_run and __propd_run, from top to bottom.
Steps == <<
  "options", "null", "fork",
  "pool", "mutexes", "cache", "route", "io", "ctrl", "children", "parents",
  "ready", "handlers", "enter", "pause",
  "failed", "stop ctrl", "stop io", "leave", "clear", "free pool", "free route", "free cache",
  "free mutexes", "report", "exited">>

\* The next step of the function.
Here == CHOOSE n \in DOMAIN Steps : Steps[n] = main
Step == main' = Steps[Here + 1]

Init ==
  /\ main = "options" /\ i = 1 /\ ret = 0
  /\ list = <<>>
  /\ objs = {}
  /\ files \in IF "stale" \in Faults THEN SUBSET {"io", "ctrl"} ELSE {{}}
  /\ knows = {}
  /\ pipe = <<>> /\ open = Background
  /\ launcher = "none" /\ lret = 0
  /\ handled = FALSE
  /\ signals = 0
  /\ history = [found |-> files, refused |-> {}, served |-> FALSE, ready |-> FALSE, killed |-> FALSE]

-----------------------------------------------------------------------------
(* The command line and the processes *)

\* LIST_INSERT_HEAD of __route_register.
Inserted(s) == <<s>> \o list

Taken(s) == s \in Elements(list)

\* propd_config_parse registers a storage for every option ...
Option ==
  /\ main = "options"
  /\ \/ /\ i <= Len(Options) /\ ~Taken(Options[i])
        /\ list' = Inserted(Options[i]) /\ i' = i + 1 /\ UNCHANGED main
     \/ i > Len(Options) /\ Step /\ i' = 1 /\ UNCHANGED list
  /\ UNCHANGED <<ret, objs, files, knows, report, handled, signals, history>>

\* ... and main() one that accepts every key.
RegisterNull ==
  /\ main = "null" /\ ~Taken(Null)
  /\ list' = Inserted(Null)
  /\ IF Background THEN Step ELSE main' = "pool"
  /\ UNCHANGED <<i, ret, objs, files, knows, report, handled, signals, history>>

\* A bad option, a name that is taken, a failed allocation: the process ends,
\* and propd_config_parse destroys the storages first.
BadOption ==
  /\ \/ main = "options" /\ i <= Len(Options) /\ ("fail" \in Faults \/ Taken(Options[i])) /\ list' = <<>>
     \/ main = "null" /\ ("fail" \in Faults \/ Taken(Null)) /\ UNCHANGED list
  /\ ret' = 1
  /\ main' = "exited" /\ open' = FALSE
  /\ UNCHANGED <<i, objs, files, knows, pipe, launcher, lret, handled, signals, history>>

\* The two forks of propd_run: the first process becomes the launcher.  When
\* pipe() or the first fork fails there is no other process; when the second
\* one fails, the middle process reports it twice.
Fork ==
  /\ main = "fork"
  /\ \/ Step /\ launcher' = "read" /\ UNCHANGED <<ret, pipe, open, lret>>
     \/ /\ "fail" \in Faults
        /\ ret' = 1 /\ main' = "exited" /\ open' = FALSE
        /\ \/ launcher' = "done" /\ lret' = 1 /\ UNCHANGED pipe
           \/ launcher' = "read" /\ pipe' = <<1, 1>> /\ UNCHANGED lret
  /\ UNCHANGED <<i, list, objs, files, knows, handled, signals, history>>

-----------------------------------------------------------------------------
(* The start of __propd_run *)

OnFailure == "failed"

\* A server whose socket exists gets EADDRINUSE from bind; a registration at a
\* parent may fail after the parent has made the entry.
Fails ==
  /\ main \in Starting
  /\ main = "cache" => UseCache
  /\ main = "children" => i <= Len(Children)
  /\ main = "parents" => i <= Len(Parents)
  /\ "fail" \in Faults \/ main \in files
  /\ ret' = 1
  /\ main' = OnFailure
  /\ i' = 1
  /\ \/ main = "parents" /\ knows' = knows \cup {Parents[i]}
     \/ UNCHANGED knows
  /\ UNCHANGED <<list, objs, files, report, handled, signals, history>>

Create ==
  /\ main \in {"pool", "mutexes", "cache", "route"}
  /\ objs' = IF main = "cache" /\ ~UseCache THEN objs ELSE objs \cup {main}
  /\ Step
  /\ UNCHANGED <<i, ret, list, files, knows, report, handled, signals, history>>

\* The socket is bound to a name that must be free, then the thread serves it.
Serve(server) ==
  /\ main = server
  /\ server \notin files
  /\ files' = files \cup {server}
  /\ objs' = objs \cup {server}
  /\ history' = [history EXCEPT !.served = TRUE]
  /\ Step
  /\ UNCHANGED <<i, ret, list, knows, report, handled, signals>>

StartIOServer == Serve("io")
StartCtrlServer == Serve("ctrl")

\* The children are asked to register here; the daemon registers itself with
\* its parents.
Introduce ==
  /\ \/ /\ main = "children" /\ i <= Len(Children)
        /\ list' = Inserted(Children[i]) /\ UNCHANGED knows
     \/ /\ main = "parents" /\ i <= Len(Parents)
        /\ knows' = knows \cup {Parents[i]} /\ UNCHANGED list
  /\ i' = i + 1
  /\ UNCHANGED <<main, ret, objs, files, report, handled, signals, history>>

Introduced ==
  /\ main \in {"children", "parents"}
  /\ i > Len(IF main = "children" THEN Children ELSE Parents)
  /\ Step
  /\ i' = 1
  /\ UNCHANGED <<ret, list, objs, files, knows, report, handled, signals, history>>

\* What is written to the pipe, when there is one.
Written(v) == IF Background THEN Append(pipe, v) ELSE pipe

Ready ==
  /\ main = "ready"
  /\ pipe' = Written(0)
  /\ history' = [history EXCEPT !.ready = TRUE]
  /\ Step
  /\ UNCHANGED <<i, ret, list, objs, files, knows, open, launcher, lret, handled, signals>>

Handlers ==
  /\ main = "handlers"
  /\ handled' = TRUE
  /\ Step
  /\ UNCHANGED <<i, ret, list, objs, files, knows, report, signals, history>>

EnterPause ==
  /\ main = "enter"
  /\ Step
  /\ UNCHANGED <<i, ret, list, objs, files, knows, report, handled, signals, history>>

\* A signal ends pause(); one that comes just before it is forgotten ...
Signal ==
  /\ signals < MaxSignals
  /\ signals' = signals + 1
  /\ handled /\ main # "exited"
  /\ main' = IF main = "pause" THEN "stop ctrl" ELSE main
  /\ UNCHANGED <<i, ret, list, objs, files, knows, report, handled, history>>

\* ... and before the handlers are installed, it ends the process, which
\* leaves the sockets and the entries at the parents behind.
Killed ==
  /\ signals < MaxSignals
  /\ signals' = signals + 1
  /\ ~handled /\ main # "exited"
  /\ main' = "exited" /\ objs' = {} /\ open' = FALSE
  /\ history' = [history EXCEPT !.killed = TRUE]
  /\ UNCHANGED <<i, ret, list, files, knows, pipe, launcher, lret, handled>>

-----------------------------------------------------------------------------
(* The end of __propd_run *)

Failed ==
  /\ main = "failed"
  /\ pipe' = Written(ret)
  /\ Step
  /\ UNCHANGED <<i, ret, list, objs, files, knows, open, launcher, lret, handled, signals, history>>

\* The thread is cancelled and joined, and its handler unlinks the socket.  A
\* server that was not started is skipped.
Mut_Unlinked(s) == files \ {s}
Unlinked(s) == IF s \in objs THEN files \ {s} ELSE files

StopServer ==
  /\ main \in {"stop ctrl", "stop io"}
  /\ LET server == IF main = "stop ctrl" THEN "ctrl" ELSE "io" IN
     objs' = objs \ {server} /\ files' = Unlinked(server)
  /\ Step
  /\ UNCHANGED <<i, ret, list, knows, report, handled, signals, history>>

\* ctrl_unregister_child at every parent, registered there or not.  A parent
\* that is using the entry refuses, and the answer is ignored.
Leave ==
  /\ main = "leave" /\ "route" \in objs /\ i <= Len(Parents)
  /\ \/ /\ knows' = knows \ {Parents[i]}
        /\ history' = [history EXCEPT !.refused = @ \ {Parents[i]}]
     \/ /\ "busy" \in Faults /\ Parents[i] \in knows
        /\ history' = [history EXCEPT !.refused = @ \cup {Parents[i]}]
        /\ UNCHANGED knows
  /\ i' = i + 1
  /\ UNCHANGED <<main, ret, list, objs, files, report, handled, signals>>

Left ==
  /\ main = "leave" /\ ("route" \in objs => i > Len(Parents))
  /\ Step
  /\ i' = 1
  /\ UNCHANGED <<ret, list, objs, files, knows, report, handled, signals, history>>

\* route_unregister(NULL), with no entry in use (see Route for those).
Clear ==
  /\ main = "clear"
  /\ list' = IF "route" \in objs THEN <<>> ELSE list
  /\ Step
  /\ UNCHANGED <<i, ret, objs, files, knows, report, handled, signals, history>>

Mut_Part == [s \in {"free pool", "free route", "free cache", "free mutexes"} |->
  CASE s = "free pool" -> "route"
    [] s = "free route" -> "pool"
    [] s = "free cache" -> "cache"
    [] s = "free mutexes" -> "mutexes"]
Part == [s \in {"free pool", "free route", "free cache", "free mutexes"} |->
  CASE s = "free pool" -> "pool"
    [] s = "free route" -> "route"
    [] s = "free cache" -> "cache"
    [] s = "free mutexes" -> "mutexes"]

\* The four destroy functions, which accept NULL.
Free ==
  /\ main \in DOMAIN Part
  /\ objs' = objs \ {Part[main]}
  /\ Step
  /\ UNCHANGED <<i, ret, list, files, knows, report, handled, signals, history>>

\* The second report of a failure, and the end of the process.
Report ==
  /\ main = "report"
  /\ pipe' = IF ret # 0 THEN Written(ret) ELSE pipe
  /\ open' = FALSE
  /\ Step
  /\ UNCHANGED <<i, ret, list, objs, files, knows, launcher, lret, handled, signals, history>>

-----------------------------------------------------------------------------
\* After a first report of a failure, the launcher reads a second one.
Mut_AfterRead(v) == "done"
AfterRead(v) == IF launcher = "read" /\ v # 0 THEN "again" ELSE "done"

\* read() returns a value, or nothing at the end of the pipe.
LauncherRead ==
  /\ launcher \in {"read", "again"}
  /\ \/ /\ pipe # <<>>
        /\ lret' = Head(pipe) /\ pipe' = Tail(pipe)
        /\ launcher' = AfterRead(Head(pipe))
     \/ /\ pipe = <<>> /\ ~open
        /\ launcher' = AfterRead(lret)
        /\ UNCHANGED <<pipe, lret>>
  /\ UNCHANGED <<proc, list, objs, files, knows, open, handled, signals, history>>

MainStep ==
  \/ Option \/ RegisterNull \/ BadOption \/ Fork
  \/ Fails \/ Create \/ StartIOServer \/ StartCtrlServer \/ Introduce \/ Introduced \/ Ready \/ Handlers \/ EnterPause
  \/ Failed \/ StopServer \/ Leave \/ Left \/ Clear \/ Free \/ Report

\* The daemon waits for a signal, or everything has ended.
Done ==
  /\ main = "pause" \/ (main = "exited" /\ launcher \in {"none", "done"})
  /\ UNCHANGED vars

Next == MainStep \/ Signal \/ Killed \/ LauncherRead \/ Done

Spec == Init /\ [][Next]_vars

\* ctrl_register_parent at a child, ctrl_register_child and
\* ctrl_unregister_child at a parent wait for an answer without a timeout, and
\* thread_pool_destroy for the threads of the pool.
Waiting ==
  \/ main = "children" /\ i <= Len(Children)
  \/ main = "parents" /\ i <= Len(Parents)
  \/ main = "leave" /\ "route" \in objs /\ i <= Len(Parents)
  \/ main = "free pool" /\ "pool" \in objs

\* The threads of the daemon and the launcher are scheduled; nobody has to
\* send a signal, and what the daemon waits for need not come.
FairSpec == Spec /\ WF_vars(~Waiting /\ MainStep) /\ WF_vars(LauncherRead)

-----------------------------------------------------------------------------
(* Properties *)

\* A server accepts requests from its start, and the workers serve what was
\* accepted until the pool is gone: all that time everything a request uses
\* exists, also when the start fails half way.
RequestsHaveParts ==
  /\ {"io", "ctrl"} \cap objs # {} => "pool" \in objs
  /\ {"io", "ctrl"} \cap objs # {} \/ (history.served /\ "pool" \in objs) =>
       {"mutexes", "route"} \subseteq objs /\ (UseCache => "cache" \in objs)

\* A daemon that no signal kills leaves nothing behind, whichever step of its
\* start failed: no part, no socket of its own, no entry at a parent that did
\* not refuse to drop it -- and it leaves alone the sockets that were there.
CleanExit ==
  main = "exited" /\ ~history.killed =>
    /\ objs = {}
    /\ files = history.found
    /\ knows = history.refused

\* Unless the daemon is killed, the launcher returns 0 only when it serves
\* requests, and an error only when everything is taken down.
LauncherTruthful ==
  launcher = "done" /\ ~history.killed =>
    IF lret = 0 THEN history.ready ELSE ret # 0 /\ objs = {} /\ knows = history.refused


\* A key that a prefix of a storage of the command line matches does not end
\* up in the storage that main() adds for the rest.  (It does: README.md.)
ConfiguredReached ==
  main = "pause" => \A k \in Keys :
    LET matching == {n \in DOMAIN list : <<list[n], k>> \in Serves \/ list[n] = Null}
        first == CHOOSE n \in matching : \A m \in matching : n <= m
    IN (\E o \in Elements(Options) : <<o, k>> \in Serves) => list[first] # Null
=============================================================================
