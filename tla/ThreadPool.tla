----------------------------- MODULE ThreadPool -----------------------------
(***************************************************************************)
(* lib/infra/thread_pool.c: a ring of tasks protected by one mutex, with   *)
(* the condition variables not_empty (workers wait) and not_full           *)
(* (submitters wait), and how propd.c shuts it down: the server threads    *)
(* that submit are cancelled and joined, then thread_pool_destroy cancels  *)
(* and joins the workers and frees the queue.                              *)
(*                                                                         *)
(* Cancellation is deferred: it takes effect where the thread blocks in    *)
(* pthread_cond_wait (which first gets the mutex back), in sem_wait, in    *)
(* the server's accept or recvfrom, or inside a task; never while a thread *)
(* waits in pthread_mutex_lock.                                            *)
(*                                                                         *)
(* A task is a number, given in the order of the pushes.                   *)
(***************************************************************************)
EXTENDS Integers, Sequences, FiniteSets

CONSTANTS
  Workers,      \* tpool->pool
  Servers,      \* the threads that call thread_pool_submit
  Num,          \* queue->num
  NoThread,
  NoTask,
  Sync,         \* the values of `sync' that callers pass
  MayStop,      \* whether the daemon shuts down
  MaxTasks,     \* bound on the tasks submitted
  MaxSpurious   \* bound on the spurious wakeups

Threads == Workers \cup Servers

ASSUME NumAssumption == Num \in Nat \ {0}
ASSUME BoundAssumption == MaxTasks \in Nat /\ MaxSpurious \in Nat
ASSUME ThreadAssumption ==
  /\ IsFiniteSet(Workers) /\ IsFiniteSet(Servers)
  /\ Workers \cap Servers = {}
  /\ NoThread \notin Threads
ASSUME TaskAssumption == NoTask \notin Nat /\ Sync \subseteq BOOLEAN /\ MayStop \in BOOLEAN

VARIABLES
  pc,          \* where each thread is
  mutex,       \* the owner of queue->mutex
  queue,       \* queue->queue
  head, tail, count,
  pushed,      \* how many tasks were pushed
  called,      \* how many times thread_pool_submit was called
  task,        \* task[t]: the task a worker runs, or a server waits for
  sync,        \* sync[s]: the argument of s's call
  results,     \* the tasks that carry a result pointer and a semaphore
  posted,      \* the tasks whose semaphore was posted
  cancelled,   \* the threads that pthread_cancel was called on
  main,        \* propd's main thread: "up", "servers", "workers", "freed"
  spurious     \* how many spurious wakeups there were

ring == <<queue, head, tail, count, pushed>>
calls == <<called, task, sync, results, posted>>
vars == <<pc, mutex, ring, calls, cancelled, main, spurious>>

\* A server is "idle" in accept or recvfrom, a worker "run"s its task; either
\* comes to "lock" the queue and "check" its condition, "wait"s, is "woken"
\* (and needs the mutex) or cancelled there ("unwind"), and may have "exited".
\* "sem" is the sem_wait of a synchronous submit.
PCs == {"idle", "run", "lock", "check", "wait", "woken", "unwind", "sem", "exited"}

Init ==
  /\ pc = [t \in Threads |-> IF t \in Workers THEN "lock" ELSE "idle"]
  /\ mutex = NoThread
  /\ queue = [i \in 0 .. Num - 1 |-> NoTask]
  /\ head = 0 /\ tail = 0 /\ count = 0
  /\ pushed = 0
  /\ called = 0
  /\ task = [t \in Threads |-> NoTask]
  /\ sync = [s \in Servers |-> FALSE]
  /\ results = {}
  /\ posted = {}
  /\ cancelled = {}
  /\ main = "up"
  /\ spurious = 0

-----------------------------------------------------------------------------
\* pthread_mutex_lock, and the end of pthread_cond_wait.
Lock(t) ==
  /\ pc[t] \in {"lock", "woken"}
  /\ mutex = NoThread
  /\ mutex' = t
  /\ pc' = [pc EXCEPT ![t] = "check"]
  /\ UNCHANGED <<ring, calls, cancelled, main, spurious>>

\* pthread_cond_wait gives the mutex up and waits in one step.
Wait(t) ==
  /\ mutex' = NoThread
  /\ pc' = [pc EXCEPT ![t] = "wait"]
  /\ UNCHANGED <<ring, calls, cancelled, main, spurious>>

\* pthread_cond_signal: if somebody waits, somebody is woken.
Waiting(S) == {u \in S : pc[u] = "wait"}

SignalAndGo(S, t, next) ==
  IF Waiting(S) = {}
    THEN pc' = [pc EXCEPT ![t] = next]
    ELSE \E u \in Waiting(S) : pc' = [pc EXCEPT ![t] = next, ![u] = "woken"]

-----------------------------------------------------------------------------
(* thread_pool_submit and task_queue_push *)

Submit(s, b) ==
  /\ pc[s] = "idle"
  /\ b => main = "up"
  /\ called < MaxTasks
  /\ called' = called + 1
  /\ sync' = [sync EXCEPT ![s] = b]
  /\ pc' = [pc EXCEPT ![s] = "lock"]
  /\ UNCHANGED <<mutex, ring, task, results, posted, cancelled, main, spurious>>

Full == count >= Num

PushWait(s) ==
  /\ pc[s] = "check"
  /\ Full
  /\ Wait(s)

\* The task goes to the tail; a synchronous caller waits for its semaphore.
\* An asynchronous one is back in its server loop.
Mut_AfterPush(s) == "idle"
AfterPush(s) == IF sync[s] THEN "sem" ELSE "idle"

\* Whom the push signals: not_empty.
Mut_PushSignals == {}
PushSignals == Workers

Push(s) ==
  /\ pc[s] = "check"
  /\ ~Full
  /\ pushed' = pushed + 1
  /\ queue' = [queue EXCEPT ![tail] = pushed']
  /\ tail' = (tail + 1) % Num
  /\ count' = count + 1
  /\ task' = [task EXCEPT ![s] = IF sync[s] THEN pushed' ELSE NoTask]
  /\ results' = IF sync[s] THEN results \cup {pushed'} ELSE results
  /\ mutex' = NoThread
  /\ SignalAndGo(PushSignals, s, AfterPush(s))
  /\ UNCHANGED <<head, called, sync, posted, cancelled, main, spurious>>

\* sem_wait returns, and thread_pool_submit with the task's result.
SyncReturn(s) ==
  /\ pc[s] = "sem"
  /\ task[s] \in posted
  /\ task' = [task EXCEPT ![s] = NoTask]
  /\ pc' = [pc EXCEPT ![s] = "idle"]
  /\ UNCHANGED <<mutex, ring, called, sync, results, posted, cancelled, main, spurious>>

-----------------------------------------------------------------------------
(* thread_pool_worker and task_queue_pop *)

PopWait(w) ==
  /\ pc[w] = "check"
  /\ count = 0
  /\ Wait(w)

\* Whom the pop signals: not_full.
Mut_PopSignals == {}
PopSignals == Servers

Mut_NextHead == head
NextHead == (head + 1) % Num

Pop(w) ==
  /\ pc[w] = "check"
  /\ count # 0
  /\ task' = [task EXCEPT ![w] = queue[head]]
  /\ head' = NextHead
  /\ count' = count - 1
  /\ mutex' = NoThread
  /\ SignalAndGo(PopSignals, w, "run")
  /\ UNCHANGED <<queue, tail, pushed, called, sync, results, posted, cancelled, main, spurious>>

\* The routine returns; the submitter is told if it waits.
RunEnd(w) ==
  /\ pc[w] = "run"
  /\ posted' = posted \cup ({task[w]} \cap results)
  /\ task' = [task EXCEPT ![w] = NoTask]
  /\ pc' = [pc EXCEPT ![w] = "lock"]
  /\ UNCHANGED <<mutex, ring, called, sync, results, cancelled, main, spurious>>

-----------------------------------------------------------------------------
(* Spurious wakeups and cancellation *)

Spurious(t) ==
  /\ pc[t] = "wait"
  /\ spurious < MaxSpurious
  /\ spurious' = spurious + 1
  /\ pc' = [pc EXCEPT ![t] = "woken"]
  /\ UNCHANGED <<mutex, ring, calls, cancelled, main>>

\* Blocked in accept, recvfrom, sem_wait or a task: the thread ends there.
CancelBlocked(t) ==
  /\ t \in cancelled
  /\ pc[t] \in {"idle", "sem", "run"}
  /\ pc' = [pc EXCEPT ![t] = "exited"]
  /\ task' = [task EXCEPT ![t] = NoTask]
  /\ UNCHANGED <<mutex, ring, called, sync, results, posted, cancelled, main, spurious>>

CancelWait(t) ==
  /\ t \in cancelled
  /\ pc[t] = "wait"
  /\ pc' = [pc EXCEPT ![t] = "unwind"]
  /\ UNCHANGED <<mutex, ring, calls, cancelled, main, spurious>>

\* The cancelled wait gets the mutex back before the cleanup handlers run.  A
\* worker's handler unlocks it; a server has no handler for it.
Mut_AfterUnwind(t) == t
AfterUnwind(t) == IF t \in Workers THEN NoThread ELSE t

Unwind(t) ==
  /\ pc[t] = "unwind"
  /\ mutex = NoThread
  /\ mutex' = AfterUnwind(t)
  /\ pc' = [pc EXCEPT ![t] = "exited"]
  /\ UNCHANGED <<ring, calls, cancelled, main, spurious>>

-----------------------------------------------------------------------------
(* Shutdown: propd.c cancels and joins one server after the other, then    *)
(* calls thread_pool_destroy.                                              *)

Exited(S) == \A t \in S : pc[t] = "exited"

\* The submitters that propd stops never ask for a result.
Stop ==
  /\ MayStop
  /\ main = "up"
  /\ \A s \in Servers : ~sync[s]
  /\ results = {}
  /\ main' = "servers"
  /\ UNCHANGED <<pc, mutex, ring, calls, cancelled, spurious>>

CancelServer(s) ==
  /\ main = "servers"
  /\ s \notin cancelled
  /\ Exited(cancelled)
  /\ cancelled' = cancelled \cup {s}
  /\ UNCHANGED <<pc, mutex, ring, calls, main, spurious>>

Destroy ==
  /\ main = "servers"
  /\ Servers \subseteq cancelled /\ Exited(Servers)
  /\ main' = "workers"
  /\ UNCHANGED <<pc, mutex, ring, calls, cancelled, spurious>>

CancelWorker(w) ==
  /\ main = "workers"
  /\ w \notin cancelled
  /\ cancelled' = cancelled \cup {w}
  /\ UNCHANGED <<pc, mutex, ring, calls, main, spurious>>

\* Every worker is joined; queue and pool are freed.
Free ==
  /\ main = "workers"
  /\ Workers \subseteq cancelled /\ Exited(Workers)
  /\ main' = "freed"
  /\ UNCHANGED <<pc, mutex, ring, calls, cancelled, spurious>>

-----------------------------------------------------------------------------
ServerStep(s) == Lock(s) \/ PushWait(s) \/ Push(s) \/ SyncReturn(s)
WorkerStep(w) == Lock(w) \/ PopWait(w) \/ Pop(w)
CancelStep(t) == CancelBlocked(t) \/ CancelWait(t) \/ Unwind(t)
MainStep ==
  \/ \E s \in Servers : CancelServer(s)
  \/ Destroy
  \/ \E w \in Workers : CancelWorker(w)
  \/ Free

Next ==
  \/ \E s \in Servers : ServerStep(s)
  \/ \E s \in Servers, b \in Sync : Submit(s, b)
  \/ \E w \in Workers : WorkerStep(w) \/ RunEnd(w)
  \/ \E t \in Threads : Spurious(t) \/ CancelStep(t)
  \/ Stop
  \/ MainStep

Spec == Init /\ [][Next]_vars

\* Threads keep running, a pending cancellation is acted upon, and the main
\* thread continues its shutdown.  No order is assumed between the threads
\* that contend for the mutex.
Fairness ==
  /\ \A s \in Servers : WF_vars(ServerStep(s))
  /\ \A w \in Workers : WF_vars(WorkerStep(w))
  /\ \A t \in Threads : WF_vars(CancelStep(t))
  /\ WF_vars(MainStep)

\* Clients disconnect after a while, so a task returns.
TasksEnd == \A w \in Workers : WF_vars(RunEnd(w))

\* Without TasksEnd: shutdown must not depend on what clients do.
FairSpec == Spec /\ Fairness

-----------------------------------------------------------------------------
TypeOK ==
  /\ pc \in [Threads -> PCs]
  /\ mutex \in Threads \cup {NoThread}
  /\ queue \in [0 .. Num - 1 -> Nat \cup {NoTask}]
  /\ head \in 0 .. Num - 1 /\ tail \in 0 .. Num - 1 /\ count \in 0 .. Num
  /\ pushed \in Nat /\ called \in Nat /\ spurious \in Nat
  /\ task \in [Threads -> Nat \cup {NoTask}]
  /\ sync \in [Servers -> BOOLEAN]
  /\ results \subseteq Nat /\ posted \subseteq Nat
  /\ cancelled \subseteq Threads
  /\ main \in {"up", "servers", "workers", "freed"}

\* The threads that will look at the queue again without being signalled.
Awake(S) == {t \in S : pc[t] \in {"lock", "woken", "check"}}

\* No wakeup is lost: while a worker waits on not_empty there are at least as
\* many workers on their way to the queue as tasks in it, and likewise for
\* submitters on not_full and free slots -- although each push and each pop
\* signals once, to a thread that may be overtaken.
NoLostWakeup ==
  /\ Waiting(Workers) # {} => count <= Cardinality(Awake(Workers))
  /\ Waiting(Servers) # {} => Num - count <= Cardinality(Awake(Servers))

\* A worker about to write a result and post a semaphore finds the submitter,
\* on whose stack both are, still waiting.
ResultOnLiveStack ==
  \A w \in Workers :
    pc[w] = "run" /\ task[w] \in results =>
      \E s \in Servers : pc[s] = "sem" /\ task[s] = task[w]

\* A submitter gets through, in the end, whatever the queue's depth, if tasks
\* return.
EverySubmitReturns ==
  TasksEnd => \A s \in Servers : (pc[s] = "lock") ~> (pc[s] = "idle" \/ main # "up")

\* A server that was cancelled while it waited for a slot and took the mutex
\* along; joining the workers then hangs.
Orphaned == \E s \in Servers : pc[s] = "exited" /\ mutex = s

\* thread_pool_destroy returns once it is called -- every worker acts on its
\* cancellation -- and so does the joining of the servers before it, unless
\* the mutex was orphaned.
DestroyCompletes == (main = "servers") ~> (main = "freed" \/ Orphaned)

-----------------------------------------------------------------------------
\* The slots from head on, oldest first.
Pending == [i \in 1 .. count |-> queue[(head + i - 1) % Num]]

\* Every task that was pushed is started as long as the daemon is up and
\* tasks return, also when everybody queues for the mutex in any order.
EveryTaskStarts ==
  TasksEnd => \A x \in 1 .. MaxTasks :
    (\E i \in 1 .. count : Pending[i] = x) ~>
      ((\E w \in Workers : task[w] = x) \/ main # "up")

Running == [w \in Workers |-> IF pc[w] = "run" THEN task[w] ELSE NoTask]

TP == INSTANCE TaskPool WITH
  Depth <- Num, pending <- Pending, running <- Running, accepted <- pushed

\* The ring and its two condition variables are a bounded FIFO: no task is
\* lost, started twice or overtaken.
ImplementsTaskPool == TP!Spec
=============================================================================
