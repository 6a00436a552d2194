-------------------------- MODULE ThreadPoolProofs --------------------------
(***************************************************************************)
(* The safety of the thread pool for any finite number of workers and      *)
(* submitters and any depth of the queue.  That a result goes to a stack   *)
(* that is still there depends on no task being run twice, hence on the    *)
(* ring: it holds the tasks after the ones that were started, in order.    *)
(***************************************************************************)
EXTENDS ThreadPool, FiniteSetTheorems, SequenceTheorems, TLAPS

\* The ring has the last count tasks, oldest at head, and ends at tail.
RingInv ==
  /\ count <= pushed
  /\ tail = (head + count) % Num
  /\ \A i \in 1 .. count : queue[(head + i - 1) % Num] = pushed - count + i

Started == 1 .. pushed - count

\* Tasks that run have been started, each by one worker, and have not
\* reported a result.
RunInv ==
  /\ \A w \in Workers : pc[w] = "run" => task[w] \in Started \ posted
  /\ \A w, v \in Workers : pc[w] = "run" /\ pc[v] = "run" /\ task[w] = task[v] => w = v
  /\ posted \subseteq Started

\* A result that is still to come is waited for.
SemInv ==
  /\ results \subseteq 1 .. pushed
  /\ \A x \in results \ posted : \E s \in Servers : pc[s] = "sem" /\ task[s] = x

\* Nobody is cancelled before the shutdown, and then no result is asked for.
MainInv ==
  IF main = "up" THEN cancelled = {} ELSE results = {} /\ \A s \in Servers : ~sync[s]

IInv ==
  /\ TypeOK
  /\ RingInv
  /\ RunInv
  /\ SemInv
  /\ MainInv
  /\ NoLostWakeup

-----------------------------------------------------------------------------
(* Positions of the ring are added modulo its length. *)

LEMMA ModSmall ==
  ASSUME NEW N \in Nat \ {0}, NEW a \in 0 .. N - 1
  PROVE  a % N = a
  OBVIOUS

LEMMA ModWrap ==
  ASSUME NEW N \in Nat \ {0}, NEW a \in N .. 2 * N - 1
  PROVE  a % N = a - N
  OBVIOUS

LEMMA ModSplit ==
  ASSUME NEW N \in Nat \ {0}, NEW a \in 0 .. 2 * N - 1
  PROVE  a % N = IF a < N THEN a ELSE a - N
  <1>1. a < N => a \in 0 .. N - 1
    OBVIOUS
  <1>2. ~(a < N) => a \in N .. 2 * N - 1
    OBVIOUS
  <1>3. QED
    BY <1>1, <1>2, ModSmall, ModWrap

\* Two positions less than a round apart are different slots.
LEMMA ModDiffer ==
  ASSUME NEW N \in Nat \ {0}, NEW h \in 0 .. N - 1, NEW i \in 0 .. N - 1, NEW j \in 0 .. N - 1, i # j
  PROVE  (h + i) % N # (h + j) % N
  <1>1. h + i \in 0 .. 2 * N - 1 /\ h + j \in 0 .. 2 * N - 1
    OBVIOUS
  <1>2. \A a \in 0 .. 2 * N - 1 : a % N = IF a < N THEN a ELSE a - N
    BY ModSplit
  <1>3. /\ (h + i) % N = IF h + i < N THEN h + i ELSE h + i - N
        /\ (h + j) % N = IF h + j < N THEN h + j ELSE h + j - N
    BY <1>1, <1>2
  <1>4. QED
    BY <1>3

\* Going on by one from a slot is going one step further.
LEMMA ModNext ==
  ASSUME NEW N \in Nat \ {0}, NEW h \in 0 .. N - 1, NEW i \in 0 .. N - 1
  PROVE  /\ (((h + i) % N) + 1) % N = (h + i + 1) % N
         /\ (((h + 1) % N) + i) % N = (h + i + 1) % N
         /\ (h + i) % N \in 0 .. N - 1
         /\ (h + 1) % N \in 0 .. N - 1
  <1> DEFINE m(a) == IF a < N THEN a ELSE a - N
  <1>1. \A a \in 0 .. 2 * N - 1 : a % N = m(a)
    BY ModSplit
  <1>2. /\ h + i \in 0 .. 2 * N - 1 /\ h + i + 1 \in 0 .. 2 * N - 1 /\ h + 1 \in 0 .. 2 * N - 1
        /\ m(h + i) + 1 \in 0 .. 2 * N - 1 /\ m(h + 1) + i \in 0 .. 2 * N - 1
    OBVIOUS
  <1>3. (h + i) % N = m(h + i) /\ (h + i + 1) % N = m(h + i + 1) /\ (h + 1) % N = m(h + 1)
    BY <1>1, <1>2
  <1>4. (m(h + i) + 1) % N = m(m(h + i) + 1) /\ (m(h + 1) + i) % N = m(m(h + 1) + i)
    BY <1>1, <1>2
  <1>5. m(m(h + i) + 1) = m(h + i + 1) /\ m(m(h + 1) + i) = m(h + i + 1)
    OBVIOUS
  <1>6. m(h + i) \in 0 .. N - 1 /\ m(h + 1) \in 0 .. N - 1
    OBVIOUS
  <1>7. QED
    BY <1>3, <1>4, <1>5, <1>6

-----------------------------------------------------------------------------
(* The group S of threads waits for n: tasks, or free slots. *)

NoLost(S, n) == Waiting(S) # {} => n <= Cardinality(Awake(S))

LEMMA WakeupParts == NoLostWakeup <=> NoLost(Workers, count) /\ NoLost(Servers, Num - count)
  BY DEF NoLostWakeup, NoLost

LEMMA AwakeFinite ==
  ASSUME NEW S, IsFiniteSet(S)
  PROVE  IsFiniteSet(Awake(S)) /\ Cardinality(Awake(S)) \in Nat
  <1>1. IsFiniteSet(Awake(S))
    BY FS_Subset DEF Awake
  <1>2. QED
    BY <1>1, FS_CardinalityType

LEMMA AwakeFiniteNext ==
  ASSUME NEW S, IsFiniteSet(S)
  PROVE  IsFiniteSet(Awake(S)') /\ Cardinality(Awake(S)') \in Nat
  <1>1. IsFiniteSet(Awake(S)')
    BY FS_Subset DEF Awake
  <1>2. QED
    BY <1>1, FS_CardinalityType

\* Nobody stops looking and nobody new waits.
LEMMA KeepAwake ==
  ASSUME NEW S, IsFiniteSet(S), NEW n \in Int, NEW m \in Int, m <= n, NoLost(S, n),
         Waiting(S)' \subseteq Waiting(S), Awake(S) \subseteq Awake(S)'
  PROVE  Waiting(S)' # {} => m <= Cardinality(Awake(S)')
  <1>1. Cardinality(Awake(S)) <= Cardinality(Awake(S)')
    BY AwakeFiniteNext, FS_Subset
  <1>2. QED
    BY <1>1, AwakeFinite, AwakeFiniteNext DEF NoLost

\* One of the group takes what it was waiting for.
LEMMA TakeOne ==
  ASSUME NEW S, IsFiniteSet(S), NEW n \in Int, NoLost(S, n), NEW t \in Awake(S),
         Waiting(S)' \subseteq Waiting(S), Awake(S)' = Awake(S) \ {t}
  PROVE  Waiting(S)' # {} => n - 1 <= Cardinality(Awake(S)')
  <1>1. Cardinality(Awake(S)') = Cardinality(Awake(S)) - 1
    BY AwakeFinite, FS_RemoveElement
  <1>2. QED
    BY <1>1, AwakeFinite, AwakeFiniteNext DEF NoLost

\* There is one more to be had, and one of the waiting group is woken.
LEMMA WakeOne ==
  ASSUME NEW S, IsFiniteSet(S), NEW n \in Int, NoLost(S, n), NEW u \in Waiting(S),
         Awake(S)' = Awake(S) \cup {u}
  PROVE  n + 1 <= Cardinality(Awake(S)')
  <1>1. u \notin Awake(S)
    BY DEF Awake, Waiting
  <1>2. Cardinality(Awake(S)') = Cardinality(Awake(S)) + 1
    BY <1>1, AwakeFinite, FS_AddElement
  <1>3. QED
    BY <1>2, AwakeFinite, AwakeFiniteNext DEF NoLost

\* A thread moves, not into a wait, nor away from the queue.
LEMMA QuietWakeup ==
  ASSUME TypeOK, NoLostWakeup, count' = count, NEW t \in Threads, NEW p \in PCs \ {"wait"},
         pc' = [pc EXCEPT ![t] = p],
         pc[t] \in {"lock", "woken", "check"} => p \in {"lock", "woken", "check"}
  PROVE  NoLostWakeup'
  <1>1. ASSUME NEW S, S \subseteq Threads
        PROVE  Waiting(S)' \subseteq Waiting(S) /\ Awake(S) \subseteq Awake(S)'
    BY <1>1 DEF TypeOK, Waiting, Awake
  <1>2. count \in Int /\ Num - count \in Int
    BY NumAssumption DEF TypeOK
  <1>3. Waiting(Workers)' # {} => count <= Cardinality(Awake(Workers)')
    BY <1>1, <1>2, KeepAwake, WakeupParts, ThreadAssumption DEF Threads
  <1>4. Waiting(Servers)' # {} => Num - count <= Cardinality(Awake(Servers)')
    BY <1>1, <1>2, KeepAwake, WakeupParts, ThreadAssumption DEF Threads
  <1>5. QED
    BY <1>3, <1>4 DEF NoLostWakeup

\* PushWait and PopWait: a thread waits when there is nothing to be had.
LEMMA WaitWakeup ==
  ASSUME TypeOK, NoLostWakeup, count' = count, NEW t \in Threads, pc' = [pc EXCEPT ![t] = "wait"],
         t \in Workers => count = 0, t \in Servers => Num - count <= 0
  PROVE  NoLostWakeup'
  <1>1. ASSUME NEW S, S \subseteq Threads, t \notin S
        PROVE  Waiting(S)' \subseteq Waiting(S) /\ Awake(S) \subseteq Awake(S)'
    BY <1>1 DEF TypeOK, Waiting, Awake
  <1>2. count \in Int /\ Num - count \in Int
    BY NumAssumption DEF TypeOK
  <1>3. Waiting(Workers)' # {} => count <= Cardinality(Awake(Workers)')
    <2>1. CASE t \in Workers
      BY <2>1, AwakeFiniteNext, ThreadAssumption
    <2>2. CASE t \notin Workers
      BY <1>1, <1>2, <2>2, KeepAwake, WakeupParts, ThreadAssumption DEF Threads
    <2>3. QED
      BY <2>1, <2>2
  <1>4. Waiting(Servers)' # {} => Num - count <= Cardinality(Awake(Servers)')
    <2>1. CASE t \in Servers
      <3>1. Cardinality(Awake(Servers)') \in Nat
        BY AwakeFiniteNext, ThreadAssumption
      <3>2. QED
        BY <2>1, <3>1, <1>2
    <2>2. CASE t \notin Servers
      BY <1>1, <1>2, <2>2, KeepAwake, WakeupParts, ThreadAssumption DEF Threads
    <2>3. QED
      BY <2>1, <2>2
  <1>5. QED
    BY <1>3, <1>4 DEF NoLostWakeup

-----------------------------------------------------------------------------
(* Initial states, and one lemma per action *)

LEMMA InitInv == Init => IInv
  <1> SUFFICES ASSUME Init PROVE IInv
    OBVIOUS
  <1> USE NumAssumption, ThreadAssumption, TaskAssumption DEF Init
  <1>1. TypeOK
    BY DEF TypeOK, PCs
  <1>2. RingInv
    <2>1. (0 + 0) % Num = 0
      BY ModSmall
    <2>2. QED
      BY <2>1 DEF RingInv
  <1>3. RunInv /\ SemInv /\ MainInv
    BY DEF RunInv, SemInv, MainInv, Threads
  <1>4. NoLostWakeup
    BY DEF NoLostWakeup, Waiting, Threads
  <1>5. QED
    BY <1>1, <1>2, <1>3, <1>4 DEF IInv

\* A thread moves among the places where it neither runs a task nor waits for
\* a result.
LEMMA PlaceInv ==
  ASSUME IInv, NEW t \in Threads, NEW p \in PCs \ {"run", "sem"}, pc[t] \notin {"run", "sem"},
         pc' = [pc EXCEPT ![t] = p],
         UNCHANGED <<ring, task, results, posted, cancelled, main>>,
         mutex' \in Threads \cup {NoThread}, called' \in Nat, spurious' \in Nat,
         sync' \in [Servers -> BOOLEAN], MainInv', NoLostWakeup'
  PROVE  IInv'
  <1> USE DEF IInv, ring
  <1>1. TypeOK'
    BY DEF TypeOK
  <1>2. RingInv'
    BY DEF RingInv
  <1>3. pc'[t] = p /\ \A u \in Threads : u # t => pc'[u] = pc[u]
    BY DEF TypeOK
  <1>4. RunInv'
    BY <1>3 DEF RunInv, Threads, Started
  <1>5. SemInv'
    BY <1>3 DEF SemInv, Threads
  <1>6. QED
    BY <1>1, <1>2, <1>4, <1>5

LEMMA LockInv ==
  ASSUME IInv, NEW t \in Threads, Lock(t)
  PROVE  IInv'
  <1>1. NoLostWakeup'
    BY QuietWakeup DEF IInv, Lock, PCs, ring
  <1>2. MainInv'
    BY DEF Lock, calls, IInv, MainInv
  <1>3. QED
    BY <1>1, <1>2, PlaceInv DEF Lock, calls, PCs, IInv, TypeOK

LEMMA WaitInv ==
  ASSUME IInv, NEW t \in Threads, pc[t] = "check", Wait(t),
         t \in Workers => count = 0, t \in Servers => Num - count <= 0
  PROVE  IInv'
  <1>1. NoLostWakeup'
    BY WaitWakeup DEF IInv, Wait, ring
  <1>2. MainInv'
    BY DEF Wait, calls, IInv, MainInv
  <1>3. QED
    BY <1>1, <1>2, PlaceInv DEF Wait, calls, PCs, IInv, TypeOK

LEMMA PushWaitInv ==
  ASSUME IInv, NEW s \in Servers, PushWait(s)
  PROVE  IInv'
  <1>1. s \in Threads /\ s \notin Workers /\ Num - count <= 0
    BY ThreadAssumption, NumAssumption DEF Threads, PushWait, Full, IInv, TypeOK
  <1>2. QED
    BY <1>1, WaitInv DEF PushWait

LEMMA PopWaitInv ==
  ASSUME IInv, NEW w \in Workers, PopWait(w)
  PROVE  IInv'
  <1>1. w \in Threads /\ w \notin Servers
    BY ThreadAssumption DEF Threads
  <1>2. QED
    BY <1>1, WaitInv DEF PopWait

LEMMA SubmitInv ==
  ASSUME IInv, NEW s \in Servers, NEW b \in Sync, Submit(s, b)
  PROVE  IInv'
  <1>0. s \in Threads /\ b \in BOOLEAN
    BY TaskAssumption DEF Threads
  <1>1. NoLostWakeup'
    BY <1>0, QuietWakeup DEF IInv, Submit, PCs, ring
  <1>2. MainInv'
    BY <1>0 DEF Submit, IInv, MainInv, TypeOK
  <1>3. called' \in Nat /\ sync' \in [Servers -> BOOLEAN] /\ mutex' \in Threads \cup {NoThread} /\ spurious' \in Nat
    BY <1>0 DEF Submit, IInv, TypeOK
  <1>4. QED
    BY <1>0, <1>1, <1>2, <1>3, PlaceInv DEF Submit, PCs

LEMMA SpuriousInv ==
  ASSUME IInv, NEW t \in Threads, Spurious(t)
  PROVE  IInv'
  <1>1. NoLostWakeup'
    BY QuietWakeup DEF IInv, Spurious, PCs, ring
  <1>2. MainInv'
    BY DEF Spurious, calls, IInv, MainInv
  <1>3. called' \in Nat /\ sync' \in [Servers -> BOOLEAN] /\ mutex' \in Threads \cup {NoThread} /\ spurious' \in Nat
    BY DEF Spurious, calls, IInv, TypeOK
  <1>4. QED
    BY <1>1, <1>2, <1>3, PlaceInv DEF Spurious, calls, PCs

LEMMA CancelWaitInv ==
  ASSUME IInv, NEW t \in Threads, CancelWait(t)
  PROVE  IInv'
  <1>1. NoLostWakeup'
    BY QuietWakeup DEF IInv, CancelWait, PCs, ring
  <1>2. MainInv'
    BY DEF CancelWait, calls, IInv, MainInv
  <1>3. QED
    BY <1>1, <1>2, PlaceInv DEF CancelWait, calls, PCs, IInv, TypeOK

LEMMA UnwindInv ==
  ASSUME IInv, NEW t \in Threads, Unwind(t)
  PROVE  IInv'
  <1>1. NoLostWakeup'
    BY QuietWakeup DEF IInv, Unwind, PCs, ring
  <1>2. MainInv'
    BY DEF Unwind, calls, IInv, MainInv
  <1>3. QED
    BY <1>1, <1>2, PlaceInv DEF Unwind, AfterUnwind, calls, PCs, IInv, TypeOK

LEMMA MainStepInv ==
  ASSUME IInv, Stop \/ MainStep
  PROVE  IInv'
  <1> USE DEF IInv
  <1>1. UNCHANGED <<pc, mutex, queue, head, tail, count, pushed, called, task, sync, results, posted, spurious>>
    BY DEF Stop, MainStep, CancelServer, Destroy, CancelWorker, Free, ring, calls
  <1>2. /\ cancelled' \subseteq Threads /\ main' \in {"servers", "workers", "freed"}
        /\ results = {} /\ \A s \in Servers : ~sync[s]
    BY DEF Stop, MainStep, CancelServer, Destroy, CancelWorker, Free, TypeOK, MainInv, Threads
  <1>3. TypeOK'
    BY <1>1, <1>2 DEF TypeOK
  <1>4. RingInv' /\ RunInv' /\ SemInv' /\ MainInv'
    BY <1>1, <1>2 DEF RingInv, RunInv, SemInv, MainInv, Started
  <1>5. NoLostWakeup'
    BY <1>1 DEF NoLostWakeup, Waiting, Awake
  <1>6. QED
    BY <1>3, <1>4, <1>5

\* The submitter that returns has its result.
LEMMA SyncReturnInv ==
  ASSUME IInv, NEW s \in Servers, SyncReturn(s)
  PROVE  IInv'
  <1> USE DEF IInv
  <1>0. /\ s \in Threads /\ s \notin Workers /\ pc[s] = "sem" /\ task[s] \in posted
        /\ pc' = [pc EXCEPT ![s] = "idle"] /\ task' = [task EXCEPT ![s] = NoTask]
        /\ UNCHANGED <<mutex, queue, head, tail, count, pushed, called, sync, results, posted, cancelled, main, spurious>>
    BY ThreadAssumption DEF SyncReturn, Threads, ring
  <1>1. TypeOK'
    BY <1>0 DEF TypeOK, PCs
  <1>2. \A u \in Threads : u # s => pc'[u] = pc[u] /\ task'[u] = task[u]
    BY <1>0 DEF TypeOK
  <1>3. RingInv' /\ MainInv'
    BY <1>0 DEF RingInv, MainInv
  <1>4. RunInv'
    BY <1>0, <1>2 DEF RunInv, Started, Threads
  <1>5. SemInv'
    BY <1>0, <1>2 DEF SemInv, Threads
  <1>6. NoLostWakeup'
    BY <1>0, QuietWakeup DEF PCs
  <1>7. QED
    BY <1>1, <1>3, <1>4, <1>5, <1>6

\* A task that ends posts its own semaphore and no other.
LEMMA RunEndInv ==
  ASSUME IInv, NEW w \in Workers, RunEnd(w)
  PROVE  IInv'
  <1> USE DEF IInv
  <1>0. /\ w \in Threads /\ w \notin Servers /\ pc[w] = "run" /\ task[w] \in Started /\ task[w] \in Nat
        /\ pc' = [pc EXCEPT ![w] = "lock"] /\ task' = [task EXCEPT ![w] = NoTask]
        /\ posted' = posted \cup ({task[w]} \cap results)
        /\ UNCHANGED <<mutex, queue, head, tail, count, pushed, called, sync, results, cancelled, main, spurious>>
    BY ThreadAssumption DEF RunEnd, Threads, ring, RunInv, Started
  <1>1. TypeOK'
    BY <1>0 DEF TypeOK, PCs
  <1>2. pc'[w] = "lock" /\ \A u \in Threads : u # w => pc'[u] = pc[u] /\ task'[u] = task[u]
    BY <1>0 DEF TypeOK
  <1>3. RingInv' /\ MainInv'
    BY <1>0 DEF RingInv, MainInv
  <1>4. RunInv'
    <2>1. ASSUME NEW v \in Workers, pc'[v] = "run"
          PROVE  v # w /\ pc[v] = "run" /\ task'[v] = task[v] /\ task[v] \in Started \ posted
                 /\ task[v] # task[w]
      BY <1>0, <1>2, <2>1 DEF RunInv, Threads
    <2>2. posted' \subseteq Started /\ Started' = Started
      BY <1>0 DEF RunInv, Started
    <2>3. \A v \in Workers : pc'[v] = "run" => task'[v] \in Started' \ posted'
      BY <1>0, <2>1, <2>2
    <2>4. \A u, v \in Workers : pc'[u] = "run" /\ pc'[v] = "run" /\ task'[u] = task'[v] => u = v
      BY <2>1 DEF RunInv
    <2>5. QED
      BY <2>2, <2>3, <2>4 DEF RunInv
  <1>5. SemInv'
    BY <1>0, <1>2 DEF SemInv, Threads
  <1>6. NoLostWakeup'
    BY <1>0, QuietWakeup DEF PCs
  <1>7. QED
    BY <1>1, <1>3, <1>4, <1>5, <1>6

\* Cancellation comes when no result is waited for.
LEMMA CancelBlockedInv ==
  ASSUME IInv, NEW t \in Threads, CancelBlocked(t)
  PROVE  IInv'
  <1> USE DEF IInv
  <1>0. /\ pc[t] \in {"idle", "sem", "run"} /\ results = {} /\ \A s \in Servers : ~sync[s]
        /\ pc' = [pc EXCEPT ![t] = "exited"] /\ task' = [task EXCEPT ![t] = NoTask]
        /\ UNCHANGED <<mutex, queue, head, tail, count, pushed, called, sync, results, posted, cancelled, main, spurious>>
    BY DEF CancelBlocked, ring, MainInv
  <1>1. TypeOK'
    BY <1>0 DEF TypeOK, PCs
  <1>2. pc'[t] = "exited" /\ \A u \in Threads : u # t => pc'[u] = pc[u] /\ task'[u] = task[u]
    BY <1>0 DEF TypeOK
  <1>3. RingInv' /\ MainInv' /\ SemInv'
    BY <1>0 DEF RingInv, MainInv, SemInv
  <1>4. RunInv'
    BY <1>0, <1>2 DEF RunInv, Started, Threads
  <1>5. NoLostWakeup'
    BY <1>0, QuietWakeup DEF PCs
  <1>6. QED
    BY <1>1, <1>3, <1>4, <1>5

-----------------------------------------------------------------------------
(* Push and Pop *)

\* A signal moves t, and at most one waiting thread of the group.
Signalled(S, t, next) ==
  \E W \in SUBSET Waiting(S) :
    /\ Waiting(S) = {} <=> W = {}
    /\ \A u, v \in W : u = v
    /\ pc'[t] = next
    /\ \A u \in W : pc'[u] = "woken"
    /\ \A u \in Threads : u # t /\ u \notin W => pc'[u] = pc[u]

LEMMA SignalMoves ==
  ASSUME TypeOK, NEW S, S \subseteq Threads, NEW t \in Threads \ S, NEW next \in PCs, SignalAndGo(S, t, next)
  PROVE  pc' \in [Threads -> PCs] /\ Signalled(S, t, next)
  <1>1. CASE Waiting(S) = {}
    BY <1>1 DEF SignalAndGo, Signalled, TypeOK
  <1>2. CASE Waiting(S) # {}
    <2>1. PICK u \in Waiting(S) : pc' = [pc EXCEPT ![t] = next, ![u] = "woken"]
      BY <1>2 DEF SignalAndGo
    <2>2. u \in Threads /\ u # t
      BY DEF Waiting
    <2>3. /\ pc' \in [Threads -> PCs] /\ pc'[t] = next /\ pc'[u] = "woken"
          /\ \A v \in Threads : v # t /\ v # u => pc'[v] = pc[v]
      BY <2>1, <2>2 DEF TypeOK, PCs
    <2>4. Signalled(S, t, next)
      <3> USE DEF Signalled
      <3> WITNESS {u} \in SUBSET Waiting(S)
      <3> QED
        BY <1>2, <2>3
    <2>5. QED
      BY <2>3, <2>4
  <1>3. QED
    BY <1>1, <1>2

\* One of the group T goes away with what it took, which is one more for S.
LEMMA SignalWakeup ==
  ASSUME TypeOK, NEW S, NEW T, IsFiniteSet(S), IsFiniteSet(T), S \cap T = {}, S \cup T \subseteq Threads,
         NEW t \in T, pc[t] = "check", NEW next \in {"idle", "sem", "run"}, Signalled(S, t, next),
         NEW n \in Int, NEW m \in Int, NoLost(S, n), NoLost(T, m)
  PROVE  /\ Waiting(S)' # {} => n + 1 <= Cardinality(Awake(S)')
         /\ Waiting(T)' # {} => m - 1 <= Cardinality(Awake(T)')
  <1>1. PICK W \in SUBSET Waiting(S) :
          /\ Waiting(S) = {} <=> W = {}
          /\ \A u, v \in W : u = v
          /\ pc'[t] = next
          /\ \A u \in W : pc'[u] = "woken"
          /\ \A u \in Threads : u # t /\ u \notin W => pc'[u] = pc[u]
    BY DEF Signalled
  <1>2. \A u \in T : u # t => pc'[u] = pc[u]
    BY <1>1 DEF Waiting
  <1>3. Waiting(T)' \subseteq Waiting(T) /\ Awake(T)' = Awake(T) \ {t} /\ t \in Awake(T)
    BY <1>1, <1>2 DEF Waiting, Awake
  <1>4. Waiting(T)' # {} => m - 1 <= Cardinality(Awake(T)')
    BY <1>3, TakeOne
  <1>5. CASE Waiting(S) = {}
    <2>1. \A u \in S : pc'[u] = pc[u]
      BY <1>1, <1>5
    <2>2. Waiting(S)' = {}
      BY <1>5, <2>1 DEF Waiting
    <2>3. QED
      BY <1>4, <2>2
  <1>6. CASE Waiting(S) # {}
    <2>1. PICK u \in Waiting(S) : W = {u}
      BY <1>1, <1>6
    <2>2. u \in S /\ pc'[u] = "woken" /\ \A v \in S : v # u => pc'[v] = pc[v]
      BY <1>1, <2>1 DEF Waiting
    <2>3. Awake(S)' = Awake(S) \cup {u}
      BY <2>2 DEF Awake
    <2>4. QED
      BY <1>4, <2>3, WakeOne
  <1>7. QED
    BY <1>5, <1>6

\* A place that neither runs nor waits for a result stays one when signalled.
LEMMA SignalledPlaces ==
  ASSUME NEW S, NEW t, NEW next, Signalled(S, t, next), NEW u \in Threads, u # t
  PROVE  /\ pc'[u] = "run" <=> pc[u] = "run"
         /\ pc[u] = "sem" => pc'[u] = "sem"
  BY DEF Signalled, Waiting

LEMMA PushInv ==
  ASSUME IInv, NEW s \in Servers, Push(s)
  PROVE  IInv'
  <1> USE DEF IInv
  <1>0. /\ s \in Threads \ Workers /\ pc[s] = "check" /\ count \in 0 .. Num - 1 /\ pushed \in Nat
        /\ head \in 0 .. Num - 1 /\ tail \in 0 .. Num - 1 /\ Num \in Nat \ {0}
        /\ queue \in [0 .. Num - 1 -> Nat \cup {NoTask}]
        /\ pushed' = pushed + 1 /\ count' = count + 1 /\ head' = head
        /\ queue' = [queue EXCEPT ![tail] = pushed + 1] /\ tail' = (tail + 1) % Num
        /\ task' = [task EXCEPT ![s] = IF sync[s] THEN pushed + 1 ELSE NoTask]
        /\ results' = IF sync[s] THEN results \cup {pushed + 1} ELSE results
        /\ UNCHANGED <<called, sync, posted, cancelled, main, spurious>> /\ mutex' = NoThread
    BY ThreadAssumption, NumAssumption DEF Push, Full, Threads, TypeOK
  <1>1. PICK next \in {"idle", "sem"} : next = AfterPush(s) /\ next = IF sync[s] THEN "sem" ELSE "idle"
    BY DEF AfterPush
  <1>2. pc' \in [Threads -> PCs] /\ Signalled(Workers, s, next)
    <2>1. SignalAndGo(Workers, s, next)
      BY <1>1 DEF Push, PushSignals
    <2>2. QED
      BY <1>0, <1>1, <2>1, SignalMoves DEF Threads, PCs
  <1>3. \A u \in Threads : u # s => (pc'[u] = "run" <=> pc[u] = "run") /\ (pc[u] = "sem" => pc'[u] = "sem")
    BY <1>2, SignalledPlaces
  <1>4. pc'[s] = next
    BY <1>2 DEF Signalled
  <1>5. (tail + 1) % Num = (head + count + 1) % Num /\ (tail + 1) % Num \in 0 .. Num - 1
    <2>1. /\ (((head + count) % Num) + 1) % Num = (head + count + 1) % Num
          /\ tail = (head + count) % Num
      BY <1>0, ModNext DEF RingInv
    <2>2. (tail + 1) % Num \in 0 .. Num - 1
      BY <1>0, ModNext
    <2>3. QED
      BY <2>1, <2>2
  <1>6. TypeOK'
    <2>1. /\ queue' \in [0 .. Num - 1 -> Nat \cup {NoTask}] /\ pushed' \in Nat /\ count' \in 0 .. Num
          /\ task' \in [Threads -> Nat \cup {NoTask}] /\ results' \subseteq Nat
      BY <1>0 DEF TypeOK
    <2>2. QED
      BY <1>0, <1>2, <1>5, <2>1 DEF TypeOK
  <1>7. RingInv'
    <2>1. count' <= pushed' /\ tail' = (head' + count') % Num
      <3>1. head + count + 1 = head + (count + 1)
        BY <1>0
      <3>2. QED
        BY <1>0, <1>5, <3>1 DEF RingInv
    <2>2. ASSUME NEW i \in 1 .. count' PROVE queue'[(head' + i - 1) % Num] = pushed' - count' + i
      <3>1. PICK j \in 0 .. Num - 1 : j = i - 1 /\ head + i - 1 = head + j
        BY <1>0
      <3>2. (head + j) % Num \in 0 .. Num - 1
        BY <1>0, ModNext
      <3>3. CASE i = count + 1
        <4>1. (head + j) % Num = tail
          BY <1>0, <3>1, <3>3 DEF RingInv
        <4>2. QED
          BY <1>0, <3>1, <3>3, <4>1
      <3>4. CASE i # count + 1
        <4>1. i \in 1 .. count /\ j # count
          BY <1>0, <3>1, <3>4
        <4>2. (head + j) % Num # tail
          BY <1>0, <4>1, ModDiffer DEF RingInv
        <4>3. queue'[(head + j) % Num] = queue[(head + j) % Num]
          BY <1>0, <3>2, <4>2
        <4>4. queue[(head + j) % Num] = pushed - count + i
          BY <3>1, <4>1 DEF RingInv
        <4>5. QED
          BY <1>0, <3>1, <4>1, <4>3, <4>4
      <3>5. QED
        BY <3>3, <3>4
    <2>3. QED
      BY <2>1, <2>2 DEF RingInv
  <1>8. \A w \in Workers : task'[w] = task[w] /\ w # s /\ w \in Threads
    BY <1>0 DEF TypeOK, Threads
  <1>9. RunInv'
    <2>1. Started' = Started
      BY <1>0 DEF Started
    <2>2. QED
      BY <1>0, <1>3, <1>8, <2>1 DEF RunInv
  <1>10. SemInv'
    <2>1. results' \subseteq 1 .. pushed'
      BY <1>0 DEF SemInv
    <2>2. ASSUME NEW x \in results' \ posted'
          PROVE  \E u \in Servers : pc'[u] = "sem" /\ task'[u] = x
      <3>1. CASE sync[s] /\ x = pushed + 1
        <4>1. pc'[s] = "sem" /\ task'[s] = x
          BY <1>0, <1>1, <1>4, <3>1 DEF TypeOK
        <4>2. QED
          BY <4>1
      <3>2. CASE ~(sync[s] /\ x = pushed + 1)
        <4>1. x \in results \ posted
          BY <1>0, <2>2, <3>2
        <4>2. PICK u \in Servers : pc[u] = "sem" /\ task[u] = x
          BY <4>1 DEF SemInv
        <4>3. u # s /\ u \in Threads
          BY <1>0, <4>2 DEF Threads
        <4>4. pc'[u] = "sem" /\ task'[u] = x
          BY <1>0, <1>3, <4>2, <4>3 DEF TypeOK
        <4>5. QED
          BY <4>4
      <3>3. QED
        BY <3>1, <3>2
    <2>3. QED
      BY <2>1, <2>2 DEF SemInv
  <1>11. MainInv'
    BY <1>0 DEF MainInv
  <1>12. NoLostWakeup'
    <2>1. NoLost(Workers, count) /\ NoLost(Servers, Num - count)
      BY WakeupParts
    <2>2. /\ Waiting(Workers)' # {} => count + 1 <= Cardinality(Awake(Workers)')
          /\ Waiting(Servers)' # {} => (Num - count) - 1 <= Cardinality(Awake(Servers)')
      <3>1. count \in Int /\ Num - count \in Int /\ Workers \cup Servers \subseteq Threads
        BY <1>0 DEF Threads
      <3>2. QED
        BY <1>0, <1>2, <2>1, <3>1, SignalWakeup, ThreadAssumption
    <2>3. Num - count' = (Num - count) - 1
      BY <1>0
    <2>4. QED
      BY <1>0, <2>2, <2>3 DEF NoLostWakeup
  <1>13. QED
    BY <1>6, <1>7, <1>9, <1>10, <1>11, <1>12

LEMMA PopInv ==
  ASSUME IInv, NEW w \in Workers, Pop(w)
  PROVE  IInv'
  <1> USE DEF IInv
  <1>0. /\ w \in Threads \ Servers /\ pc[w] = "check" /\ count \in 1 .. Num /\ pushed \in Nat
        /\ head \in 0 .. Num - 1 /\ tail \in 0 .. Num - 1 /\ Num \in Nat \ {0}
        /\ queue \in [0 .. Num - 1 -> Nat \cup {NoTask}] /\ count <= pushed
        /\ count' = count - 1 /\ head' = (head + 1) % Num
        /\ task' = [task EXCEPT ![w] = queue[head]] /\ mutex' = NoThread
        /\ UNCHANGED <<queue, tail, pushed, called, sync, results, posted, cancelled, main, spurious>>
    BY ThreadAssumption, NumAssumption DEF Pop, NextHead, Threads, TypeOK, RingInv
  <1>1. pc' \in [Threads -> PCs] /\ Signalled(Servers, w, "run")
    <2>1. SignalAndGo(Servers, w, "run")
      BY DEF Pop, PopSignals
    <2>2. QED
      BY <1>0, <2>1, SignalMoves DEF Threads, PCs
  <1>2. \A u \in Threads : u # w => (pc'[u] = "run" <=> pc[u] = "run") /\ (pc[u] = "sem" => pc'[u] = "sem")
    BY <1>1, SignalledPlaces
  <1>3. pc'[w] = "run"
    BY <1>1 DEF Signalled
  <1>4. (head + 1) % Num \in 0 .. Num - 1
    BY <1>0, ModNext
  <1>5. TypeOK'
    <2>1. task' \in [Threads -> Nat \cup {NoTask}]
      <3>1. task \in [Threads -> Nat \cup {NoTask}] /\ queue[head] \in Nat \cup {NoTask}
        BY <1>0 DEF TypeOK
      <3>2. QED
        BY <1>0, <3>1
    <2>2. count' \in 0 .. Num /\ head' \in 0 .. Num - 1
      BY <1>0, <1>4
    <2>3. QED
      BY <1>0, <1>1, <2>1, <2>2 DEF TypeOK
  \* The oldest task is the one after those that were started.
  <1>6. queue[head] = pushed - count + 1
    <2>1. (head + 1 - 1) % Num = head
      <3>1. head + 1 - 1 = head
        BY <1>0
      <3>2. QED
        BY <1>0, <3>1, ModSmall
    <2>2. 1 \in 1 .. count
      BY <1>0
    <2>3. QED
      BY <2>1, <2>2 DEF RingInv
  <1>7. RingInv'
    <2>1. count' <= pushed'
      BY <1>0
    <2>2. tail' = (head' + count') % Num
      <3>1. PICK i \in 0 .. Num - 1 : i = count - 1 /\ head + i + 1 = head + count
        BY <1>0
      <3>2. (((head + 1) % Num) + i) % Num = (head + i + 1) % Num
        BY <1>0, ModNext
      <3>3. QED
        BY <1>0, <3>1, <3>2 DEF RingInv
    <2>3. ASSUME NEW i \in 1 .. count' PROVE queue'[(head' + i - 1) % Num] = pushed' - count' + i
      <3>1. PICK j \in 0 .. Num - 1 : j = i - 1
        BY <1>0
      <3>2. (((head + 1) % Num) + j) % Num = (head + j + 1) % Num
        BY <1>0, ModNext
      <3>3. head' + i - 1 = head' + j /\ head + j + 1 = head + (i + 1) - 1 /\ i + 1 \in 1 .. count
        BY <1>0, <1>4, <3>1
      <3>4. queue[(head + (i + 1) - 1) % Num] = pushed - count + (i + 1)
        BY <3>3 DEF RingInv
      <3>5. pushed - count + (i + 1) = pushed' - count' + i
        BY <1>0
      <3>6. QED
        BY <1>0, <3>2, <3>3, <3>4, <3>5
    <2>4. QED
      BY <2>1, <2>2, <2>3 DEF RingInv
  <1>8. \A v \in Workers : v # w => task'[v] = task[v]
    BY <1>0 DEF TypeOK, Threads
  <1>9. RunInv'
    <2>1. Started' = Started \cup {queue[head]} /\ queue[head] \notin Started
      BY <1>0, <1>6 DEF Started
    <2>2. task'[w] = queue[head]
      BY <1>0 DEF TypeOK
    <2>3. posted \subseteq Started /\ posted' = posted
      BY <1>0 DEF RunInv
    <2>4. ASSUME NEW v \in Workers, pc'[v] = "run", v # w
          PROVE  pc[v] = "run" /\ task'[v] = task[v] /\ task[v] \in Started \ posted
      BY <1>2, <1>8, <2>4 DEF RunInv, Threads
    <2>5. \A v \in Workers : pc'[v] = "run" => task'[v] \in Started' \ posted'
      BY <2>1, <2>2, <2>3, <2>4
    <2>6. \A u, v \in Workers : pc'[u] = "run" /\ pc'[v] = "run" /\ task'[u] = task'[v] => u = v
      BY <2>1, <2>2, <2>4 DEF RunInv
    <2>7. QED
      BY <2>1, <2>3, <2>5, <2>6 DEF RunInv
  <1>10. SemInv'
    BY <1>0, <1>2 DEF SemInv, Threads, TypeOK
  <1>11. MainInv'
    BY <1>0 DEF MainInv
  <1>12. NoLostWakeup'
    <2>1. NoLost(Workers, count) /\ NoLost(Servers, Num - count)
      BY WakeupParts
    <2>2. /\ Waiting(Servers)' # {} => (Num - count) + 1 <= Cardinality(Awake(Servers)')
          /\ Waiting(Workers)' # {} => count - 1 <= Cardinality(Awake(Workers)')
      <3>1. count \in Int /\ Num - count \in Int /\ Servers \cup Workers \subseteq Threads
        BY <1>0 DEF Threads
      <3>2. QED
        BY <1>0, <1>1, <2>1, <3>1, SignalWakeup, ThreadAssumption
    <2>3. Num - count' = (Num - count) + 1
      BY <1>0
    <2>4. QED
      BY <1>0, <2>2, <2>3 DEF NoLostWakeup
  <1>13. QED
    BY <1>5, <1>7, <1>9, <1>10, <1>11, <1>12

LEMMA NextInv == IInv /\ [Next]_vars => IInv'
  <1> SUFFICES ASSUME IInv, [Next]_vars PROVE IInv'
    OBVIOUS
  <1>1. ASSUME NEW s \in Servers, ServerStep(s) PROVE IInv'
    BY <1>1, LockInv, PushWaitInv, PushInv, SyncReturnInv DEF ServerStep, Threads
  <1>2. ASSUME NEW w \in Workers, WorkerStep(w) \/ RunEnd(w) PROVE IInv'
    BY <1>2, LockInv, PopWaitInv, PopInv, RunEndInv DEF WorkerStep, Threads
  <1>3. ASSUME NEW t \in Threads, Spurious(t) \/ CancelStep(t) PROVE IInv'
    BY <1>3, SpuriousInv, CancelBlockedInv, CancelWaitInv, UnwindInv DEF CancelStep
  <1>4. CASE UNCHANGED vars
    <2>1. UNCHANGED <<pc, mutex, queue, head, tail, count, pushed, called, task, sync, results, posted,
                      cancelled, main, spurious>>
      BY <1>4 DEF vars, ring, calls
    <2>2. TypeOK' /\ RingInv' /\ RunInv' /\ SemInv' /\ MainInv'
      BY <2>1 DEF IInv, TypeOK, RingInv, RunInv, SemInv, MainInv, Started
    <2>3. NoLostWakeup'
      BY <2>1 DEF IInv, NoLostWakeup, Waiting, Awake
    <2>4. QED
      BY <2>2, <2>3 DEF IInv
  <1>5. QED
    BY <1>1, <1>2, <1>3, <1>4, SubmitInv, MainStepInv DEF Next

-----------------------------------------------------------------------------
(* The theorems *)

\* The inductive invariant holds in every state of the pool, its submitters
\* and its shutdown.
THEOREM Invariance == Spec => []IInv
  BY InitInv, NextInv, PTL DEF Spec

\* Each task_queue_push and task_queue_pop signals once, which is enough: a
\* worker sleeps only if the tasks in the queue have other workers coming for
\* them, a submitter only if the free slots have other submitters coming.
THEOREM WakeupsArrive == Spec => []NoLostWakeup
  BY Invariance, PTL DEF IInv

\* A worker writes a result and posts a semaphore only on the stack of a
\* thread_pool_submit that has not returned.
THEOREM ResultsLand == Spec => []ResultOnLiveStack
  <1>1. IInv => ResultOnLiveStack
    BY DEF IInv, RunInv, SemInv, ResultOnLiveStack
  <1>2. QED
    BY <1>1, Invariance, PTL

-----------------------------------------------------------------------------
(* The ring implements the bounded FIFO of TaskPool. *)

\* What Pending is, in terms of the numbers of the tasks.
PendingIs ==
  /\ Pending \in Seq(Nat) /\ Len(Pending) = count
  /\ \A i \in 1 .. count : Pending[i] = pushed - count + i

LEMMA PendingSeq == TypeOK /\ RingInv => PendingIs
  <1> SUFFICES ASSUME TypeOK, RingInv PROVE PendingIs
    OBVIOUS
  <1>1. \A i \in 1 .. count : Pending[i] = pushed - count + i /\ Pending[i] \in Nat
    BY DEF Pending, RingInv, TypeOK
  <1>2. Pending \in [1 .. count -> Nat] /\ count \in Nat
    <2>1. Pending = [i \in 1 .. count |-> Pending[i]]
      BY DEF Pending
    <2>2. count \in Nat
      BY DEF TypeOK
    <2>3. QED
      BY <1>1, <2>1, <2>2
  <1>3. Pending \in Seq(Nat)
    BY <1>2, SeqDef
  <1>4. Len(Pending) \in Nat /\ DOMAIN Pending = 1 .. Len(Pending) /\ DOMAIN Pending = 1 .. count
    BY <1>2, <1>3, LenProperties
  <1>5. QED
    BY <1>1, <1>2, <1>3, <1>4 DEF PendingIs

LEMMA InvPending == IInv => PendingIs
  BY PendingSeq DEF IInv

LEMMA InitPool == Init => TP!Init
  <1> SUFFICES ASSUME Init PROVE TP!Init
    OBVIOUS
  <1>1. Pending = <<>>
    <2>1. PendingIs /\ count = 0
      BY InitInv, InvPending DEF Init
    <2>2. QED
      BY <2>1, EmptySeq DEF PendingIs
  <1>2. Running = [w \in Workers |-> NoTask]
    BY DEF Init, Running, Threads
  <1>3. QED
    BY <1>1, <1>2 DEF Init, TP!Init

PoolNext == TP!Next \/ UNCHANGED TP!absVars

\* A push accepts a task at the end.
LEMMA PushAccepts ==
  ASSUME IInv, IInv', PendingIs, PendingIs', NEW s \in Servers, Push(s)
  PROVE  PoolNext
  <1>0. /\ s \in Threads /\ s \notin Workers /\ count \in Nat /\ pushed \in Nat
        /\ count < Num /\ pushed' = pushed + 1 /\ count' = count + 1
    BY ThreadAssumption, NumAssumption DEF Push, Full, Threads, IInv, TypeOK
  <1>1. Len(Pending) < Num
    BY <1>0 DEF PendingIs
  <1>2. Pending' = Append(Pending, pushed')
    <2>1. /\ Append(Pending, pushed') \in Seq(Nat) /\ Len(Append(Pending, pushed')) = count + 1
          /\ \A i \in 1 .. count : Append(Pending, pushed')[i] = Pending[i]
          /\ Append(Pending, pushed')[count + 1] = pushed'
      <3>1. Pending \in Seq(Nat) /\ pushed' \in Nat /\ Len(Pending) = count
        BY <1>0 DEF PendingIs
      <3>2. QED
        BY <3>1, AppendProperties
    <2>2. Pending' \in Seq(Nat) /\ Len(Pending') = count + 1
      BY <1>0 DEF PendingIs
    <2>3. ASSUME NEW i \in 1 .. count + 1 PROVE Pending'[i] = Append(Pending, pushed')[i]
      <3>1. Pending'[i] = pushed' - count' + i /\ pushed' - count' + i = pushed - count + i
        BY <1>0 DEF PendingIs
      <3>2. CASE i = count + 1
        BY <1>0, <2>1, <3>1, <3>2
      <3>3. CASE i # count + 1
        BY <1>0, <2>1, <3>1, <3>3 DEF PendingIs
      <3>4. QED
        BY <3>2, <3>3
    <2>4. QED
      BY <2>1, <2>2, <2>3, SeqEqual
  <1>3. Running' = Running
    <2>1. PICK next \in {"idle", "sem"} : SignalAndGo(Workers, s, next)
      BY DEF Push, AfterPush, PushSignals
    <2>2. Signalled(Workers, s, next)
      BY <1>0, <2>1, SignalMoves DEF Threads, PCs, IInv
    <2>3. \A w \in Workers : w \in Threads /\ w # s /\ (pc'[w] = "run" <=> pc[w] = "run")
      BY <1>0, <2>2, SignalledPlaces DEF Threads
    <2>4. \A w \in Workers : task'[w] = task[w]
      BY <2>3 DEF Push, IInv, TypeOK
    <2>5. QED
      BY <2>3, <2>4 DEF Running
  <1>4. TP!Accept
    BY <1>0, <1>1, <1>2, <1>3 DEF TP!Accept
  <1>5. QED
    BY <1>4 DEF PoolNext, TP!Next

\* A pop starts the oldest one.
LEMMA PopStarts ==
  ASSUME IInv, IInv', PendingIs, PendingIs', NEW w \in Workers, Pop(w)
  PROVE  PoolNext
  <1>0. /\ w \in Threads \ Servers /\ count \in Nat /\ count # 0 /\ pushed \in Nat /\ pc[w] = "check"
        /\ pushed' = pushed /\ count' = count - 1 /\ task' = [task EXCEPT ![w] = queue[head]]
    BY ThreadAssumption, NumAssumption DEF Pop, Threads, IInv, TypeOK
  <1>1. Pending # <<>> /\ Pending \in Seq(Nat) /\ Len(Pending) = count
    BY <1>0 DEF PendingIs
  <1>2. Head(Pending) = queue[head]
    <2>1. Head(Pending) = Pending[1] /\ 1 \in 1 .. count
      BY <1>0, <1>1
    <2>2. head + 1 - 1 = head /\ head % Num = head
      <3>1. head \in 0 .. Num - 1 /\ Num \in Nat \ {0}
        BY NumAssumption DEF IInv, TypeOK
      <3>2. QED
        BY <3>1, ModSmall
    <2>3. QED
      BY <2>1, <2>2 DEF Pending
  <1>3. Pending' = Tail(Pending)
    <2>1. /\ Tail(Pending) \in Seq(Nat) /\ Len(Tail(Pending)) = count - 1
          /\ \A i \in 1 .. count - 1 : Tail(Pending)[i] = Pending[i + 1]
      BY <1>1, HeadTailProperties
    <2>2. Pending' \in Seq(Nat) /\ Len(Pending') = count - 1
      BY <1>0 DEF PendingIs
    <2>3. ASSUME NEW i \in 1 .. count - 1 PROVE Pending'[i] = Tail(Pending)[i]
      <3>1. Pending'[i] = pushed' - count' + i /\ pushed' - count' + i = pushed - count + (i + 1)
        BY <1>0 DEF PendingIs
      <3>2. i + 1 \in 1 .. count
        BY <1>0
      <3>3. QED
        BY <2>1, <3>1, <3>2 DEF PendingIs
    <2>4. QED
      BY <2>1, <2>2, <2>3, SeqEqual
  <1>4. Running[w] = NoTask /\ Running' = [Running EXCEPT ![w] = queue[head]]
    <2>1. Signalled(Servers, w, "run")
      BY <1>0, SignalMoves DEF Pop, PopSignals, Threads, PCs, IInv
    <2>2. \A v \in Workers : v # w => (pc'[v] = "run" <=> pc[v] = "run") /\ task'[v] = task[v]
      BY <1>0, <2>1, SignalledPlaces DEF Threads, IInv, TypeOK
    <2>3. pc'[w] = "run" /\ task'[w] = queue[head]
      BY <1>0, <2>1 DEF Signalled, IInv, TypeOK
    <2>4. QED
      BY <1>0, <2>2, <2>3 DEF Running
  <1>5. TP!Start(w)
    BY <1>0, <1>1, <1>2, <1>3, <1>4 DEF TP!Start
  <1>6. QED
    BY <1>5 DEF PoolNext, TP!Next

\* A task returns or its worker is cancelled; a submitter is not seen.
LEMMA LeaveSteps ==
  ASSUME IInv, NEW t \in Threads, (t \in Workers /\ RunEnd(t)) \/ CancelBlocked(t)
  PROVE  PoolNext
  <1>0. /\ UNCHANGED <<queue, head, tail, count, pushed>>
        /\ task' = [task EXCEPT ![t] = NoTask] /\ pc'[t] \in {"lock", "exited"}
        /\ \A u \in Threads : u # t => pc'[u] = pc[u] /\ task'[u] = task[u]
    BY DEF RunEnd, CancelBlocked, ring, IInv, TypeOK
  <1>1. Pending' = Pending
    BY <1>0 DEF Pending
  <1>2. \A v \in Workers : Running'[v] = IF v = t THEN NoTask ELSE Running[v]
    BY <1>0 DEF Running, Threads
  <1>3. CASE t \in Workers /\ pc[t] = "run"
    <2>1. Running[t] # NoTask
      BY <1>3, TaskAssumption DEF IInv, RunInv, Running, Started
    <2>2. Running' = [Running EXCEPT ![t] = NoTask]
      BY <1>2, <1>3 DEF Running
    <2>3. TP!Leave(t)
      BY <1>0, <1>1, <2>1, <2>2 DEF TP!Leave
    <2>4. QED
      BY <1>3, <2>3 DEF PoolNext, TP!Next
  <1>4. CASE ~(t \in Workers /\ pc[t] = "run")
    <2>1. Running' = Running
      BY <1>2, <1>4 DEF Running
    <2>2. QED
      BY <1>0, <1>1, <2>1 DEF PoolNext, TP!absVars
  <1>5. QED
    BY <1>3, <1>4

\* Every other step leaves the ring alone and starts or ends no task.
LEMMA UnseenSteps ==
  ASSUME IInv, UNCHANGED <<queue, head, count, pushed>>,
         \A w \in Workers : pc'[w] = "run" <=> pc[w] = "run",
         \A w \in Workers : task'[w] = task[w]
  PROVE  PoolNext
  <1>1. Pending' = Pending /\ Running' = Running
    BY DEF Pending, Running
  <1>2. QED
    BY <1>1 DEF PoolNext, TP!absVars

LEMMA NextPool == IInv /\ IInv' /\ PendingIs /\ PendingIs' /\ [Next]_vars => PoolNext
  <1> SUFFICES ASSUME IInv, IInv', PendingIs, PendingIs', [Next]_vars PROVE PoolNext
    OBVIOUS
  <1> USE DEF ring, calls
  <1>0. pc \in [Threads -> PCs] /\ task \in [Threads -> Nat \cup {NoTask}] /\ Workers \subseteq Threads
        /\ Servers \subseteq Threads
    BY DEF IInv, TypeOK, Threads
  <1>1. ASSUME NEW t \in Threads,
               Lock(t) \/ (pc[t] = "check" /\ Wait(t)) \/ Spurious(t) \/ CancelWait(t) \/ Unwind(t)
        PROVE  PoolNext
    <2>1. pc[t] # "run" /\ pc'[t] # "run" /\ \A u \in Threads : u # t => pc'[u] = pc[u]
      BY <1>0, <1>1 DEF Lock, Wait, Spurious, CancelWait, Unwind
    <2>2. UNCHANGED <<queue, head, count, pushed, task>>
      BY <1>1 DEF Lock, Wait, Spurious, CancelWait, Unwind
    <2>3. QED
      BY <1>0, <2>1, <2>2, UnseenSteps
  <1>2. ASSUME NEW s \in Servers, SyncReturn(s) \/ \E b \in Sync : Submit(s, b)
        PROVE  PoolNext
    <2>1. \A w \in Workers : w # s /\ pc'[w] = pc[w] /\ task'[w] = task[w]
      BY <1>0, <1>2, ThreadAssumption DEF SyncReturn, Submit
    <2>2. UNCHANGED <<queue, head, count, pushed>>
      BY <1>2 DEF SyncReturn, Submit
    <2>3. QED
      BY <2>1, <2>2, UnseenSteps
  <1>3. ASSUME Stop \/ MainStep \/ UNCHANGED vars
        PROVE  PoolNext
    <2>1. UNCHANGED <<queue, head, count, pushed, task, pc>>
      BY <1>3 DEF Stop, MainStep, CancelServer, Destroy, CancelWorker, Free, vars
    <2>2. QED
      BY <2>1, UnseenSteps
  <1>4. ASSUME NEW s \in Servers, ServerStep(s) PROVE PoolNext
    BY <1>0, <1>1, <1>2, <1>4, PushAccepts DEF ServerStep, PushWait
  <1>5. ASSUME NEW w \in Workers, WorkerStep(w) \/ RunEnd(w) PROVE PoolNext
    BY <1>0, <1>1, <1>5, PopStarts, LeaveSteps DEF WorkerStep, PopWait
  <1>6. ASSUME NEW t \in Threads, Spurious(t) \/ CancelStep(t) PROVE PoolNext
    BY <1>1, <1>6, LeaveSteps DEF CancelStep
  <1>7. QED
    BY <1>2, <1>3, <1>4, <1>5, <1>6 DEF Next

\* The ring with its mutex and two condition variables is a bounded FIFO: each
\* task that thread_pool_submit pushed is started once, by one worker, in the
\* order of the pushes, and never more than queue->num are pending.
THEOREM Refinement == Spec => ImplementsTaskPool
  <1>1. IInv /\ IInv' /\ PendingIs /\ PendingIs' /\ [Next]_vars => [TP!Next]_TP!absVars
    BY NextPool DEF PoolNext
  <1>2. QED
    BY <1>1, InitPool, InvPending, Invariance, PTL DEF Spec, ImplementsTaskPool, TP!Spec
=============================================================================
