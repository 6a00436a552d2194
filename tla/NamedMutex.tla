----------------------------- MODULE NamedMutex -----------------------------
(***************************************************************************)
(* lib/infra/named_mutex.c: a namespace of mutexes that are looked up by   *)
(* name, created on the first lock of a name and destroyed when the last   *)
(* thread that references them is done.                                    *)
(*                                                                         *)
(* The tree, the reference counts and the objects are protected by         *)
(* ns->mutex, but a thread waits for, and releases, the mutex of an object *)
(* outside it: the pointer `nmtx' is used after ns->mutex has been         *)
(* dropped.  Freed addresses may be handed out again by calloc.            *)
(*                                                                         *)
(* The clients are the pool's workers running lib/io.c: they unlock only   *)
(* what they have locked (cleanup_ctx.key is set after the lock), and hold *)
(* at most one name each.  A worker cancelled while it holds a name runs   *)
(* the same unlock from its cleanup handler; pthread_mutex_lock is not a   *)
(* cancellation point, so no other step can be cut short.                  *)
(***************************************************************************)
EXTENDS Integers, FiniteSets

CONSTANTS
  Threads,    \* the threads that call into the namespace
  Names,      \* the keys they lock
  NoName,
  Objs,       \* the addresses calloc can return
  NoObj,      \* NULL
  NoThread    \* the owner of a free mutex

ASSUME ThreadsAssumption == IsFiniteSet(Threads) /\ NoThread \notin Threads
ASSUME NoObjAssumption == NoObj \notin Objs
ASSUME NamesAssumption == NoName \notin Names

VARIABLES
  pc,       \* where each thread is
  key,      \* key[t]: the `name' argument of t's current call
  nmtx,     \* nmtx[t]: the local variable of the same name, NoObj outside calls
  ns,       \* the owner of ns->mutex
  tree,     \* ns->tree, a map from names to objects
  live,     \* the objects that are allocated
  mutex,    \* mutex[o]: the owner of o->mutex
  nref,     \* nref[o]: o->nref
  phase     \* the namespace: "open", "closing" (no new calls) or "destroyed"

vars == <<pc, key, nmtx, ns, tree, live, mutex, nref, phase>>

\* The pc of a thread names the next thing it does:
\*   lock:   "insert.lock"  ns->mutex        "insert"  tree, nref, ns unlock
\*           "acquire"      nmtx->mutex
\*   "held" between the calls
\*   unlock: "find.lock"    ns->mutex        "find"    tree, ns unlock
\*           "release"      nmtx->mutex
\*           "drop.lock"    ns->mutex        "drop"    nref, tree, ns unlock
LockPcs == {"insert.lock", "insert", "acquire"}
UnlockPcs == {"find.lock", "find", "release", "drop.lock", "drop"}
PCs == {"idle", "held"} \cup LockPcs \cup UnlockPcs

NsPcs == {"insert", "find", "drop"}                  \* ns->mutex is held
HolderPcs == {"held", "find.lock", "find", "release"}  \* nmtx->mutex is held
RefPcs == HolderPcs \cup {"acquire", "drop.lock", "drop"}  \* counted in nref

Init ==
  /\ pc = [t \in Threads |-> "idle"]
  /\ key = [t \in Threads |-> NoName]
  /\ nmtx = [t \in Threads |-> NoObj]
  /\ ns = NoThread
  /\ tree = [n \in Names |-> NoObj]
  /\ live = {}
  /\ mutex = [o \in Objs |-> NoThread]
  /\ nref = [o \in Objs |-> 0]
  /\ phase = "open"

-----------------------------------------------------------------------------
(* named_mutex_create and the call of named_mutex_lock: a new object, whose *)
(* counter and mutex are initialised.  When calloc or strdup fail the call  *)
(* returns ENOMEM and nothing has changed.                                  *)
LockCall(t, n) ==
  /\ phase = "open"
  /\ pc[t] = "idle"
  /\ \E o \in Objs \ live :
       /\ live' = live \cup {o}
       /\ nmtx' = [nmtx EXCEPT ![t] = o]
       /\ mutex' = [mutex EXCEPT ![o] = NoThread]
       /\ nref' = [nref EXCEPT ![o] = 0]
  /\ key' = [key EXCEPT ![t] = n]
  /\ pc' = [pc EXCEPT ![t] = "insert.lock"]
  /\ UNCHANGED <<ns, tree, phase>>

\* pthread_mutex_lock(&ns->mutex), at its three places.
AfterNsLock == [p \in {"insert.lock", "find.lock", "drop.lock"} |->
  CASE p = "insert.lock" -> "insert"
    [] p = "find.lock" -> "find"
    [] p = "drop.lock" -> "drop"]

LockNs(t) ==
  /\ pc[t] \in {"insert.lock", "find.lock", "drop.lock"}
  /\ ns = NoThread
  /\ ns' = t
  /\ pc' = [pc EXCEPT ![t] = AfterNsLock[pc[t]]]
  /\ UNCHANGED <<key, nmtx, tree, live, mutex, nref, phase>>

\* What RB_INSERT finds under the name: NULL when the new object went in.
Mut_OldItem(t) == NoObj
OldItem(t) == tree[key[t]]

\* With an old object the new one is destroyed.  Either way one more thread
\* refers to the object in the tree when ns->mutex is released.
Insert(t) ==
  /\ pc[t] = "insert"
  /\ IF OldItem(t) = NoObj
       THEN /\ tree' = [tree EXCEPT ![key[t]] = nmtx[t]]
            /\ UNCHANGED <<nmtx, live>>
       ELSE /\ live' = live \ {nmtx[t]}
            /\ nmtx' = [nmtx EXCEPT ![t] = OldItem(t)]
            /\ UNCHANGED tree
  /\ nref' = [nref EXCEPT ![nmtx'[t]] = @ + 1]
  /\ ns' = NoThread
  /\ pc' = [pc EXCEPT ![t] = "acquire"]
  /\ UNCHANGED <<key, mutex, phase>>

\* pthread_mutex_lock(&nmtx->mutex) and the return of named_mutex_lock.
Acquire(t) ==
  /\ pc[t] = "acquire"
  /\ mutex[nmtx[t]] = NoThread
  /\ mutex' = [mutex EXCEPT ![nmtx[t]] = t]
  /\ nmtx' = [nmtx EXCEPT ![t] = NoObj]
  /\ pc' = [pc EXCEPT ![t] = "held"]
  /\ UNCHANGED <<key, ns, tree, live, nref, phase>>

-----------------------------------------------------------------------------
UnlockCall(t) ==
  /\ pc[t] = "held"
  /\ pc' = [pc EXCEPT ![t] = "find.lock"]
  /\ UNCHANGED <<key, nmtx, ns, tree, live, mutex, nref, phase>>

\* RB_FIND; without an object the call returns ENOENT.
Mut_AfterFind(o) == IF o = NoObj THEN "idle" ELSE "drop.lock"
AfterFind(o) == IF o = NoObj THEN "idle" ELSE "release"

Find(t) ==
  /\ pc[t] = "find"
  /\ nmtx' = [nmtx EXCEPT ![t] = tree[key[t]]]
  /\ ns' = NoThread
  /\ pc' = [pc EXCEPT ![t] = AfterFind(tree[key[t]])]
  /\ UNCHANGED <<key, tree, live, mutex, nref, phase>>

\* pthread_mutex_unlock(&nmtx->mutex), outside ns->mutex.
Release(t) ==
  /\ pc[t] = "release"
  /\ mutex' = [mutex EXCEPT ![nmtx[t]] = NoThread]
  /\ pc' = [pc EXCEPT ![t] = "drop.lock"]
  /\ UNCHANGED <<key, nmtx, ns, tree, live, nref, phase>>

\* --nref == 0: the caller was the last thread that referred to the object.
Mut_AnyRef(o) == TRUE
Mut_NoRef(o) == nref[o] = 0
LastRef(o) == nref[o] = 1

\* The last one out removes the object from the tree and destroys it.
Drop(t) ==
  /\ pc[t] = "drop"
  /\ nref' = [nref EXCEPT ![nmtx[t]] = @ - 1]
  /\ IF LastRef(nmtx[t])
       THEN /\ tree' = [tree EXCEPT ![key[t]] = NoObj]
            /\ live' = live \ {nmtx[t]}
       ELSE UNCHANGED <<tree, live>>
  /\ ns' = NoThread
  /\ nmtx' = [nmtx EXCEPT ![t] = NoObj]
  /\ key' = [key EXCEPT ![t] = NoName]
  /\ pc' = [pc EXCEPT ![t] = "idle"]
  /\ UNCHANGED <<mutex, phase>>

-----------------------------------------------------------------------------
\* The daemon shuts down: no new request reaches io.c ...
Close ==
  /\ phase = "open"
  /\ phase' = "closing"
  /\ UNCHANGED <<pc, key, nmtx, ns, tree, live, mutex, nref>>

\* ... and when the workers are joined, named_mutex_destroy_namespace.
DestroyNamespace ==
  /\ phase = "closing"
  /\ \A t \in Threads : pc[t] = "idle"
  /\ ns = NoThread
  /\ phase' = "destroyed"
  /\ UNCHANGED <<pc, key, nmtx, ns, tree, live, mutex, nref>>

Step(t) ==
  \/ LockNs(t)
  \/ Insert(t)
  \/ Acquire(t)
  \/ UnlockCall(t)
  \/ Find(t)
  \/ Release(t)
  \/ Drop(t)

Next ==
  \/ \E t \in Threads, n \in Names : LockCall(t, n)
  \/ \E t \in Threads : Step(t)
  \/ Close
  \/ DestroyNamespace

\* Every thread inside a call, or holding a name, keeps running; nothing is
\* assumed about the order in which contending threads get a mutex.
Fairness ==
  /\ \A t \in Threads : WF_vars(Step(t))
  /\ WF_vars(DestroyNamespace)

Spec == Init /\ [][Next]_vars

FairSpec == Spec /\ Fairness

-----------------------------------------------------------------------------
TypeOK ==
  /\ pc \in [Threads -> PCs]
  /\ key \in [Threads -> Names \cup {NoName}]
  /\ nmtx \in [Threads -> Objs \cup {NoObj}]
  /\ ns \in Threads \cup {NoThread}
  /\ tree \in [Names -> Objs \cup {NoObj}]
  /\ live \subseteq Objs
  /\ mutex \in [Objs -> Threads \cup {NoThread}]
  /\ nref \in [Objs -> Nat]
  /\ phase \in {"open", "closing", "destroyed"}

\* Two threads never hold the same name: what io.c relies on to keep storage
\* and cache of a key in step.
MutualExclusion ==
  \A t, u \in Threads :
    pc[t] \in HolderPcs /\ pc[u] \in HolderPcs /\ key[t] = key[u] => t = u

\* A thread that uses `nmtx' after ns->mutex was dropped uses an object that
\* is still allocated and still the one the tree has for its name, also when
\* addresses are reused; in particular unlock never returns ENOENT.
NoUseAfterFree ==
  \A t \in Threads :
    /\ pc[t] \in {"acquire", "release", "drop.lock", "drop"} =>
         nmtx[t] \in live /\ tree[key[t]] = nmtx[t]
    /\ pc[t] \in {"held", "find.lock", "find"} => tree[key[t]] \in live

\* assert(nmtx->nref == 0) of named_mutex_destroy, and a mutex that nobody
\* owns: an object dies only when nobody refers to it.
DestroyUnreferenced ==
  [][\A o \in live \ live' : nref'[o] = 0 /\ mutex[o] = NoThread]_vars

\* assert(RB_EMPTY(&ns->tree)) of named_mutex_destroy_namespace: once no call
\* is in progress nothing is left in the tree and nothing is leaked.
QuiescentEmpty ==
  (\A t \in Threads : pc[t] = "idle") =>
    live = {} /\ \A n \in Names : tree[n] = NoObj

\* When clients stop asking for names, every call returns and the namespace
\* can be destroyed: nobody is left waiting on a mutex nobody will release.
Drains == (phase = "closing") ~> (phase = "destroyed")

-----------------------------------------------------------------------------
\* The refinement mapping: a name is requested by the call of lock, granted
\* when the object's mutex is acquired and given up when it is released.
KL == INSTANCE KeyLock WITH
  waits <- [t \in Threads |-> IF pc[t] \in LockPcs THEN key[t] ELSE NoName],
  holds <- [t \in Threads |-> IF pc[t] \in HolderPcs THEN key[t] ELSE NoName],
  open <- phase # "destroyed"

\* Every behaviour is one of per-name locks.
ImplementsKeyLock == KL!Spec
=============================================================================
