--------------------------------- MODULE IO ---------------------------------
(***************************************************************************)
(* lib/io.c: how a worker answers get, set and del with the cache, the     *)
(* route, the lock of the key and the storage, and the part of             *)
(* register_child (lib/ctrl_server.c) that uses io_update.                 *)
(*                                                                         *)
(* The parts are taken by what their modules show of them: the named       *)
(* mutexes are one lock per key (KeyLock), the cache is a map that may     *)
(* lose entries (CacheMap), the route is a list of storages whose first    *)
(* match is referenced while it is used (Route).                           *)
(*                                                                         *)
(* The cache is read before anything is locked, the storage is chosen      *)
(* before the key is locked, and storage and cache are updated one after   *)
(* the other.                                                              *)
(***************************************************************************)
EXTENDS Integers, Sequences, FiniteSets, Functions

CONSTANTS
  Threads,      \* the workers of the pool
  Keys, Values, NoValue,
  Storages, NoStorage,
  Local,        \* the storages configured at start, a sequence
  Serves,       \* the pairs <<storage, key>> where a prefix matches
  NoThread,
  UseCache,     \* io->cache # NULL
  Faults,       \* of {"refuse", "lost", "nomem"}
  MayRegister,  \* children may register and unregister
  MaxCalls      \* bound on the requests

ASSUME IOAssumption ==
  /\ NoThread \notin Threads
  /\ NoStorage \notin Storages
  /\ NoValue \notin Values /\ Values \cap {"none", "ok", "error"} = {}
  /\ Local \in Seq(Storages)
  /\ Serves \subseteq Storages \X Keys
  /\ UseCache \in BOOLEAN /\ MayRegister \in BOOLEAN
  /\ Faults \subseteq {"refuse", "lost", "nomem"}
  /\ MaxCalls \in Nat

VARIABLES
  pc,        \* what each thread does next
  req,       \* req[t]: the request, a record with fields op, key, value
  storage,   \* storage[t]: cleanup_ctx.storage, or the child's own
  res,       \* res[t]: the value, "ok" or "error" once the call has one
  lock,      \* lock[k]: the thread that holds k
  cache,     \* cache[k]: what cache_get would return
  store,     \* store[s][k]: what the storage has
  list,      \* the route, from the head
  calls

local == <<pc, req, storage, res>>
vars == <<local, lock, cache, store, list, calls>>

PCs == {"idle", "cache", "match", "lock", "storage", "fill", "unlock", "deref", "register"}
NoReq == [op |-> "none"]

Init ==
  /\ pc = [t \in Threads |-> "idle"]
  /\ req = [t \in Threads |-> NoReq]
  /\ storage = [t \in Threads |-> NoStorage]
  /\ res = [t \in Threads |-> "none"]
  /\ lock = [k \in Keys |-> NoThread]
  /\ cache = [k \in Keys |-> NoValue]
  /\ store = [s \in Storages |-> [k \in Keys |-> NoValue]]
  /\ list = Local
  /\ calls = 0

Goto(t, p) == pc' = [pc EXCEPT ![t] = p]
Key(t) == req[t].key

-----------------------------------------------------------------------------
\* The requests a worker receives: io_get starts at the cache, io_set and
\* io_del at the route, register_child with the lock of its cache_now key.
Requests ==
  [op : {"get", "del"}, key : Keys] \cup [op : {"set"}, key : Keys, value : Values]

Call(t, r) ==
  /\ pc[t] = "idle"
  /\ calls < MaxCalls
  /\ calls' = calls + 1
  /\ req' = [req EXCEPT ![t] = r]
  /\ Goto(t, IF r.op = "get" /\ UseCache THEN "cache" ELSE "match")
  /\ UNCHANGED <<storage, res, lock, cache, store, list>>

\* register_child for a child that is not registered: io_update its key, if
\* there is a cache, then route_register.
CallChild(t, s, k) ==
  /\ MayRegister
  /\ pc[t] = "idle"
  /\ calls < MaxCalls
  /\ calls' = calls + 1
  /\ req' = [req EXCEPT ![t] = [op |-> "child", key |-> k]]
  /\ storage' = [storage EXCEPT ![t] = s]
  /\ Goto(t, IF UseCache THEN "lock" ELSE "register")
  /\ UNCHANGED <<res, lock, cache, store, list>>

\* cache_get of io_get: a hit is the answer, or an error when it cannot be
\* copied, and nothing was locked.
ReadCache(t) ==
  /\ pc[t] = "cache"
  /\ IF cache[Key(t)] # NoValue
       THEN /\ \/ res' = [res EXCEPT ![t] = cache[Key(t)]]
               \/ "nomem" \in Faults /\ res' = [res EXCEPT ![t] = "error"]
            /\ Goto(t, "deref")
       ELSE /\ Goto(t, "match")
            /\ UNCHANGED res
  /\ UNCHANGED <<req, storage, lock, cache, store, list, calls>>

\* route_match: the first storage of the list, or ENOENT.
Hits(k) == {j \in 1 .. Len(list) : <<list[j], k>> \in Serves}

Match(t) ==
  /\ pc[t] = "match"
  /\ IF Hits(Key(t)) = {}
       THEN /\ res' = [res EXCEPT ![t] = "error"]
            /\ Goto(t, "deref")
            /\ UNCHANGED storage
       ELSE /\ \E j \in Hits(Key(t)) :
                 /\ \A l \in Hits(Key(t)) : j <= l
                 /\ storage' = [storage EXCEPT ![t] = list[j]]
            /\ Goto(t, "lock")
            /\ UNCHANGED res
  /\ UNCHANGED <<req, lock, cache, store, list, calls>>

\* named_mutex_lock
Free(k) == lock[k] = NoThread

Lock(t) ==
  /\ pc[t] = "lock"
  /\ Free(Key(t))
  /\ lock' = [lock EXCEPT ![Key(t)] = t]
  /\ Goto(t, "storage")
  /\ UNCHANGED <<req, storage, res, cache, store, list, calls>>

\* The next step of a call that does not have the lock, or not any more.
Unlocked(t) == IF req[t].op = "child" THEN "register" ELSE "deref"

\* A lock that cannot be created: `goto exit' with a reference but no lock.
Mut_AfterLockFails(t) == "unlock"
AfterLockFails(t) == Unlocked(t)

LockFails(t) ==
  /\ "nomem" \in Faults
  /\ pc[t] = "lock"
  /\ res' = [res EXCEPT ![t] = "error"]
  /\ Goto(t, AfterLockFails(t))
  /\ UNCHANGED <<req, storage, lock, cache, store, list, calls>>

-----------------------------------------------------------------------------
(* storage_get, storage_set, storage_del.  The storage refuses, or does it *)
(* and the answer is lost on the way, or does it and answers.              *)

Reads(t) == req[t].op \in {"get", "child"}
Stored(t) == store[storage[t]][Key(t)]

\* `goto exit' runs the cleanup handler, which knows what is locked.
Mut_AfterError(t) == "deref"
AfterError(t) == "unlock"

StorageError(t) ==
  /\ pc[t] = "storage"
  /\ \/ "refuse" \in Faults /\ UNCHANGED store
     \/ Reads(t) /\ Stored(t) = NoValue /\ UNCHANGED store
     \/ /\ "lost" \in Faults
        /\ ~Reads(t)
        /\ store' = [store EXCEPT ![storage[t]][Key(t)] =
                       IF req[t].op = "set" THEN req[t].value ELSE NoValue]
  /\ res' = [res EXCEPT ![t] = "error"]
  /\ Goto(t, AfterError(t))
  /\ UNCHANGED <<req, storage, lock, cache, list, calls>>

\* After the storage comes the cache, if there is one.
Mut_AfterStorage(t) == IF UseCache /\ Reads(t) THEN "fill" ELSE "unlock"
AfterStorage(t) == IF UseCache THEN "fill" ELSE "unlock"

StorageGet(t) ==
  /\ pc[t] = "storage"
  /\ Reads(t)
  /\ Stored(t) # NoValue
  /\ res' = [res EXCEPT ![t] = Stored(t)]
  /\ Goto(t, AfterStorage(t))
  /\ UNCHANGED <<req, storage, lock, cache, store, list, calls>>

StorageSet(t) ==
  /\ pc[t] = "storage"
  /\ req[t].op = "set"
  /\ store' = [store EXCEPT ![storage[t]][Key(t)] = req[t].value]
  /\ res' = [res EXCEPT ![t] = "ok"]
  /\ Goto(t, AfterStorage(t))
  /\ UNCHANGED <<req, storage, lock, cache, list, calls>>

StorageDel(t) ==
  /\ pc[t] = "storage"
  /\ req[t].op = "del"
  /\ store' = [store EXCEPT ![storage[t]][Key(t)] = NoValue]
  /\ res' = [res EXCEPT ![t] = "ok"]
  /\ Goto(t, AfterStorage(t))
  /\ UNCHANGED <<req, storage, lock, cache, list, calls>>

\* cache_set or cache_del, still under the lock; the result is not looked at.
Cached(t) ==
  CASE Reads(t) -> res[t]
    [] req[t].op = "set" -> req[t].value
    [] OTHER -> NoValue

Fill(t) ==
  /\ pc[t] = "fill"
  /\ \/ cache' = [cache EXCEPT ![Key(t)] = Cached(t)]
     \/ "nomem" \in Faults /\ req[t].op # "del" /\ UNCHANGED cache
  /\ Goto(t, "unlock")
  /\ UNCHANGED <<req, storage, res, lock, store, list, calls>>

-----------------------------------------------------------------------------
\* The cleanup handler: named_mutex_unlock, then route_deref, then the answer.
Unlock(t) ==
  /\ pc[t] = "unlock"
  /\ lock' = [lock EXCEPT ![Key(t)] = NoThread]
  /\ Goto(t, Unlocked(t))
  /\ UNCHANGED <<req, storage, res, cache, store, list, calls>>

Done(t) ==
  /\ Goto(t, "idle")
  /\ req' = [req EXCEPT ![t] = NoReq]
  /\ storage' = [storage EXCEPT ![t] = NoStorage]
  /\ res' = [res EXCEPT ![t] = "none"]

Deref(t) ==
  /\ pc[t] = "deref"
  /\ Done(t)
  /\ UNCHANGED <<lock, cache, store, list, calls>>

\* The end of register_child: the child becomes the head of the list, unless
\* the update failed or the name is taken.
Register(t) ==
  /\ pc[t] = "register"
  /\ list' = IF res[t] # "error" /\ storage[t] \notin Range(list)
               THEN <<storage[t]>> \o list ELSE list
  /\ Done(t)
  /\ UNCHANGED <<lock, cache, store, calls>>

-----------------------------------------------------------------------------
\* unregister_child: not while the storage is referenced (EBUSY); LIST_REMOVE.
Mut_Referenced(s) == \E t \in Threads : pc[t] = "storage" /\ storage[t] = s
Referenced(s) == \E t \in Threads : storage[t] = s /\ req[t].op # "child"

Unlinked(j) == [l \in 1 .. Len(list) - 1 |-> IF l < j THEN list[l] ELSE list[l + 1]]

Unregister(s) ==
  /\ MayRegister
  /\ ~Referenced(s)
  /\ \E j \in 1 .. Len(list) : list[j] = s /\ list' = Unlinked(j)
  /\ UNCHANGED <<local, lock, cache, store, calls>>

\* An entry of the cache expires.
Expire(k) ==
  /\ cache[k] # NoValue
  /\ cache' = [cache EXCEPT ![k] = NoValue]
  /\ UNCHANGED <<local, lock, store, list, calls>>

Step(t) ==
  \/ ReadCache(t) \/ Match(t) \/ Lock(t)
  \/ StorageError(t) \/ StorageGet(t) \/ StorageSet(t) \/ StorageDel(t)
  \/ Fill(t) \/ Unlock(t) \/ Deref(t) \/ Register(t)

Next ==
  \/ \E t \in Threads :
       \/ \E r \in Requests : Call(t, r)
       \/ \E s \in Storages, k \in Keys : CallChild(t, s, k)
       \/ Step(t) \/ LockFails(t)
  \/ \E s \in Storages : Unregister(s)
  \/ \E k \in Keys : Expire(k)

Spec == Init /\ [][Next]_vars

\* Workers keep running and a storage operation comes to an end.  One that waits
\* for a lock has to be given it.
FairSpec == Spec /\ \A t \in Threads : WF_vars(Step(t))

-----------------------------------------------------------------------------
TypeOK ==
  /\ pc \in [Threads -> PCs]
  /\ storage \in [Threads -> Storages \cup {NoStorage}]
  /\ res \in [Threads -> Values \cup {"none", "ok", "error"}]
  /\ lock \in [Keys -> Threads \cup {NoThread}]
  /\ cache \in [Keys -> Values \cup {NoValue}]
  /\ store \in [Storages -> [Keys -> Values \cup {NoValue}]]
  /\ list \in Seq(Storages)

\* "Need to consider concurrency when different keys": an implementation of a
\* storage is never called twice at once for the same key.
SerialPerKey ==
  \A t, u \in Threads :
    pc[t] = "storage" /\ pc[u] = "storage" /\ Key(t) = Key(u) => t = u

\* A storage is in the route, or belongs to the child being registered, as
\* long as a request may use it: unregister_child does not pull it away.
StorageInRoute ==
  \A t \in Threads :
    storage[t] # NoStorage => req[t].op = "child" \/ storage[t] \in Range(list)

\* Every request is answered: nobody waits for a lock that is not released.
EveryRequestReturns ==
  \A t \in Threads : (pc[t] # "idle") ~> (pc[t] = "idle")

-----------------------------------------------------------------------------
(* With a fixed route to one storage, and storages that either do a thing  *)
(* or refuse it, the daemon implements PropStore.  A set or deletion takes *)
(* effect in the storage; while the cache still has the old value it is    *)
(* the one that counts, until it is replaced or expires.                   *)

Source(k) == list[CHOOSE j \in Hits(k) : \A l \in Hits(k) : j <= l]

\* What the route leads to.
Behind(k) == IF Hits(k) = {} THEN NoValue ELSE store[Source(k)][k]

Hidden(t) == pc[t] = "fill" /\ ~Reads(t) /\ cache[Key(t)] # NoValue

\* Between requests, cache and storage agree.
Coherent ==
  \A k \in Keys :
    cache[k] # NoValue /\ ~(\E t \in Threads : Hidden(t) /\ Key(t) = k) =>
      cache[k] = Behind(k)

\* What clients see: the cache as long as it hides a change.
Value ==
  [k \in Keys |-> IF \E t \in Threads : Hidden(t) /\ Key(t) = k THEN cache[k] ELSE Behind(k)]
Answers == [t \in Threads |-> IF Hidden(t) THEN "none" ELSE res[t]]

PS == INSTANCE PropStore WITH value <- Value, request <- req, answer <- Answers

\* Requests are linearizable although the cache is read without a lock.
ImplementsPropStore == PS!Spec
=============================================================================
