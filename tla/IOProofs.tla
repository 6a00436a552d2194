------------------------------ MODULE IOProofs ------------------------------
(***************************************************************************)
(* The safety of request execution for any threads, keys, values and       *)
(* storages.  With children that come and go and every fault: a storage is *)
(* not called twice at once for a key, and is in the route while it is     *)
(* used.  With a fixed route and storages that refuse or do as they are    *)
(* asked: cache and storage agree between requests, and requests are       *)
(* linearizable.                                                           *)
(***************************************************************************)
EXTENDS IO, SequenceTheorems, NaturalsInduction, WellFoundedInduction, TLAPS

ChildRequests == [op : {"child"}, key : Keys]

\* Where a worker holds the lock of its key.
Section == {"storage", "fill", "unlock"}

\* What a worker's request, storage and result are, at each of its steps.
ThreadInv(t) ==
  /\ pc[t] = "idle" => req[t] = NoReq
  /\ pc[t] # "idle" => req[t] \in Requests \cup ChildRequests
  /\ pc[t] \in {"cache", "match", "deref"} => req[t].op # "child"
  /\ pc[t] = "register" => req[t].op = "child"
  /\ pc[t] \in {"cache", "fill"} => UseCache
  /\ pc[t] = "cache" => req[t].op = "get"
  /\ pc[t] \in {"idle", "cache", "match"} => storage[t] = NoStorage
  /\ pc[t] \in Section \cup {"lock", "register"} => storage[t] \in Storages
  /\ pc[t] \in {"idle", "cache", "match", "lock", "storage"} => res[t] = "none"
  /\ pc[t] \in {"unlock", "deref"} => res[t] # "none"
  /\ pc[t] = "fill" => IF Reads(t) THEN res[t] \in Values ELSE res[t] = "ok"

\* A key is locked by the worker that is in its section.
LockInv ==
  \A t \in Threads, k \in Keys : lock[k] = t <=> pc[t] \in Section /\ Key(t) = k

IInv ==
  /\ TypeOK
  /\ req \in [Threads -> Requests \cup ChildRequests \cup {NoReq}]
  /\ \A t \in Threads : ThreadInv(t)
  /\ LockInv
  /\ StorageInRoute

-----------------------------------------------------------------------------
(* Requests and lists *)

LEMMA RequestFields ==
  ASSUME NEW r \in Requests \cup ChildRequests
  PROVE  /\ r.op \in {"get", "set", "del", "child"}
         /\ r.key \in Keys
         /\ r.op = "set" => r.value \in Values
         /\ r.op = "child" <=> r \notin Requests
         /\ r # NoReq
  BY DEF Requests, ChildRequests, NoReq

LEMMA RangeOfList ==
  ASSUME NEW S, NEW s \in Seq(S)
  PROVE  /\ Len(s) \in Nat
         /\ \A x : x \in Range(s) <=> \E j \in 1 .. Len(s) : s[j] = x
         /\ \A j \in 1 .. Len(s) : s[j] \in S
  BY LenProperties DEF Range

\* A set of positions that is not empty has a first one.
LEMMA LeastPosition ==
  ASSUME NEW S, S \subseteq Nat, S # {}
  PROVE  \E j \in S : \A l \in S : j <= l
  <1>1. PICK n \in S : \A m \in S : ~(<<m, n>> \in OpToRel(<, Nat))
    BY NatLessThanWellFounded, WFMin
  <1>2. ASSUME NEW m \in S, m < n PROVE FALSE
    <2>1. <<m, n>> \in Nat \X Nat /\ <<m, n>>[1] < <<m, n>>[2]
      BY <1>2
    <2>2. QED
      BY <2>1, <1>1, <1>2 DEF OpToRel
  <1>3. \A l \in S : n <= l
    BY <1>2
  <1>4. QED
    BY <1>3

\* route_register at the head of the list.
LEMMA RegisteredList ==
  ASSUME list \in Seq(Storages), NEW s \in Storages
  PROVE  /\ <<s>> \o list \in Seq(Storages)
         /\ \A x \in Range(list) : x \in Range(<<s>> \o list)
  <1>1. <<s>> \in Seq(Storages) /\ Len(<<s>>) = 1 /\ Len(list) \in Nat
    BY LenProperties
  <1>2. /\ <<s>> \o list \in Seq(Storages)
        /\ Len(<<s>> \o list) = Len(list) + 1
        /\ \A i \in 1 .. Len(list) + 1 : (<<s>> \o list)[i] = IF i <= 1 THEN <<s>>[i] ELSE list[i - 1]
    BY <1>1, ConcatProperties
  <1>3. ASSUME NEW x \in Range(list)
        PROVE  x \in Range(<<s>> \o list)
    <2>1. PICK j \in 1 .. Len(list) : list[j] = x
      BY RangeOfList
    <2>2. j + 1 \in 1 .. Len(list) + 1 /\ ~(j + 1 <= 1) /\ (j + 1) - 1 = j
      BY <1>1
    <2>3. (<<s>> \o list)[j + 1] = x
      BY <2>1, <2>2, <1>2
    <2>4. QED
      BY <2>2, <2>3, <1>2, RangeOfList
  <1>4. QED
    BY <1>2, <1>3

\* LIST_REMOVE leaves everything else in the list.
LEMMA UnlinkedList ==
  ASSUME list \in Seq(Storages), NEW j \in 1 .. Len(list)
  PROVE  /\ Unlinked(j) \in Seq(Storages)
         /\ \A x \in Range(list) : x # list[j] => x \in Range(Unlinked(j))
  <1> DEFINE u == Unlinked(j)
  <1>1. Len(list) \in Nat /\ \A l \in 1 .. Len(list) : list[l] \in Storages
    BY LenProperties
  <1>2. u \in [1 .. Len(list) - 1 -> Storages] /\ Len(list) - 1 \in Nat
    BY <1>1 DEF Unlinked
  <1>3. u \in Seq(Storages) /\ Len(u) = Len(list) - 1
    <2>1. u \in Seq(Storages)
      BY <1>2, SeqDef
    <2>2. DOMAIN u = 1 .. Len(list) - 1 /\ DOMAIN u = 1 .. Len(u) /\ Len(u) \in Nat
      BY <2>1, <1>2, LenProperties
    <2>3. QED
      BY <2>1, <2>2, <1>2
  <1>4. \A l \in 1 .. Len(list) - 1 : u[l] = IF l < j THEN list[l] ELSE list[l + 1]
    BY DEF Unlinked
  <1> HIDE DEF u
  <1>5. ASSUME NEW x \in Range(list), x # list[j]
        PROVE  x \in Range(u)
    <2>1. PICK l \in 1 .. Len(list) : list[l] = x
      BY RangeOfList
    <2>2. CASE l < j
      <3>1. l \in 1 .. Len(u) /\ u[l] = x
        BY <1>1, <1>3, <1>4, <2>1, <2>2
      <3>2. QED
        BY <3>1, <1>3, RangeOfList
    <2>3. CASE l > j
      <3>1. l - 1 \in 1 .. Len(u) /\ (l - 1) + 1 = l /\ ~(l - 1 < j)
        BY <1>1, <1>3, <2>3
      <3>2. u[l - 1] = x
        BY <3>1, <1>3, <1>4, <2>1
      <3>3. QED
        BY <3>1, <3>2, <1>3, RangeOfList
    <2>4. QED
      BY <1>5, <1>1, <2>1, <2>2, <2>3
  <1>6. QED
    BY <1>3, <1>5 DEF u

-----------------------------------------------------------------------------
LEMMA InitInv == Init => IInv
  <1> SUFFICES ASSUME Init PROVE IInv
    OBVIOUS
  <1> USE IOAssumption DEF Init
  <1>1. TypeOK
    BY DEF TypeOK, PCs
  <1>2. req \in [Threads -> Requests \cup ChildRequests \cup {NoReq}]
    OBVIOUS
  <1>3. \A t \in Threads : ThreadInv(t)
    BY DEF ThreadInv, Section
  <1>4. LockInv
    BY DEF LockInv, Section
  <1>5. StorageInRoute
    BY DEF StorageInRoute
  <1>6. QED
    BY <1>1, <1>2, <1>3, <1>4, <1>5 DEF IInv

\* Thread t has moved and the others have not.
OnlyMoves(t) ==
  \A u \in Threads \ {t} :
    pc'[u] = pc[u] /\ req'[u] = req[u] /\ storage'[u] = storage[u] /\ res'[u] = res[u]

\* What has to be looked at when t moves: its own part of the invariant.
LEMMA MoveInv ==
  ASSUME IInv, NEW t \in Threads, OnlyMoves(t), TypeOK',
         req' \in [Threads -> Requests \cup ChildRequests \cup {NoReq}],
         ThreadInv(t)',
         \A x \in Range(list) : x \in Range(list'),
         storage'[t] # NoStorage => req'[t].op = "child" \/ storage'[t] \in Range(list'),
         \A k \in Keys : lock'[k] = t <=> pc'[t] \in Section /\ req'[t].key = k,
         \A k \in Keys : lock'[k] = lock[k] \/ (lock[k] = NoThread /\ lock'[k] = t)
                                            \/ (lock[k] = t /\ lock'[k] = NoThread)
  PROVE  IInv'
  <1> USE DEF IInv
  <1>1. ASSUME NEW u \in Threads PROVE ThreadInv(u)'
    <2>1. CASE u = t
      BY <2>1
    <2>2. CASE u # t
      BY <2>2 DEF ThreadInv, OnlyMoves, Reads
    <2>3. QED
      BY <2>1, <2>2
  <1>2. LockInv'
    <2>1. ASSUME NEW u \in Threads, NEW k \in Keys
          PROVE  lock'[k] = u <=> pc'[u] \in Section /\ req'[u].key = k
      <3>1. CASE u = t
        BY <3>1
      <3>2. CASE u # t
        BY <3>2, IOAssumption DEF OnlyMoves, LockInv, Key
      <3>3. QED
        BY <3>1, <3>2
    <2>2. QED
      BY <2>1 DEF LockInv, Key
  <1>3. StorageInRoute'
    BY DEF StorageInRoute, OnlyMoves
  <1>4. QED
    BY <1>1, <1>2, <1>3

LEMMA Busy ==
  ASSUME IInv, NEW t \in Threads, pc[t] # "idle"
  PROVE  /\ req[t].op \in {"get", "set", "del", "child"} /\ Key(t) \in Keys
         /\ req[t].op = "set" => req[t].value \in Values
         /\ req[t] # NoReq
  <1>1. req[t] \in Requests \cup ChildRequests
    BY DEF IInv, ThreadInv
  <1>2. QED
    BY <1>1, RequestFields DEF Key

LEMMA CallInv ==
  ASSUME IInv, NEW t \in Threads, NEW r \in Requests, Call(t, r)
  PROVE  IInv'
  <1> USE DEF IInv
  <1>0. /\ r.op \in {"get", "set", "del"} /\ r.key \in Keys
        /\ pc[t] = "idle" /\ pc \in [Threads -> PCs] /\ storage[t] = NoStorage /\ res[t] = "none"
        /\ req \in [Threads -> Requests \cup ChildRequests \cup {NoReq}]
    BY RequestFields DEF Call, TypeOK, ThreadInv
  <1>1. PICK p \in {"cache", "match"} :
          /\ pc' = [pc EXCEPT ![t] = p]
          /\ p = "cache" => r.op = "get" /\ UseCache
    BY DEF Call, Goto
  <1>2. req' = [req EXCEPT ![t] = r] /\ UNCHANGED <<storage, res, lock, cache, store, list>>
    BY DEF Call
  <1>3. TypeOK' /\ req' \in [Threads -> Requests \cup ChildRequests \cup {NoReq}]
    BY <1>0, <1>1, <1>2 DEF TypeOK, PCs
  <1>4. pc'[t] = p /\ req'[t] = r /\ storage'[t] = NoStorage /\ res'[t] = "none" /\ OnlyMoves(t)
    BY <1>0, <1>1, <1>2 DEF OnlyMoves
  <1>5. ThreadInv(t)'
    BY <1>0, <1>1, <1>4 DEF ThreadInv, Section
  <1>6. \A k \in Keys : lock'[k] # t /\ lock'[k] = lock[k]
    BY <1>0, <1>2 DEF LockInv, Section
  <1>7. QED
    BY <1>2, <1>3, <1>4, <1>5, <1>6, <1>1, MoveInv DEF Section

LEMMA CallChildInv ==
  ASSUME IInv, NEW t \in Threads, NEW s \in Storages, NEW k \in Keys, CallChild(t, s, k)
  PROVE  IInv'
  <1> USE DEF IInv
  <1>0. /\ pc[t] = "idle" /\ pc \in [Threads -> PCs] /\ res[t] = "none"
        /\ storage \in [Threads -> Storages \cup {NoStorage}]
        /\ req \in [Threads -> Requests \cup ChildRequests \cup {NoReq}]
    BY DEF CallChild, TypeOK, ThreadInv
  <1>r. PICK r \in ChildRequests : r = [op |-> "child", key |-> k] /\ r.op = "child"
    <2>1. [op |-> "child", key |-> k] \in ChildRequests
      BY DEF ChildRequests
    <2>2. QED
      BY <2>1
  <1>1. PICK p \in {"lock", "register"} : pc' = [pc EXCEPT ![t] = p]
    BY DEF CallChild, Goto
  <1>2. /\ req' = [req EXCEPT ![t] = r] /\ storage' = [storage EXCEPT ![t] = s]
        /\ UNCHANGED <<res, lock, cache, store, list>>
    BY <1>r DEF CallChild
  <1>3. TypeOK' /\ req' \in [Threads -> Requests \cup ChildRequests \cup {NoReq}]
    BY <1>0, <1>1, <1>2 DEF TypeOK, PCs
  <1>4. pc'[t] = p /\ req'[t] = r /\ storage'[t] = s /\ res'[t] = "none" /\ OnlyMoves(t)
    BY <1>0, <1>1, <1>2 DEF OnlyMoves
  <1>5. ThreadInv(t)'
    BY <1>r, <1>0, <1>1, <1>4 DEF ThreadInv, Section
  <1>6. \A x \in Keys : lock'[x] # t /\ lock'[x] = lock[x]
    BY <1>0, <1>2 DEF LockInv, Section
  <1>7. QED
    BY <1>r, <1>2, <1>3, <1>4, <1>5, <1>6, <1>1, MoveInv DEF Section

LEMMA ReadCacheInv ==
  ASSUME IInv, NEW t \in Threads, ReadCache(t)
  PROVE  IInv'
  <1> USE DEF IInv
  <1>0. /\ pc[t] = "cache" /\ pc \in [Threads -> PCs] /\ storage[t] = NoStorage
        /\ res[t] = "none" /\ res \in [Threads -> Values \cup {"none", "ok", "error"}]
        /\ cache[Key(t)] \in Values \cup {NoValue} /\ req[t].op = "get"
        /\ UNCHANGED <<req, storage, lock, cache, store, list>>
    BY Busy DEF ReadCache, TypeOK, ThreadInv
  <1>1. PICK p \in {"match", "deref"}, r \in Values \cup {"none", "error"} :
          /\ pc' = [pc EXCEPT ![t] = p] /\ res' = [res EXCEPT ![t] = r]
          /\ IF p = "match" THEN r = "none" ELSE r # "none"
    BY <1>0, IOAssumption DEF ReadCache, Goto
  <1>2. TypeOK' /\ req' \in [Threads -> Requests \cup ChildRequests \cup {NoReq}]
    BY <1>0, <1>1 DEF TypeOK, PCs
  <1>3. pc'[t] = p /\ res'[t] = r /\ OnlyMoves(t)
    BY <1>0, <1>1 DEF OnlyMoves
  <1>4. ThreadInv(t)'
    BY <1>0, <1>1, <1>3, IOAssumption DEF ThreadInv, Section
  <1>5. \A k \in Keys : lock'[k] # t /\ lock'[k] = lock[k]
    BY <1>0 DEF LockInv, Section
  <1>6. QED
    BY <1>0, <1>1, <1>2, <1>3, <1>4, <1>5, MoveInv DEF Section

LEMMA MatchInv ==
  ASSUME IInv, NEW t \in Threads, Match(t)
  PROVE  IInv'
  <1> USE DEF IInv
  <1>0. /\ pc[t] = "match" /\ pc \in [Threads -> PCs] /\ storage[t] = NoStorage
        /\ storage \in [Threads -> Storages \cup {NoStorage}]
        /\ res[t] = "none" /\ res \in [Threads -> Values \cup {"none", "ok", "error"}]
        /\ req[t].op # "child"
        /\ UNCHANGED <<req, lock, cache, store, list>>
    BY DEF Match, TypeOK, ThreadInv
  <1>1. PICK p \in {"lock", "deref"}, r \in {"none", "error"}, s \in Storages \cup {NoStorage} :
          /\ pc' = [pc EXCEPT ![t] = p] /\ res' = [res EXCEPT ![t] = r]
          /\ storage' = [storage EXCEPT ![t] = s]
          /\ IF p = "lock" THEN r = "none" /\ s \in Storages /\ s \in Range(list)
                           ELSE r = "error" /\ s = NoStorage
    <2>1. CASE Hits(Key(t)) = {}
      BY <2>1, <1>0 DEF Match, Goto
    <2>2. CASE Hits(Key(t)) # {}
      <3>1. PICK j \in Hits(Key(t)) : storage' = [storage EXCEPT ![t] = list[j]]
        BY <2>2 DEF Match
      <3>2. list[j] \in Range(list) /\ list[j] \in Storages
        BY RangeOfList DEF Hits, TypeOK
      <3>3. /\ pc' = [pc EXCEPT ![t] = "lock"] /\ res' = res
            /\ res = [res EXCEPT ![t] = "none"]
        BY <1>0, <2>2 DEF Match, Goto
      <3>4. QED
        BY <3>1, <3>2, <3>3
    <2>3. QED
      BY <2>1, <2>2
  <1>2. TypeOK' /\ req' \in [Threads -> Requests \cup ChildRequests \cup {NoReq}]
    BY <1>0, <1>1 DEF TypeOK, PCs
  <1>3. pc'[t] = p /\ res'[t] = r /\ storage'[t] = s /\ OnlyMoves(t)
    BY <1>0, <1>1 DEF OnlyMoves
  <1>4. ThreadInv(t)'
    BY <1>0, <1>1, <1>3 DEF ThreadInv, Section
  <1>5. \A k \in Keys : lock'[k] # t /\ lock'[k] = lock[k]
    BY <1>0 DEF LockInv, Section
  <1>6. QED
    BY <1>0, <1>1, <1>2, <1>3, <1>4, <1>5, MoveInv DEF Section

LEMMA LockStepInv ==
  ASSUME IInv, NEW t \in Threads, Lock(t)
  PROVE  IInv'
  <1> USE DEF IInv
  <1>0. /\ pc[t] = "lock" /\ pc \in [Threads -> PCs] /\ Key(t) \in Keys /\ lock[Key(t)] = NoThread
        /\ lock' = [lock EXCEPT ![Key(t)] = t] /\ pc' = [pc EXCEPT ![t] = "storage"]
        /\ lock \in [Keys -> Threads \cup {NoThread}]
        /\ UNCHANGED <<req, storage, res, cache, store, list>>
    BY Busy DEF Lock, Goto, Free, TypeOK
  <1>1. TypeOK' /\ req' \in [Threads -> Requests \cup ChildRequests \cup {NoReq}]
    BY <1>0 DEF TypeOK, PCs
  <1>2. pc'[t] = "storage" /\ OnlyMoves(t)
    BY <1>0 DEF OnlyMoves
  <1>3. ThreadInv(t)'
    BY <1>0, <1>2 DEF ThreadInv, Section
  <1>4. \A k \in Keys : lock'[k] = IF k = Key(t) THEN t ELSE lock[k]
    BY <1>0
  <1>5. \A k \in Keys : lock[k] # t
    BY <1>0 DEF LockInv, Section
  <1>6. req'[t].key = Key(t) /\ (storage'[t] # NoStorage => req'[t].op = "child" \/ storage'[t] \in Range(list'))
    BY <1>0 DEF Key, StorageInRoute
  <1>7. QED
    BY <1>0, <1>1, <1>2, <1>3, <1>4, <1>5, <1>6, MoveInv DEF Section

LEMMA LockFailsInv ==
  ASSUME IInv, NEW t \in Threads, LockFails(t)
  PROVE  IInv'
  <1> USE DEF IInv
  <1>0. /\ pc[t] = "lock" /\ pc \in [Threads -> PCs] /\ req[t] \in Requests \cup ChildRequests
        /\ res' = [res EXCEPT ![t] = "error"] /\ res \in [Threads -> Values \cup {"none", "ok", "error"}]
        /\ storage[t] \in Storages
        /\ UNCHANGED <<req, storage, lock, cache, store, list>>
    BY DEF LockFails, TypeOK, ThreadInv
  <1>1. PICK p \in {"deref", "register"} : /\ pc' = [pc EXCEPT ![t] = p]
                                           /\ p = "register" <=> req[t].op = "child"
    BY DEF LockFails, Goto, AfterLockFails, Unlocked
  <1>2. TypeOK' /\ req' \in [Threads -> Requests \cup ChildRequests \cup {NoReq}]
    BY <1>0, <1>1 DEF TypeOK, PCs
  <1>3. pc'[t] = p /\ res'[t] = "error" /\ OnlyMoves(t)
    BY <1>0, <1>1 DEF OnlyMoves
  <1>4. ThreadInv(t)'
    BY <1>0, <1>1, <1>3 DEF ThreadInv, Section
  <1>5. \A k \in Keys : lock'[k] # t /\ lock'[k] = lock[k]
    BY <1>0 DEF LockInv, Section
  <1>6. storage'[t] # NoStorage => req'[t].op = "child" \/ storage'[t] \in Range(list')
    BY <1>0 DEF StorageInRoute
  <1>7. QED
    BY <1>0, <1>1, <1>2, <1>3, <1>4, <1>5, <1>6, MoveInv DEF Section

\* The storage operations: what they have in common.
LEMMA StorageInv ==
  ASSUME IInv, NEW t \in Threads, NEW p \in {"fill", "unlock"}, NEW r \in Values \cup {"ok", "error"},
         pc[t] = "storage",
         pc' = [pc EXCEPT ![t] = p], res' = [res EXCEPT ![t] = r],
         p = "fill" => UseCache /\ IF Reads(t) THEN r \in Values ELSE r = "ok",
         UNCHANGED <<req, storage, lock, cache, list>>,
         store' \in [Storages -> [Keys -> Values \cup {NoValue}]]
  PROVE  IInv'
  <1> USE DEF IInv
  <1>1. TypeOK' /\ req' \in [Threads -> Requests \cup ChildRequests \cup {NoReq}]
    BY DEF TypeOK, PCs
  <1>2. pc'[t] = p /\ res'[t] = r /\ OnlyMoves(t)
    BY DEF OnlyMoves, TypeOK
  <1>3. ThreadInv(t)'
    BY <1>2, IOAssumption DEF ThreadInv, Section, Reads
  <1>4. \A k \in Keys : lock'[k] = t <=> pc'[t] \in Section /\ req'[t].key = k
    BY <1>2 DEF LockInv, Section, Key
  <1>5. storage'[t] # NoStorage => req'[t].op = "child" \/ storage'[t] \in Range(list')
    BY DEF StorageInRoute
  <1>6. QED
    BY <1>1, <1>2, <1>3, <1>4, <1>5, MoveInv

\* What a storage operation writes has the right type.
LEMMA StoreType ==
  ASSUME IInv, NEW t \in Threads, pc[t] = "storage", NEW v \in Values \cup {NoValue},
         store' = [store EXCEPT ![storage[t]][Key(t)] = v]
  PROVE  /\ store' \in [Storages -> [Keys -> Values \cup {NoValue}]]
         /\ store'[storage[t]][Key(t)] = v
         /\ \A s \in Storages, k \in Keys : k # Key(t) => store'[s][k] = store[s][k]
  <1>1. storage[t] \in Storages /\ Key(t) \in Keys
    BY Busy DEF IInv, ThreadInv, Section
  <1>2. store \in [Storages -> [Keys -> Values \cup {NoValue}]]
    BY DEF IInv, TypeOK
  <1>3. QED
    BY <1>1, <1>2

LEMMA StorageStepInv ==
  ASSUME IInv, NEW t \in Threads,
         StorageError(t) \/ StorageGet(t) \/ StorageSet(t) \/ StorageDel(t)
  PROVE  IInv'
  <1>0. pc[t] = "storage" /\ store \in [Storages -> [Keys -> Values \cup {NoValue}]]
    BY DEF StorageError, StorageGet, StorageSet, StorageDel, IInv, TypeOK
  <1>1. req[t].op = "set" => req[t].value \in Values
    BY <1>0, Busy
  <1>2. storage[t] \in Storages /\ Key(t) \in Keys
    BY <1>0, Busy DEF IInv, ThreadInv, Section
  <1>3. PICK p \in {"fill", "unlock"} : p = AfterStorage(t) /\ (p = "fill" => UseCache)
    BY DEF AfterStorage
  <1>4. CASE StorageError(t)
    <2>1. store' \in [Storages -> [Keys -> Values \cup {NoValue}]]
      <3>1. CASE UNCHANGED store
        BY <1>0, <3>1
      <3>2. CASE store' = [store EXCEPT ![storage[t]][Key(t)] =
                             IF req[t].op = "set" THEN req[t].value ELSE NoValue]
        <4>1. PICK v \in Values \cup {NoValue} : v = IF req[t].op = "set" THEN req[t].value ELSE NoValue
          BY <1>1
        <4>2. store' = [store EXCEPT ![storage[t]][Key(t)] = v]
          BY <3>2, <4>1
        <4>3. QED
          BY <1>0, <4>2, StoreType
      <3>3. QED
        BY <1>4, <3>1, <3>2 DEF StorageError
    <2>2. QED
      BY <1>0, <1>4, <2>1, StorageInv DEF StorageError, Goto, AfterError
  <1>5. CASE StorageGet(t)
    <2>1. PICK r \in Values : r = Stored(t)
      BY <1>0, <1>2, <1>5 DEF StorageGet, Stored
    <2>2. QED
      BY <1>0, <1>3, <1>5, <2>1, StorageInv DEF StorageGet, Goto
  <1>6. CASE StorageSet(t)
    <2>1. PICK v \in Values : v = req[t].value
      BY <1>1, <1>6 DEF StorageSet
    <2>2. store' = [store EXCEPT ![storage[t]][Key(t)] = v] /\ ~Reads(t)
      BY <1>6, <2>1 DEF StorageSet, Reads
    <2>3. store' \in [Storages -> [Keys -> Values \cup {NoValue}]]
      BY <1>0, <2>2, StoreType
    <2>4. QED
      BY <1>0, <1>3, <1>6, <2>2, <2>3, StorageInv DEF StorageSet, Goto
  <1>7. CASE StorageDel(t)
    <2>1. store' = [store EXCEPT ![storage[t]][Key(t)] = NoValue] /\ ~Reads(t)
      BY <1>7 DEF StorageDel, Reads
    <2>2. store' \in [Storages -> [Keys -> Values \cup {NoValue}]]
      BY <1>0, <2>1, StoreType
    <2>3. QED
      BY <1>0, <1>3, <1>7, <2>1, <2>2, StorageInv DEF StorageDel, Goto
  <1>8. QED
    BY <1>4, <1>5, <1>6, <1>7

LEMMA FillInv ==
  ASSUME IInv, NEW t \in Threads, Fill(t)
  PROVE  IInv'
  <1> USE DEF IInv
  <1>0. /\ pc[t] = "fill" /\ pc \in [Threads -> PCs] /\ pc' = [pc EXCEPT ![t] = "unlock"]
        /\ UNCHANGED <<req, storage, res, lock, store, list>>
        /\ cache \in [Keys -> Values \cup {NoValue}]
        /\ IF Reads(t) THEN res[t] \in Values ELSE res[t] = "ok"
    BY DEF Fill, Goto, TypeOK, ThreadInv
  <1>1. Cached(t) \in Values \cup {NoValue}
    BY <1>0, Busy DEF Cached, Reads
  <1>2. cache' \in [Keys -> Values \cup {NoValue}]
    BY <1>0, <1>1, Busy DEF Fill
  <1>3. TypeOK' /\ req' \in [Threads -> Requests \cup ChildRequests \cup {NoReq}]
    BY <1>0, <1>2 DEF TypeOK, PCs
  <1>4. pc'[t] = "unlock" /\ res'[t] # "none" /\ OnlyMoves(t)
    BY <1>0, IOAssumption DEF OnlyMoves
  <1>5. ThreadInv(t)'
    BY <1>0, <1>4 DEF ThreadInv, Section
  <1>6. \A k \in Keys : lock'[k] = t <=> pc'[t] \in Section /\ req'[t].key = k
    BY <1>0, <1>4 DEF LockInv, Section, Key
  <1>7. storage'[t] # NoStorage => req'[t].op = "child" \/ storage'[t] \in Range(list')
    BY <1>0 DEF StorageInRoute
  <1>8. QED
    BY <1>0, <1>3, <1>4, <1>5, <1>6, <1>7, MoveInv

LEMMA UnlockInv ==
  ASSUME IInv, NEW t \in Threads, Unlock(t)
  PROVE  IInv'
  <1> USE DEF IInv
  <1>0. /\ pc[t] = "unlock" /\ pc \in [Threads -> PCs] /\ Key(t) \in Keys
        /\ lock \in [Keys -> Threads \cup {NoThread}]
        /\ lock' = [lock EXCEPT ![Key(t)] = NoThread]
        /\ UNCHANGED <<req, storage, res, cache, store, list>>
    BY Busy DEF Unlock, TypeOK
  <1>1. PICK p \in {"register", "deref"} :
          pc' = [pc EXCEPT ![t] = p] /\ (p = "register" <=> req[t].op = "child")
    BY DEF Unlock, Unlocked, Goto
  <1>2. TypeOK' /\ req' \in [Threads -> Requests \cup ChildRequests \cup {NoReq}]
    BY <1>0, <1>1 DEF TypeOK, PCs
  <1>3. pc'[t] = p /\ OnlyMoves(t)
    BY <1>0, <1>1 DEF OnlyMoves
  <1>4. ThreadInv(t)'
    BY <1>0, <1>1, <1>3 DEF ThreadInv, Section
  <1>5. lock[Key(t)] = t /\ \A k \in Keys : k # Key(t) => lock[k] # t
    BY <1>0 DEF LockInv, Section
  <1>6. \A k \in Keys : lock'[k] # t /\ lock'[k] = IF k = Key(t) THEN NoThread ELSE lock[k]
    BY <1>0, <1>5, IOAssumption
  <1>7. storage'[t] # NoStorage => req'[t].op = "child" \/ storage'[t] \in Range(list')
    BY <1>0 DEF StorageInRoute
  <1>8. \A k \in Keys : lock'[k] = lock[k] \/ (lock[k] = t /\ lock'[k] = NoThread)
    BY <1>5, <1>6
  <1>9. pc'[t] \notin Section
    BY <1>3 DEF Section
  <1>10. QED
    BY <1>0, <1>2, <1>3, <1>4, <1>6, <1>7, <1>8, <1>9, MoveInv

\* The end of a request.
LEMMA DoneInv ==
  ASSUME IInv, NEW t \in Threads, pc[t] \in {"deref", "register"}, Done(t),
         UNCHANGED <<lock, cache, store>>, list' \in Seq(Storages),
         \A x \in Range(list) : x \in Range(list')
  PROVE  IInv'
  <1> USE DEF IInv
  <1>1. TypeOK' /\ req' \in [Threads -> Requests \cup ChildRequests \cup {NoReq}]
    BY DEF TypeOK, PCs, Done, Goto
  <1>2. /\ pc'[t] = "idle" /\ req'[t] = NoReq /\ storage'[t] = NoStorage /\ res'[t] = "none"
        /\ OnlyMoves(t)
    BY DEF OnlyMoves, Done, Goto, TypeOK
  <1>3. ThreadInv(t)'
    BY <1>2 DEF ThreadInv, Section
  <1>4. \A k \in Keys : lock'[k] # t /\ lock'[k] = lock[k]
    BY DEF LockInv, Section
  <1>5. pc'[t] \notin Section
    BY <1>2 DEF Section
  <1>6. QED
    BY <1>1, <1>2, <1>3, <1>4, <1>5, MoveInv

LEMMA DerefInv ==
  ASSUME IInv, NEW t \in Threads, Deref(t)
  PROVE  IInv'
  BY DoneInv DEF Deref, IInv, TypeOK

LEMMA RegisterInv ==
  ASSUME IInv, NEW t \in Threads, Register(t)
  PROVE  IInv'
  <1>1. storage[t] \in Storages /\ list \in Seq(Storages) /\ pc[t] = "register"
    BY DEF Register, IInv, TypeOK, ThreadInv
  <1>2. list' \in Seq(Storages) /\ \A x \in Range(list) : x \in Range(list')
    BY <1>1, RegisteredList DEF Register
  <1>3. QED
    BY <1>1, <1>2, DoneInv DEF Register

\* What is taken out of the list is referenced by no request.
LEMMA UnregisterInv ==
  ASSUME IInv, NEW s \in Storages, Unregister(s)
  PROVE  IInv'
  <1> USE DEF IInv
  <1>1. PICK j \in 1 .. Len(list) : list[j] = s /\ list' = Unlinked(j)
    BY DEF Unregister
  <1>2. UNCHANGED <<pc, req, storage, res, lock, cache, store>>
    BY DEF Unregister, local
  <1>3. list' \in Seq(Storages) /\ \A x \in Range(list) : x # s => x \in Range(list')
    BY <1>1, UnlinkedList DEF TypeOK
  <1>4. TypeOK'
    BY <1>2, <1>3 DEF TypeOK
  <1>5. \A t \in Threads : ThreadInv(t)'
    BY <1>2 DEF ThreadInv, Reads
  <1>6. LockInv'
    BY <1>2 DEF LockInv, Key
  <1>7. \A t \in Threads : storage[t] = s => req[t].op = "child"
    BY DEF Unregister, Referenced
  <1>8. StorageInRoute'
    BY <1>2, <1>3, <1>7 DEF StorageInRoute
  <1>9. QED
    BY <1>2, <1>4, <1>5, <1>6, <1>8

LEMMA ExpireInv ==
  ASSUME IInv, NEW k \in Keys, Expire(k)
  PROVE  IInv'
  <1> USE DEF IInv
  <1>1. UNCHANGED <<pc, req, storage, res, lock, store, list>> /\ cache' = [cache EXCEPT ![k] = NoValue]
    BY DEF Expire, local
  <1>2. TypeOK'
    BY <1>1 DEF TypeOK
  <1>3. (\A t \in Threads : ThreadInv(t)') /\ LockInv' /\ StorageInRoute'
    BY <1>1 DEF ThreadInv, Reads, LockInv, Key, StorageInRoute
  <1>4. QED
    BY <1>1, <1>2, <1>3

LEMMA NextInv == IInv /\ [Next]_vars => IInv'
  <1> SUFFICES ASSUME IInv, [Next]_vars PROVE IInv'
    OBVIOUS
  <1>1. ASSUME NEW t \in Threads, Step(t) PROVE IInv'
    BY <1>1, ReadCacheInv, MatchInv, LockStepInv, StorageStepInv, FillInv, UnlockInv,
       DerefInv, RegisterInv DEF Step
  <1>2. CASE UNCHANGED vars
    <2>1. UNCHANGED <<pc, req, storage, res, lock, cache, store, list>>
      BY <1>2 DEF vars, local
    <2>2. TypeOK' /\ LockInv' /\ StorageInRoute' /\ \A t \in Threads : ThreadInv(t)'
      BY <2>1 DEF IInv, TypeOK, ThreadInv, Reads, LockInv, Key, StorageInRoute
    <2>3. QED
      BY <2>1, <2>2 DEF IInv
  <1>3. QED
    BY <1>1, <1>2, CallInv, CallChildInv, LockFailsInv, UnregisterInv, ExpireInv DEF Next

-----------------------------------------------------------------------------
(* With children and every fault *)

\* Every step of io_get, io_set, io_del, register_child and unregister_child
\* keeps the worker's request, storage, lock and result in line.
THEOREM Invariance == Spec => []IInv
  BY InitInv, NextInv, PTL DEF Spec

\* A storage is called by one worker at a time for each key, the io_update of
\* a registering child included.
THEOREM CallsSerial == Spec => []SerialPerKey
  <1>1. IInv => SerialPerKey
    <2> SUFFICES ASSUME IInv, NEW t \in Threads, NEW u \in Threads,
                        pc[t] = "storage", pc[u] = "storage", Key(t) = Key(u)
                 PROVE  t = u
      BY DEF SerialPerKey
    <2>1. Key(t) \in Keys /\ lock[Key(t)] = t /\ lock[Key(t)] = u
      BY Busy DEF IInv, LockInv, Section
    <2>2. QED
      BY <2>1
  <1>2. QED
    BY <1>1, Invariance, PTL

\* unregister_child does not take away a storage that a request was routed to.
THEOREM RouteHolds == Spec => []StorageInRoute
  BY Invariance, PTL DEF IInv

-----------------------------------------------------------------------------
(* With a fixed route, storages that do a thing or refuse it, and memory:  *)
(* the route leads a request to the one storage that has the key, the      *)
(* cache is behind a change only under the lock, and what a worker is      *)
(* about to put into the cache is what the storage has.                    *)

FixedRoute == MayRegister = FALSE /\ "lost" \notin Faults /\ "nomem" \notin Faults

RoutedInv ==
  \A t \in Threads :
    /\ pc[t] # "idle" => req[t].op # "child"
    /\ storage[t] # NoStorage => Hits(Key(t)) # {} /\ storage[t] = Source(Key(t))

FreshInv == \A t \in Threads : pc[t] = "fill" => Cached(t) = Behind(Key(t))

FInv ==
  /\ IInv
  /\ FixedRoute
  /\ RoutedInv
  /\ FreshInv
  /\ ~UseCache => \A k \in Keys : cache[k] = NoValue
  /\ Coherent

LEMMA SameRoute ==
  ASSUME list' = list, NEW k
  PROVE  Hits(k)' = Hits(k) /\ Source(k)' = Source(k)
  BY DEF Hits, Source

\* The storage that a request was routed to is the one that counts.
LEMMA Routed ==
  ASSUME FInv, NEW t \in Threads, storage[t] # NoStorage
  PROVE  Stored(t) = Behind(Key(t))
  BY DEF FInv, RoutedInv, Stored, Behind

\* A worker in its section is alone with its key.
LEMMA Alone ==
  ASSUME IInv, NEW t \in Threads, NEW u \in Threads,
         pc[t] \in Section, pc[u] \in Section, Key(t) = Key(u)
  PROVE  t = u
  <1>1. Key(t) \in Keys
    BY Busy DEF Section
  <1>2. lock[Key(t)] = t /\ lock[Key(t)] = u
    BY <1>1 DEF IInv, LockInv
  <1>3. QED
    BY <1>2

LEMMA HiddenInSection ==
  ASSUME NEW t, Hidden(t)
  PROVE  pc[t] = "fill" /\ pc[t] \in Section /\ cache[Key(t)] # NoValue /\ ~Reads(t)
  BY DEF Hidden, Section

\* What is in the cache is what clients see.
LEMMA CacheSeen ==
  ASSUME FInv, NEW k \in Keys, cache[k] # NoValue
  PROVE  Value[k] = cache[k]
  BY DEF FInv, Coherent, Value

\* Where nothing is hidden, clients see the storage.
LEMMA StorageSeen ==
  ASSUME NEW k \in Keys, \A t \in Threads : Hidden(t) => Key(t) # k
  PROVE  Value[k] = Behind(k)
  BY DEF Value

\* Functions that differ in one place.
LEMMA ValueExcept ==
  ASSUME NEW k \in Keys, NEW v, Value'[k] = v,
         \A x \in Keys : x # k => Value'[x] = Value[x]
  PROVE  Value' = [Value EXCEPT ![k] = v]
  BY DEF Value

LEMMA ValueSame ==
  ASSUME \A x \in Keys : Value'[x] = Value[x]
  PROVE  Value' = Value
  BY DEF Value

LEMMA AnswersExcept ==
  ASSUME NEW t \in Threads, NEW a, Answers'[t] = a,
         \A u \in Threads : u # t => Answers'[u] = Answers[u]
  PROVE  Answers' = [Answers EXCEPT ![t] = a]
  BY DEF Answers

LEMMA AnswersSame ==
  ASSUME \A u \in Threads : Answers'[u] = Answers[u]
  PROVE  Answers' = Answers
  BY DEF Answers

LEMMA InitFixed == Init /\ FixedRoute => FInv
  <1> SUFFICES ASSUME Init, FixedRoute PROVE FInv
    OBVIOUS
  <1>1. RoutedInv /\ FreshInv /\ Coherent /\ \A k \in Keys : cache[k] = NoValue
    BY DEF Init, RoutedInv, FreshInv, Coherent
  <1>2. QED
    BY <1>1, InitInv DEF FInv

\* A step of t that changes neither cache nor storage, and is not hidden
\* before or after, changes nothing that clients see but t's answer.
LEMMA Quiet ==
  ASSUME FInv, IInv', NEW t \in Threads, OnlyMoves(t), UNCHANGED <<cache, store, list>>,
         ~Hidden(t), ~Hidden(t)',
         pc'[t] # "idle" => req'[t].op # "child",
         storage'[t] # NoStorage =>
           Hits(req'[t].key) # {} /\ storage'[t] = Source(req'[t].key),
         pc'[t] = "fill" => Cached(t)' = Behind(req'[t].key)
  PROVE  /\ FInv'
         /\ Value' = Value
         /\ \A u \in Threads : u # t => Answers'[u] = Answers[u]
         /\ Answers[t] = res[t] /\ Answers'[t] = res'[t]
  <1> USE DEF FInv
  <1>1. \A u \in Threads : (Hidden(u)' <=> Hidden(u)) /\ (u # t => Key(u)' = Key(u))
    BY DEF OnlyMoves, Hidden, Reads, Key
  <1>2. \A k : Hits(k)' = Hits(k) /\ Source(k)' = Source(k) /\ Behind(k)' = Behind(k)
    BY SameRoute DEF Behind
  <1>3. RoutedInv'
    BY <1>2 DEF RoutedInv, OnlyMoves, Key
  <1>4. FreshInv'
    <2> SUFFICES ASSUME NEW u \in Threads, pc'[u] = "fill"
                 PROVE  Cached(u)' = Behind(req[u].key)'
      BY DEF FreshInv, Key
    <2>1. CASE u = t
      BY <2>1, <1>2
    <2>2. CASE u # t
      <3>1. Cached(u)' = Cached(u) /\ pc[u] = "fill"
        BY <2>2 DEF OnlyMoves, Cached, Reads
      <3>2. Cached(u) = Behind(req[u].key)
        BY <3>1 DEF FreshInv, Key
      <3>3. QED
        BY <1>2, <2>2, <3>1, <3>2 DEF OnlyMoves
    <2>3. QED
      BY <2>1, <2>2
  <1>5. \A k \in Keys : (\E u \in Threads : Hidden(u)' /\ Key(u)' = k)
                     <=> (\E u \in Threads : Hidden(u) /\ Key(u) = k)
    BY <1>1
  <1>6. Coherent'
    BY <1>2, <1>5 DEF Coherent
  <1>7. Value' = Value
    BY <1>2, <1>5 DEF Value
  <1>8. \A u \in Threads : u # t => Answers'[u] = Answers[u]
    BY <1>1 DEF Answers, OnlyMoves
  <1>9. Answers[t] = res[t] /\ Answers'[t] = res'[t]
    BY DEF Answers
  <1>10. FixedRoute'
    BY DEF FixedRoute
  <1>11. QED
    BY <1>3, <1>4, <1>6, <1>7, <1>8, <1>9, <1>10

-----------------------------------------------------------------------------
(* One lemma per action: the invariant, and the step of PropStore          *)

PSNext == PS!Next \/ UNCHANGED PS!absVars

LEMMA CallFixed ==
  ASSUME FInv, NEW t \in Threads, NEW r \in Requests, Call(t, r)
  PROVE  FInv' /\ PSNext
  <1>0. IInv' /\ r.op \in {"get", "set", "del"} /\ r \in PS!Requests /\ req[t] = PS!NoRequest
    BY CallInv, RequestFields DEF FInv, Call, IInv, ThreadInv, Requests, PS!Requests, NoReq, PS!NoRequest
  <1>1. /\ pc[t] = "idle" /\ storage[t] = NoStorage
        /\ pc'[t] \in {"cache", "match"} /\ req'[t] = r /\ UNCHANGED <<storage, res, cache, store, list>>
        /\ req' = [req EXCEPT ![t] = r] /\ OnlyMoves(t)
    BY DEF FInv, IInv, TypeOK, ThreadInv, Call, Goto, OnlyMoves
  <1>2. ~Hidden(t) /\ ~Hidden(t)' /\ pc'[t] # "fill" /\ storage'[t] = NoStorage /\ req'[t].op # "child"
    BY <1>0, <1>1 DEF Hidden
  <1>3. /\ FInv' /\ Value' = Value /\ Answers[t] = res[t] /\ Answers'[t] = res'[t]
        /\ \A u \in Threads : u # t => Answers'[u] = Answers[u]
    BY <1>0, <1>1, <1>2, Quiet
  <1>4. Answers' = Answers
    BY <1>1, <1>3, AnswersSame
  <1>5. PS!Ask(t, r)
    BY <1>0, <1>1, <1>3, <1>4 DEF PS!Ask
  <1>6. QED
    BY <1>0, <1>3, <1>5 DEF PSNext, PS!Next

\* A hit in the cache is what the key has at that moment.
LEMMA ReadCacheFixed ==
  ASSUME FInv, NEW t \in Threads, ReadCache(t)
  PROVE  FInv' /\ PSNext
  <1>0. IInv' /\ Key(t) \in Keys /\ req[t] # NoReq
    BY ReadCacheInv, Busy DEF FInv, ReadCache
  <1>1. /\ pc[t] = "cache" /\ req[t].op = "get" /\ storage[t] = NoStorage /\ res[t] = "none"
        /\ pc'[t] \in {"match", "deref"} /\ UNCHANGED <<req, storage, cache, store, list>>
        /\ OnlyMoves(t)
    BY DEF FInv, IInv, TypeOK, ThreadInv, ReadCache, Goto, OnlyMoves
  <1>2. ~Hidden(t) /\ ~Hidden(t)' /\ pc'[t] # "fill" /\ storage'[t] = NoStorage /\ req'[t].op # "child"
    BY <1>0, <1>1 DEF Hidden
  <1>3. /\ FInv' /\ Value' = Value /\ Answers[t] = res[t] /\ Answers'[t] = res'[t]
        /\ \A u \in Threads : u # t => Answers'[u] = Answers[u]
    BY <1>0, <1>1, <1>2, Quiet
  <1>4. CASE cache[Key(t)] # NoValue
    <2>1. res'[t] = cache[Key(t)] /\ Value[req[t].key] = cache[Key(t)]
      BY <1>0, <1>4, CacheSeen DEF ReadCache, FInv, FixedRoute, IInv, TypeOK, Key
    <2>2. Answers' = [Answers EXCEPT ![t] = Value[req[t].key]]
      BY <1>3, <2>1, AnswersExcept
    <2>3. PS!Get(t)
      BY <1>0, <1>1, <1>3, <1>4, <2>1, <2>2 DEF PS!Get, PS!Answer, PS!NoRequest, NoReq
    <2>4. QED
      BY <1>3, <2>3 DEF PSNext, PS!Next
  <1>5. CASE cache[Key(t)] = NoValue
    <2>1. Answers' = Answers
      BY <1>3, <1>5, AnswersSame DEF ReadCache
    <2>2. QED
      BY <1>1, <1>3, <2>1 DEF PSNext, PS!absVars
  <1>6. QED
    BY <1>4, <1>5

LEMMA MatchFixed ==
  ASSUME FInv, NEW t \in Threads, Match(t)
  PROVE  FInv' /\ PSNext
  <1>0. IInv' /\ req[t] # NoReq
    BY MatchInv, Busy DEF FInv, Match
  <1>1. /\ pc[t] = "match" /\ req[t].op # "child" /\ res[t] = "none" /\ storage[t] = NoStorage
        /\ pc'[t] \in {"lock", "deref"} /\ UNCHANGED <<req, cache, store, list>>
        /\ OnlyMoves(t)
    BY DEF FInv, IInv, TypeOK, ThreadInv, Match, Goto, OnlyMoves
  <1>2. ~Hidden(t) /\ ~Hidden(t)' /\ pc'[t] # "fill" /\ req'[t].op # "child"
    BY <1>0, <1>1 DEF Hidden
  <1>3. storage'[t] # NoStorage => Hits(req'[t].key) # {} /\ storage'[t] = Source(req'[t].key)
    <2>1. CASE Hits(Key(t)) = {}
      BY <1>1, <2>1 DEF Match
    <2>2. CASE Hits(Key(t)) # {}
      <3>1. PICK j \in Hits(Key(t)) : /\ \A l \in Hits(Key(t)) : j <= l
                                      /\ storage' = [storage EXCEPT ![t] = list[j]]
        BY <2>2 DEF Match
      <3>2. \A m \in Hits(Key(t)) : (\A l \in Hits(Key(t)) : m <= l) => m = j
        <4>1. Hits(Key(t)) \subseteq Int
          BY DEF Hits
        <4>2. QED
          BY <3>1, <4>1
      <3>3. list[j] = Source(Key(t))
        BY <3>1, <3>2 DEF Source
      <3>4. QED
        BY <1>1, <2>2, <3>1, <3>3 DEF Key, FInv, IInv, TypeOK
    <2>3. QED
      BY <2>1, <2>2
  <1>4. /\ FInv' /\ Value' = Value /\ Answers[t] = res[t] /\ Answers'[t] = res'[t]
        /\ \A u \in Threads : u # t => Answers'[u] = Answers[u]
    BY <1>0, <1>1, <1>2, <1>3, Quiet
  <1>5. CASE Hits(Key(t)) = {}
    <2>1. res'[t] = "error"
      BY <1>5 DEF Match, FInv, IInv, TypeOK
    <2>2. Answers' = [Answers EXCEPT ![t] = "error"]
      BY <1>4, <2>1, AnswersExcept
    <2>3. PS!Fail(t)
      BY <1>0, <1>1, <1>4, <2>2 DEF PS!Fail, PS!Answer, PS!NoRequest, NoReq
    <2>4. QED
      BY <1>4, <2>3 DEF PSNext, PS!Next
  <1>6. CASE Hits(Key(t)) # {}
    <2>1. Answers' = Answers
      BY <1>4, <1>6, AnswersSame DEF Match
    <2>2. QED
      BY <1>1, <1>4, <2>1 DEF PSNext, PS!absVars
  <1>7. QED
    BY <1>5, <1>6

LEMMA LockUnlockFixed ==
  ASSUME FInv, NEW t \in Threads, Lock(t) \/ Unlock(t)
  PROVE  FInv' /\ PSNext
  <1>0. IInv' /\ pc[t] \in {"lock", "unlock"} /\ req[t].op # "child"
    BY LockStepInv, UnlockInv DEF FInv, Lock, Unlock, RoutedInv
  <1>1. /\ pc'[t] \in {"storage", "deref"} /\ UNCHANGED <<req, storage, res, cache, store, list>>
        /\ OnlyMoves(t)
    BY <1>0 DEF FInv, IInv, TypeOK, Lock, Unlock, Unlocked, Goto, OnlyMoves
  <1>2. ~Hidden(t) /\ ~Hidden(t)' /\ pc'[t] # "fill" /\ req'[t].op # "child"
    BY <1>0, <1>1 DEF Hidden
  <1>3. storage'[t] # NoStorage => Hits(req'[t].key) # {} /\ storage'[t] = Source(req'[t].key)
    BY <1>1 DEF FInv, RoutedInv, Key
  <1>4. /\ FInv' /\ Value' = Value /\ Answers[t] = res[t] /\ Answers'[t] = res'[t]
        /\ \A u \in Threads : u # t => Answers'[u] = Answers[u]
    BY <1>0, <1>1, <1>2, <1>3, Quiet
  <1>5. Answers' = Answers
    BY <1>1, <1>4, AnswersSame
  <1>6. QED
    BY <1>1, <1>4, <1>5 DEF PSNext, PS!absVars

\* The storage refuses, or has no value: the request fails without effect.
LEMMA StorageErrorFixed ==
  ASSUME FInv, NEW t \in Threads, StorageError(t)
  PROVE  FInv' /\ PSNext
  <1>0. IInv' /\ req[t] # NoReq
    BY StorageStepInv, Busy DEF FInv, StorageError
  <1>1. /\ pc[t] = "storage" /\ req[t].op # "child" /\ res[t] = "none" /\ res'[t] = "error"
        /\ pc'[t] = "unlock" /\ UNCHANGED <<req, storage, cache, store, list>>
        /\ OnlyMoves(t)
    BY DEF FInv, FixedRoute, IInv, TypeOK, ThreadInv, RoutedInv, StorageError, AfterError, Goto, OnlyMoves
  <1>2. ~Hidden(t) /\ ~Hidden(t)' /\ pc'[t] # "fill" /\ req'[t].op # "child"
    BY <1>0, <1>1 DEF Hidden
  <1>3. storage'[t] # NoStorage => Hits(req'[t].key) # {} /\ storage'[t] = Source(req'[t].key)
    BY <1>1 DEF FInv, RoutedInv, Key
  <1>4. /\ FInv' /\ Value' = Value /\ Answers[t] = res[t] /\ Answers'[t] = res'[t]
        /\ \A u \in Threads : u # t => Answers'[u] = Answers[u]
    BY <1>0, <1>1, <1>2, <1>3, Quiet
  <1>5. Answers' = [Answers EXCEPT ![t] = "error"]
    BY <1>1, <1>4, AnswersExcept
  <1>6. PS!Fail(t)
    BY <1>0, <1>1, <1>4, <1>5 DEF PS!Fail, PS!Answer, PS!NoRequest, NoReq
  <1>7. QED
    BY <1>4, <1>6 DEF PSNext, PS!Next

\* A get that was not in the cache sees the storage, where nobody hides a
\* change of its key.
LEMMA StorageGetFixed ==
  ASSUME FInv, NEW t \in Threads, StorageGet(t)
  PROVE  FInv' /\ PSNext
  <1>0. IInv' /\ req[t] # NoReq /\ Key(t) \in Keys /\ req[t].op \in {"get", "set", "del", "child"}
    BY StorageStepInv, Busy DEF FInv, StorageGet
  <1>1. /\ pc[t] = "storage" /\ req[t].op = "get" /\ res[t] = "none" /\ res'[t] = Stored(t)
        /\ pc'[t] \in {"fill", "unlock"} /\ UNCHANGED <<req, storage, cache, store, list>>
        /\ OnlyMoves(t) /\ Stored(t) # NoValue /\ storage[t] # NoStorage
    BY <1>0, IOAssumption DEF FInv, IInv, TypeOK, ThreadInv, RoutedInv, StorageGet, AfterStorage, Goto,
       OnlyMoves, Reads, Section
  <1>2. ~Hidden(t) /\ ~Hidden(t)' /\ req'[t].op # "child" /\ Reads(t)'
    BY <1>0, <1>1 DEF Hidden, Reads
  <1>3. Hits(req'[t].key) # {} /\ storage'[t] = Source(req'[t].key)
    BY <1>1 DEF FInv, RoutedInv, Key
  <1>4. Stored(t) = Behind(Key(t)) /\ Key(t) = req'[t].key
    BY <1>1, Routed DEF Key
  <1>5. Cached(t)' = Behind(req'[t].key)
    BY <1>1, <1>2, <1>4 DEF Cached
  <1>6. /\ FInv' /\ Value' = Value /\ Answers[t] = res[t] /\ Answers'[t] = res'[t]
        /\ \A u \in Threads : u # t => Answers'[u] = Answers[u]
    BY <1>0, <1>1, <1>2, <1>3, <1>5, Quiet
  <1>7. Value[Key(t)] = Stored(t)
    <2>1. ASSUME NEW u \in Threads, Hidden(u), Key(u) = Key(t) PROVE FALSE
      <3>1. pc[t] \in Section /\ pc[u] \in Section
        BY <1>1, <2>1, HiddenInSection DEF Section
      <3>2. QED
        BY <1>2, <2>1, <3>1, Alone DEF FInv
    <2>2. QED
      BY <1>0, <1>4, <2>1, StorageSeen
  <1>8. Answers' = [Answers EXCEPT ![t] = Value[req[t].key]]
    BY <1>1, <1>6, <1>7, AnswersExcept DEF Key
  <1>9. PS!Get(t)
    BY <1>0, <1>1, <1>6, <1>7, <1>8 DEF PS!Get, PS!Answer, PS!NoRequest, NoReq, Key
  <1>10. QED
    BY <1>6, <1>9 DEF PSNext, PS!Next

LEMMA DerefFixed ==
  ASSUME FInv, NEW t \in Threads, Deref(t)
  PROVE  FInv' /\ PSNext
  <1>0. IInv'
    BY DerefInv DEF FInv
  <1>1. /\ pc[t] = "deref" /\ res[t] # "none" /\ res'[t] = "none"
        /\ req' = [req EXCEPT ![t] = NoReq]
        /\ pc'[t] = "idle" /\ storage'[t] = NoStorage /\ UNCHANGED <<cache, store, list>>
        /\ OnlyMoves(t)
    BY DEF FInv, IInv, TypeOK, ThreadInv, Deref, Done, Goto, OnlyMoves
  <1>2. ~Hidden(t) /\ ~Hidden(t)' /\ pc'[t] # "fill"
    BY <1>0, <1>1 DEF Hidden
  <1>3. /\ FInv' /\ Value' = Value /\ Answers[t] = res[t] /\ Answers'[t] = res'[t]
        /\ \A u \in Threads : u # t => Answers'[u] = Answers[u]
    BY <1>0, <1>1, <1>2, Quiet
  <1>4. Answers' = [Answers EXCEPT ![t] = "none"]
    BY <1>1, <1>3, AnswersExcept
  <1>5. PS!Return(t)
    BY <1>1, <1>3, <1>4 DEF PS!Return, PS!NoRequest, NoReq
  <1>6. QED
    BY <1>3, <1>5 DEF PSNext, PS!Next

\* A set or deletion takes effect for the clients.
LEMMA Effect ==
  ASSUME NEW t \in Threads, NEW v, req[t] # NoReq, req[t].key \in Keys,
         \/ req[t].op = "set" /\ v = req[t].value
         \/ req[t].op = "del" /\ v = NoValue,
         req' = req,
         Answers[t] = "none", Answers'[t] = "ok",
         \A u \in Threads : u # t => Answers'[u] = Answers[u],
         Value'[req[t].key] = v,
         \A k \in Keys : k # req[t].key => Value'[k] = Value[k]
  PROVE  PSNext
  <1>1. Answers' = [Answers EXCEPT ![t] = "ok"]
    BY AnswersExcept
  <1>2. Value' = [Value EXCEPT ![req[t].key] = v]
    BY ValueExcept
  <1>3. PS!Set(t) \/ PS!Del(t)
    BY <1>1, <1>2 DEF PS!Set, PS!Del, PS!Answer, PS!NoRequest, NoReq
  <1>4. QED
    BY <1>3 DEF PSNext, PS!Next

\* StorageSet and StorageDel: the storage has the new value.  While the cache
\* has an older one the change is hidden, otherwise it takes effect.
LEMMA WriteFixed ==
  ASSUME FInv, NEW t \in Threads, StorageSet(t) \/ StorageDel(t)
  PROVE  FInv' /\ PSNext
  <1> USE DEF FInv
  <1>0. /\ IInv' /\ pc[t] = "storage" /\ req[t] # NoReq /\ Key(t) \in Keys
        /\ req[t].op = "set" => req[t].value \in Values
    BY StorageStepInv, Busy DEF StorageSet, StorageDel
  <1>1. PICK v \in Values \cup {NoValue} :
          /\ store' = [store EXCEPT ![storage[t]][Key(t)] = v]
          /\ \/ req[t].op = "set" /\ v = req[t].value
             \/ req[t].op = "del" /\ v = NoValue
    BY <1>0 DEF StorageSet, StorageDel
  <1>2. /\ storage[t] \in Storages /\ storage[t] # NoStorage /\ res[t] = "none"
        /\ req[t].op # "child"
    BY <1>0, IOAssumption DEF IInv, ThreadInv, Section, RoutedInv
  <1>3. /\ pc'[t] = IF UseCache THEN "fill" ELSE "unlock"
        /\ res'[t] = "ok" /\ UNCHANGED <<req, storage, cache, list>> /\ OnlyMoves(t)
    BY DEF StorageSet, StorageDel, AfterStorage, Goto, IInv, TypeOK, OnlyMoves
  <1>4. Hits(Key(t)) # {} /\ storage[t] = Source(Key(t)) 
    BY <1>2 DEF RoutedInv
  <1>5. \A k : Hits(k)' = Hits(k) /\ Source(k)' = Source(k)
    BY <1>3, SameRoute
  <1>6. /\ store'[storage[t]][Key(t)] = v
        /\ \A s \in Storages, k \in Keys : k # Key(t) => store'[s][k] = store[s][k]
    BY <1>0, <1>1, StoreType
  <1>7. Behind(Key(t))' = v
    <2>1. PICK k \in Keys : k = Key(t) /\ k = Key(t)'
      BY <1>0, <1>3 DEF Key
    <2>2. Behind(k)' = v
      BY <1>4, <1>5, <1>6, <2>1 DEF Behind
    <2>3. QED
      BY <2>1, <2>2
  <1>8. \A k \in Keys : k # Key(t) => Behind(k)' = Behind(k)
    <2> SUFFICES ASSUME NEW k \in Keys, k # Key(t), Hits(k) # {}
                 PROVE  store'[Source(k)][k] = store[Source(k)][k]
      BY <1>5 DEF Behind
    <2>1. Source(k) \in Storages
      <3>1. Hits(k) \subseteq 1 .. Len(list) /\ Hits(k) \subseteq Nat
        BY RangeOfList DEF Hits, IInv, TypeOK
      <3>2. \E j \in Hits(k) : \A l \in Hits(k) : j <= l
        BY <3>1, LeastPosition
      <3>3. PICK j \in Hits(k) : Source(k) = list[j]
        BY <3>2 DEF Source
      <3>4. QED
        BY <3>1, <3>3, RangeOfList DEF IInv, TypeOK
    <2>2. QED
      BY <1>6, <2>1
  <1>9. \A u \in Threads : u # t => (Hidden(u)' <=> Hidden(u)) /\ Key(u)' = Key(u)
    BY <1>3 DEF OnlyMoves, Hidden, Reads, Key
  <1>10. ~Hidden(t) /\ Key(t)' = Key(t) /\ (Hidden(t)' <=> UseCache /\ cache[Key(t)] # NoValue)
    BY <1>0, <1>1, <1>3 DEF Hidden, Reads, Key
  <1>11. \A u \in Threads : u # t /\ pc[u] \in Section => Key(u) # Key(t)
    BY <1>0, Alone DEF Section
  <1>12. \A u \in Threads : Hidden(u) => Key(u) # Key(t)
    BY <1>10, <1>11, HiddenInSection
  <1>13. Hidden(t)' <=> cache[Key(t)] # NoValue
    BY <1>0, <1>10
  <1>14. RoutedInv'
    BY <1>2, <1>3, <1>5, <1>4, <1>9 DEF RoutedInv, OnlyMoves, Key
  <1>15. FreshInv'
    <2> SUFFICES ASSUME NEW u \in Threads, pc'[u] = "fill"
                 PROVE  Cached(u)' = Behind(Key(u))'
      BY DEF FreshInv
    <2>1. CASE u = t
      <3>1. Cached(t)' = v
        BY <1>1, <1>3 DEF Cached, Reads
      <3>2. QED
        BY <2>1, <3>1, <1>7
    <2>2. CASE u # t
      <3>1. PICK k \in Keys : k = Key(u) /\ k = Key(u)' /\ k # Key(t) /\ pc[u] = "fill"
        BY <1>3, <1>9, <1>11, <2>2, Busy DEF OnlyMoves, Section
      <3>2. Cached(u)' = Cached(u) /\ Cached(u) = Behind(k)
        BY <1>3, <2>2, <3>1 DEF OnlyMoves, Cached, Reads, FreshInv
      <3>3. Behind(k)' = Behind(k)
        BY <1>8, <3>1
      <3>4. Behind(Key(u))' = Behind(k)'
        BY <3>1
      <3>5. QED
        BY <3>2, <3>3, <3>4
    <2>3. QED
      BY <2>1, <2>2
  <1>16. Coherent'
    <2> SUFFICES ASSUME NEW k \in Keys, cache'[k] # NoValue,
                        ~ \E u \in Threads : Hidden(u)' /\ Key(u)' = k
                 PROVE  cache'[k] = Behind(k)'
      BY DEF Coherent
    <2>1. k # Key(t)
      BY <1>3, <1>10, <1>13
    <2>2. ~ \E u \in Threads : Hidden(u) /\ Key(u) = k
      BY <1>9, <1>10
    <2>3. QED
      BY <2>1, <2>2, <1>3, <1>8 DEF Coherent
  <1>17. FInv'
    BY <1>0, <1>3, <1>14, <1>15, <1>16 DEF FixedRoute
  <1>18. \A k \in Keys : k # Key(t) => Value'[k] = Value[k]
    <2> SUFFICES ASSUME NEW k \in Keys, k # Key(t) PROVE Value'[k] = Value[k]
      OBVIOUS
    <2>1. (\E u \in Threads : Hidden(u)' /\ Key(u)' = k) <=> (\E u \in Threads : Hidden(u) /\ Key(u) = k)
      BY <1>9, <1>10
    <2>2. QED
      BY <1>3, <1>8, <2>1 DEF Value
  <1>19. \A u \in Threads : u # t => Answers'[u] = Answers[u]
    BY <1>3, <1>9 DEF Answers, OnlyMoves
  <1>20. CASE cache[Key(t)] # NoValue
    <2>1. Value[Key(t)] = cache[Key(t)]
      BY <1>0, <1>20, CacheSeen
    <2>2. Value'[Key(t)] = cache[Key(t)]
      <3>1. PICK k \in Keys : k = Key(t) /\ k = Key(t)'
        BY <1>0, <1>10
      <3>2. Value'[k] = cache[k]
        BY <1>3, <1>13, <1>20, <3>1 DEF Value
      <3>3. QED
        BY <3>1, <3>2
    <2>3. Value' = Value
      BY <2>1, <2>2, <1>18, ValueSame
    <2>4. Answers' = Answers
      <3>1. Answers'[t] = "none" /\ Answers[t] = "none"
        BY <1>2, <1>10, <1>13, <1>20 DEF Answers
      <3>2. QED
        BY <3>1, <1>19, AnswersSame
    <2>5. QED
      BY <1>3, <1>17, <2>3, <2>4 DEF PSNext, PS!absVars
  <1>21. CASE cache[Key(t)] = NoValue
    <2>1. Answers[t] = "none" /\ Answers'[t] = "ok"
      BY <1>2, <1>3, <1>10, <1>13, <1>21 DEF Answers
    <2>2. Value'[Key(t)] = v
      <3>1. PICK k \in Keys : k = Key(t) /\ k = Key(t)'
        BY <1>0, <1>10
      <3>2. \A u \in Threads : Hidden(u)' => Key(u)' # k
        BY <1>9, <1>12, <1>13, <1>21, <3>1
      <3>3. Value'[k] = Behind(k)'
        BY <3>2 DEF Value
      <3>4. Behind(k)' = v
        BY <1>7, <3>1
      <3>5. QED
        BY <3>1, <3>3, <3>4
    <2>3. PSNext
      BY <1>0, <1>1, <1>3, <1>18, <1>19, <2>1, <2>2, Effect DEF Key
    <2>4. QED
      BY <1>17, <2>3
  <1>22. QED
    BY <1>20, <1>21

\* The cache gets the value of the storage or loses its own, under a key
\* that nobody else hides a change of.
LEMMA CacheChange ==
  ASSUME FInv, IInv', NEW k \in Keys, NEW v \in {NoValue, Behind(k)},
         cache' = [cache EXCEPT ![k] = v], v # NoValue => UseCache,
         UNCHANGED <<req, storage, res, store, list>>,
         \A u \in Threads : ~(pc'[u] = "fill" /\ pc[u] # "fill"),
         \A u \in Threads : pc[u] = "idle" => pc'[u] = "idle",
         \A u \in Threads : Hidden(u)' <=> Hidden(u) /\ Key(u) # k
  PROVE  /\ FInv'
         /\ Value'[k] = Behind(k)
         /\ \A x \in Keys : x # k => Value'[x] = Value[x]
  <1> USE DEF FInv
  <1>1. \A x : Hits(x)' = Hits(x) /\ Source(x)' = Source(x) /\ Behind(x)' = Behind(x)
    BY SameRoute DEF Behind
  <1>2. \A u \in Threads : Key(u)' = Key(u) /\ Cached(u)' = Cached(u)
    BY DEF Key, Cached, Reads
  <1>3. cache'[k] = v /\ \A x \in Keys : x # k => cache'[x] = cache[x]
    BY DEF IInv, TypeOK
  <1>4. RoutedInv'
    BY <1>1 DEF RoutedInv, Key, IInv, ThreadInv
  <1>5. FreshInv'
    BY <1>1, <1>2 DEF FreshInv
  <1>6. Coherent'
    BY <1>1, <1>2, <1>3 DEF Coherent
  <1>7. Value'[k] = Behind(k)
    BY <1>1, <1>2 DEF Value
  <1>8. ASSUME NEW x \in Keys, x # k PROVE Value'[x] = Value[x]
    <2>1. (\E u \in Threads : Hidden(u)' /\ Key(u)' = x) <=> (\E u \in Threads : Hidden(u) /\ Key(u) = x)
      BY <1>2, <1>8
    <2>2. QED
      BY <1>1, <1>3, <1>8, <2>1 DEF Value
  <1>9. QED
    BY <1>3, <1>4, <1>5, <1>6, <1>7, <1>8 DEF FixedRoute

\* The end of hiding: t's change takes effect.
LEMMA Revealed ==
  ASSUME FInv, NEW t \in Threads, Hidden(t), ~Hidden(t)',
         UNCHANGED <<req, res>>,
         \A u \in Threads : u # t => (Hidden(u)' <=> Hidden(u)),
         Value'[Key(t)] = Behind(Key(t)),
         \A x \in Keys : x # Key(t) => Value'[x] = Value[x]
  PROVE  PSNext
  <1>1. /\ pc[t] = "fill" /\ ~Reads(t) /\ res[t] = "ok" /\ req[t] # NoReq /\ Key(t) \in Keys
        /\ req[t].op \in {"set", "del"}
    BY HiddenInSection, Busy DEF FInv, IInv, ThreadInv, Reads
  <1>2. Cached(t) = Behind(Key(t))
    BY <1>1 DEF FInv, FreshInv
  <1>3. \/ req[t].op = "set" /\ Behind(Key(t)) = req[t].value
        \/ req[t].op = "del" /\ Behind(Key(t)) = NoValue
    BY <1>1, <1>2 DEF Cached, Reads
  <1>4. Answers[t] = "none" /\ Answers'[t] = "ok" /\ \A u \in Threads : u # t => Answers'[u] = Answers[u]
    BY <1>1 DEF Answers
  <1>5. QED
    BY <1>1, <1>3, <1>4, Effect DEF Key

LEMMA FillFixed ==
  ASSUME FInv, NEW t \in Threads, Fill(t)
  PROVE  FInv' /\ PSNext
  <1> USE DEF FInv
  <1>0. /\ IInv' /\ pc[t] = "fill" /\ Key(t) \in Keys /\ UseCache
    BY FillInv, Busy DEF Fill, IInv, ThreadInv
  <1>1. PICK k \in Keys : k = Key(t)
    BY <1>0
  <1>2. /\ cache' = [cache EXCEPT ![k] = Cached(t)] /\ pc' = [pc EXCEPT ![t] = "unlock"]
        /\ UNCHANGED <<req, storage, res, store, list>>
    BY <1>1 DEF Fill, Goto, FixedRoute
  <1>3. Cached(t) = Behind(k)
    BY <1>0, <1>1 DEF FreshInv
  <1>4. pc'[t] = "unlock" /\ \A u \in Threads : u # t => pc'[u] = pc[u]
    BY <1>2 DEF IInv, TypeOK
  <1>5. cache'[k] = Behind(k) /\ \A x \in Keys : x # k => cache'[x] = cache[x]
    BY <1>2, <1>3 DEF IInv, TypeOK
  <1>6. \A u \in Threads : u # t /\ pc[u] = "fill" => Key(u) # k /\ Key(u) \in Keys
    BY <1>0, <1>1, Alone, Busy DEF Section
  <1>7. \A u \in Threads : Hidden(u)' <=> Hidden(u) /\ Key(u) # k
    <2> SUFFICES ASSUME NEW u \in Threads PROVE Hidden(u)' <=> Hidden(u) /\ Key(u) # k
      OBVIOUS
    <2>1. CASE u = t
      BY <2>1, <1>1, <1>4 DEF Hidden
    <2>2. CASE u # t
      BY <2>2, <1>2, <1>4, <1>5, <1>6 DEF Hidden, Reads, Key
    <2>3. QED
      BY <2>1, <2>2
  <1>8. FInv' /\ Value'[k] = Behind(k) /\ \A x \in Keys : x # k => Value'[x] = Value[x]
    <2>1. PICK v \in {NoValue, Behind(k)} : v = Cached(t) 
      BY <1>3
    <2>2. cache' = [cache EXCEPT ![k] = v]
      BY <1>2, <2>1
    <2>3. \A u \in Threads : ~(pc'[u] = "fill" /\ pc[u] # "fill") /\ (pc[u] = "idle" => pc'[u] = "idle")
      BY <1>0, <1>4
    <2>4. QED
      BY <1>0, <1>2, <1>7, <2>2, <2>3, CacheChange
  <1>9. \A u \in Threads : u # t => (Hidden(u)' <=> Hidden(u))
    BY <1>6, <1>7, HiddenInSection
  <1>10. CASE Hidden(t)
    BY <1>1, <1>2, <1>7, <1>8, <1>9, <1>10, Revealed
  <1>11. CASE ~Hidden(t)
    <2>1. \A u \in Threads : Hidden(u) => Key(u) # k
      BY <1>6, <1>11, HiddenInSection
    <2>2. Value' = Value
      BY <1>8, <2>1, StorageSeen, ValueSame
    <2>3. Answers' = Answers
      BY <1>2, <1>7, <2>1 DEF Answers
    <2>4. QED
      BY <1>2, <1>8, <2>2, <2>3 DEF PSNext, PS!absVars
  <1>12. QED
    BY <1>10, <1>11

LEMMA ExpireFixed ==
  ASSUME FInv, NEW k \in Keys, Expire(k)
  PROVE  FInv' /\ PSNext
  <1> USE DEF FInv
  <1>0. /\ IInv' /\ cache' = [cache EXCEPT ![k] = NoValue]
        /\ UNCHANGED <<pc, req, storage, res, store, list>>
    BY ExpireInv DEF Expire, local
  <1>1. cache'[k] = NoValue /\ \A x \in Keys : x # k => cache'[x] = cache[x]
    BY <1>0 DEF IInv, TypeOK
  <1>2. \A u \in Threads : Hidden(u)' <=> Hidden(u) /\ Key(u) # k
    <2> SUFFICES ASSUME NEW u \in Threads PROVE Hidden(u)' <=> Hidden(u) /\ Key(u) # k
      OBVIOUS
    <2>1. pc[u] = "fill" => Key(u) \in Keys
      BY Busy
    <2>2. QED
      BY <1>0, <1>1, <2>1 DEF Hidden, Reads, Key
  <1>3. FInv' /\ Value'[k] = Behind(k) /\ \A x \in Keys : x # k => Value'[x] = Value[x]
    BY <1>0, <1>2, CacheChange
  <1>4. CASE \E t \in Threads : Hidden(t) /\ Key(t) = k
    <2>1. PICK t \in Threads : Hidden(t) /\ Key(t) = k
      BY <1>4
    <2>2. \A u \in Threads : u # t => (Hidden(u)' <=> Hidden(u))
      BY <1>2, <2>1, HiddenInSection, Alone
    <2>3. QED
      BY <1>0, <1>2, <1>3, <2>1, <2>2, Revealed
  <1>5. CASE ~ \E t \in Threads : Hidden(t) /\ Key(t) = k
    <2>1. Value' = Value
      BY <1>3, <1>5, StorageSeen, ValueSame
    <2>2. Answers' = Answers
      BY <1>0, <1>2, <1>5 DEF Answers
    <2>3. QED
      BY <1>0, <1>3, <2>1, <2>2 DEF PSNext, PS!absVars
  <1>6. QED
    BY <1>4, <1>5

LEMMA NextFixed == FInv /\ [Next]_vars => FInv' /\ PSNext
  <1> SUFFICES ASSUME FInv, [Next]_vars PROVE FInv' /\ PSNext
    OBVIOUS
  <1>1. ASSUME NEW t \in Threads, Step(t) PROVE FInv' /\ PSNext
    <2>1. ~Register(t)
      BY DEF FInv, FixedRoute, RoutedInv, IInv, ThreadInv, Register
    <2>2. QED
      BY <1>1, <2>1, ReadCacheFixed, MatchFixed, LockUnlockFixed, StorageErrorFixed,
         StorageGetFixed, WriteFixed, FillFixed, DerefFixed DEF Step
  <1>2. CASE UNCHANGED vars
    <2>1. UNCHANGED <<pc, req, storage, res, lock, cache, store, list>>
      BY <1>2 DEF vars, local
    <2>2. IInv'
      BY <1>2, NextInv DEF FInv
    <2>3. /\ \A x : Hits(x)' = Hits(x) /\ Source(x)' = Source(x) /\ Behind(x)' = Behind(x)
          /\ \A u : Hidden(u)' = Hidden(u) /\ Key(u)' = Key(u) /\ Cached(u)' = Cached(u)
      BY <2>1, SameRoute DEF Behind, Hidden, Key, Cached, Reads
    <2>4. RoutedInv' /\ FreshInv' /\ Coherent' /\ FixedRoute'
      BY <2>1, <2>3 DEF FInv, RoutedInv, FreshInv, Coherent, FixedRoute
    <2>5. Value' = Value /\ Answers' = Answers
      BY <2>1, <2>3 DEF Value, Answers
    <2>6. QED
      BY <2>1, <2>2, <2>4, <2>5 DEF FInv, PSNext, PS!absVars
  <1>3. ~ \E t \in Threads, s \in Storages, k \in Keys : CallChild(t, s, k)
    BY DEF FInv, FixedRoute, CallChild
  <1>4. ~ \E s \in Storages : Unregister(s)
    BY DEF FInv, FixedRoute, Unregister
  <1>5. ~ \E t \in Threads : LockFails(t)
    BY DEF FInv, FixedRoute, LockFails
  <1>6. QED
    BY <1>1, <1>2, <1>3, <1>4, <1>5, CallFixed, ExpireFixed DEF Next

\* With a fixed route, storages that do as they are asked or refuse, and
\* enough memory, the cache never has a value that its storage has not, except
\* under the lock of a set or deletion that is about to put it right.
THEOREM CacheCoherent == FixedRoute /\ Spec => []Coherent
  <1>1. FInv /\ [Next]_vars => FInv'
    BY NextFixed
  <1>2. FInv => Coherent
    BY DEF FInv
  <1>3. QED
    BY <1>1, <1>2, InitFixed, PTL DEF Spec

LEMMA AbstractInit == FInv /\ Init => PS!Init
  <1> SUFFICES ASSUME FInv, Init PROVE PS!Init
    OBVIOUS
  <1>1. \A t \in Threads : ~Hidden(t) /\ res[t] = "none"
    BY DEF Init, Hidden
  <1>2. Answers = [t \in Threads |-> "none"]
    BY <1>1 DEF Answers
  <1>3. \A k \in Keys : Value[k] \in Values \cup {NoValue}
    <2> SUFFICES ASSUME NEW k \in Keys PROVE Behind(k) \in Values \cup {NoValue}
      BY <1>1, StorageSeen
    <2>1. Hits(k) # {} => Source(k) \in Storages
      <3> SUFFICES ASSUME Hits(k) # {} PROVE Source(k) \in Storages
        OBVIOUS
      <3>1. Hits(k) \subseteq 1 .. Len(list) /\ Hits(k) \subseteq Nat
        BY RangeOfList DEF Hits, FInv, IInv, TypeOK
      <3>2. \E j \in Hits(k) : \A l \in Hits(k) : j <= l
        BY <3>1, LeastPosition
      <3>3. PICK j \in Hits(k) : Source(k) = list[j]
        BY <3>2 DEF Source
      <3>4. QED
        BY <3>1, <3>3, RangeOfList DEF FInv, IInv, TypeOK
    <2>2. QED
      BY <2>1 DEF Init, Behind
  <1>4. Value \in [Keys -> Values \cup {NoValue}]
    BY <1>3 DEF Value
  <1>5. QED
    BY <1>2, <1>4 DEF Init, PS!Init, PS!NoRequest, NoReq

\* Under the same conditions every get, set and deletion acts on one map at
\* one moment between its request and its answer, although io_get reads the
\* cache without the lock: the daemon implements PropStore.
THEOREM Linearizable == FixedRoute /\ Spec => ImplementsPropStore
  <1>1. Init /\ FixedRoute => PS!Init
    BY InitFixed, AbstractInit
  <1>2. FInv /\ [Next]_vars => FInv'
    BY NextFixed
  <1>3. FInv /\ [Next]_vars => [PS!Next]_PS!absVars
    BY NextFixed DEF PSNext
  <1>4. QED
    BY <1>1, <1>2, <1>3, InitFixed, PTL DEF Spec, ImplementsPropStore, PS!Spec
=============================================================================
