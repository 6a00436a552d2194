-------------------------- MODULE NamedMutexProofs --------------------------
(***************************************************************************)
(* The safety of NamedMutex for any finite set of threads, any names and   *)
(* any heap.  MutualExclusion alone is not inductive: that the object a    *)
(* thread reaches through `nmtx' is the one everybody else locks depends   *)
(* on nref counting exactly the threads that still refer to it, which in   *)
(* turn depends on ns->mutex.                                              *)
(***************************************************************************)
EXTENDS NamedMutex, FiniteSetTheorems, TLAPS

\* The threads counted in the nref of the object of name n.
Users(n) == {t \in Threads : pc[t] \in RefPcs /\ key[t] = n}

\* ns->mutex is held exactly in the sections between its lock and its unlock.
NsInv ==
  \A t \in Threads : pc[t] \in NsPcs <=> ns = t

\* A thread inside a call or holding a name has a key.
KeyInv ==
  \A t \in Threads : pc[t] # "idle" => key[t] \in Names

\* An object that is not in the tree yet is private to the thread that
\* created it.
FreshPcs == {"insert.lock", "insert"}
FreshInv ==
  \A t \in Threads : pc[t] \in FreshPcs =>
    /\ nmtx[t] \in live
    /\ nref[nmtx[t]] = 0
    /\ mutex[nmtx[t]] = NoThread
    /\ \A n \in Names : tree[n] # nmtx[t]
    /\ \A u \in Threads : pc[u] \in FreshPcs /\ nmtx[u] = nmtx[t] => u = t

\* The tree holds allocated objects, each under one name, each referred to by
\* as many threads as nref says and by at least one.
TreeInv ==
  \A n \in Names :
    IF tree[n] = NoObj
      THEN Users(n) = {}
      ELSE /\ tree[n] \in live
           /\ nref[tree[n]] = Cardinality(Users(n))
           /\ Users(n) # {}
           /\ \A m \in Names : tree[m] = tree[n] => m = n

\* A pointer to a shared object is the one the tree has for the name.
PtrInv ==
  \A t \in Threads :
    pc[t] \in {"acquire", "release", "drop.lock", "drop"} =>
      nmtx[t] = tree[key[t]]

\* The owner of an object's mutex is the thread that holds the name.
OwnerInv ==
  \A t \in Threads, n \in Names :
    tree[n] # NoObj =>
      (mutex[tree[n]] = t <=> pc[t] \in HolderPcs /\ key[t] = n)

\* Every allocated object is in the tree or about to be inserted.
NoLeak ==
  \A o \in live :
    \/ \E n \in Names : tree[n] = o
    \/ \E t \in Threads : pc[t] \in FreshPcs /\ nmtx[t] = o

IInv ==
  /\ TypeOK
  /\ NsInv
  /\ KeyInv
  /\ FreshInv
  /\ TreeInv
  /\ PtrInv
  /\ OwnerInv
  /\ NoLeak

-----------------------------------------------------------------------------
LEMMA InitInv == Init => IInv
  <1>1. SUFFICES ASSUME Init PROVE IInv
    OBVIOUS
  <1>2. TypeOK
    BY <1>1 DEF Init, TypeOK, PCs
  <1>3. \A t \in Threads : pc[t] = "idle"
    BY <1>1 DEF Init
  <1>4. \A n \in Names : Users(n) = {}
    BY <1>3 DEF Users, RefPcs, HolderPcs
  <1>5. NsInv /\ KeyInv /\ FreshInv /\ PtrInv
    BY <1>1, <1>3, ThreadsAssumption DEF Init, NsInv, KeyInv, FreshInv, PtrInv, NsPcs, FreshPcs
  <1>6. TreeInv /\ OwnerInv /\ NoLeak
    BY <1>1, <1>4 DEF Init, TreeInv, OwnerInv, NoLeak
  <1>7. QED
    BY <1>2, <1>5, <1>6 DEF IInv

\* The bookkeeping of Users: a thread joins or leaves the users of one name.
LEMMA UsersFinite ==
  ASSUME NEW n PROVE IsFiniteSet(Users(n))
  BY ThreadsAssumption, FS_Subset DEF Users

\* The only user of a name is alone.
LEMMA OneUser ==
  ASSUME NEW n, Cardinality(Users(n)) = 1, NEW t \in Users(n), NEW u \in Users(n)
  PROVE  u = t
  <1>1. IsFiniteSet(Users(n) \ {t}) /\ Cardinality(Users(n) \ {t}) = 0
    BY UsersFinite, FS_RemoveElement
  <1>2. Users(n) \ {t} = {}
    BY <1>1, FS_EmptySet
  <1>3. QED
    BY <1>2

\* Creating an object.
LEMMA LockCallInv ==
  ASSUME IInv, NEW t \in Threads, NEW n \in Names, LockCall(t, n)
  PROVE  IInv'
  <1> USE ThreadsAssumption, NoObjAssumption, NamesAssumption DEF IInv
  <1>1. TypeOK'
    BY DEF TypeOK, PCs, LockPcs, UnlockPcs, NsInv, KeyInv, NsPcs, LockCall
  <1>2. NsInv'
    BY DEF TypeOK, NsInv, NsPcs, LockCall
  <1>3. KeyInv'
    BY DEF TypeOK, KeyInv, LockCall
  <1>4. FreshInv'
    BY DEF TypeOK, FreshInv, FreshPcs, NsInv, NsPcs, KeyInv, TreeInv, PtrInv, LockCall
  <1>5. TreeInv'
    <2>1. \A m \in Names : Users(m)' = Users(m)
      BY DEF Users, RefPcs, HolderPcs, TypeOK, LockCall
    <2>2. QED
      BY <2>1 DEF TreeInv, TypeOK, FreshInv, FreshPcs, LockCall
  <1>6. PtrInv'
    BY DEF TypeOK, PtrInv, KeyInv, TreeInv, FreshInv, FreshPcs, NsInv, NsPcs, LockCall
  <1>7. OwnerInv'
    BY DEF TypeOK, OwnerInv, KeyInv, FreshInv, FreshPcs, TreeInv, PtrInv, HolderPcs, LockCall
  <1>8. NoLeak'
    BY DEF TypeOK, NoLeak, FreshInv, FreshPcs, TreeInv, PtrInv, KeyInv, NsInv, NsPcs, LockCall
  <1>9. QED
    BY <1>1, <1>2, <1>3, <1>4, <1>5, <1>6, <1>7, <1>8

\* Taking ns->mutex.
LEMMA LockNsInv ==
  ASSUME IInv, NEW t \in Threads, LockNs(t)
  PROVE  IInv'
  <1> USE ThreadsAssumption, NoObjAssumption, NamesAssumption DEF IInv
  <1>1. TypeOK'
    BY DEF TypeOK, PCs, LockPcs, UnlockPcs, NsInv, KeyInv, NsPcs, LockNs, AfterNsLock
  <1>2. NsInv'
    BY DEF TypeOK, NsInv, NsPcs, LockNs, AfterNsLock
  <1>3. KeyInv'
    BY DEF TypeOK, KeyInv, LockNs, AfterNsLock
  <1>4. FreshInv'
    BY DEF TypeOK, FreshInv, FreshPcs, NsInv, NsPcs, KeyInv, TreeInv, PtrInv, LockNs, AfterNsLock
  <1>5. TreeInv'
    <2>1. \A m \in Names : Users(m)' = Users(m)
      BY DEF Users, RefPcs, HolderPcs, TypeOK, LockNs, AfterNsLock
    <2>2. QED
      BY <2>1 DEF TreeInv, TypeOK, FreshInv, FreshPcs, LockNs, AfterNsLock
  <1>6. PtrInv'
    BY DEF TypeOK, PtrInv, KeyInv, TreeInv, FreshInv, FreshPcs, NsInv, NsPcs, LockNs, AfterNsLock
  <1>7. OwnerInv'
    BY DEF TypeOK, OwnerInv, KeyInv, FreshInv, FreshPcs, TreeInv, PtrInv, HolderPcs, LockNs, AfterNsLock
  <1>8. NoLeak'
    BY DEF TypeOK, NoLeak, FreshInv, FreshPcs, TreeInv, PtrInv, KeyInv, NsInv, NsPcs, LockNs, AfterNsLock
  <1>9. QED
    BY <1>1, <1>2, <1>3, <1>4, <1>5, <1>6, <1>7, <1>8

\* Inserting, or joining the users of the object found.
LEMMA InsertInv ==
  ASSUME IInv, NEW t \in Threads, Insert(t)
  PROVE  IInv'
  <1> USE ThreadsAssumption, NoObjAssumption, NamesAssumption DEF IInv
  <1>1. TypeOK'
    <2>1. nmtx[t] \in Objs /\ key[t] \in Names
      BY DEF Insert, FreshInv, FreshPcs, KeyInv, TypeOK
    <2>2. nmtx' \in [Threads -> Objs \cup {NoObj}] /\ nmtx'[t] \in Objs
      BY <2>1 DEF Insert, OldItem, TypeOK
    <2>3. tree' \in [Names -> Objs \cup {NoObj}] /\ live' \subseteq Objs
      BY <2>1 DEF Insert, TypeOK
    <2>4. nref' \in [Objs -> Nat]
      BY <2>2 DEF Insert, TypeOK
    <2>5. QED
      BY <2>2, <2>3, <2>4 DEF Insert, TypeOK, PCs, LockPcs
  <1>2. NsInv'
    BY DEF TypeOK, NsInv, NsPcs, Insert, OldItem
  <1>3. KeyInv'
    BY DEF TypeOK, KeyInv, Insert, OldItem
  <1>4. FreshInv'
    BY DEF TypeOK, FreshInv, FreshPcs, NsInv, NsPcs, KeyInv, TreeInv, PtrInv, Insert, OldItem
  <1>5. TreeInv'
    <2>0. PICK k \in Names : k = key[t]
      BY DEF Insert, KeyInv
    <2>1. t \notin Users(k)
      BY DEF Insert, Users, RefPcs, HolderPcs
    <2>2. Users(k)' = Users(k) \cup {t}
      BY <2>0 DEF Insert, Users, RefPcs, HolderPcs, TypeOK
    <2>3. Cardinality(Users(k)') = Cardinality(Users(k)) + 1
      BY <2>1, <2>2, UsersFinite, FS_AddElement
    <2>4. \A m \in Names \ {k} : Users(m)' = Users(m)
      BY <2>0 DEF Insert, Users, RefPcs, HolderPcs, TypeOK
    <2>5. nmtx[t] \in live /\ nref[nmtx[t]] = 0 /\ \A m \in Names : tree[m] # nmtx[t]
      BY DEF Insert, FreshInv, FreshPcs
    <2>6. CASE tree[k] = NoObj
      <3>1. Cardinality(Users(k)') = 1
        BY <2>1, <2>3, <2>6, FS_EmptySet DEF TreeInv
      <3>2. tree' = [tree EXCEPT ![k] = nmtx[t]] /\ nref' = [nref EXCEPT ![nmtx[t]] = @ + 1]
            /\ live' = live
        BY <2>0, <2>6 DEF Insert, OldItem
      <3>3. QED
        <4>1. SUFFICES ASSUME NEW m \in Names, tree'[m] # NoObj
                       PROVE  /\ tree'[m] \in live'
                              /\ nref'[tree'[m]] = Cardinality(Users(m)')
                              /\ Users(m)' # {}
                              /\ \A l \in Names : tree'[l] = tree'[m] => l = m
          BY <2>2, <2>4, <2>5, <2>6, <3>2 DEF TreeInv, TypeOK
        <4>2. CASE m = k
          BY <4>2, <3>1, <3>2, <2>2, <2>5 DEF TypeOK
        <4>3. CASE m # k
          BY <4>1, <4>3, <3>2, <2>4, <2>5 DEF TreeInv, TypeOK
        <4>4. QED
          BY <4>2, <4>3
    <2>7. CASE tree[k] # NoObj
      <3>1. tree' = tree /\ nref' = [nref EXCEPT ![tree[k]] = @ + 1]
            /\ live' = live \ {nmtx[t]}
        BY <2>0, <2>7 DEF Insert, OldItem, TypeOK
      <3>2. QED
        <4>1. \A m \in Names : tree[m] = NoObj => Users(m)' = {}
          BY <2>4, <2>7 DEF TreeInv
        <4>2. SUFFICES ASSUME NEW m \in Names, tree[m] # NoObj
                       PROVE  /\ tree[m] \in live'
                              /\ nref'[tree[m]] = Cardinality(Users(m)')
                              /\ Users(m)' # {}
                              /\ \A l \in Names : tree[l] = tree[m] => l = m
          BY <3>1, <4>1 DEF TreeInv
        <4>3. CASE m = k
          BY <4>3, <3>1, <2>2, <2>3, <2>5, <2>7 DEF TreeInv, TypeOK
        <4>4. CASE m # k
          BY <4>2, <4>4, <3>1, <2>4, <2>5, <2>7 DEF TreeInv, TypeOK
        <4>5. QED
          BY <4>3, <4>4
    <2>8. QED
      BY <2>6, <2>7
  <1>6. PtrInv'
    <2>1. SUFFICES ASSUME NEW u \in Threads, u # t,
                          pc[u] \in {"acquire", "release", "drop.lock", "drop"}
                   PROVE  nmtx'[u] = tree'[key[u]]
      BY DEF Insert, OldItem, PtrInv, TypeOK, KeyInv
    <2>2. u \in Users(key[u]) /\ key[u] \in Names
      BY <2>1 DEF Users, RefPcs, HolderPcs, KeyInv
    <2>3. tree[key[u]] # NoObj
      BY <2>2 DEF TreeInv
    <2>4. QED
      BY <2>1, <2>2, <2>3 DEF Insert, OldItem, PtrInv, TypeOK
  <1>7. OwnerInv'
    <2>1. key[t] \in Names /\ nmtx[t] \in live /\ mutex[nmtx[t]] = NoThread
      BY DEF Insert, KeyInv, FreshInv, FreshPcs
    <2>2. \A u \in Threads, m \in Names : (pc[u] \in HolderPcs /\ key[u] = m)'
                                            <=> (pc[u] \in HolderPcs /\ key[u] = m)
      BY DEF Insert, HolderPcs, TypeOK
    <2>3. CASE tree[key[t]] = NoObj
      <3>1. \A u \in Threads : pc[u] \in HolderPcs => key[u] # key[t]
        BY <2>1, <2>3 DEF TreeInv, Users, RefPcs
      <3>2. QED
        BY <2>1, <2>2, <2>3, <3>1 DEF Insert, OldItem, OwnerInv, TypeOK
    <2>4. CASE tree[key[t]] # NoObj
      BY <2>2, <2>4 DEF Insert, OldItem, OwnerInv
    <2>5. QED
      BY <2>3, <2>4
  <1>8. NoLeak'
    BY DEF TypeOK, NoLeak, FreshInv, FreshPcs, TreeInv, PtrInv, KeyInv, NsInv, NsPcs, Insert, OldItem
  <1>9. QED
    BY <1>1, <1>2, <1>3, <1>4, <1>5, <1>6, <1>7, <1>8

\* Acquiring the object's mutex.
LEMMA AcquireInv ==
  ASSUME IInv, NEW t \in Threads, Acquire(t)
  PROVE  IInv'
  <1> USE ThreadsAssumption, NoObjAssumption, NamesAssumption DEF IInv
  <1>1. TypeOK'
    BY DEF TypeOK, PCs, LockPcs, UnlockPcs, NsInv, KeyInv, NsPcs, Acquire
  <1>2. NsInv'
    BY DEF TypeOK, NsInv, NsPcs, Acquire
  <1>3. KeyInv'
    BY DEF TypeOK, KeyInv, Acquire
  <1>4. FreshInv'
    BY DEF TypeOK, FreshInv, FreshPcs, NsInv, NsPcs, KeyInv, TreeInv, PtrInv, Acquire
  <1>5. TreeInv'
    <2>1. \A m \in Names : Users(m)' = Users(m)
      BY DEF Users, RefPcs, HolderPcs, TypeOK, Acquire
    <2>2. QED
      BY <2>1 DEF TreeInv, TypeOK, FreshInv, FreshPcs, Acquire
  <1>6. PtrInv'
    BY DEF TypeOK, PtrInv, KeyInv, TreeInv, FreshInv, FreshPcs, NsInv, NsPcs, Acquire
  <1>7. OwnerInv'
    BY DEF TypeOK, OwnerInv, KeyInv, FreshInv, FreshPcs, TreeInv, PtrInv, HolderPcs, Acquire
  <1>8. NoLeak'
    BY DEF TypeOK, NoLeak, FreshInv, FreshPcs, TreeInv, PtrInv, KeyInv, NsInv, NsPcs, Acquire
  <1>9. QED
    BY <1>1, <1>2, <1>3, <1>4, <1>5, <1>6, <1>7, <1>8

\* Entering named_mutex_unlock.
LEMMA UnlockCallInv ==
  ASSUME IInv, NEW t \in Threads, UnlockCall(t)
  PROVE  IInv'
  <1> USE ThreadsAssumption, NoObjAssumption, NamesAssumption DEF IInv
  <1>1. TypeOK'
    BY DEF TypeOK, PCs, LockPcs, UnlockPcs, NsInv, KeyInv, NsPcs, UnlockCall
  <1>2. NsInv'
    BY DEF TypeOK, NsInv, NsPcs, UnlockCall
  <1>3. KeyInv'
    BY DEF TypeOK, KeyInv, UnlockCall
  <1>4. FreshInv'
    BY DEF TypeOK, FreshInv, FreshPcs, NsInv, NsPcs, KeyInv, TreeInv, PtrInv, UnlockCall
  <1>5. TreeInv'
    <2>1. \A m \in Names : Users(m)' = Users(m)
      BY DEF Users, RefPcs, HolderPcs, TypeOK, UnlockCall
    <2>2. QED
      BY <2>1 DEF TreeInv, TypeOK, FreshInv, FreshPcs, UnlockCall
  <1>6. PtrInv'
    BY DEF TypeOK, PtrInv, KeyInv, TreeInv, FreshInv, FreshPcs, NsInv, NsPcs, UnlockCall
  <1>7. OwnerInv'
    BY DEF TypeOK, OwnerInv, KeyInv, FreshInv, FreshPcs, TreeInv, PtrInv, HolderPcs, UnlockCall
  <1>8. NoLeak'
    BY DEF TypeOK, NoLeak, FreshInv, FreshPcs, TreeInv, PtrInv, KeyInv, NsInv, NsPcs, UnlockCall
  <1>9. QED
    BY <1>1, <1>2, <1>3, <1>4, <1>5, <1>6, <1>7, <1>8

\* Looking the object up again.
LEMMA FindInv ==
  ASSUME IInv, NEW t \in Threads, Find(t)
  PROVE  IInv'
  <1> USE ThreadsAssumption, NoObjAssumption, NamesAssumption DEF IInv
  <1>1. TypeOK'
    BY DEF TypeOK, PCs, LockPcs, UnlockPcs, NsInv, KeyInv, NsPcs, Find, AfterFind
  <1>2. NsInv'
    BY DEF TypeOK, NsInv, NsPcs, Find, AfterFind
  <1>3. KeyInv'
    BY DEF TypeOK, KeyInv, Find, AfterFind
  <1>4. FreshInv'
    BY DEF TypeOK, FreshInv, FreshPcs, NsInv, NsPcs, KeyInv, TreeInv, PtrInv, Find, AfterFind
  <1>5. TreeInv'
    <2>1. key[t] \in Names /\ t \in Users(key[t])
      BY DEF Find, KeyInv, Users, RefPcs, HolderPcs
    <2>2. tree[key[t]] # NoObj
      BY <2>1 DEF TreeInv
    <2>3. \A m \in Names : Users(m)' = Users(m)
      BY <2>2 DEF Users, RefPcs, HolderPcs, TypeOK, Find, AfterFind
    <2>4. QED
      BY <2>3 DEF TreeInv, Find
  <1>6. PtrInv'
    BY DEF TypeOK, PtrInv, Find, AfterFind
  <1>7. OwnerInv'
    <2>1. key[t] \in Names /\ t \in Users(key[t])
      BY DEF Find, KeyInv, Users, RefPcs, HolderPcs
    <2>2. tree[key[t]] # NoObj
      BY <2>1 DEF TreeInv
    <2>3. QED
      BY <2>2 DEF OwnerInv, HolderPcs, TypeOK, Find, AfterFind
  <1>8. NoLeak'
    BY DEF TypeOK, NoLeak, FreshInv, FreshPcs, TreeInv, PtrInv, KeyInv, NsInv, NsPcs, Find, AfterFind
  <1>9. QED
    BY <1>1, <1>2, <1>3, <1>4, <1>5, <1>6, <1>7, <1>8

\* Releasing the object's mutex.
LEMMA ReleaseInv ==
  ASSUME IInv, NEW t \in Threads, Release(t)
  PROVE  IInv'
  <1> USE ThreadsAssumption, NoObjAssumption, NamesAssumption DEF IInv
  <1>1. TypeOK'
    BY DEF TypeOK, PCs, LockPcs, UnlockPcs, NsInv, KeyInv, NsPcs, Release
  <1>2. NsInv'
    BY DEF TypeOK, NsInv, NsPcs, Release
  <1>3. KeyInv'
    BY DEF TypeOK, KeyInv, Release
  <1>4. FreshInv'
    BY DEF TypeOK, FreshInv, FreshPcs, NsInv, NsPcs, KeyInv, TreeInv, PtrInv, Release
  <1>5. TreeInv'
    <2>1. \A m \in Names : Users(m)' = Users(m)
      BY DEF Users, RefPcs, HolderPcs, TypeOK, Release
    <2>2. QED
      BY <2>1 DEF TreeInv, TypeOK, FreshInv, FreshPcs, Release
  <1>6. PtrInv'
    BY DEF TypeOK, PtrInv, KeyInv, TreeInv, FreshInv, FreshPcs, NsInv, NsPcs, Release
  <1>7. OwnerInv'
    BY DEF TypeOK, OwnerInv, KeyInv, FreshInv, FreshPcs, TreeInv, PtrInv, HolderPcs, Release
  <1>8. NoLeak'
    BY DEF TypeOK, NoLeak, FreshInv, FreshPcs, TreeInv, PtrInv, KeyInv, NsInv, NsPcs, Release
  <1>9. QED
    BY <1>1, <1>2, <1>3, <1>4, <1>5, <1>6, <1>7, <1>8

\* Dropping a reference, and the object with the last one.
LEMMA DropInv ==
  ASSUME IInv, NEW t \in Threads, Drop(t)
  PROVE  IInv'
  <1> USE ThreadsAssumption, NoObjAssumption, NamesAssumption DEF IInv
  <1>1. TypeOK'
    <2>1. key[t] \in Names /\ t \in Users(key[t]) /\ nmtx[t] = tree[key[t]]
      BY DEF Drop, KeyInv, PtrInv, Users, RefPcs
    <2>2. nmtx[t] \in Objs /\ nref[nmtx[t]] = Cardinality(Users(key[t]))
      BY <2>1 DEF TreeInv, TypeOK
    <2>3. nref[nmtx[t]] # 0
      BY <2>1, <2>2, UsersFinite, FS_EmptySet
    <2>4. QED
      BY <2>2, <2>3 DEF Drop, TypeOK, PCs
  <1>2. NsInv'
    BY DEF TypeOK, NsInv, NsPcs, Drop, LastRef
  <1>3. KeyInv'
    BY DEF TypeOK, KeyInv, Drop, LastRef
  <1>4. FreshInv'
    BY DEF TypeOK, FreshInv, FreshPcs, NsInv, NsPcs, KeyInv, TreeInv, PtrInv, Drop, LastRef
  <1>5. TreeInv'
    <2>0. PICK k \in Names : k = key[t]
      BY DEF Drop, KeyInv
    <2>1. t \in Users(k) /\ nmtx[t] = tree[k] /\ nmtx[t] \in Objs
      <3>1. t \in Users(k) /\ nmtx[t] = tree[k]
        BY <2>0 DEF Drop, KeyInv, PtrInv, Users, RefPcs
      <3>2. QED
        BY <3>1 DEF TreeInv, TypeOK
    <2>2. Users(k)' = Users(k) \ {t}
      BY <2>0 DEF Drop, Users, RefPcs, HolderPcs, TypeOK
    <2>3. Cardinality(Users(k)') = Cardinality(Users(k)) - 1
      BY <2>1, <2>2, UsersFinite, FS_RemoveElement
    <2>4. \A m \in Names \ {k} : Users(m)' = Users(m)
      BY <2>0 DEF Drop, Users, RefPcs, HolderPcs, TypeOK
    <2>5. nref[nmtx[t]] = Cardinality(Users(k)) /\ Cardinality(Users(k)) \in Nat
      BY <2>1, UsersFinite, FS_CardinalityType DEF TreeInv
    <2>6. IsFiniteSet(Users(k)')
      BY <2>2, UsersFinite, FS_Subset
    <2>7. CASE nref[nmtx[t]] = 1
      <3>1. Users(k)' = {}
        BY <2>3, <2>5, <2>6, <2>7, FS_EmptySet
      <3>2. tree' = [tree EXCEPT ![k] = NoObj] /\ live' = live \ {nmtx[t]}
            /\ nref' = [nref EXCEPT ![nmtx[t]] = @ - 1]
        BY <2>0, <2>7 DEF Drop, LastRef
      <3>3. QED
        <4>1. SUFFICES ASSUME NEW m \in Names, m # k, tree[m] # NoObj
                       PROVE  /\ tree'[m] \in live'
                              /\ nref'[tree'[m]] = Cardinality(Users(m)')
                              /\ Users(m)' # {}
                              /\ \A l \in Names : tree'[l] = tree'[m] => l = m
          BY <2>4, <3>1, <3>2 DEF TreeInv, TypeOK
        <4>2. tree'[m] = tree[m] /\ tree[m] # nmtx[t]
          BY <4>1, <3>2, <2>1 DEF TreeInv, TypeOK
        <4>3. QED
          BY <4>1, <4>2, <3>2, <2>4 DEF TreeInv, TypeOK
    <2>8. CASE nref[nmtx[t]] # 1
      <3>0. Cardinality(Users(k)') # 0
        BY <2>3, <2>5, <2>8
      <3>1. Users(k)' # {}
        BY <3>0, FS_EmptySet
      <3>2. tree' = tree /\ live' = live /\ nref' = [nref EXCEPT ![nmtx[t]] = @ - 1]
        BY <2>8 DEF Drop, LastRef
      <3>3. QED
        <4>1. \A m \in Names : tree[m] = NoObj => Users(m)' = {}
          BY <2>4, <2>1 DEF TreeInv
        <4>2. SUFFICES ASSUME NEW m \in Names, tree[m] # NoObj
                       PROVE  /\ tree[m] \in live
                              /\ nref'[tree[m]] = Cardinality(Users(m)')
                              /\ Users(m)' # {}
                              /\ \A l \in Names : tree[l] = tree[m] => l = m
          BY <3>2, <4>1 DEF TreeInv
        <4>3. CASE m = k
          BY <4>3, <3>1, <3>2, <2>1, <2>3, <2>5 DEF TreeInv, TypeOK
        <4>4. CASE m # k
          BY <4>2, <4>4, <3>2, <2>1, <2>4 DEF TreeInv, TypeOK
        <4>5. QED
          BY <4>3, <4>4
    <2>9. QED
      BY <2>7, <2>8
  <1>6. PtrInv'
    <2>1. SUFFICES ASSUME NEW u \in Threads, u # t,
                          pc[u] \in {"acquire", "release", "drop.lock", "drop"}
                   PROVE  nmtx[u] = tree'[key[u]]
      BY DEF Drop, PtrInv, TypeOK
    <2>2. key[t] \in Names /\ t \in Users(key[t]) /\ nmtx[t] = tree[key[t]]
      BY DEF Drop, KeyInv, PtrInv, Users, RefPcs
    <2>3. CASE key[u] = key[t]
      <3>1. u \in Users(key[t])
        BY <2>1, <2>3 DEF Users, RefPcs, HolderPcs
      <3>2. Cardinality(Users(key[t])) # 1
        BY <3>1, <2>1, <2>2, OneUser
      <3>3. QED
        BY <2>1, <2>2, <2>3, <3>2 DEF Drop, LastRef, TreeInv, PtrInv, TypeOK
    <2>4. CASE key[u] # key[t]
      BY <2>1, <2>2, <2>4 DEF Drop, PtrInv, KeyInv, TypeOK
    <2>5. QED
      BY <2>3, <2>4
  <1>7. OwnerInv'
    BY DEF TypeOK, OwnerInv, KeyInv, FreshInv, FreshPcs, TreeInv, PtrInv, HolderPcs, Drop, LastRef
  <1>8. NoLeak'
    BY DEF TypeOK, NoLeak, FreshInv, FreshPcs, TreeInv, PtrInv, KeyInv, NsInv, NsPcs, Drop, LastRef
  <1>9. QED
    BY <1>1, <1>2, <1>3, <1>4, <1>5, <1>6, <1>7, <1>8

\* Shutting down touches nothing but the phase.
LEMMA PhaseInv ==
  ASSUME IInv, Close \/ DestroyNamespace
  PROVE  IInv'
  <1>1. UNCHANGED <<pc, key, nmtx, ns, tree, live, mutex, nref>>
    BY DEF Close, DestroyNamespace
  <1>2. TypeOK'
    BY <1>1 DEF IInv, TypeOK, Close, DestroyNamespace
  <1>3. \A n : Users(n)' = Users(n)
    BY <1>1 DEF Users
  <1>4. (NsInv /\ KeyInv /\ FreshInv /\ TreeInv)'
    BY <1>1, <1>3 DEF IInv, NsInv, KeyInv, FreshInv, TreeInv
  <1>5. (PtrInv /\ OwnerInv /\ NoLeak)'
    BY <1>1 DEF IInv, PtrInv, OwnerInv, NoLeak
  <1>6. QED
    BY <1>2, <1>4, <1>5 DEF IInv

LEMMA NextInv == IInv /\ [Next]_vars => IInv'
  <1> SUFFICES ASSUME IInv, [Next]_vars PROVE IInv'
    OBVIOUS
  <1>1. CASE \E t \in Threads, n \in Names : LockCall(t, n)
    BY <1>1, LockCallInv
  <1>2. CASE \E t \in Threads : Step(t)
    BY <1>2, LockNsInv, InsertInv, AcquireInv, UnlockCallInv, FindInv, ReleaseInv, DropInv
       DEF Step
  <1>3. CASE Close \/ DestroyNamespace
    BY <1>3, PhaseInv
  <1>4. CASE UNCHANGED vars
    <2>1. \A n : Users(n)' = Users(n)
      BY <1>4 DEF Users, vars
    <2>2. QED
      BY <1>4, <2>1 DEF vars, IInv, TypeOK, NsInv, KeyInv, FreshInv, TreeInv, PtrInv, OwnerInv, NoLeak
  <1>5. QED
    BY <1>1, <1>2, <1>3, <1>4 DEF Next

-----------------------------------------------------------------------------
\* The inductive invariant holds in every reachable state.
THEOREM Invariance == Spec => []IInv
  BY InitInv, NextInv, PTL DEF Spec

\* nref never becomes negative and every local pointer is NULL or an address.
THEOREM TypeCorrect == Spec => []TypeOK
  BY Invariance, PTL DEF IInv

\* No two threads are ever between lock and unlock of the same name.
THEOREM Exclusion == Spec => []MutualExclusion
  <1>1. IInv => MutualExclusion
    <2> SUFFICES ASSUME IInv, NEW t \in Threads, NEW u \in Threads,
                        pc[t] \in HolderPcs, pc[u] \in HolderPcs, key[t] = key[u]
                 PROVE  t = u
      BY DEF MutualExclusion
    <2>1. key[t] \in Names /\ t \in Users(key[t])
      BY DEF IInv, KeyInv, Users, RefPcs, HolderPcs
    <2>2. tree[key[t]] # NoObj
      BY <2>1 DEF IInv, TreeInv
    <2>3. mutex[tree[key[t]]] = t /\ mutex[tree[key[t]]] = u
      BY <2>1, <2>2 DEF IInv, OwnerInv
    <2>4. QED
      BY <2>3
  <1>2. QED
    BY <1>1, Invariance, PTL

\* Every pointer used outside ns->mutex is to an allocated object, the one the
\* tree has for the name.
THEOREM MemorySafety == Spec => []NoUseAfterFree
  <1>1. IInv => NoUseAfterFree
    <2> SUFFICES ASSUME IInv, NEW t \in Threads, pc[t] \in RefPcs
                 PROVE  tree[key[t]] \in live
      BY DEF NoUseAfterFree, IInv, PtrInv, RefPcs, HolderPcs
    <2>1. key[t] \in Names /\ t \in Users(key[t])
      BY DEF IInv, KeyInv, Users, RefPcs, HolderPcs
    <2>2. QED
      BY <2>1 DEF IInv, TreeInv
  <1>2. QED
    BY <1>1, Invariance, PTL

\* The assertion of named_mutex_destroy_namespace cannot fail.
THEOREM Quiescence == Spec => []QuiescentEmpty
  <1>1. IInv => QuiescentEmpty
    <2> SUFFICES ASSUME IInv, \A t \in Threads : pc[t] = "idle"
                 PROVE  live = {} /\ \A n \in Names : tree[n] = NoObj
      BY DEF QuiescentEmpty
    <2>1. \A n \in Names : tree[n] = NoObj
      BY DEF IInv, TreeInv, Users, RefPcs, HolderPcs
    <2>2. live = {}
      BY <2>1, NoObjAssumption DEF IInv, NoLeak, FreshPcs, TypeOK
    <2>3. QED
      BY <2>1, <2>2
  <1>2. QED
    BY <1>1, Invariance, PTL

\* The assertion of named_mutex_destroy cannot fail, and no mutex is destroyed
\* while it is locked.
THEOREM SafeDestruction == Spec => DestroyUnreferenced
  <1>1. ASSUME IInv, [Next]_vars, NEW o \in live \ live'
        PROVE  nref'[o] = 0 /\ mutex[o] = NoThread
    <2>1. PICK t \in Threads : Insert(t) \/ Drop(t)
      BY <1>1 DEF Next, Step, LockCall, LockNs, Acquire, UnlockCall, Find, Release,
                  Close, DestroyNamespace, vars
    <2>2. CASE Insert(t)
      <3>1. o = nmtx[t] /\ tree[key[t]] # NoObj /\ key[t] \in Names
        BY <1>1, <2>2 DEF Insert, OldItem, IInv, KeyInv
      <3>2. nref[o] = 0 /\ mutex[o] = NoThread /\ tree[key[t]] # o
        BY <1>1, <2>2, <3>1 DEF Insert, IInv, FreshInv, FreshPcs
      <3>3. QED
        BY <1>1, <2>2, <3>1, <3>2 DEF Insert, OldItem, IInv, TypeOK
    <2>3. CASE Drop(t)
      <3>1. o = nmtx[t] /\ nref[o] = 1 /\ key[t] \in Names
        BY <1>1, <2>3 DEF Drop, LastRef, IInv, KeyInv
      <3>2. tree[key[t]] = o /\ t \in Users(key[t]) /\ o # NoObj
        BY <1>1, <2>3, <3>1, NoObjAssumption
           DEF Drop, IInv, PtrInv, Users, RefPcs, TypeOK
      <3>3. \A u \in Threads : mutex[o] # u
        <4> SUFFICES ASSUME NEW u \in Threads, mutex[o] = u PROVE FALSE
          OBVIOUS
        <4>1. pc[u] \in HolderPcs /\ key[u] = key[t]
          BY <1>1, <3>1, <3>2 DEF IInv, OwnerInv
        <4>2. u \in Users(key[t]) /\ u # t
          BY <2>3, <4>1 DEF Users, RefPcs, HolderPcs, Drop
        <4>3. Cardinality(Users(key[t])) = 1
          BY <1>1, <3>1, <3>2 DEF IInv, TreeInv
        <4>4. QED
          BY <3>2, <4>2, <4>3, OneUser
      <3>4. QED
        BY <1>1, <2>3, <3>1, <3>3 DEF Drop, IInv, TypeOK
    <2>4. QED
      BY <2>1, <2>2, <2>3
  <1>2. IInv /\ [Next]_vars => [\A o \in live \ live' : nref'[o] = 0 /\ mutex[o] = NoThread]_vars
    BY <1>1
  <1>3. QED
    BY <1>2, Invariance, PTL DEF Spec, DestroyUnreferenced

-----------------------------------------------------------------------------
(* Refinement.  W and H are the mapped variables of KeyLock.               *)

W == [t \in Threads |-> IF pc[t] \in LockPcs THEN key[t] ELSE NoName]
H == [t \in Threads |-> IF pc[t] \in HolderPcs THEN key[t] ELSE NoName]

LEMMA InitRefines == Init => KL!Init
  BY DEF Init, KL!Init, LockPcs, HolderPcs

\* A step that moves one thread within the same part of its calls, or that
\* only touches the namespace, changes nothing a client can see.
LEMMA Invisible ==
  ASSUME NEW t \in Threads, TypeOK, key' = key, phase' = phase,
         NEW p, pc' = [pc EXCEPT ![t] = p],
         p \in LockPcs <=> pc[t] \in LockPcs,
         p \in HolderPcs <=> pc[t] \in HolderPcs
  PROVE  UNCHANGED KL!absVars
  <1>1. \A u \in Threads : /\ pc'[u] \in LockPcs <=> pc[u] \in LockPcs
                           /\ pc'[u] \in HolderPcs <=> pc[u] \in HolderPcs
    BY DEF TypeOK
  <1>2. QED
    BY <1>1 DEF KL!absVars

LEMMA NextRefines ==
  ASSUME IInv, [Next]_vars
  PROVE  [KL!Next]_(KL!absVars)
  <1> USE DEF IInv
  <1>1. ASSUME NEW t \in Threads, NEW n \in Names, LockCall(t, n)
        PROVE  KL!Request(t, n)
    <2>1. phase # "destroyed" /\ phase' = phase /\ W[t] = NoName /\ H[t] = NoName
      BY <1>1 DEF LockCall, LockPcs, HolderPcs, W, H
    <2>2. W' = [W EXCEPT ![t] = n] /\ H' = H
      BY <1>1 DEF LockCall, TypeOK, LockPcs, HolderPcs, W, H
    <2>3. QED
      BY <2>1, <2>2 DEF KL!Request, KL!Idle, W, H
  <1>2. ASSUME NEW t \in Threads, Acquire(t)
        PROVE  KL!Grant(t)
    <2>1. key[t] \in Names /\ t \in Users(key[t]) /\ nmtx[t] = tree[key[t]]
      BY <1>2 DEF Acquire, KeyInv, PtrInv, Users, RefPcs
    <2>2. tree[key[t]] # NoObj /\ mutex[tree[key[t]]] = NoThread
      BY <1>2, <2>1 DEF Acquire, TreeInv
    <2>3. \A u \in Threads : H[u] # key[t]
      BY <2>1, <2>2, ThreadsAssumption, NamesAssumption DEF OwnerInv, H
    <2>4. W[t] = key[t] /\ key[t] # NoName
      BY <1>2, <2>1, NamesAssumption DEF Acquire, LockPcs, W
    <2>5. W' = [W EXCEPT ![t] = NoName] /\ H' = [H EXCEPT ![t] = W[t]]
      BY <1>2, <2>4 DEF Acquire, TypeOK, LockPcs, HolderPcs, W, H
    <2>6. phase' = phase
      BY <1>2 DEF Acquire
    <2>7. QED
      BY <2>3, <2>4, <2>5, <2>6 DEF KL!Grant, W, H
  <1>3. ASSUME NEW t \in Threads, Release(t)
        PROVE  KL!Release(t)
    <2>1. H[t] # NoName /\ phase' = phase
      BY <1>3, NamesAssumption DEF Release, KeyInv, HolderPcs, H
    <2>2. H' = [H EXCEPT ![t] = NoName] /\ W' = W
      BY <1>3 DEF Release, TypeOK, LockPcs, HolderPcs, W, H
    <2>3. QED
      BY <2>1, <2>2 DEF KL!Release, W, H
  <1>4. ASSUME NEW t \in Threads, LockNs(t) \/ Insert(t) \/ UnlockCall(t)
        PROVE  UNCHANGED KL!absVars
    <2>1. CASE LockNs(t)
      BY <2>1, Invisible DEF LockNs, AfterNsLock, LockPcs, HolderPcs
    <2>2. CASE Insert(t)
      BY <2>2, Invisible DEF Insert, LockPcs, HolderPcs
    <2>3. CASE UnlockCall(t)
      BY <2>3, Invisible DEF UnlockCall, LockPcs, HolderPcs
    <2>4. QED
      BY <1>4, <2>1, <2>2, <2>3
  <1>5. ASSUME NEW t \in Threads, Find(t)
        PROVE  UNCHANGED KL!absVars
    <2>1. key[t] \in Names /\ t \in Users(key[t])
      BY <1>5 DEF Find, KeyInv, Users, RefPcs, HolderPcs
    <2>2. AfterFind(tree[key[t]]) = "release"
      BY <2>1 DEF TreeInv, AfterFind
    <2>3. QED
      BY <1>5, <2>2, Invisible DEF Find, LockPcs, HolderPcs
  <1>6. ASSUME NEW t \in Threads, Drop(t)
        PROVE  UNCHANGED KL!absVars
    <2>1. W' = W /\ H' = H /\ phase' = phase
      BY <1>6 DEF Drop, TypeOK, LockPcs, HolderPcs, W, H
    <2>2. QED
      BY <2>1 DEF KL!absVars, W, H
  <1>7. ASSUME DestroyNamespace
        PROVE  KL!Destroy
    <2>1. W' = W /\ H' = H /\ phase # "destroyed" /\ phase' = "destroyed"
      BY <1>7 DEF DestroyNamespace, W, H
    <2>2. \A t \in Threads : W[t] = NoName /\ H[t] = NoName
      BY <1>7 DEF DestroyNamespace, LockPcs, HolderPcs, W, H
    <2>3. QED
      BY <2>1, <2>2 DEF KL!Destroy, KL!Idle, W, H
  <1>8. ASSUME Close \/ UNCHANGED vars
        PROVE  UNCHANGED KL!absVars
    BY <1>8 DEF Close, vars, KL!absVars
  <1>9. QED
    BY <1>1, <1>2, <1>3, <1>4, <1>5, <1>6, <1>7, <1>8 DEF Next, Step, KL!Next

\* A namespace of named mutexes behaves as one independent lock per name.
THEOREM Refinement == Spec => ImplementsKeyLock
  BY InitRefines, NextRefines, Invariance, PTL DEF Spec, ImplementsKeyLock, KL!Spec
=============================================================================
