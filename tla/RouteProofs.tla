---------------------------- MODULE RouteProofs ----------------------------
(***************************************************************************)
(* The safety of the route for any finite number of workers, any items,    *)
(* names and prefixes.  That a storage is not destroyed in use depends on  *)
(* nref being exact, on the lock that keeps new references away between    *)
(* the load of nref and the removal, and on the list having each item once *)
(* -- otherwise what is unlinked is not what is freed.                     *)
(***************************************************************************)
EXTENDS Route, FiniteSetTheorems, SequenceTheorems, NaturalsInduction, TLAPS

\* The requests that hold a reference to item i.
Users(i) == {t \in Threads : pc[t] = "use" /\ item[t] = i}

WriterPcs == {"register", "find", "remove"}

\* The lock is held exactly in its sections, by one writer or by readers.
LockInv ==
  /\ \A t \in Threads : t \in readers <=> pc[t] = "match"
  /\ \A t \in Threads : t \in writer <=> pc[t] \in WriterPcs
  /\ \A t, u \in writer : t = u
  /\ writer # {} => readers = {}

\* A local pointer is to an allocated item; the one about to be removed has
\* no users.
ItemInv ==
  \A t \in Threads :
    /\ pc[t] \in {"use", "remove"} => item[t] \in live
    /\ pc[t] = "remove" => Users(item[t]) = {}

\* The main thread does nothing with the route before the shutdown.
MainInv == main = "up" => pc[Main] = "idle"

IInv ==
  /\ TypeOK
  /\ LockInv
  /\ ItemInv
  /\ CountsUsers
  /\ ListIsTable
  /\ MainInv

-----------------------------------------------------------------------------
(* Users *)

LEMMA ThreadsFinite == IsFiniteSet(Threads)
  BY ThreadAssumption, FS_AddElement DEF Threads

LEMMA UsersFinite ==
  ASSUME NEW i PROVE IsFiniteSet(Users(i))
  BY ThreadsFinite, FS_Subset DEF Users

LEMMA CountedUsers ==
  ASSUME CountsUsers, NEW i \in live
  PROVE  nref[i] = Cardinality(Users(i))
  BY DEF CountsUsers, Users

\* An item whose counter is zero is not in use.
LEMMA NoUsers ==
  ASSUME CountsUsers, NEW i \in live, nref[i] = 0
  PROVE  Users(i) = {}
  BY CountedUsers, UsersFinite, FS_EmptySet

-----------------------------------------------------------------------------
(* The list *)

\* A function on 1 .. n is a sequence of length n.
LEMMA IsSeq ==
  ASSUME NEW S, NEW n \in Nat, NEW f \in [1 .. n -> S]
  PROVE  f \in Seq(S) /\ Len(f) = n /\ DOMAIN f = 1 .. n
  <1>1. f \in Seq(S)
    BY SeqDef
  <1>2. Len(f) \in Nat /\ DOMAIN f = 1 .. Len(f) /\ DOMAIN f = 1 .. n
    BY <1>1, LenProperties
  <1>3. QED
    BY <1>1, <1>2

LEMMA RangeOfList ==
  ASSUME NEW S, NEW s \in Seq(S)
  PROVE  /\ Len(s) \in Nat
         /\ \A x : x \in Range(s) <=> \E j \in 1 .. Len(s) : s[j] = x
         /\ \A j \in 1 .. Len(s) : s[j] \in S
  BY LenProperties DEF Range

\* Names are distinct, so an item is in the list once.
LEMMA Distinct ==
  ASSUME TypeOK, ListIsTable, NEW j \in 1 .. Len(list), NEW l \in 1 .. Len(list),
         list[j] = list[l]
  PROVE  j = l
  BY DEF ListIsTable

\* What is in a list with a new head.
LEMMA Prepended ==
  ASSUME NEW S, NEW s \in Seq(S), NEW x \in S
  PROVE  /\ <<x>> \o s \in Seq(S)
         /\ Len(<<x>> \o s) = Len(s) + 1
         /\ (<<x>> \o s)[1] = x
         /\ \A j \in 1 .. Len(s) : (<<x>> \o s)[j + 1] = s[j]
         /\ Range(<<x>> \o s) = Range(s) \cup {x}
  <1>1. <<x>> \in Seq(S) /\ Len(<<x>>) = 1 /\ <<x>>[1] = x /\ Len(s) \in Nat
    BY LenProperties
  <1>2. /\ <<x>> \o s \in Seq(S)
        /\ Len(<<x>> \o s) = Len(s) + 1
        /\ \A i \in 1 .. Len(s) + 1 : (<<x>> \o s)[i] = IF i <= 1 THEN <<x>>[i] ELSE s[i - 1]
    BY <1>1, ConcatProperties
  <1>3. (<<x>> \o s)[1] = x /\ \A j \in 1 .. Len(s) : (<<x>> \o s)[j + 1] = s[j]
    BY <1>1, <1>2
  <1>4. ASSUME NEW y
        PROVE  y \in Range(<<x>> \o s) <=> y \in Range(s) \cup {x}
    <2>1. y \in Range(<<x>> \o s) <=> \E j \in 1 .. Len(s) + 1 : (<<x>> \o s)[j] = y
      BY <1>2, RangeOfList
    <2>2. y \in Range(s) <=> \E j \in 1 .. Len(s) : s[j] = y
      BY RangeOfList
    <2>3. ASSUME NEW j \in 1 .. Len(s) + 1, (<<x>> \o s)[j] = y
          PROVE  y = x \/ \E l \in 1 .. Len(s) : s[l] = y
      <3>1. j = 1 \/ j - 1 \in 1 .. Len(s)
        BY <1>1
      <3>2. QED
        BY <2>3, <3>1, <1>1, <1>2
    <2>4. ASSUME NEW l \in 1 .. Len(s), s[l] = y
          PROVE  \E j \in 1 .. Len(s) + 1 : (<<x>> \o s)[j] = y
      <3>1. l + 1 \in 1 .. Len(s) + 1
        BY <1>1
      <3>2. QED
        BY <2>4, <3>1, <1>3
    <2>5. 1 \in 1 .. Len(s) + 1
      BY <1>1
    <2>6. QED
      BY <2>1, <2>2, <2>3, <2>4, <2>5, <1>3
  <1>5. QED
    BY <1>2, <1>3, <1>4

\* LIST_REMOVE takes one position out and leaves the others in their order.
LEMMA UnlinkedList ==
  ASSUME TypeOK, NEW j \in 1 .. Len(list)
  PROVE  /\ Unlinked(j) \in Seq(Items)
         /\ Len(Unlinked(j)) = Len(list) - 1
         /\ \A l \in 1 .. Len(list) - 1 :
              Unlinked(j)[l] = IF l < j THEN list[l] ELSE list[l + 1]
  <1>1. Len(list) \in Nat /\ \A l \in 1 .. Len(list) : list[l] \in Items
    BY LenProperties DEF TypeOK
  <1>2. Unlinked(j) \in [1 .. Len(list) - 1 -> Items]
    BY <1>1 DEF Unlinked
  <1>3. Len(list) - 1 \in Nat
    BY <1>1
  <1>4. QED
    BY <1>2, <1>3, IsSeq DEF Unlinked

LEMMA UnlinkedTable ==
  ASSUME TypeOK, ListIsTable, NEW j \in 1 .. Len(list)
  PROVE  /\ Range(Unlinked(j)) = live \ {list[j]}
         /\ \A l, m \in 1 .. Len(Unlinked(j)) :
              name[Unlinked(j)[l]] = name[Unlinked(j)[m]] => l = m
  <1> DEFINE u == Unlinked(j)
  <1>1. /\ Len(list) \in Nat /\ u \in Seq(Items) /\ Len(u) = Len(list) - 1
        /\ \A l \in 1 .. Len(list) - 1 : u[l] = IF l < j THEN list[l] ELSE list[l + 1]
    BY UnlinkedList, LenProperties DEF TypeOK
  <1> HIDE DEF u
  <1>2. ASSUME NEW x
        PROVE  x \in Range(u) <=> x \in live /\ x # list[j]
    <2>1. x \in Range(u) <=> \E l \in 1 .. Len(u) : u[l] = x
      BY <1>1, RangeOfList
    <2>2. x \in live <=> \E l \in 1 .. Len(list) : list[l] = x
      BY RangeOfList DEF TypeOK, ListIsTable
    <2>3. ASSUME NEW l \in 1 .. Len(u), u[l] = x
          PROVE  x \in live /\ x # list[j]
      <3>1. CASE l < j
        <4>1. l \in 1 .. Len(list) /\ list[l] = x /\ l # j
          BY <1>1, <2>3, <3>1
        <4>2. QED
          BY <4>1, <2>2, Distinct
      <3>2. CASE ~(l < j)
        <4>1. l + 1 \in 1 .. Len(list) /\ list[l + 1] = x /\ l + 1 # j
          BY <1>1, <2>3, <3>2
        <4>2. QED
          BY <4>1, <2>2, Distinct
      <3>3. QED
        BY <3>1, <3>2
    <2>4. ASSUME NEW l \in 1 .. Len(list), list[l] = x, x # list[j]
          PROVE  \E m \in 1 .. Len(u) : u[m] = x
      <3>1. CASE l < j
        <4>1. l \in 1 .. Len(u) /\ u[l] = x
          BY <1>1, <2>4, <3>1
        <4>2. QED
          BY <4>1
      <3>2. CASE l > j
        <4>1. l - 1 \in 1 .. Len(u) /\ u[l - 1] = list[(l - 1) + 1] /\ (l - 1) + 1 = l
          BY <1>1, <3>2
        <4>2. QED
          BY <4>1, <2>4
      <3>3. QED
        BY <2>4, <3>1, <3>2, <1>1
    <2>5. QED
      BY <2>1, <2>2, <2>3, <2>4
  <1>3. ASSUME NEW l \in 1 .. Len(u), NEW m \in 1 .. Len(u), name[u[l]] = name[u[m]]
        PROVE  l = m
    <2> DEFINE at(x) == IF x < j THEN x ELSE x + 1
    <2>1. /\ u[l] = list[at(l)] /\ at(l) \in 1 .. Len(list)
          /\ u[m] = list[at(m)] /\ at(m) \in 1 .. Len(list)
      BY <1>1
    <2>2. at(l) = at(m)
      BY <2>1, <1>3 DEF ListIsTable
    <2>3. QED
      BY <2>2, <1>1
  <1>4. QED
    BY <1>2, <1>3 DEF u

\* A set of positions that is not empty has a first one.
LEMMA LeastHit ==
  ASSUME NEW S, S \subseteq Nat, S # {}
  PROVE  \E j \in S : \A l \in S : j <= l
  <1>1. PICK n \in S : \A m \in S : ~(<<m, n>> \in OpToRel(<, Nat))
    BY NatLessThanWellFounded, WFMin
  <1>2. ASSUME NEW m \in S, m < n PROVE FALSE
    <2>1. <<m, n>> \in Nat \X Nat /\ <<m, n>>[1] < <<m, n>>[2]
      BY <1>2
    <2>2. QED
      BY <2>1, <1>1, <1>2 DEF OpToRel
  <1>3. \A l \in S : n <= l
    BY <1>2
  <1>4. QED
    BY <1>3

-----------------------------------------------------------------------------
(* Initial states, and one lemma per action *)

LEMMA InitInv == Init => IInv
  <1> SUFFICES ASSUME Init PROVE IInv
    OBVIOUS
  <1>1. TypeOK
    BY EmptySeq DEF Init, TypeOK, PCs
  <1>2. LockInv /\ ItemInv /\ CountsUsers /\ MainInv
    BY DEF Init, LockInv, ItemInv, CountsUsers, MainInv, WriterPcs, Threads
  <1>3. Len(list) = 0 /\ Range(list) = {}
    BY <1>1, RangeOfList, EmptySeq DEF Init, TypeOK
  <1>4. ListIsTable
    BY <1>3 DEF Init, ListIsTable
  <1>5. QED
    BY <1>1, <1>2, <1>4 DEF IInv

\* A step that moves a thread among the places where it has neither the lock
\* nor an item, or the main thread.
LEMMA CallInv ==
  ASSUME IInv, NEW w \in Workers, NEW p \in {"match.lock", "register.lock", "find.lock"},
         NEW b \in BOOLEAN, Call(w, p, b)
  PROVE  IInv'
  <1> USE DEF IInv, Call, table
  <1>1. TypeOK'
    BY DEF TypeOK, PCs, Threads
  <1>2. LockInv'
    BY DEF TypeOK, LockInv, WriterPcs, Threads
  <1>3. \A i : Users(i)' = Users(i)
    BY DEF TypeOK, Users, Threads
  <1>4. ItemInv'
    BY <1>3 DEF TypeOK, ItemInv, Threads
  <1>5. CountsUsers'
    BY <1>3 DEF CountsUsers, Users
  <1>6. ListIsTable' /\ MainInv'
    BY ThreadAssumption DEF ListIsTable, MainInv, TypeOK, Threads
  <1>7. QED
    BY <1>1, <1>2, <1>4, <1>5, <1>6

LEMMA RdLockInv ==
  ASSUME IInv, NEW w \in Workers, RdLock(w)
  PROVE  IInv'
  <1> USE DEF IInv, RdLock, table
  <1>1. TypeOK'
    BY DEF TypeOK, PCs, Threads
  <1>2. LockInv'
    BY DEF TypeOK, LockInv, WriterPcs, Threads
  <1>3. \A i : Users(i)' = Users(i)
    BY DEF TypeOK, Users, Threads
  <1>4. ItemInv'
    BY <1>3 DEF TypeOK, ItemInv, Threads
  <1>5. CountsUsers'
    BY <1>3 DEF CountsUsers, Users
  <1>6. ListIsTable' /\ MainInv'
    BY ThreadAssumption DEF ListIsTable, MainInv, TypeOK, Threads
  <1>7. QED
    BY <1>1, <1>2, <1>4, <1>5, <1>6

LEMMA WrLockInv ==
  ASSUME IInv, NEW t \in Threads, WrLock(t)
  PROVE  IInv'
  <1> USE DEF IInv, WrLock, WrLocked, table
  <1>1. TypeOK'
    BY DEF TypeOK, PCs
  <1>2. LockInv'
    BY DEF TypeOK, LockInv, WriterPcs
  <1>3. \A i : Users(i)' = Users(i)
    BY DEF TypeOK, Users
  <1>4. ItemInv'
    BY <1>3 DEF TypeOK, ItemInv
  <1>5. CountsUsers'
    BY <1>3 DEF CountsUsers, Users
  <1>6. ListIsTable' /\ MainInv'
    BY DEF ListIsTable, MainInv, TypeOK
  <1>7. QED
    BY <1>1, <1>2, <1>4, <1>5, <1>6

\* A match: the first hit is in the list, hence allocated; no writer is there,
\* so nobody is about to remove it.
LEMMA MatchInv ==
  ASSUME IInv, NEW w \in Workers, NEW k \in Keys, Match(w, k)
  PROVE  IInv'
  <1> USE DEF IInv
  <1>0. w \in Threads /\ pc[w] = "match" /\ writer = {} /\ item \in [Threads -> Items \cup {NoItem}]
    BY DEF Match, LockInv, Threads, TypeOK
  <1>1. CASE Hits(k) = {}
    <2> USE <1>1 DEF Match, table
    <2>1. TypeOK'
      BY <1>0 DEF TypeOK, PCs
    <2>2. LockInv'
      BY <1>0 DEF TypeOK, LockInv, WriterPcs
    <2>3. \A i : Users(i)' = Users(i)
      BY <1>0 DEF TypeOK, Users
    <2>4. ItemInv'
      BY <1>0, <2>3 DEF TypeOK, ItemInv
    <2>5. CountsUsers'
      BY <2>3 DEF CountsUsers, Users
    <2>6. ListIsTable' /\ MainInv'
      BY <1>0, ThreadAssumption DEF ListIsTable, MainInv, TypeOK, Threads
    <2>7. QED
      BY <2>1, <2>2, <2>4, <2>5, <2>6
  <1>2. CASE Hits(k) # {}
    <2>1. First(Hits(k)) \in 1 .. Len(list)
      <3>1. Hits(k) \subseteq Nat /\ Hits(k) \subseteq 1 .. Len(list)
        BY RangeOfList DEF Hits, TypeOK
      <3>2. \E j \in Hits(k) : \A l \in Hits(k) : j <= l
        BY <3>1, <1>2, LeastHit
      <3>3. First(Hits(k)) \in Hits(k)
        BY <3>2 DEF First
      <3>4. QED
        BY <3>1, <3>3
    <2>2. PICK i \in live : i \in Items /\ i = list[First(Hits(k))]
      BY <2>1, RangeOfList DEF TypeOK, ListIsTable
    <2>3. /\ nref' = [nref EXCEPT ![i] = @ + 1]
          /\ item' = [item EXCEPT ![w] = i]
          /\ pc' = [pc EXCEPT ![w] = "use"]
          /\ readers' = readers \ {w}
          /\ UNCHANGED <<writer, list, live, name, prefix, all, main>>
      BY <1>2, <2>2 DEF Match, Referenced, table
    <2>4. TypeOK'
      BY <1>0, <2>2, <2>3 DEF TypeOK, PCs
    <2>5. LockInv'
      BY <1>0, <2>3 DEF TypeOK, LockInv, WriterPcs
    <2>6. w \notin Users(i) /\ Users(i)' = Users(i) \cup {w}
      <3>1. \A t \in Threads : t # w => pc'[t] = pc[t] /\ item'[t] = item[t]
        BY <1>0, <2>3 DEF TypeOK
      <3>2. pc[w] # "use" /\ pc'[w] = "use" /\ item'[w] = i
        BY <1>0, <2>3 DEF TypeOK
      <3>3. QED
        BY <1>0, <3>1, <3>2 DEF Users
    <2>7. \A x : x # i => Users(x)' = Users(x)
      BY <1>0, <2>3 DEF TypeOK, Users
    <2>8. \A t \in Threads : pc'[t] # "remove"
      BY <1>0, <2>3 DEF LockInv, WriterPcs, TypeOK
    <2>9. ItemInv'
      BY <1>0, <2>2, <2>3, <2>8 DEF TypeOK, ItemInv
    <2>10. ASSUME NEW x \in live
           PROVE  nref'[x] = Cardinality(Users(x)')
      <3>1. nref[x] = Cardinality(Users(x)) /\ x \in Items
        BY CountedUsers DEF TypeOK
      <3>2. CASE x = i
        <4>1. Cardinality(Users(i)') = Cardinality(Users(i)) + 1
          BY <2>6, UsersFinite, FS_AddElement
        <4>2. nref'[i] = nref[i] + 1
          BY <2>2, <2>3 DEF TypeOK
        <4>3. QED
          BY <3>1, <3>2, <4>1, <4>2
      <3>3. CASE x # i
        BY <2>3, <2>7, <3>1, <3>3 DEF TypeOK
      <3>4. QED
        BY <3>2, <3>3
    <2>11. CountsUsers'
      BY <2>3, <2>10 DEF CountsUsers, Users
    <2>12. ListIsTable' /\ MainInv'
      BY <1>0, <2>3, ThreadAssumption DEF ListIsTable, MainInv, TypeOK, Threads
    <2>13. QED
      BY <2>4, <2>5, <2>9, <2>11, <2>12
  <1>3. QED
    BY <1>1, <1>2

\* A worker gives its reference back, and goes on or ends.
LEMMA DropInv ==
  ASSUME IInv, NEW w \in Workers, NEW p \in {"idle", "gone"},
         pc[w] = "use",
         nref' = [nref EXCEPT ![item[w]] = @ - 1],
         item' = [item EXCEPT ![w] = NoItem],
         pc' = [pc EXCEPT ![w] = p],
         UNCHANGED <<readers, writer, table, all, main>>
  PROVE  IInv'
  <1> USE DEF IInv, table
  <1>0. w \in Threads /\ w # Main
    BY ThreadAssumption DEF Threads
  <1>1. PICK i \in live : i \in Items /\ i = item[w]
    BY <1>0 DEF ItemInv, TypeOK
  <1>2. w \in Users(i) /\ Users(i)' = Users(i) \ {w}
    <2>1. \A t \in Threads : t # w => pc'[t] = pc[t] /\ item'[t] = item[t]
      BY <1>0 DEF TypeOK
    <2>2. pc'[w] # "use"
      BY <1>0 DEF TypeOK
    <2>3. QED
      BY <1>0, <1>1, <2>1, <2>2 DEF Users
  <1>3. \A x : x # i => Users(x)' = Users(x)
    <2>1. \A t \in Threads : t # w => pc'[t] = pc[t] /\ item'[t] = item[t]
      BY <1>0 DEF TypeOK
    <2>2. pc'[w] # "use"
      BY <1>0 DEF TypeOK
    <2>3. QED
      BY <1>0, <1>1, <2>1, <2>2 DEF Users
  <1>4. nref[i] = Cardinality(Users(i)) /\ Cardinality(Users(i)') = Cardinality(Users(i)) - 1
    BY <1>1, <1>2, CountedUsers, UsersFinite, FS_RemoveElement
  <1>5. Cardinality(Users(i)) \in Nat /\ Cardinality(Users(i)') \in Nat
    <2>1. IsFiniteSet(Users(i)) /\ IsFiniteSet(Users(i) \ {w})
      BY UsersFinite, FS_RemoveElement
    <2>2. QED
      BY <1>2, <2>1, FS_CardinalityType
  <1>6. nref'[i] = nref[i] - 1 /\ nref'[i] \in Nat /\ \A x \in Items : x # i => nref'[x] = nref[x]
    BY <1>1, <1>4, <1>5 DEF TypeOK
  <1>7. TypeOK'
    <2>1. nref' \in [Items -> Nat]
      <3>1. nref' \in [Items -> Int] /\ \A x \in Items : nref'[x] \in Nat
        BY <1>1, <1>6 DEF TypeOK
      <3>2. QED
        BY <3>1
    <2>2. QED
      BY <1>0, <2>1 DEF TypeOK, PCs
  <1>8. LockInv'
    BY <1>0 DEF TypeOK, LockInv, WriterPcs
  <1>9. ItemInv'
    <2>1. ASSUME NEW t \in Threads, pc'[t] \in {"use", "remove"}
          PROVE  item'[t] \in live'
      BY <1>0, <2>1 DEF TypeOK, ItemInv
    <2>2. ASSUME NEW t \in Threads, pc'[t] = "remove"
          PROVE  Users(item[t])' = {} /\ item'[t] = item[t]
      <3>1. t # w /\ pc[t] = "remove" /\ item'[t] = item[t]
        BY <1>0, <2>2 DEF TypeOK
      <3>2. Users(item[t]) = {}
        BY <3>1 DEF ItemInv
      <3>3. PICK x : x = item[t]
        OBVIOUS
      <3>4. x # i /\ Users(x) = {} /\ x = item'[t]
        BY <1>2, <3>1, <3>2, <3>3
      <3>5. Users(x)' = {}
        BY <1>3, <3>4
      <3>6. QED
        BY <3>1, <3>3, <3>4, <3>5
    <2>3. QED
      BY <2>1, <2>2 DEF ItemInv
  <1>10. ASSUME NEW x \in live
         PROVE  nref'[x] = Cardinality(Users(x)')
    <2>1. nref[x] = Cardinality(Users(x)) /\ x \in Items
      BY CountedUsers DEF TypeOK
    <2>2. CASE x = i
      BY <1>4, <1>6, <2>2
    <2>3. CASE x # i
      BY <1>3, <1>6, <2>1, <2>3
    <2>4. QED
      BY <2>2, <2>3
  <1>11. CountsUsers'
    BY <1>10 DEF CountsUsers, Users
  <1>12. ListIsTable' /\ MainInv'
    BY <1>0 DEF ListIsTable, MainInv, TypeOK, Threads
  <1>13. QED
    BY <1>7, <1>8, <1>9, <1>11, <1>12

LEMMA DerefInv ==
  ASSUME IInv, NEW w \in Workers, Deref(w)
  PROVE  IInv'
  BY DropInv DEF Deref

LEMMA CancelInv ==
  ASSUME IInv, NEW w \in Workers, Cancel(w)
  PROVE  IInv'
  <1>1. CASE pc[w] = "use"
    BY <1>1, DropInv DEF Cancel
  <1>2. CASE pc[w] = "idle"
    <2> USE DEF IInv, Cancel, table
    <2>0. /\ w \in Threads /\ nref' = nref
          /\ \A t \in Threads : t # w => pc'[t] = pc[t] /\ item'[t] = item[t]
          /\ pc'[w] = "gone"
      BY <1>2 DEF Threads, TypeOK
    <2>1. TypeOK'
      BY <2>0 DEF TypeOK, PCs
    <2>2. LockInv'
      BY <1>2, <2>0 DEF TypeOK, LockInv, WriterPcs
    <2>3. \A i : Users(i)' = Users(i)
      BY <1>2, <2>0 DEF Users
    <2>4. ItemInv'
      BY <2>0, <2>3 DEF TypeOK, ItemInv
    <2>5. CountsUsers'
      BY <2>0, <2>3 DEF CountsUsers, Users
    <2>6. ListIsTable' /\ MainInv'
      BY ThreadAssumption, <2>0 DEF ListIsTable, MainInv, TypeOK, Threads
    <2>7. QED
      BY <2>1, <2>2, <2>4, <2>5, <2>6
  <1>3. QED
    BY <1>1, <1>2 DEF Cancel

\* A step of the main thread that touches neither list nor items.
LEMMA MainInvStep ==
  ASSUME IInv, MainClear \/ MainCancel \/ MainJoin \/ MainDestroy
  PROVE  IInv'
  <1> USE DEF IInv, table, MainClear, MainCancel, MainJoin, MainDestroy
  <1>0. /\ Main \in Threads
        /\ \A t \in Threads : t # Main => pc'[t] = pc[t]
        /\ pc'[Main] = pc[Main] \/ (pc[Main] = "idle" /\ pc'[Main] = "find.lock")
        /\ UNCHANGED <<readers, writer, list, live, name, prefix, nref, item>>
        /\ main' # "up"
    BY DEF Threads, TypeOK, MainInv
  <1>1. TypeOK'
    BY <1>0 DEF TypeOK, PCs
  <1>2. LockInv'
    BY <1>0 DEF LockInv, WriterPcs
  <1>3. \A i : Users(i)' = Users(i)
    BY <1>0 DEF Users
  <1>4. ItemInv'
    BY <1>0, <1>3 DEF ItemInv
  <1>5. CountsUsers'
    <2>1. \A x \in live : nref'[x] = Cardinality(Users(x)')
      BY <1>0, <1>3, CountedUsers
    <2>2. QED
      BY <1>0, <2>1 DEF CountsUsers, Users
  <1>6. ListIsTable' /\ MainInv'
    BY <1>0 DEF ListIsTable, MainInv
  <1>7. QED
    BY <1>1, <1>2, <1>4, <1>5, <1>6

\* A registration: the new item is at an address that nobody refers to, under
\* a name that is not in the list.
LEMMA RegisterInv ==
  ASSUME IInv, NEW w \in Workers, NEW n \in Names, NEW ps \in SUBSET Prefixes,
         Register(w, n, ps)
  PROVE  IInv'
  <1> USE DEF IInv
  <1>0. /\ w \in Threads /\ w # Main /\ pc[w] = "register" /\ w \in writer
        /\ writer' = {} /\ pc' = [pc EXCEPT ![w] = "idle"]
        /\ UNCHANGED <<readers, item, all, main>>
    BY ThreadAssumption DEF Register, LockInv, WriterPcs, Threads
  <1>1. /\ \A t \in Threads : t # w => pc'[t] = pc[t] /\ pc[t] \notin WriterPcs
        /\ pc'[w] = "idle" /\ item' = item
    BY <1>0 DEF LockInv, TypeOK
  <1>2. \A x : Users(x)' = Users(x)
    BY <1>0, <1>1 DEF Users
  <1>3. LockInv' /\ MainInv'
    <2>1. LockInv'
      BY <1>0, <1>1 DEF LockInv, WriterPcs
    <2>2. MainInv'
      BY <1>0, <1>1 DEF MainInv, Threads
    <2>3. QED
      BY <2>1, <2>2
  <1>4. CASE Occupied(n)
    <2>0. UNCHANGED <<list, live, name, prefix, nref>>
      BY <1>4 DEF Register, table
    <2>1. TypeOK'
      BY <1>0, <2>0 DEF TypeOK, PCs
    <2>2. ItemInv'
      BY <1>0, <1>1, <1>2, <2>0 DEF ItemInv, WriterPcs
    <2>3. CountsUsers'
      <3>1. \A x \in live : nref'[x] = Cardinality(Users(x)')
        BY <2>0, <1>2, CountedUsers
      <3>2. QED
        BY <2>0, <3>1 DEF CountsUsers, Users
    <2>4. ListIsTable'
      BY <2>0 DEF ListIsTable
    <2>5. QED
      BY <2>1, <2>2, <2>3, <2>4, <1>3
  <1>5. CASE ~Occupied(n)
    <2>0. PICK i \in Items \ live :
            /\ live' = live \cup {i}
            /\ list' = <<i>> \o list
            /\ name' = [name EXCEPT ![i] = n]
            /\ prefix' = [prefix EXCEPT ![i] = ps]
            /\ nref' = [nref EXCEPT ![i] = 0]
      BY <1>5 DEF Register
    <2>1. /\ list' \in Seq(Items)
          /\ Len(list) \in Nat /\ Len(list') = Len(list) + 1
          /\ list'[1] = i
          /\ \A j \in 1 .. Len(list) : list'[j + 1] = list[j]
          /\ Range(list') = Range(list) \cup {i}
      BY <2>0, Prepended, LenProperties DEF TypeOK
    <2>2. TypeOK'
      BY <1>0, <2>0, <2>1 DEF TypeOK, PCs
    <2>3. ItemInv'
      BY <1>0, <1>1, <1>2, <2>0 DEF ItemInv, WriterPcs
    <2>4. Users(i) = {}
      BY <2>0 DEF Users, ItemInv
    <2>5. CountsUsers'
      <3>1. \A x \in live : nref'[x] = Cardinality(Users(x)')
        <4>1. \A x \in live : nref'[x] = nref[x]
          BY <2>0 DEF TypeOK
        <4>2. QED
          BY <4>1, <1>2, CountedUsers
      <3>2. nref'[i] = Cardinality(Users(i)')
        <4>1. nref'[i] = 0
          BY <2>0 DEF TypeOK
        <4>2. Users(i)' = {}
          BY <1>2, <2>4
        <4>3. QED
          BY <4>1, <4>2, FS_EmptySet
      <3>3. QED
        BY <2>0, <3>1, <3>2 DEF CountsUsers, Users
    <2>6. ListIsTable'
      <3>1. \A j \in 1 .. Len(list) : list[j] \in live /\ name[list[j]] # n
        BY <1>5, RangeOfList DEF ListIsTable, Occupied, TypeOK
      <3>2. name'[i] = n /\ \A j \in 1 .. Len(list) : name'[list[j]] = name[list[j]]
        BY <3>1, <2>0 DEF TypeOK
      <3>3. ASSUME NEW j \in 1 .. Len(list'), NEW l \in 1 .. Len(list'),
                   name'[list'[j]] = name'[list'[l]]
            PROVE  j = l
        <4>1. /\ j # 1 => j - 1 \in 1 .. Len(list) /\ list'[j] = list[j - 1]
              /\ l # 1 => l - 1 \in 1 .. Len(list) /\ list'[l] = list[l - 1]
          <5>1. j # 1 => j - 1 \in 1 .. Len(list) /\ (j - 1) + 1 = j
            BY <2>1
          <5>2. l # 1 => l - 1 \in 1 .. Len(list) /\ (l - 1) + 1 = l
            BY <2>1
          <5>3. QED
            BY <5>1, <5>2, <2>1
        <4>2. CASE j = 1 /\ l # 1
          BY <4>1, <4>2, <3>1, <3>2, <3>3, <2>1
        <4>3. CASE l = 1 /\ j # 1
          <5>1. name'[list[j - 1]] = n /\ j - 1 \in 1 .. Len(list)
            BY <4>1, <4>3, <3>2, <3>3, <2>1
          <5>2. QED
            BY <5>1, <3>1, <3>2
        <4>4. CASE j # 1 /\ l # 1
          <5>1. name[list[j - 1]] = name[list[l - 1]]
            BY <4>1, <4>4, <3>2, <3>3
          <5>2. j - 1 = l - 1
            BY <5>1, <4>1, <4>4 DEF ListIsTable
          <5>3. QED
            BY <5>2, <2>1
        <4>5. QED
          BY <4>2, <4>3, <4>4
      <3>4. Range(list') = live'
        BY <2>0, <2>1 DEF ListIsTable
      <3>5. QED
        BY <3>3, <3>4 DEF ListIsTable
    <2>7. QED
      BY <2>2, <2>3, <2>5, <2>6, <1>3
  <1>6. QED
    BY <1>4, <1>5

\* At most one item of the list is meant by an unregister.
LEMMA OneNamed ==
  ASSUME IInv, NEW t \in Threads, NEW n, NEW i \in Named(t, n), NEW x \in Named(t, n)
  PROVE  i = x
  <1>1. CASE all[t]
    BY <1>1 DEF Named
  <1>2. CASE ~all[t]
    <2>1. i \in Range(list) /\ x \in Range(list) /\ name[i] = name[x]
      BY <1>2 DEF Named
    <2>2. PICK j \in 1 .. Len(list), l \in 1 .. Len(list) : list[j] = i /\ list[l] = x
      BY <2>1, RangeOfList DEF IInv, TypeOK
    <2>3. QED
      BY <2>1, <2>2 DEF IInv, ListIsTable
  <1>3. QED
    BY <1>1, <1>2

LEMMA FindInv ==
  ASSUME IInv, NEW t \in Threads, NEW n \in Names, Find(t, n)
  PROVE  IInv'
  <1> USE DEF IInv
  <1>0. /\ pc[t] = "find" /\ t \in writer /\ readers = {}
        /\ UNCHANGED <<readers, list, live, name, prefix, nref, all, main>>
        /\ \A u \in Threads : u # t => pc[u] \notin WriterPcs
    BY DEF Find, LockInv, WriterPcs, table
  <1>1. PICK i \in Items \cup {NoItem}, p \in {"remove", "idle"} :
          /\ item' = [item EXCEPT ![t] = i]
          /\ pc' = [pc EXCEPT ![t] = p]
          /\ p = "remove" => i \in live /\ nref[i] = 0 /\ writer' = writer
          /\ p = "idle" => writer' = {}
    <2>1. CASE \E i \in Named(t, n) : ~Busy(i)
      <3>1. PICK i \in Named(t, n) : ~Busy(i)
        BY <2>1
      <3>2. i = CHOOSE x \in Named(t, n) : TRUE
        BY OneNamed
      <3>3. i \in live /\ i \in Items
        BY DEF Named, ListIsTable, TypeOK
      <3>4. /\ item' = [item EXCEPT ![t] = i]
            /\ pc' = [pc EXCEPT ![t] = "remove"]
            /\ writer' = writer
        BY <2>1, <3>2 DEF Find
      <3>5. QED
        BY <3>1, <3>3, <3>4 DEF Busy
    <2>2. CASE ~ \E i \in Named(t, n) : ~Busy(i)
      BY <2>2 DEF Find, Return
    <2>3. QED
      BY <2>1, <2>2
  <1>2. /\ pc'[t] = p /\ item'[t] = i
        /\ \A u \in Threads : u # t => pc'[u] = pc[u] /\ item'[u] = item[u]
    BY <1>1 DEF TypeOK
  <1>3. TypeOK'
    BY <1>0, <1>1 DEF TypeOK, PCs
  <1>4. LockInv'
    <2>1. CASE p = "remove"
      BY <1>0, <1>1, <1>2, <2>1 DEF LockInv, WriterPcs
    <2>2. CASE p = "idle"
      BY <1>0, <1>1, <1>2, <2>2 DEF LockInv, WriterPcs
    <2>3. QED
      BY <2>1, <2>2
  <1>5. \A x : Users(x)' = Users(x)
    BY <1>0, <1>1, <1>2 DEF Users
  <1>6. ItemInv'
    <2>1. p = "remove" => Users(i) = {}
      BY <1>1, NoUsers
    <2>2. Users(i)' = Users(i) 
      BY <1>5
    <2>3. \A u \in Threads : u # t => pc'[u] # "remove"
      BY <1>0, <1>2 DEF WriterPcs
    <2>4. \A u \in Threads : pc'[u] \in {"use", "remove"} => item'[u] \in live'
      BY <1>0, <1>1, <1>2, <2>3 DEF ItemInv
    <2>5. \A u \in Threads : pc'[u] = "remove" => Users(item[u])' = {}
      BY <1>2, <2>1, <2>2, <2>3
    <2>6. QED
      BY <2>4, <2>5 DEF ItemInv
  <1>7. CountsUsers'
    <2>1. \A x \in live : nref'[x] = Cardinality(Users(x)')
      BY <1>0, <1>5, CountedUsers
    <2>2. QED
      BY <1>0, <2>1 DEF CountsUsers, Users
  <1>8. ListIsTable' /\ MainInv'
    BY <1>0, <1>2 DEF ListIsTable, MainInv, Threads
  <1>9. QED
    BY <1>3, <1>4, <1>6, <1>7, <1>8

\* A removal: what is unlinked is what is freed, and it has no users.
LEMMA RemoveInv ==
  ASSUME IInv, NEW t \in Threads, Remove(t)
  PROVE  IInv'
  <1> USE DEF IInv
  <1>0. /\ pc[t] = "remove" /\ t \in writer /\ readers = {}
        /\ UNCHANGED <<readers, name, prefix, nref, all, main>>
        /\ \A u \in Threads : u # t => pc[u] \notin WriterPcs
    BY DEF Remove, LockInv, WriterPcs
  <1>1. PICK i \in live : i \in Items /\ i = item[t] /\ Users(i) = {}
    BY <1>0 DEF ItemInv, TypeOK
  <1>2. PICK j \in 1 .. Len(list) : list[j] = i /\ list' = Unlinked(j)
    BY <1>1 DEF Remove
  <1>3. live' = live \ {i}
    BY <1>1 DEF Remove
  <1>4. PICK p \in {"find", "idle"} :
          /\ item' = [item EXCEPT ![t] = NoItem]
          /\ pc' = [pc EXCEPT ![t] = p]
          /\ p = "find" => writer' = writer
          /\ p = "idle" => writer' = {}
    BY DEF Remove, Return
  <1>5. /\ pc'[t] = p
        /\ \A u \in Threads : u # t => pc'[u] = pc[u] /\ item'[u] = item[u]
    BY <1>4 DEF TypeOK
  <1>6. TypeOK'
    <2>1. list' \in Seq(Items)
      BY <1>2, UnlinkedList
    <2>2. QED
      BY <1>0, <1>3, <1>4, <2>1 DEF TypeOK, PCs
  <1>7. LockInv'
    <2>1. CASE p = "find"
      BY <1>0, <1>4, <1>5, <2>1 DEF LockInv, WriterPcs
    <2>2. CASE p = "idle"
      BY <1>0, <1>4, <1>5, <2>2 DEF LockInv, WriterPcs
    <2>3. QED
      BY <2>1, <2>2
  <1>8. \A x : Users(x)' = Users(x)
    BY <1>0, <1>4, <1>5 DEF Users
  <1>9. ItemInv'
    <2>1. \A u \in Threads : pc'[u] # "remove"
      BY <1>0, <1>5 DEF WriterPcs
    <2>2. ASSUME NEW u \in Threads, pc'[u] = "use"
          PROVE  item'[u] \in live'
      <3>1. u # t /\ pc[u] = "use" /\ item'[u] = item[u]
        BY <1>5, <2>2
      <3>2. item[u] \in live /\ u \in Users(item[u])
        BY <3>1 DEF ItemInv, Users
      <3>3. QED
        BY <3>1, <3>2, <1>1, <1>3
    <2>3. QED
      BY <2>1, <2>2 DEF ItemInv
  <1>10. CountsUsers'
    <2>1. \A x \in live : nref'[x] = Cardinality(Users(x)')
      BY <1>0, <1>8, CountedUsers
    <2>2. QED
      BY <1>3, <2>1 DEF CountsUsers, Users
  <1>11. ListIsTable'
    BY <1>0, <1>2, <1>3, UnlinkedTable DEF ListIsTable
  <1>12. MainInv'
    BY <1>0, <1>5 DEF MainInv, Threads
  <1>13. QED
    BY <1>6, <1>7, <1>9, <1>10, <1>11, <1>12

LEMMA NextInv == IInv /\ [Next]_vars => IInv'
  <1> SUFFICES ASSUME IInv, [Next]_vars PROVE IInv'
    OBVIOUS
  <1>1. CASE Next
    BY <1>1, CallInv, RdLockInv, MatchInv, DerefInv, RegisterInv, CancelInv, WrLockInv,
       FindInv, RemoveInv, MainInvStep DEF Next
  <1>2. CASE UNCHANGED vars
    <2>1. UNCHANGED <<pc, readers, writer, list, live, name, prefix, nref, item, all, main>>
      BY <1>2 DEF vars, table
    <2>2. \A x : Users(x)' = Users(x)
      BY <2>1 DEF Users
    <2>3. TypeOK' /\ LockInv' /\ ListIsTable' /\ MainInv'
      BY <2>1 DEF IInv, TypeOK, LockInv, ListIsTable, MainInv
    <2>4. ItemInv'
      BY <2>1, <2>2 DEF IInv, ItemInv
    <2>5. CountsUsers'
      BY <2>1 DEF IInv, CountsUsers
    <2>6. QED
      BY <2>3, <2>4, <2>5 DEF IInv
  <1>3. QED
    BY <1>1, <1>2

-----------------------------------------------------------------------------
(* The theorems *)

\* The inductive invariant holds in every state of route_match, route_deref,
\* route_register, route_unregister and the shutdown.
THEOREM Invariance == Spec => []IInv
  BY InitInv, NextInv, PTL DEF Spec

\* The counters stay natural numbers although route_deref decrements them
\* without the lock, and the list only ever has addresses of items.
THEOREM TypeCorrect == Spec => []TypeOK
  BY Invariance, PTL DEF IInv

\* route_unregister never frees a storage that a request still uses, nor one
\* that somebody else has freed.
THEOREM ReferencesSafe == Spec => []NoUseAfterFree
  <1>1. IInv => NoUseAfterFree
    BY DEF IInv, ItemInv, NoUseAfterFree
  <1>2. QED
    BY <1>1, Invariance, PTL

\* item->nref is the number of requests between route_match and route_deref.
THEOREM CountExact == Spec => []CountsUsers
  BY Invariance, PTL DEF IInv

\* The list has each allocated item once, and no two under the same name.
THEOREM TableExact == Spec => []ListIsTable
  BY Invariance, PTL DEF IInv
=============================================================================
