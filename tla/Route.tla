------------------------------- MODULE Route -------------------------------
(***************************************************************************)
(* lib/route.c: the list of storages, searched from its head for the first *)
(* one with a prefix that matches the key, and how propd.c takes it down.  *)
(*                                                                         *)
(* The list is protected by a read-write lock.  A match leaves a reference *)
(* (item->nref) behind, under which the caller uses the storage after the  *)
(* lock is released; route_deref gives it back with an atomic decrement    *)
(* and no lock, also in the middle of an unregister.                       *)
(*                                                                         *)
(* Workers are the threads of the pool: each serves an I/O request         *)
(* (match, use, deref) or a control request (register, unregister) at a    *)
(* time.  Main is propd's main thread.                                     *)
(***************************************************************************)
EXTENDS Integers, Sequences, FiniteSets, Functions

CONSTANTS
  Workers,
  Main,
  Items,        \* the addresses of route items
  NoItem,       \* NULL
  Names,        \* the names of storages
  Prefixes,     \* the prefixes storages are registered with
  Keys,
  Matching      \* the pairs <<prefix, key>> that prefix_match accepts

Threads == Workers \cup {Main}

ASSUME ThreadAssumption == IsFiniteSet(Workers) /\ Main \notin Workers
ASSUME ItemAssumption == NoItem \notin Items
ASSUME MatchingAssumption == Matching \subseteq Prefixes \X Keys

VARIABLES
  pc,
  readers, writer,   \* route->rwlock: who holds it (writer: at most one)
  list,              \* route->list, from the head
  live,              \* the items that are allocated
  name, prefix,      \* name[i], prefix[i]: of the item at address i
  nref,              \* nref[i]: item->nref
  item,              \* item[t]: the item t matched, or is unregistering
  all,               \* all[t]: route_unregister was called with NULL
  main               \* "up", "clear", "join", "destroy", "done"

table == <<list, live, name, prefix>>
vars == <<pc, readers, writer, table, nref, item, all, main>>

\* "idle"; "match" and "use" (a storage operation is in progress);
\* "register"; "find", "remove" of unregister.  "x.lock": waits for the lock.
\* "gone": the thread was cancelled and has ended.
PCs == {"idle", "match.lock", "match", "use", "register.lock", "register",
        "find.lock", "find", "remove", "gone"}

Init ==
  /\ pc = [t \in Threads |-> "idle"]
  /\ readers = {} /\ writer = {}
  /\ list = <<>>
  /\ live = {}
  /\ name \in [Items -> Names]      \* whatever is in memory before an
  /\ prefix = [i \in Items |-> {}]  \* item is created
  /\ nref = [i \in Items |-> 0]
  /\ item = [t \in Threads |-> NoItem]
  /\ all = [t \in Threads |-> FALSE]
  /\ main = "up"

-----------------------------------------------------------------------------
(* A worker takes a request.  Requests keep coming on open connections,    *)
(* and queued control requests are still started, until the worker is      *)
(* cancelled.  An unregister request with an empty name means everything.  *)
Call(w, p, everything) ==
  /\ pc[w] = "idle"
  /\ everything => p = "find.lock"
  /\ pc' = [pc EXCEPT ![w] = p]
  /\ all' = [all EXCEPT ![w] = everything]
  /\ UNCHANGED <<readers, writer, table, nref, item, main>>

RdLock(w) ==
  /\ pc[w] = "match.lock"
  /\ writer = {}
  /\ readers' = readers \cup {w}
  /\ pc' = [pc EXCEPT ![w] = "match"]
  /\ UNCHANGED <<writer, table, nref, item, all, main>>

WrLocked == [p \in {"register.lock", "find.lock"} |->
  IF p = "find.lock" THEN "find" ELSE "register"]

WrLock(t) ==
  /\ pc[t] \in {"register.lock", "find.lock"}
  /\ readers = {} /\ writer = {}
  /\ writer' = {t}
  /\ pc' = [pc EXCEPT ![t] = WrLocked[pc[t]]]
  /\ UNCHANGED <<readers, table, nref, item, all, main>>

-----------------------------------------------------------------------------
(* route_match *)

Accepts(i, k) == \E p \in prefix[i] : <<p, k>> \in Matching

\* Positions of the list that match, and the first of them.
Hits(k) == {j \in 1 .. Len(list) : Accepts(list[j], k)}
First(S) == CHOOSE j \in S : \A l \in S : j <= l

Mut_Referenced(i) == nref
Referenced(i) == [nref EXCEPT ![i] = @ + 1]

Match(w, k) ==
  /\ pc[w] = "match"
  /\ readers' = readers \ {w}
  /\ IF Hits(k) = {}
       THEN /\ pc' = [pc EXCEPT ![w] = "idle"]   \* ENOENT
            /\ UNCHANGED <<nref, item>>
       ELSE LET i == list[First(Hits(k))] IN
            /\ nref' = Referenced(i)
            /\ item' = [item EXCEPT ![w] = i]
            /\ pc' = [pc EXCEPT ![w] = "use"]
  /\ UNCHANGED <<writer, table, all, main>>

\* route_deref, from the cleanup handler of lib/io.c.
Deref(w) ==
  /\ pc[w] = "use"
  /\ nref' = [nref EXCEPT ![item[w]] = @ - 1]
  /\ item' = [item EXCEPT ![w] = NoItem]
  /\ pc' = [pc EXCEPT ![w] = "idle"]
  /\ UNCHANGED <<readers, writer, table, all, main>>

-----------------------------------------------------------------------------
(* route_register: EEXIST, ENOMEM (nothing happens then), or a new head *)

Mut_Occupied(n) == FALSE
Occupied(n) == \E i \in Range(list) : name[i] = n

Register(w, n, ps) ==
  /\ pc[w] = "register"
  /\ IF Occupied(n)
       THEN UNCHANGED <<table, nref>>
       ELSE \E i \in Items \ live :
              /\ live' = live \cup {i}
              /\ list' = <<i>> \o list
              /\ name' = [name EXCEPT ![i] = n]
              /\ prefix' = [prefix EXCEPT ![i] = ps]
              /\ nref' = [nref EXCEPT ![i] = 0]
  /\ writer' = {}
  /\ pc' = [pc EXCEPT ![w] = "idle"]
  /\ UNCHANGED <<readers, item, all, main>>

-----------------------------------------------------------------------------
(* route_unregister by name, or of everything until the first error *)

\* ENOENT, EBUSY or the end of the list: unlock and return.
Return(t) ==
  /\ writer' = {}
  /\ item' = [item EXCEPT ![t] = NoItem]
  /\ pc' = [pc EXCEPT ![t] = "idle"]

\* The loop over the names and the load of nref.
Mut_Busy(i) == FALSE
Busy(i) == nref[i] # 0

Named(t, n) == {i \in Range(list) : IF all[t] THEN i = Head(list) ELSE name[i] = n}

Find(t, n) ==
  /\ pc[t] = "find"
  /\ IF \E i \in Named(t, n) : ~Busy(i)
       THEN /\ item' = [item EXCEPT ![t] = CHOOSE i \in Named(t, n) : TRUE]
            /\ pc' = [pc EXCEPT ![t] = "remove"]
            /\ UNCHANGED writer
       ELSE Return(t)
  /\ UNCHANGED <<readers, table, nref, all, main>>

\* LIST_REMOVE and route_item_destroy, after nref was read.
Unlinked(j) == [l \in 1 .. Len(list) - 1 |-> IF l < j THEN list[l] ELSE list[l + 1]]

Remove(t) ==
  /\ pc[t] = "remove"
  /\ \E j \in 1 .. Len(list) : list[j] = item[t] /\ list' = Unlinked(j)
  /\ live' = live \ {item[t]}
  /\ IF all[t] /\ list' # <<>>
       THEN /\ item' = [item EXCEPT ![t] = NoItem]
            /\ pc' = [pc EXCEPT ![t] = "find"]
            /\ UNCHANGED writer
       ELSE Return(t)
  /\ UNCHANGED <<readers, name, prefix, nref, all, main>>

-----------------------------------------------------------------------------
(* Shutdown: route_unregister(NULL), then thread_pool_destroy, then        *)
(* route_destroy.  The workers are cancelled between the last two.         *)

MainClear ==
  /\ main = "up"
  /\ main' = "clear"
  /\ all' = [all EXCEPT ![Main] = TRUE]
  /\ pc' = [pc EXCEPT ![Main] = "find.lock"]
  /\ UNCHANGED <<readers, writer, table, nref, item>>

MainCancel ==
  /\ main = "clear"
  /\ pc[Main] = "idle"
  /\ main' = "join"
  /\ UNCHANGED <<pc, readers, writer, table, nref, item, all>>

\* A worker ends where it blocks: between requests, or in a storage operation,
\* where the handler of lib/io.c drops the reference.
Cancel(w) ==
  /\ main = "join"
  /\ pc[w] \in {"idle", "use"}
  /\ nref' = IF pc[w] = "use" THEN [nref EXCEPT ![item[w]] = @ - 1] ELSE nref
  /\ item' = [item EXCEPT ![w] = NoItem]
  /\ pc' = [pc EXCEPT ![w] = "gone"]
  /\ UNCHANGED <<readers, writer, table, all, main>>

MainJoin ==
  /\ main = "join"
  /\ \A w \in Workers : pc[w] = "gone"
  /\ main' = "destroy"
  /\ UNCHANGED <<pc, readers, writer, table, nref, item, all>>

\* route_destroy stops the process at its assertion if the list is not empty.
MainDestroy ==
  /\ main = "destroy"
  /\ list = <<>>
  /\ main' = "done"
  /\ UNCHANGED <<pc, readers, writer, table, nref, item, all>>

Next ==
  \/ \E w \in Workers :
       \/ \E p \in {"match.lock", "register.lock", "find.lock"}, b \in BOOLEAN : Call(w, p, b)
       \/ RdLock(w)
       \/ \E k \in Keys : Match(w, k)
       \/ Deref(w)
       \/ \E n \in Names, ps \in SUBSET Prefixes : Register(w, n, ps)
       \/ Cancel(w)
  \/ \E t \in Threads : WrLock(t) \/ (\E n \in Names : Find(t, n)) \/ Remove(t)
  \/ MainClear \/ MainCancel \/ MainJoin \/ MainDestroy

Spec == Init /\ [][Next]_vars

-----------------------------------------------------------------------------
TypeOK ==
  /\ pc \in [Threads -> PCs]
  /\ readers \subseteq Threads /\ writer \subseteq Threads
  /\ list \in Seq(Items)
  /\ live \subseteq Items
  /\ name \in [Items -> Names]
  /\ prefix \in [Items -> SUBSET Prefixes]
  /\ nref \in [Items -> Nat]
  /\ item \in [Threads -> Items \cup {NoItem}]
  /\ all \in [Threads -> BOOLEAN]
  /\ main \in {"up", "clear", "join", "destroy", "done"}

\* A storage is never destroyed under the request that uses it, although the
\* reference is taken under the lock, the counter is read under the lock and
\* the reference is dropped without it.
NoUseAfterFree ==
  \A t \in Threads : pc[t] \in {"use", "remove"} => item[t] \in live

\* The counter is the number of requests that use the storage: an idle storage
\* can always be unregistered and a busy one never.
CountsUsers ==
  \A i \in live : nref[i] = Cardinality({t \in Threads : pc[t] = "use" /\ item[t] = i})

\* The list has exactly the allocated items, each once, under distinct names:
\* nothing leaks and unregister by name is unambiguous.
ListIsTable ==
  /\ Range(list) = live
  /\ \A j, l \in 1 .. Len(list) : name[list[j]] = name[list[l]] => j = l

\* assert(LIST_EMPTY(&route->list)) of route_destroy.
EmptyAtDestroy == main = "destroy" => list = <<>>
=============================================================================
