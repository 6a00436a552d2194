------------------------------- MODULE Cache -------------------------------
(***************************************************************************)
(* lib/cache.c: a tree of values that expire, and the cleaner thread that  *)
(* removes expired ones when it is noticed or when it has been idle for    *)
(* max_interval.                                                           *)
(*                                                                         *)
(* What get, set, del and the sweep do under the read-write lock is one    *)
(* step.  cache_set creates its item, with the time stamp of a new entry,  *)
(* before it takes the lock.  Time is counted in ticks; a tick does not    *)
(* pass while the cleaner is due, that is, waiting for the processor and   *)
(* for the lock takes less than a tick.  Entries expire by the monotonic   *)
(* clock; the cleaner's wait ends by the wall clock, which can be set.     *)
(***************************************************************************)
EXTENDS Integers, FiniteSets

CONSTANTS
  Clients,           \* the threads that use the cache
  Keys, Values, NoValue,
  NoItem,
  Inf,               \* DURATION_INF
  Durations,         \* what callers pass to cache_set
  MinInterval, MaxInterval, DefaultDuration, MinDuration,
  Boot,              \* the monotonic clock when the cache is created
  Walls,             \* what the wall clock may be set to
  MemFails,          \* whether allocations may fail
  MaxTime, MaxNotices, MaxBack   \* bounds on the clock, the semaphore and back

ASSUME ClockAssumption ==
  /\ {MinInterval, MaxInterval, DefaultDuration, MinDuration, Boot, MaxTime, MaxNotices, MaxBack}
       \subseteq Nat
  /\ MaxInterval > 0
  /\ Inf \notin Nat
  /\ Durations \subseteq Nat \cup {Inf}
  /\ Walls \subseteq Int
ASSUME MemAssumption == MemFails \in BOOLEAN
ASSUME ValueAssumption == NoValue \notin Values

VARIABLES
  now,         \* CLOCK_MONOTONIC
  wall,        \* CLOCK_REALTIME
  back,        \* how far it was set back since the last sweep
  tree,        \* cache->tree: a map from keys to items
  new,         \* new[c]: the item cache_set has created, with its key
  notices,     \* the value of the semaphore clean_notice
  cleaner,     \* "wait" (sem_timedwait), "sweep" (wants the lock), "gone"
  deadline,    \* of the sem_timedwait, by the wall clock
  last,        \* the cleaner's local variable
  state        \* "up", "destroyed", or how the process was ruined

vars == <<now, wall, back, tree, new, notices, cleaner, deadline, last, state>>

Init ==
  /\ now = Boot
  /\ wall = 0 /\ back = 0
  /\ tree = [k \in Keys |-> NoItem]
  /\ new = [c \in Clients |-> NoItem]
  /\ notices = 0
  /\ cleaner = "wait"
  /\ deadline = wall + MaxInterval
  /\ last = 0
  /\ state = "up"

\* duration_is_outdate
Outdated(it) == it.duration # Inf /\ it.modified + it.duration <= now

-----------------------------------------------------------------------------
(* cache_get.  A hit changes nothing; an expired item notices the cleaner; *)
(* copying a missing value is a crash.                                     *)

Get(c, k) ==
  /\ state = "up"
  /\ new[c] = NoItem
  /\ tree[k] # NoItem
  /\ \/ /\ Outdated(tree[k])
        /\ notices < MaxNotices
        /\ notices' = notices + 1
        /\ UNCHANGED state
     \/ /\ ~Outdated(tree[k])
        /\ tree[k].value = NoValue
        /\ state' = "nullcopy"
        /\ UNCHANGED notices
  /\ UNCHANGED <<now, wall, back, tree, new, cleaner, deadline, last>>

-----------------------------------------------------------------------------
(* cache_set *)

\* 0 stands for the default; anything else is raised to the minimum.
Clamp(d) ==
  CASE d = Inf -> Inf
    [] d = 0 -> DefaultDuration
    [] OTHER -> IF d < MinDuration THEN MinDuration ELSE d

\* item_create
SetCreate(c, k, v, d) ==
  /\ state = "up"
  /\ new[c] = NoItem
  /\ new' = [new EXCEPT ![c] =
               [key |-> k, value |-> v, modified |-> now, duration |-> Clamp(d)]]
  /\ UNCHANGED <<now, wall, back, tree, notices, cleaner, deadline, last, state>>

\* When strdup fails, item_create frees the uninitialised item->value: the
\* call returns ENOMEM with nothing changed, or the process is in ruins.
SetCreateFails(c) ==
  /\ state = "up"
  /\ MemFails
  /\ new[c] = NoItem
  /\ state' = "badfree"
  /\ UNCHANGED <<now, wall, back, tree, new, notices, cleaner, deadline, last>>

\* RB_INSERT, or an update of the item that is there.
Mut_Stored(it) ==
  [value |-> IF tree[it.key] = NoItem THEN it.value ELSE tree[it.key].value,
   modified |-> IF tree[it.key] = NoItem THEN it.modified ELSE now,
   duration |-> it.duration]
Stored(it) ==
  [value |-> it.value,
   modified |-> IF tree[it.key] = NoItem THEN it.modified ELSE now,
   duration |-> it.duration]

SetInsert(c) ==
  /\ state = "up"
  /\ new[c] # NoItem
  /\ tree' = [tree EXCEPT ![new[c].key] = Stored(new[c])]
  /\ new' = [new EXCEPT ![c] = NoItem]
  /\ UNCHANGED <<now, wall, back, notices, cleaner, deadline, last, state>>

\* The update has freed the old value and cannot copy the new one.
SetUpdateFails(c) ==
  /\ state = "up"
  /\ MemFails
  /\ new[c] # NoItem
  /\ tree[new[c].key] # NoItem
  /\ tree' = [tree EXCEPT ![new[c].key].value = NoValue]
  /\ new' = [new EXCEPT ![c] = NoItem]
  /\ UNCHANGED <<now, wall, back, notices, cleaner, deadline, last, state>>

\* cache_del; ENOENT changes nothing.
Del(c, k) ==
  /\ state = "up"
  /\ new[c] = NoItem
  /\ tree[k] # NoItem
  /\ tree' = [tree EXCEPT ![k] = NoItem]
  /\ UNCHANGED <<now, wall, back, new, notices, cleaner, deadline, last, state>>

-----------------------------------------------------------------------------
(* cache_cleaner *)

\* sem_timedwait takes a notice.  It is ignored too soon after the last sweep,
\* and waiting starts again with a new deadline.
Mut_TooSoon == notices > 0
TooSoon == now - last < MinInterval

Notice ==
  /\ state = "up"
  /\ cleaner = "wait"
  /\ notices > 0
  /\ notices' = notices - 1
  /\ IF TooSoon
       THEN deadline' = wall + MaxInterval /\ UNCHANGED cleaner
       ELSE cleaner' = "sweep" /\ UNCHANGED deadline
  /\ UNCHANGED <<now, wall, back, tree, new, last, state>>

Timeout ==
  /\ state = "up"
  /\ cleaner = "wait"
  /\ notices = 0
  /\ wall >= deadline
  /\ cleaner' = "sweep"
  /\ UNCHANGED <<now, wall, back, tree, new, notices, deadline, last, state>>

\* A signal handler ran in the cleaner's thread: EINTR is taken for a timeout.
Interrupt ==
  /\ state = "up"
  /\ cleaner = "wait"
  /\ cleaner' = "sweep"
  /\ UNCHANGED <<now, wall, back, tree, new, notices, deadline, last, state>>

Sweep ==
  /\ state = "up"
  /\ cleaner = "sweep"
  /\ last' = now
  /\ tree' = [k \in Keys |->
                IF tree[k] # NoItem /\ Outdated(tree[k]) THEN NoItem ELSE tree[k]]
  /\ cleaner' = "wait"
  /\ deadline' = wall + MaxInterval
  /\ back' = 0
  /\ UNCHANGED <<now, wall, new, notices, state>>

\* cache_destroy, when the clients are gone: the cleaner is cancelled in
\* sem_timedwait and every item is freed.
Destroy ==
  /\ state = "up"
  /\ \A c \in Clients : new[c] = NoItem
  /\ cleaner = "wait"
  /\ cleaner' = "gone"
  /\ tree' = [k \in Keys |-> NoItem]
  /\ state' = "destroyed"
  /\ UNCHANGED <<now, wall, back, new, notices, deadline, last>>

Tick ==
  /\ state = "up"
  /\ now < MaxTime
  /\ cleaner = "wait" /\ notices = 0 /\ wall < deadline
  /\ now' = now + 1
  /\ wall' = wall + 1
  /\ UNCHANGED <<back, tree, new, notices, cleaner, deadline, last, state>>

\* Somebody sets the wall clock.
SetClock(w) ==
  /\ state = "up"
  /\ wall' = w
  /\ back' = IF w < wall THEN back + (wall - w) ELSE back
  /\ back' <= MaxBack
  /\ UNCHANGED <<now, tree, new, notices, cleaner, deadline, last, state>>

Next ==
  \/ \E c \in Clients, k \in Keys : Get(c, k) \/ Del(c, k)
  \/ \E c \in Clients, k \in Keys, v \in Values, d \in Durations : SetCreate(c, k, v, d)
  \/ \E c \in Clients : SetCreateFails(c) \/ SetInsert(c) \/ SetUpdateFails(c)
  \/ Notice \/ Timeout \/ Interrupt \/ Sweep
  \/ Destroy
  \/ Tick
  \/ \E w \in Walls : SetClock(w)

Spec == Init /\ [][Next]_vars

-----------------------------------------------------------------------------
Item == [value : Values \cup {NoValue}, modified : Nat, duration : Nat \cup {Inf}]
NewItem == [key : Keys, value : Values, modified : Nat, duration : Nat \cup {Inf}]

ASSUME ItemAssumption == NoItem \notin Item \cup NewItem

TypeOK ==
  /\ now \in Nat
  /\ wall \in Int /\ back \in Nat
  /\ tree \in [Keys -> Item \cup {NoItem}]
  /\ new \in [Clients -> NewItem \cup {NoItem}]
  /\ notices \in Nat
  /\ cleaner \in {"wait", "sweep", "gone"}
  /\ deadline \in Int
  /\ last \in Nat
  /\ state \in {"up", "destroyed", "nullcopy", "badfree"}

\* The cleaner never sleeps on expired entries for longer than min_interval +
\* max_interval and what the wall clock was set back in the meantime, although
\* every notice that comes too soon after a sweep restarts its timer.
Slept == now - (IF last = 0 THEN Boot ELSE last)
SweptInTime == state = "up" => Slept <= MinInterval + MaxInterval + back

\* `[min_interval, max_interval]' of cache_cleaner in the time that entries
\* expire by.
SweptByInterval == state = "up" => Slept <= MinInterval + MaxInterval

\* cache_set reports an allocation that failed as ENOMEM.
NoBadFree == state # "badfree"

\* cache_get returns a value or an errno, whatever happened to earlier sets.
NoNullCopy == state # "nullcopy"

-----------------------------------------------------------------------------
\* What a get of k would return.
Visible(k) ==
  IF tree[k] # NoItem /\ ~Outdated(tree[k]) THEN tree[k].value ELSE NoValue

Map == [k \in Keys |-> Visible(k)]
Kept == {k \in Keys : Visible(k) # NoValue /\ tree[k].duration = Inf}
Put ==
  [c \in Clients |->
     IF new[c] = NoItem
       THEN [forever |-> FALSE]
       ELSE [key |-> new[c].key, value |-> new[c].value, forever |-> new[c].duration = Inf]]

CM == INSTANCE CacheMap WITH map <- Map, kept <- Kept, put <- Put

\* Clients see a map whose entries are the last ones put, that does not lose
\* what was put with DURATION_INF, and in which nothing expired comes back:
\* an update replaces value and expiry together.
ImplementsCacheMap == CM!Spec
=============================================================================
