---------------------------- MODULE CacheProofs ----------------------------
(***************************************************************************)
(* The cache for any clients, keys and values and any intervals: how long  *)
(* the cleaner may sleep, and that clients see the map of CacheMap.        *)
(***************************************************************************)
EXTENDS Cache, TLAPS

\* What is left of the cleaner's wait, by the wall clock, ends no later than
\* min_interval + max_interval after the last sweep, and as much later as the
\* wall clock was set back.
LastSweep == IF last = 0 THEN Boot ELSE last
Latest == LastSweep + MinInterval + MaxInterval + back

SleepInv ==
  /\ Boot <= now
  /\ now <= Latest
  /\ now + (deadline - wall) <= Latest

IInv == TypeOK /\ SleepInv

-----------------------------------------------------------------------------
LEMMA ItemFields ==
  ASSUME NEW it \in Item
  PROVE  /\ it # NoItem
         /\ it.value \in Values \cup {NoValue} /\ it.modified \in Nat /\ it.duration \in Nat \cup {Inf}
  BY ItemAssumption DEF Item

LEMMA NewItemFields ==
  ASSUME NEW it \in NewItem
  PROVE  /\ it # NoItem
         /\ it.key \in Keys /\ it.value \in Values /\ it.modified \in Nat /\ it.duration \in Nat \cup {Inf}
  BY ItemAssumption DEF NewItem

LEMMA ClampType ==
  ASSUME NEW d \in Durations
  PROVE  Clamp(d) \in Nat \cup {Inf}
  BY ClockAssumption DEF Clamp

\* What RB_INSERT or the update of cache_set leaves in the tree.
LEMMA StoredType ==
  ASSUME TypeOK, NEW c \in Clients, new[c] # NoItem
  PROVE  /\ new[c] \in NewItem /\ new[c].key \in Keys /\ new[c].value \in Values
         /\ Stored(new[c]) \in Item
         /\ Stored(new[c]).value = new[c].value /\ Stored(new[c]).duration = new[c].duration
  <1>1. new[c] \in NewItem
    BY DEF TypeOK
  <1>2. QED
    BY <1>1, NewItemFields DEF TypeOK, Stored, Item

LEMMA InitInv == Init => IInv
  BY ClockAssumption DEF Init, IInv, TypeOK, SleepInv, LastSweep, Latest

LEMMA TypeInv == TypeOK /\ [Next]_vars => TypeOK'
  <1> SUFFICES ASSUME TypeOK, [Next]_vars PROVE TypeOK'
    OBVIOUS
  <1> USE DEF TypeOK
  <1>1. ASSUME NEW c \in Clients, NEW k \in Keys, Get(c, k) \/ Del(c, k) PROVE TypeOK'
    BY <1>1 DEF Get, Del
  <1>2. ASSUME NEW c \in Clients, NEW k \in Keys, NEW v \in Values, NEW d \in Durations, SetCreate(c, k, v, d)
        PROVE  TypeOK'
    <2>1. [key |-> k, value |-> v, modified |-> now, duration |-> Clamp(d)] \in NewItem
      BY ClampType DEF NewItem
    <2>2. QED
      BY <1>2, <2>1 DEF SetCreate
  <1>3. ASSUME NEW c \in Clients, SetCreateFails(c) PROVE TypeOK'
    BY <1>3 DEF SetCreateFails
  <1>4. ASSUME NEW c \in Clients, SetInsert(c) PROVE TypeOK'
    BY <1>4, StoredType DEF SetInsert
  <1>5. ASSUME NEW c \in Clients, SetUpdateFails(c) PROVE TypeOK'
    <2>1. PICK k \in Keys : k = new[c].key /\ tree[k] \in Item
      BY <1>5, StoredType DEF SetUpdateFails
    <2>2. [tree[k] EXCEPT !.value = NoValue] \in Item
      BY <2>1 DEF Item
    <2>3. tree' = [tree EXCEPT ![k] = [tree[k] EXCEPT !.value = NoValue]]
      BY <1>5, <2>1 DEF SetUpdateFails
    <2>4. QED
      BY <1>5, <2>1, <2>2, <2>3 DEF SetUpdateFails
  <1>6. ASSUME Notice \/ Timeout \/ Interrupt \/ Sweep \/ Destroy \/ Tick \/ UNCHANGED vars PROVE TypeOK'
    BY <1>6, ClockAssumption DEF Notice, Timeout, Interrupt, Sweep, Destroy, Tick, vars
  <1>7. ASSUME NEW w \in Walls, SetClock(w) PROVE TypeOK'
    BY <1>7, ClockAssumption DEF SetClock
  <1>8. QED
    BY <1>1, <1>2, <1>3, <1>4, <1>5, <1>6, <1>7 DEF Next

LEMMA SleepStep == TypeOK /\ SleepInv /\ [Next]_vars => SleepInv'
  <1> SUFFICES ASSUME TypeOK, SleepInv, [Next]_vars PROVE SleepInv'
    OBVIOUS
  <1> USE ClockAssumption DEF TypeOK, SleepInv, LastSweep, Latest
  <1>1. CASE UNCHANGED <<now, wall, back, deadline, last>>
    BY <1>1
  <1>2. CASE Notice
    BY <1>2 DEF Notice, TooSoon
  <1>3. CASE Sweep
    BY <1>3 DEF Sweep
  <1>4. CASE Tick
    BY <1>4 DEF Tick
  <1>5. ASSUME NEW w \in Walls, SetClock(w) PROVE SleepInv'
    BY <1>5 DEF SetClock
  <1>6. QED
    BY <1>1, <1>2, <1>3, <1>4, <1>5 DEF Next, Get, Del, SetCreate, SetCreateFails, SetInsert, SetUpdateFails,
       Timeout, Interrupt, Destroy, vars

\* The inductive invariant holds in every state of the cache and its cleaner.
THEOREM Invariance == Spec => []IInv
  <1>1. IInv /\ [Next]_vars => IInv'
    BY TypeInv, SleepStep DEF IInv
  <1>2. QED
    BY <1>1, InitInv, PTL DEF Spec

\* cache_cleaner sweeps at least every min_interval + max_interval, however
\* many notices it takes and ignores in between; since sem_timedwait waits for
\* CLOCK_REALTIME, that is later by as much as the wall clock was set back since
\* the last sweep, and never by more.
THEOREM CleanerPunctual == Spec => []SweptInTime
  <1>1. IInv => SweptInTime
    BY ClockAssumption DEF IInv, TypeOK, SleepInv, LastSweep, Latest, SweptInTime, Slept
  <1>2. QED
    BY <1>1, Invariance, PTL
-----------------------------------------------------------------------------
(* The cache implements CacheMap. *)

MapNext == CM!Next \/ UNCHANGED CM!absVars

\* What a client is about to put.
LEMMA PutOf ==
  ASSUME TypeOK, NEW c \in Clients
  PROVE  /\ new[c] = NoItem => Put[c] = CM!NoPut
         /\ new[c] # NoItem => /\ Put[c] # CM!NoPut
                               /\ Put[c].key = new[c].key /\ Put[c].value = new[c].value
                               /\ Put[c].forever = (new[c].duration = Inf)
  BY DEF Put, CM!NoPut

\* A client has put its entry.
LEMMA PutDone ==
  ASSUME TypeOK, NEW c \in Clients, new' = [new EXCEPT ![c] = NoItem]
  PROVE  Put' = [Put EXCEPT ![c] = CM!NoPut]
  <1>1. new'[c] = NoItem /\ \A d \in Clients : d # c => new'[d] = new[d]
    BY DEF TypeOK
  <1>2. \A d \in Clients : Put'[d] = IF d = c THEN CM!NoPut ELSE Put[d]
    BY <1>1 DEF Put, CM!NoPut
  <1>3. Put = [d \in Clients |-> Put[d]] /\ Put' = [d \in Clients |-> Put'[d]]
    BY DEF Put
  <1>4. QED
    BY <1>2, <1>3

LEMMA PutSame ==
  ASSUME UNCHANGED new
  PROVE  Put' = Put
  BY DEF Put

\* Entries of the map that change in one place.
LEMMA MapExcept ==
  ASSUME NEW k \in Keys, NEW v, Visible(k)' = v,
         \A x \in Keys : x # k => Visible(x)' = Visible(x)
  PROVE  Map' = [Map EXCEPT ![k] = v]
  BY DEF Map

\* An item that stays as it is stays visible as it is, at the same time.
LEMMA VisibleSame ==
  ASSUME now' = now, NEW k, tree'[k] = tree[k]
  PROVE  Visible(k)' = Visible(k)
  BY DEF Visible, Outdated

\* A step that leaves the time and the tree alone.
LEMMA TreeSame ==
  ASSUME UNCHANGED <<now, tree>>
  PROVE  Map' = Map /\ Kept' = Kept
  <1>1. \A k \in Keys : Visible(k)' = Visible(k)
    BY VisibleSame
  <1>2. QED
    BY <1>1 DEF Map, Kept

LEMMA SetCreateMaps ==
  ASSUME TypeOK, NEW c \in Clients, NEW k \in Keys, NEW v \in Values, NEW d \in Durations,
         SetCreate(c, k, v, d)
  PROVE  MapNext
  <1>1. Map' = Map /\ Kept' = Kept
    BY TreeSame DEF SetCreate
  <1>2. PICK it \in NewItem :
          /\ it = [key |-> k, value |-> v, modified |-> now, duration |-> Clamp(d)]
          /\ it.key = k /\ it.value = v /\ it # NoItem
    <2>1. [key |-> k, value |-> v, modified |-> now, duration |-> Clamp(d)] \in NewItem
      BY ClampType DEF NewItem, TypeOK
    <2>2. QED
      BY <2>1, ItemAssumption
  <1>3. PICK p \in CM!Puts : p = [key |-> k, value |-> v, forever |-> it.duration = Inf]
    <2>1. (it.duration = Inf) \in BOOLEAN
      OBVIOUS
    <2>2. [key |-> k, value |-> v, forever |-> it.duration = Inf] \in CM!Puts
      BY <2>1 DEF CM!Puts
    <2>3. QED
      BY <2>2
  <1>4. new'[c] = it /\ \A u \in Clients : u # c => new'[u] = new[u]
    BY <1>2 DEF SetCreate, TypeOK
  <1>5. Put' = [Put EXCEPT ![c] = p]
    <2>1. \A u \in Clients : Put'[u] = IF u = c THEN p ELSE Put[u]
      BY <1>2, <1>3, <1>4 DEF Put
    <2>2. Put = [u \in Clients |-> Put[u]] /\ Put' = [u \in Clients |-> Put'[u]]
      BY DEF Put
    <2>3. QED
      BY <2>1, <2>2
  <1>6. Put[c] = CM!NoPut
    BY PutOf DEF SetCreate
  <1>7. CM!Begin(c, p)
    BY <1>1, <1>5, <1>6 DEF CM!Begin
  <1>8. QED
    BY <1>7 DEF MapNext, CM!Next

\* cache_set: value and expiry are replaced together.
LEMMA SetInsertMaps ==
  ASSUME TypeOK, NEW c \in Clients, SetInsert(c)
  PROVE  MapNext
  <1>0. new[c] # NoItem /\ now' = now /\ new' = [new EXCEPT ![c] = NoItem]
    BY DEF SetInsert
  <1>1. PICK k \in Keys, it \in Item :
          /\ k = new[c].key /\ it = Stored(new[c]) /\ it # NoItem
          /\ it.value = new[c].value /\ it.duration = new[c].duration /\ it.value \in Values
    BY <1>0, StoredType, ItemAssumption
  <1>2. tree'[k] = it /\ \A x \in Keys : x # k => tree'[x] = tree[x]
    BY <1>1 DEF SetInsert, TypeOK
  <1>3. \A x \in Keys : x # k => Visible(x)' = Visible(x)
    BY <1>0, <1>2, VisibleSame
  <1>4. PICK v \in Values \cup {NoValue} :
          /\ v = Visible(k)'
          /\ v = it.value \/ (v = NoValue /\ it.duration # Inf)
    BY <1>1, <1>2 DEF Visible, Outdated
  <1>5. Map' = [Map EXCEPT ![k] = v]
    BY <1>3, <1>4, MapExcept
  <1>6. Kept' = IF it.duration = Inf THEN Kept \cup {k} ELSE Kept \ {k}
    <2>1. ASSUME NEW x \in Keys, x # k PROVE x \in Kept' <=> x \in Kept
      BY <1>2, <1>3, <2>1 DEF Kept
    <2>2. k \in Kept' <=> it.duration = Inf
      BY <1>1, <1>2, <1>4, ValueAssumption DEF Kept
    <2>3. Kept \subseteq Keys /\ Kept' \subseteq Keys
      BY DEF Kept
    <2>4. QED
      BY <2>1, <2>2, <2>3
  <1>7. Put' = [Put EXCEPT ![c] = CM!NoPut]
    BY <1>0, PutDone
  <1>8. /\ Put[c] # CM!NoPut /\ Put[c].key = k /\ Put[c].value = it.value
        /\ Put[c].forever = (it.duration = Inf)
    BY <1>0, <1>1, PutOf
  <1>9. CM!End(c, v)
    BY <1>4, <1>5, <1>6, <1>7, <1>8 DEF CM!End
  <1>10. QED
    BY <1>9 DEF MapNext, CM!Next

\* An update that fails leaves an item without a value.
LEMMA SetUpdateFailsMaps ==
  ASSUME TypeOK, NEW c \in Clients, SetUpdateFails(c)
  PROVE  MapNext
  <1>0. new[c] # NoItem /\ now' = now /\ new' = [new EXCEPT ![c] = NoItem]
    BY DEF SetUpdateFails
  <1>1. PICK k \in Keys : k = new[c].key /\ tree[k] \in Item
    BY <1>0, StoredType DEF TypeOK, SetUpdateFails
  <1>2. /\ tree'[k] = [tree[k] EXCEPT !.value = NoValue] /\ tree'[k].value = NoValue
        /\ \A x \in Keys : x # k => tree'[x] = tree[x]
    BY <1>1 DEF SetUpdateFails, TypeOK, Item
  <1>3. \A x \in Keys : x # k => Visible(x)' = Visible(x)
    BY <1>0, <1>2, VisibleSame
  <1>4. Visible(k)' = NoValue
    BY <1>2 DEF Visible
  <1>5. Map' = [Map EXCEPT ![k] = NoValue]
    BY <1>3, <1>4, MapExcept
  <1>6. Kept' = Kept \ {k}
    BY <1>2, <1>3, <1>4 DEF Kept
  <1>7. Put' = [Put EXCEPT ![c] = CM!NoPut] /\ Put[c] # CM!NoPut /\ Put[c].key = k
    BY <1>0, <1>1, PutDone, PutOf
  <1>8. CM!Fail(c)
    BY <1>5, <1>6, <1>7 DEF CM!Fail
  <1>9. QED
    BY <1>8 DEF MapNext, CM!Next

LEMMA DelMaps ==
  ASSUME TypeOK, NEW c \in Clients, NEW k \in Keys, Del(c, k)
  PROVE  MapNext
  <1>1. now' = now /\ tree'[k] = NoItem /\ \A x \in Keys : x # k => tree'[x] = tree[x]
    BY DEF Del, TypeOK
  <1>2. \A x \in Keys : x # k => Visible(x)' = Visible(x)
    BY <1>1, VisibleSame
  <1>3. Visible(k)' = NoValue
    BY <1>1 DEF Visible
  <1>4. Map' = [x \in Keys |-> IF x \in {k} THEN NoValue ELSE Map[x]] /\ Kept' = Kept \ {k}
    BY <1>1, <1>2, <1>3 DEF Map, Kept
  <1>5. Put' = Put
    BY PutSame DEF Del
  <1>6. CM!Remove({k})
    BY <1>4, <1>5 DEF CM!Remove
  <1>7. QED
    BY <1>6 DEF MapNext, CM!Next

\* The sweep removes what nobody can see.
LEMMA SweepMaps ==
  ASSUME TypeOK, Sweep
  PROVE  MapNext
  <1>1. now' = now /\ \A k \in Keys : tree'[k] = IF tree[k] # NoItem /\ Outdated(tree[k]) THEN NoItem ELSE tree[k]
    BY DEF Sweep
  <1>2. \A k \in Keys : Visible(k)' = Visible(k)
    BY <1>1 DEF Visible, Outdated
  <1>3. \A k \in Keys : Visible(k) # NoValue => tree'[k] = tree[k]
    BY <1>1 DEF Visible
  <1>4. Map' = Map
    BY <1>2 DEF Map
  <1>5. Kept' = Kept
    BY <1>2, <1>3 DEF Kept
  <1>6. Put' = Put
    BY PutSame DEF Sweep
  <1>7. QED
    BY <1>4, <1>5, <1>6 DEF MapNext, CM!absVars

LEMMA DestroyMaps ==
  ASSUME TypeOK, Destroy
  PROVE  MapNext
  <1>1. \A k \in Keys : Visible(k)' = NoValue
    BY DEF Destroy, Visible
  <1>2. Map' = [x \in Keys |-> IF x \in Keys THEN NoValue ELSE Map[x]] /\ Kept' = Kept \ Keys
    BY <1>1 DEF Map, Kept
  <1>3. Put' = Put
    BY PutSame DEF Destroy
  <1>4. CM!Remove(Keys)
    BY <1>2, <1>3 DEF CM!Remove
  <1>5. QED
    BY <1>4 DEF MapNext, CM!Next

\* Time passes: entries expire, but none that has no expiry.
LEMMA TickMaps ==
  ASSUME TypeOK, Tick
  PROVE  MapNext
  <1>0. now \in Nat /\ now' = now + 1 /\ tree' = tree /\ new' = new
    BY DEF TypeOK, Tick
  <1>1. PICK S \in SUBSET Keys : S = {k \in Keys : tree[k] # NoItem /\ tree[k].duration # Inf
                                                 /\ tree[k].modified + tree[k].duration <= now + 1}
    OBVIOUS
  <1>2. ASSUME NEW k \in Keys PROVE Visible(k)' = IF k \in S THEN NoValue ELSE Visible(k)
    <2>1. CASE tree[k] = NoItem
      BY <1>0, <1>1, <2>1 DEF Visible
    <2>2. CASE tree[k] # NoItem
      <3>1. tree[k].modified \in Nat /\ tree[k].duration \in Nat \cup {Inf}
        BY <2>2, ItemFields DEF TypeOK
      <3>2. Outdated(tree[k])' <=> k \in S
        BY <1>0, <1>1, <2>2 DEF Outdated
      <3>3. Outdated(tree[k]) => k \in S
        BY <1>0, <1>1, <2>2, <3>1, ClockAssumption DEF Outdated
      <3>4. QED
        BY <1>0, <2>2, <3>2, <3>3 DEF Visible
    <2>3. QED
      BY <2>1, <2>2
  <1>3. S \cap Kept = {}
    BY <1>1 DEF Kept
  <1>4. Map' = [k \in Keys |-> IF k \in S THEN NoValue ELSE Map[k]]
    BY <1>2 DEF Map
  <1>5. Kept' = Kept
    <2>1. ASSUME NEW k \in Keys PROVE k \in Kept' <=> k \in Kept
      <3>1. CASE k \in S
        BY <1>0, <1>1, <1>2, <3>1 DEF Kept
      <3>2. CASE k \notin S
        BY <1>0, <1>2, <3>2 DEF Kept
      <3>3. QED
        BY <3>1, <3>2
    <2>2. QED
      BY <2>1 DEF Kept
  <1>6. Put' = Put
    BY <1>0, PutSame
  <1>7. CM!Lose(S)
    BY <1>3, <1>4, <1>5, <1>6 DEF CM!Lose
  <1>8. QED
    BY <1>7 DEF MapNext, CM!Next

LEMMA InitMaps == Init => CM!Init
  <1> SUFFICES ASSUME Init PROVE CM!Init
    OBVIOUS
  <1>1. Map = [k \in Keys |-> NoValue] /\ Kept = {}
    BY DEF Init, Map, Kept, Visible
  <1>2. Put = [c \in Clients |-> CM!NoPut]
    BY DEF Init, Put, CM!NoPut
  <1>3. QED
    BY <1>1, <1>2 DEF CM!Init

LEMMA NextMaps == TypeOK /\ [Next]_vars => MapNext
  <1> SUFFICES ASSUME TypeOK, [Next]_vars PROVE MapNext
    OBVIOUS
  <1>1. CASE UNCHANGED <<now, tree, new>>
    BY <1>1, TreeSame, PutSame DEF MapNext, CM!absVars
  <1>2. ASSUME NEW c \in Clients, NEW k \in Keys, Get(c, k) PROVE MapNext
    BY <1>1, <1>2 DEF Get
  <1>3. ASSUME NEW c \in Clients, SetCreateFails(c) PROVE MapNext
    BY <1>1, <1>3 DEF SetCreateFails
  <1>4. CASE Notice \/ Timeout \/ Interrupt \/ UNCHANGED vars
    BY <1>1, <1>4 DEF Notice, Timeout, Interrupt, vars
  <1>5. ASSUME NEW w \in Walls, SetClock(w) PROVE MapNext
    BY <1>1, <1>5 DEF SetClock
  <1>6. QED
    BY <1>2, <1>3, <1>4, <1>5, SetCreateMaps, SetInsertMaps, SetUpdateFailsMaps, DelMaps, SweepMaps,
       DestroyMaps, TickMaps DEF Next

\* What cache_get returns is what the last cache_set of the key put there or
\* nothing, DURATION_INF entries are not lost, and nothing that expired comes
\* back, although cache_set stamps its item before it takes the lock.
THEOREM Refinement == Spec => ImplementsCacheMap
  <1>1. TypeOK /\ [Next]_vars => [CM!Next]_CM!absVars
    BY NextMaps DEF MapNext
  <1>2. IInv => TypeOK
    BY DEF IInv
  <1>3. QED
    BY <1>1, <1>2, InitMaps, Invariance, PTL DEF Spec, ImplementsCacheMap, CM!Spec
============================================================================
