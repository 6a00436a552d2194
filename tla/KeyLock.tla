------------------------------ MODULE KeyLock ------------------------------
(***************************************************************************)
(* What a namespace of named mutexes promises its clients: for every name  *)
(* an independent lock, created on first use.  A thread asks for a name,   *)
(* is granted it when nobody else holds it, and releases it.  The          *)
(* namespace can be destroyed once nobody waits for or holds anything.     *)
(*                                                                         *)
(* NamedMutex implements this specification with a tree of reference       *)
(* counted mutex objects.                                                  *)
(***************************************************************************)
CONSTANTS Threads, Names, NoName

VARIABLES
  waits,   \* waits[t]: the name t has asked for and not got, or NoName
  holds,   \* holds[t]: the name t holds, or NoName
  open     \* FALSE once the namespace is destroyed

absVars == <<waits, holds, open>>

Idle(t) == waits[t] = NoName /\ holds[t] = NoName

Init ==
  /\ waits = [t \in Threads |-> NoName]
  /\ holds = [t \in Threads |-> NoName]
  /\ open = TRUE

Request(t, n) ==
  /\ open
  /\ Idle(t)
  /\ waits' = [waits EXCEPT ![t] = n]
  /\ UNCHANGED <<holds, open>>

Grant(t) ==
  /\ waits[t] # NoName
  /\ \A u \in Threads : holds[u] # waits[t]
  /\ holds' = [holds EXCEPT ![t] = waits[t]]
  /\ waits' = [waits EXCEPT ![t] = NoName]
  /\ UNCHANGED open

Release(t) ==
  /\ holds[t] # NoName
  /\ holds' = [holds EXCEPT ![t] = NoName]
  /\ UNCHANGED <<waits, open>>

Destroy ==
  /\ open
  /\ \A t \in Threads : Idle(t)
  /\ open' = FALSE
  /\ UNCHANGED <<waits, holds>>

Next ==
  \/ \E t \in Threads, n \in Names : Request(t, n)
  \/ \E t \in Threads : Grant(t) \/ Release(t)
  \/ Destroy

Spec == Init /\ [][Next]_absVars
=============================================================================
