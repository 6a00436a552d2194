------------------------------ MODULE CacheMap ------------------------------
(***************************************************************************)
(* What a cache promises to lib/io.c: a map from keys to the value that    *)
(* was last put there.  Entries may be lost at any time unless they were   *)
(* put there to be kept; a value that is gone never comes back and never   *)
(* turns into another one.                                                 *)
(***************************************************************************)
CONSTANTS Clients, Keys, Values, NoValue

VARIABLES
  map,    \* map[k]: what a reader of k gets, NoValue if nothing
  kept,   \* the keys whose entry does not expire
  put     \* put[c]: the entry that c is about to put, NoPut if none

absVars == <<map, kept, put>>

NoPut == [forever |-> FALSE]
Puts == [key : Keys, value : Values, forever : BOOLEAN]

Init ==
  /\ map = [k \in Keys |-> NoValue]
  /\ kept = {}
  /\ put = [c \in Clients |-> NoPut]

Begin(c, p) ==
  /\ put[c] = NoPut
  /\ put' = [put EXCEPT ![c] = p]
  /\ UNCHANGED <<map, kept>>

\* The entry takes effect, with v in its place if it has expired meanwhile.
End(c, v) ==
  /\ put[c] # NoPut
  /\ v = put[c].value \/ (v = NoValue /\ ~put[c].forever)
  /\ map' = [map EXCEPT ![put[c].key] = v]
  /\ kept' = IF put[c].forever THEN kept \cup {put[c].key} ELSE kept \ {put[c].key}
  /\ put' = [put EXCEPT ![c] = NoPut]

\* An update that fails may lose the entry it was to replace.
Fail(c) ==
  /\ put[c] # NoPut
  /\ map' = [map EXCEPT ![put[c].key] = NoValue]
  /\ kept' = kept \ {put[c].key}
  /\ put' = [put EXCEPT ![c] = NoPut]

\* Any number of entries expire at once.
Lose(S) ==
  /\ S \cap kept = {}
  /\ map' = [k \in Keys |-> IF k \in S THEN NoValue ELSE map[k]]
  /\ UNCHANGED <<kept, put>>

\* A client removes entries.
Remove(S) ==
  /\ map' = [k \in Keys |-> IF k \in S THEN NoValue ELSE map[k]]
  /\ kept' = kept \ S
  /\ UNCHANGED put

Next ==
  \/ \E c \in Clients :
       \/ \E p \in Puts : Begin(c, p)
       \/ \E v \in Values \cup {NoValue} : End(c, v)
       \/ Fail(c)
  \/ \E S \in SUBSET Keys : Lose(S)
  \/ \E k \in Keys : Remove({k})
  \/ Remove(Keys)

Spec == Init /\ [][Next]_absVars
=============================================================================
