------------------------------ MODULE TaskPool ------------------------------
(***************************************************************************)
(* What a thread pool promises: tasks are accepted while fewer than Depth  *)
(* are pending, are started in the order they were accepted, each once and *)
(* by one worker, and a worker runs one task at a time.                    *)
(***************************************************************************)
EXTENDS Naturals, Sequences

CONSTANTS
  Workers,
  Depth,      \* how many tasks may be pending
  NoTask

VARIABLES
  pending,    \* accepted and not started, oldest first
  running,    \* running[w]: the task w works on, or NoTask
  accepted    \* how many tasks were accepted; tasks are numbered in that order

absVars == <<pending, running, accepted>>

Init ==
  /\ pending = <<>>
  /\ running = [w \in Workers |-> NoTask]
  /\ accepted = 0

Accept ==
  /\ Len(pending) < Depth
  /\ accepted' = accepted + 1
  /\ pending' = Append(pending, accepted')
  /\ UNCHANGED running

Start(w) ==
  /\ running[w] = NoTask
  /\ pending # <<>>
  /\ running' = [running EXCEPT ![w] = Head(pending)]
  /\ pending' = Tail(pending)
  /\ UNCHANGED accepted

\* The task returns, or its worker is cancelled.
Leave(w) ==
  /\ running[w] # NoTask
  /\ running' = [running EXCEPT ![w] = NoTask]
  /\ UNCHANGED <<pending, accepted>>

Next == Accept \/ \E w \in Workers : Start(w) \/ Leave(w)

Spec == Init /\ [][Next]_absVars
=============================================================================
