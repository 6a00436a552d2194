---------------------------- MODULE DaemonProofs ----------------------------
(***************************************************************************)
(* The life of the daemon for any options, children and parents, failures  *)
(* at any step and signals at any time.                                    *)
(***************************************************************************)
EXTENDS Daemon, SequenceTheorems, TLAPS

Servers == {"io", "ctrl"}
Cached == IF UseCache THEN {"cache"} ELSE {}
Parts == {"pool", "mutexes", "route"} \cup Cached

Before == {"options", "null", "fork", "pool"}
Up == {"children", "parents", "ready", "handlers", "enter", "pause"}
Start == Before \cup Starting \cup Up
Halt == {"failed", "stop ctrl", "stop io", "leave", "clear", "free pool", "free route", "free cache",
         "free mutexes", "report"}

\* The parts that exist when the start has come to step m.
Made(m) ==
  CASE m \in Before -> {}
    [] m = "mutexes" -> {"pool"}
    [] m = "cache" -> {"pool", "mutexes"}
    [] m = "route" -> {"pool", "mutexes"} \cup Cached
    [] m = "io" -> Parts
    [] m = "ctrl" -> Parts \cup {"io"}
    [] m \in Up -> Parts \cup Servers

\* The parts that may be left when the end has come to step m.
Kept(m) ==
  CASE m \in {"failed", "stop ctrl"} -> Parts \cup Servers
    [] m = "stop io" -> Parts \cup {"io"}
    [] m \in {"leave", "clear", "free pool"} -> Parts
    [] m = "free route" -> Parts \ {"pool"}
    [] m = "free cache" -> {"mutexes"} \cup Cached
    [] m = "free mutexes" -> {"mutexes"}
    [] m \in {"report", "exited"} -> {}

History ==
  [found : SUBSET Servers, refused : SUBSET Elements(Parents), served : BOOLEAN, ready : BOOLEAN,
   killed : BOOLEAN]

TypeInv ==
  /\ main \in Start \cup Halt \cup {"exited"}
  /\ i \in Nat \ {0}
  /\ ret \in {0, 1} /\ lret \in {0, 1}
  /\ history \in History
  /\ i # 1 => main \in {"options", "children", "parents", "leave", "exited"}

\* The parts: all those that the steps so far have made, until they are taken
\* down in the order that RequestsHaveParts needs.
PartsInv ==
  /\ main \in Start => objs = Made(main) /\ (history.served <=> "io" \in objs)
  /\ main \notin Start =>
       /\ objs \subseteq Kept(main)
       /\ Servers \cap objs # {} => history.served
       /\ history.served /\ main \in {"failed", "stop ctrl", "stop io", "leave", "clear", "free pool"} =>
            Parts \subseteq objs

\* The sockets: those that were there and those of the running servers.
FilesInv ==
  files = history.found \cup (objs \cap Servers) /\ history.found \cap objs = {}

\* The parents: those that are still to be told have the entry, or have refused
\* to drop it.
Untold == {Parents[n] : n \in {m \in DOMAIN Parents : m >= i}}
Early == Before \cup {"mutexes", "cache", "route", "io", "ctrl", "children"}
KnowsInv ==
  /\ main \in Early => knows = {}
  /\ main \in (Start \cup {"failed", "stop ctrl", "stop io"}) => history.refused = {}
  /\ main \in (Start \cup {"failed", "stop ctrl", "stop io", "leave"}) =>
       knows \subseteq Elements(Parents) /\ (knows # {} => "route" \in objs)
  /\ main = "leave" => history.refused \subseteq knows /\ knows \subseteq history.refused \cup Untold
  /\ main \in {"clear", "free pool", "free route", "free cache", "free mutexes", "report", "exited"} =>
       knows = history.refused

\* The pipe and the launcher, as far as the process has got.
Fresh == pipe = <<>> /\ lret = 0 /\ launcher = IF Background THEN "read" ELSE "none"
ToldReady ==
  /\ lret = 0
  /\ \/ Background /\ launcher = "read" /\ pipe = <<0>>
     \/ Background /\ launcher = "done" /\ pipe = <<>>
     \/ ~Background /\ launcher = "none" /\ pipe = <<>>
ToldOnce ==
  \/ Background /\ launcher = "read" /\ pipe = <<1>> /\ lret = 0
  \/ Background /\ launcher = "again" /\ pipe = <<>> /\ lret = 1
  \/ ~Background /\ launcher = "none" /\ pipe = <<>>
ToldTwice ==
  \/ launcher = "read" /\ pipe = <<1, 1>> /\ lret = 0
  \/ launcher = "again" /\ pipe = <<1>> /\ lret = 1
  \/ launcher = "done" /\ pipe = <<>> /\ lret = 1
  \/ launcher = "none" /\ pipe = <<>>

PipeInv ==
  /\ main \in {"options", "null", "fork"} => pipe = <<>> /\ lret = 0 /\ launcher = "none" /\ ret = 0
  /\ main \in Starting \cup {"ready"} => Fresh /\ ret = 0
  /\ main \in {"handlers", "enter", "pause"} => ToldReady /\ ret = 0 /\ history.ready
  /\ main = "failed" => Fresh /\ ret = 1
  /\ main \in Halt \ {"failed"} /\ ret = 0 => ToldReady /\ history.ready
  /\ main \in Halt \ {"failed"} /\ ret # 0 => ToldOnce
  /\ main = "exited" /\ ret = 0 => ToldReady /\ history.ready
  /\ main = "exited" /\ ret # 0 => ToldTwice
  /\ main # "exited" => open = Background
  /\ main = "fork" => Background

LifeInv == PartsInv /\ FilesInv /\ KnowsInv /\ PipeInv

IInv ==
  /\ TypeInv
  /\ history.killed => main = "exited" /\ objs = {} /\ pipe \in Seq({0, 1})
  /\ ~history.killed => LifeInv

-----------------------------------------------------------------------------
(* The order of the steps *)

LEMMA StepsDistinct == DOMAIN Steps = 1 .. 26 /\ \A m, n \in 1 .. 26 : Steps[m] = Steps[n] => m = n
  BY DEF Steps

LEMMA StepFrom ==
  ASSUME NEW n \in 1 .. 25, NEW m, m = n + 1, Step
  PROVE  main = Steps[n] => main' = Steps[m]
  <1> SUFFICES ASSUME main = Steps[n] PROVE main' = Steps[m]
    OBVIOUS
  <1>1. n \in 1 .. 26 /\ n \in DOMAIN Steps
    BY StepsDistinct
  <1>2. Here \in DOMAIN Steps /\ Steps[Here] = main
    BY <1>1 DEF Here
  <1>3. Here = n
    BY <1>1, <1>2, StepsDistinct
  <1>4. QED
    BY <1>3 DEF Step

LEMMA StepTable ==
  ASSUME Step
  PROVE  /\ main = "options" => main' = "null"
         /\ main = "null" => main' = "fork"
         /\ main = "fork" => main' = "pool"
         /\ main = "pool" => main' = "mutexes"
         /\ main = "mutexes" => main' = "cache"
         /\ main = "cache" => main' = "route"
         /\ main = "route" => main' = "io"
         /\ main = "io" => main' = "ctrl"
         /\ main = "ctrl" => main' = "children"
         /\ main = "children" => main' = "parents"
         /\ main = "parents" => main' = "ready"
         /\ main = "ready" => main' = "handlers"
         /\ main = "handlers" => main' = "enter"
         /\ main = "enter" => main' = "pause"
         /\ main = "pause" => main' = "failed"
         /\ main = "failed" => main' = "stop ctrl"
         /\ main = "stop ctrl" => main' = "stop io"
         /\ main = "stop io" => main' = "leave"
         /\ main = "leave" => main' = "clear"
         /\ main = "clear" => main' = "free pool"
         /\ main = "free pool" => main' = "free route"
         /\ main = "free route" => main' = "free cache"
         /\ main = "free cache" => main' = "free mutexes"
         /\ main = "free mutexes" => main' = "report"
         /\ main = "report" => main' = "exited"
  <1>1. main = Steps[1] => main' = Steps[2]
    <2>1. 1 \in 1 .. 25 /\ 2 = 1 + 1
      OBVIOUS
    <2>2. QED
      BY <2>1, StepFrom
  <1>2. main = Steps[2] => main' = Steps[3]
    <2>1. 2 \in 1 .. 25 /\ 3 = 2 + 1
      OBVIOUS
    <2>2. QED
      BY <2>1, StepFrom
  <1>3. main = Steps[3] => main' = Steps[4]
    <2>1. 3 \in 1 .. 25 /\ 4 = 3 + 1
      OBVIOUS
    <2>2. QED
      BY <2>1, StepFrom
  <1>4. main = Steps[4] => main' = Steps[5]
    <2>1. 4 \in 1 .. 25 /\ 5 = 4 + 1
      OBVIOUS
    <2>2. QED
      BY <2>1, StepFrom
  <1>5. main = Steps[5] => main' = Steps[6]
    <2>1. 5 \in 1 .. 25 /\ 6 = 5 + 1
      OBVIOUS
    <2>2. QED
      BY <2>1, StepFrom
  <1>6. main = Steps[6] => main' = Steps[7]
    <2>1. 6 \in 1 .. 25 /\ 7 = 6 + 1
      OBVIOUS
    <2>2. QED
      BY <2>1, StepFrom
  <1>7. main = Steps[7] => main' = Steps[8]
    <2>1. 7 \in 1 .. 25 /\ 8 = 7 + 1
      OBVIOUS
    <2>2. QED
      BY <2>1, StepFrom
  <1>8. main = Steps[8] => main' = Steps[9]
    <2>1. 8 \in 1 .. 25 /\ 9 = 8 + 1
      OBVIOUS
    <2>2. QED
      BY <2>1, StepFrom
  <1>9. main = Steps[9] => main' = Steps[10]
    <2>1. 9 \in 1 .. 25 /\ 10 = 9 + 1
      OBVIOUS
    <2>2. QED
      BY <2>1, StepFrom
  <1>10. main = Steps[10] => main' = Steps[11]
    <2>1. 10 \in 1 .. 25 /\ 11 = 10 + 1
      OBVIOUS
    <2>2. QED
      BY <2>1, StepFrom
  <1>11. main = Steps[11] => main' = Steps[12]
    <2>1. 11 \in 1 .. 25 /\ 12 = 11 + 1
      OBVIOUS
    <2>2. QED
      BY <2>1, StepFrom
  <1>12. main = Steps[12] => main' = Steps[13]
    <2>1. 12 \in 1 .. 25 /\ 13 = 12 + 1
      OBVIOUS
    <2>2. QED
      BY <2>1, StepFrom
  <1>13. main = Steps[13] => main' = Steps[14]
    <2>1. 13 \in 1 .. 25 /\ 14 = 13 + 1
      OBVIOUS
    <2>2. QED
      BY <2>1, StepFrom
  <1>14. main = Steps[14] => main' = Steps[15]
    <2>1. 14 \in 1 .. 25 /\ 15 = 14 + 1
      OBVIOUS
    <2>2. QED
      BY <2>1, StepFrom
  <1>15. main = Steps[15] => main' = Steps[16]
    <2>1. 15 \in 1 .. 25 /\ 16 = 15 + 1
      OBVIOUS
    <2>2. QED
      BY <2>1, StepFrom
  <1>16. main = Steps[16] => main' = Steps[17]
    <2>1. 16 \in 1 .. 25 /\ 17 = 16 + 1
      OBVIOUS
    <2>2. QED
      BY <2>1, StepFrom
  <1>17. main = Steps[17] => main' = Steps[18]
    <2>1. 17 \in 1 .. 25 /\ 18 = 17 + 1
      OBVIOUS
    <2>2. QED
      BY <2>1, StepFrom
  <1>18. main = Steps[18] => main' = Steps[19]
    <2>1. 18 \in 1 .. 25 /\ 19 = 18 + 1
      OBVIOUS
    <2>2. QED
      BY <2>1, StepFrom
  <1>19. main = Steps[19] => main' = Steps[20]
    <2>1. 19 \in 1 .. 25 /\ 20 = 19 + 1
      OBVIOUS
    <2>2. QED
      BY <2>1, StepFrom
  <1>20. main = Steps[20] => main' = Steps[21]
    <2>1. 20 \in 1 .. 25 /\ 21 = 20 + 1
      OBVIOUS
    <2>2. QED
      BY <2>1, StepFrom
  <1>21. main = Steps[21] => main' = Steps[22]
    <2>1. 21 \in 1 .. 25 /\ 22 = 21 + 1
      OBVIOUS
    <2>2. QED
      BY <2>1, StepFrom
  <1>22. main = Steps[22] => main' = Steps[23]
    <2>1. 22 \in 1 .. 25 /\ 23 = 22 + 1
      OBVIOUS
    <2>2. QED
      BY <2>1, StepFrom
  <1>23. main = Steps[23] => main' = Steps[24]
    <2>1. 23 \in 1 .. 25 /\ 24 = 23 + 1
      OBVIOUS
    <2>2. QED
      BY <2>1, StepFrom
  <1>24. main = Steps[24] => main' = Steps[25]
    <2>1. 24 \in 1 .. 25 /\ 25 = 24 + 1
      OBVIOUS
    <2>2. QED
      BY <2>1, StepFrom
  <1>25. main = Steps[25] => main' = Steps[26]
    <2>1. 25 \in 1 .. 25 /\ 26 = 25 + 1
      OBVIOUS
    <2>2. QED
      BY <2>1, StepFrom
  <1>26. QED
    BY <1>1, <1>2, <1>3, <1>4, <1>5, <1>6, <1>7, <1>8, <1>9, <1>10, <1>11, <1>12, <1>13,
       <1>14, <1>15, <1>16, <1>17, <1>18, <1>19, <1>20, <1>21, <1>22, <1>23, <1>24, <1>25 DEF Steps

-----------------------------------------------------------------------------
(* Every step keeps the invariant *)

Alive == TypeInv /\ LifeInv /\ ~history.killed

LEMMA AppendTo ==
  ASSUME NEW S, NEW s \in Seq(S), NEW e \in S
  PROVE  /\ Append(s, e) \in Seq(S) /\ Len(Append(s, e)) = Len(s) + 1
         /\ \A n \in 1 .. Len(s) : Append(s, e)[n] = s[n]
         /\ Append(s, e)[Len(s) + 1] = e
  BY AppendProperties

LEMMA AppendOne ==
  ASSUME NEW S, NEW s \in Seq(S), NEW e \in S
  PROVE  Len(s) = 1 => /\ Append(s, e) \in Seq(S) /\ Len(Append(s, e)) = 2
                       /\ Append(s, e)[1] = s[1] /\ Append(s, e)[2] = e
  <1>1. /\ Append(s, e) \in Seq(S)
        /\ Len(Append(s, e)) = Len(s) + 1
        /\ \A n \in 1 .. Len(s) : Append(s, e)[n] = s[n]
        /\ Append(s, e)[Len(s) + 1] = e
    BY AppendTo
  <1>2. Len(s) = 1 => 1 \in 1 .. Len(s) /\ Len(s) + 1 = 2
    OBVIOUS
  <1>3. QED
    BY <1>1, <1>2

LEMMA TwoOnes == Append(<<>>, 1) = <<1>> /\ Append(<<1>>, 1) = <<1, 1>>
  <1>1. Append(<<>>, 1) = <<1>>
    OBVIOUS
  <1>2. PICK S : S = {1}
    OBVIOUS
  <1>3. PICK e \in S : e = 1
    BY <1>2
  <1>4. PICK s \in Seq(S) : s = <<e>>
    <2>1. <<e>> \in Seq(S)
      OBVIOUS
    <2>2. QED
      BY <2>1, Zenon
  <1>5. Len(s) = 1 /\ s[1] = e
    BY <1>4
  <1>6. PICK t : t = Append(s, e)
    OBVIOUS
  <1>7. t \in Seq(S) /\ Len(t) = 2 /\ t[1] = s[1] /\ t[2] = e
    BY <1>5, <1>6, AppendOne
  <1>8. t = <<e, e>>
    BY <1>5, <1>7
  <1>9. QED
    BY <1>1, <1>3, <1>4, <1>6, <1>8

LEMMA OptionAlive ==
  ASSUME Alive, Option
  PROVE  Alive'
  <1> USE DEF Alive, LifeInv
  <1>1. /\ main = "options" /\ (main' = "options" \/ (main' = "null" /\ i' = 1)) /\ i' \in Nat \ {0}
        /\ UNCHANGED <<ret, objs, files, knows, pipe, open, launcher, lret, history>>
    BY StepTable DEF Option, TypeInv, report
  <1>2. TypeInv'
    BY <1>1 DEF TypeInv, Start, Before, Starting, Up, Halt
  <1>3. PartsInv'
    BY <1>1 DEF PartsInv, Made, Kept, Parts, Cached, Servers, Start, Before, Starting, Up
  <1>4. FilesInv'
    BY <1>1 DEF FilesInv, Servers
  <1>5. KnowsInv'
    BY <1>1 DEF KnowsInv, Early, Start, Before, Starting, Up
  <1>6. PipeInv'
    BY <1>1 DEF PipeInv, Fresh, ToldReady, ToldOnce, ToldTwice, Starting, Halt
  <1>7. ~history'.killed
    BY <1>1 DEF TypeInv
  <1>8. QED
    BY <1>2, <1>3, <1>4, <1>5, <1>6, <1>7

LEMMA RegisterNullAlive ==
  ASSUME Alive, RegisterNull
  PROVE  Alive'
  <1> USE DEF Alive, LifeInv
  <1>1. /\ main = "null" /\ main' = IF Background THEN "fork" ELSE "pool"
        /\ UNCHANGED <<i, ret, objs, files, knows, pipe, open, launcher, lret, history>>
    BY StepTable DEF RegisterNull, report
  <1>2. TypeInv'
    BY <1>1 DEF TypeInv, Start, Before, Starting, Up, Halt
  <1>3. PartsInv'
    BY <1>1 DEF PartsInv, Made, Kept, Parts, Cached, Servers, Start, Before, Starting, Up
  <1>4. FilesInv'
    BY <1>1 DEF FilesInv, Servers
  <1>5. KnowsInv'
    BY <1>1 DEF KnowsInv, Early, Start, Before, Starting, Up
  <1>6. PipeInv'
    BY <1>1 DEF PipeInv, Fresh, ToldReady, ToldOnce, ToldTwice, Starting, Halt
  <1>7. ~history'.killed
    BY <1>1 DEF TypeInv
  <1>8. QED
    BY <1>2, <1>3, <1>4, <1>5, <1>6, <1>7

LEMMA BadOptionAlive ==
  ASSUME Alive, BadOption
  PROVE  Alive'
  <1> USE DEF Alive, LifeInv
  <1>1. /\ main \in {"options", "null"} /\ main' = "exited" /\ ret' = 1 /\ open' = FALSE
        /\ UNCHANGED <<i, objs, files, knows, pipe, launcher, lret, history>>
    BY DEF BadOption
  <1>2. TypeInv'
    BY <1>1 DEF TypeInv, Start, Before, Starting, Up, Halt
  <1>3. PartsInv'
    BY <1>1 DEF PartsInv, Made, Kept, Parts, Cached, Servers, Start, Before, Starting, Up
  <1>4. FilesInv'
    BY <1>1 DEF FilesInv, Servers
  <1>5. KnowsInv'
    BY <1>1 DEF KnowsInv, Early, Start, Before, Starting, Up
  <1>6. PipeInv'
    <2>1. pipe' = <<>> /\ launcher' = "none"
      BY <1>1 DEF PipeInv
    <2>2. ToldTwice'
      BY <2>1 DEF ToldTwice
    <2>3. /\ main' \notin {"options", "null", "fork", "ready", "handlers", "enter", "pause", "failed"} \cup Starting
          /\ main' \notin Halt /\ ret' # 0 /\ (open' = Background \/ main' = "exited")
      BY <1>1 DEF Starting, Halt
    <2>4. QED
      BY <2>2, <2>3 DEF PipeInv
  <1>7. ~history'.killed
    BY <1>1 DEF TypeInv
  <1>8. QED
    BY <1>2, <1>3, <1>4, <1>5, <1>6, <1>7

LEMMA ForkAlive ==
  ASSUME Alive, Fork
  PROVE  Alive'
  <1> USE DEF Alive, LifeInv
  <1>1. /\ main = "fork" /\ UNCHANGED <<i, objs, files, knows, history>>
        /\ \/ main' = "pool" /\ launcher' = "read" /\ UNCHANGED <<ret, pipe, open, lret>>
           \/ /\ main' = "exited" /\ ret' = 1 /\ open' = FALSE
              /\ \/ launcher' = "done" /\ lret' = 1 /\ UNCHANGED pipe
                 \/ launcher' = "read" /\ pipe' = <<1, 1>> /\ UNCHANGED lret
    BY StepTable DEF Fork
  <1>2. TypeInv'
    BY <1>1 DEF TypeInv, Start, Before, Starting, Up, Halt
  <1>3. PartsInv'
    BY <1>1 DEF PartsInv, Made, Kept, Parts, Cached, Servers, Start, Before, Starting, Up
  <1>4. FilesInv'
    BY <1>1 DEF FilesInv, Servers
  <1>5. KnowsInv'
    BY <1>1 DEF KnowsInv, Early, Start, Before, Starting, Up
  <1>6. PipeInv'
    <2>1. pipe = <<>> /\ lret = 0 /\ ret = 0 /\ Background /\ open = Background
      BY <1>1 DEF PipeInv
    <2>2. CASE main' = "pool" /\ launcher' = "read" /\ UNCHANGED <<ret, pipe, open, lret>>
      <3>1. Fresh'
        BY <2>1, <2>2 DEF Fresh
      <3>2. QED
        BY <2>1, <2>2, <3>1 DEF PipeInv, Starting, Halt
    <2>3. CASE /\ main' = "exited" /\ ret' = 1 /\ open' = FALSE
               /\ \/ launcher' = "done" /\ lret' = 1 /\ UNCHANGED pipe
                  \/ launcher' = "read" /\ pipe' = <<1, 1>> /\ UNCHANGED lret
      <3>1. ToldTwice'
        BY <2>1, <2>3 DEF ToldTwice
      <3>2. /\ main' \notin {"options", "null", "fork", "ready", "handlers", "enter", "pause", "failed"} \cup Starting
            /\ main' \notin Halt /\ ret' # 0 /\ (open' = Background \/ main' = "exited")
        BY <2>3 DEF Starting, Halt
      <3>3. QED
        BY <3>1, <3>2 DEF PipeInv
    <2>4. QED
      BY <1>1, <2>2, <2>3, Zenon
  <1>7. ~history'.killed
    BY <1>1 DEF TypeInv
  <1>8. QED
    BY <1>2, <1>3, <1>4, <1>5, <1>6, <1>7

LEMMA FailsAlive ==
  ASSUME Alive, Fails
  PROVE  Alive'
  <1> USE DEF Alive, LifeInv
  <1>1. /\ main \in Starting /\ main' = "failed" /\ ret' = 1 /\ i' = 1
        /\ UNCHANGED <<objs, files, pipe, open, launcher, lret, history>>
    BY DEF Fails, OnFailure, report
  <1>2. UNCHANGED knows \/ (main = "parents" /\ \E n \in DOMAIN Parents : knows' = knows \cup {Parents[n]})
    BY DaemonAssumption DEF Fails, OnFailure, report, TypeInv
  <1>3. TypeInv'
    <2>1. main' \in Start \cup Halt \cup {"exited"} /\ i' \in Nat \ {0} /\ ret' \in {0, 1}
      BY <1>1 DEF Halt
    <2>2. lret' \in {0, 1} /\ history' \in History /\ i' = 1
      BY <1>1 DEF TypeInv
    <2>3. QED
      BY <2>1, <2>2 DEF TypeInv
  <1>4. PartsInv'
    BY <1>1, <1>2 DEF PartsInv, Made, Kept, Parts, Cached, Servers, Start, Before, Starting, Up
  <1>5. FilesInv'
    BY <1>1, <1>2 DEF FilesInv, Servers
  <1>6. KnowsInv'
    <2>1. knows' \subseteq Elements(Parents) /\ (knows' # {} => "route" \in objs) /\ history.refused = {}
      BY <1>1, <1>2 DEF KnowsInv, Early, Start, Before, Starting, Up, Elements, PartsInv, Made, Parts
    <2>2. QED
      BY <1>1, <1>2, <2>1 DEF KnowsInv, Early, Start, Before, Starting, Up
  <1>7. PipeInv'
    BY <1>1, <1>2 DEF PipeInv, Fresh, ToldReady, ToldOnce, ToldTwice, Starting, Halt
  <1>8. ~history'.killed
    BY <1>1, <1>2 DEF TypeInv
  <1>9. QED
    BY <1>3, <1>4, <1>5, <1>6, <1>7, <1>8

LEMMA CreateAlive ==
  ASSUME Alive, Create
  PROVE  Alive'
  <1> USE DEF Alive, LifeInv
  <1>1. /\ main = "pool" => main' = "mutexes" /\ objs' = objs \cup {"pool"}
        /\ main = "mutexes" => main' = "cache" /\ objs' = objs \cup {"mutexes"}
        /\ main = "cache" => main' = "route" /\ objs' = objs \cup Cached
        /\ main = "route" => main' = "io" /\ objs' = objs \cup {"route"}
        /\ main \in {"pool", "mutexes", "cache", "route"}
    BY StepTable DEF Create, Cached
  <1>2. UNCHANGED <<i, ret, files, knows, pipe, open, launcher, lret, history>>
    BY DEF Create, report
  <1>3. TypeInv'
    BY <1>1, <1>2 DEF TypeInv, Start, Before, Starting, Up, Halt
  <1>4. PartsInv'
    BY <1>1, <1>2 DEF PartsInv, Made, Kept, Parts, Cached, Servers, Start, Before, Starting, Up
  <1>5. FilesInv'
    <2>1. objs' \cap Servers = objs \cap Servers /\ history.found \cap objs' = {}
      BY <1>1, <1>2 DEF FilesInv, Servers, Cached, TypeInv, History
    <2>2. QED
      BY <1>1, <1>2, <2>1 DEF FilesInv
  <1>6. KnowsInv'
    BY <1>1, <1>2 DEF KnowsInv, Early, Start, Before, Starting, Up
  <1>7. PipeInv'
    BY <1>1, <1>2 DEF PipeInv, Fresh, ToldReady, ToldOnce, ToldTwice, Starting, Halt
  <1>8. ~history'.killed
    BY <1>1, <1>2 DEF TypeInv
  <1>9. QED
    BY <1>3, <1>4, <1>5, <1>6, <1>7, <1>8

LEMMA StartIOServerAlive ==
  ASSUME Alive, StartIOServer
  PROVE  Alive'
  <1> USE DEF Alive, LifeInv
  <1>1. /\ main = "io" /\ main' = "ctrl" /\ "io" \notin files /\ files' = files \cup {"io"}
        /\ objs' = objs \cup {"io"} /\ history' = [history EXCEPT !.served = TRUE]
        /\ UNCHANGED <<i, ret, knows, pipe, open, launcher, lret>>
    BY StepTable DEF StartIOServer, Serve, report
  <1>2. /\ history'.served /\ history'.found = history.found /\ history'.refused = history.refused
        /\ history'.ready = history.ready /\ history'.killed = history.killed
    BY <1>1 DEF TypeInv, History
  <1>3. TypeInv'
    <2>1. history' \in History
      BY <1>1 DEF TypeInv, History
    <2>2. QED
      BY <1>1, <1>2, <2>1 DEF TypeInv, Start, Before, Starting, Up, Halt
  <1>4. PartsInv'
    BY <1>1, <1>2 DEF PartsInv, Made, Kept, Parts, Cached, Servers, Start, Before, Starting, Up
  <1>5. FilesInv'
    BY <1>1, <1>2 DEF FilesInv, Servers
  <1>6. KnowsInv'
    BY <1>1, <1>2 DEF KnowsInv, Early, Start, Before, Starting, Up
  <1>7. PipeInv'
    BY <1>1, <1>2 DEF PipeInv, Fresh, ToldReady, ToldOnce, ToldTwice, Starting, Halt
  <1>8. ~history'.killed
    BY <1>1, <1>2 DEF TypeInv
  <1>9. QED
    BY <1>3, <1>4, <1>5, <1>6, <1>7, <1>8

LEMMA StartCtrlServerAlive ==
  ASSUME Alive, StartCtrlServer
  PROVE  Alive'
  <1> USE DEF Alive, LifeInv
  <1>1. /\ main = "ctrl" /\ main' = "children" /\ "ctrl" \notin files /\ files' = files \cup {"ctrl"}
        /\ objs' = objs \cup {"ctrl"} /\ history' = [history EXCEPT !.served = TRUE]
        /\ UNCHANGED <<i, ret, knows, pipe, open, launcher, lret>>
    BY StepTable DEF StartCtrlServer, Serve, report
  <1>2. /\ history'.served /\ history'.found = history.found /\ history'.refused = history.refused
        /\ history'.ready = history.ready /\ history'.killed = history.killed
    BY <1>1 DEF TypeInv, History
  <1>3. TypeInv'
    <2>1. history' \in History
      BY <1>1 DEF TypeInv, History
    <2>2. QED
      BY <1>1, <1>2, <2>1 DEF TypeInv, Start, Before, Starting, Up, Halt
  <1>4. PartsInv'
    BY <1>1, <1>2 DEF PartsInv, Made, Kept, Parts, Cached, Servers, Start, Before, Starting, Up
  <1>5. FilesInv'
    BY <1>1, <1>2 DEF FilesInv, Servers
  <1>6. KnowsInv'
    BY <1>1, <1>2 DEF KnowsInv, Early, Start, Before, Starting, Up
  <1>7. PipeInv'
    BY <1>1, <1>2 DEF PipeInv, Fresh, ToldReady, ToldOnce, ToldTwice, Starting, Halt
  <1>8. ~history'.killed
    BY <1>1, <1>2 DEF TypeInv
  <1>9. QED
    BY <1>3, <1>4, <1>5, <1>6, <1>7, <1>8

LEMMA IntroduceAlive ==
  ASSUME Alive, Introduce
  PROVE  Alive'
  <1> USE DEF Alive, LifeInv
  <1>1. /\ main \in {"children", "parents"} /\ main' = main /\ i' \in Nat \ {0}
        /\ UNCHANGED <<ret, objs, files, pipe, open, launcher, lret, history>>
    BY DEF Introduce, report, TypeInv
  <1>2. UNCHANGED knows \/ (main = "parents" /\ \E n \in DOMAIN Parents : knows' = knows \cup {Parents[n]})
    BY DaemonAssumption DEF Introduce, TypeInv
  <1>3. TypeInv'
    BY <1>1, <1>2 DEF TypeInv, Start, Before, Starting, Up, Halt
  <1>4. PartsInv'
    BY <1>1, <1>2 DEF PartsInv, Made, Kept, Parts, Cached, Servers, Start, Before, Starting, Up
  <1>5. FilesInv'
    BY <1>1, <1>2 DEF FilesInv, Servers
  <1>6. KnowsInv'
    <2>1. knows' \subseteq Elements(Parents) /\ (knows' # {} => "route" \in objs) /\ history.refused = {}
      BY <1>1, <1>2 DEF KnowsInv, Early, Start, Before, Starting, Up, Elements, PartsInv, Made, Parts
    <2>2. QED
      BY <1>1, <1>2, <2>1 DEF KnowsInv, Early, Start, Before, Starting, Up
  <1>7. PipeInv'
    BY <1>1, <1>2 DEF PipeInv, Fresh, ToldReady, ToldOnce, ToldTwice, Starting, Halt
  <1>8. ~history'.killed
    BY <1>1, <1>2 DEF TypeInv
  <1>9. QED
    BY <1>3, <1>4, <1>5, <1>6, <1>7, <1>8

LEMMA IntroducedAlive ==
  ASSUME Alive, Introduced
  PROVE  Alive'
  <1> USE DEF Alive, LifeInv
  <1>1. /\ (main = "children" /\ main' = "parents") \/ (main = "parents" /\ main' = "ready")
        /\ i' = 1 /\ UNCHANGED <<ret, objs, files, knows, pipe, open, launcher, lret, history>>
    BY StepTable DEF Introduced, report
  <1>2. TypeInv'
    <2>1. main' \in {"parents", "ready"} /\ i' = 1 /\ ret' \in {0, 1} /\ lret' \in {0, 1} /\ history' \in History
      BY <1>1 DEF TypeInv
    <2>2. main' \in Start \cup Halt \cup {"exited"} /\ i' \in Nat \ {0}
      BY <2>1 DEF Start, Up
    <2>3. QED
      BY <2>1, <2>2 DEF TypeInv
  <1>3. PartsInv'
    BY <1>1 DEF PartsInv, Made, Kept, Parts, Cached, Servers, Start, Before, Starting, Up
  <1>4. FilesInv'
    BY <1>1 DEF FilesInv, Servers
  <1>5. KnowsInv'
    BY <1>1 DEF KnowsInv, Early, Start, Before, Starting, Up
  <1>6. PipeInv'
    BY <1>1 DEF PipeInv, Fresh, ToldReady, ToldOnce, ToldTwice, Starting, Halt
  <1>7. ~history'.killed
    BY <1>1 DEF TypeInv
  <1>8. QED
    BY <1>2, <1>3, <1>4, <1>5, <1>6, <1>7

LEMMA ReadyAlive ==
  ASSUME Alive, Ready
  PROVE  Alive'
  <1> USE DEF Alive, LifeInv
  <1>1. /\ main = "ready" /\ main' = "handlers" /\ pipe' = Written(0) /\ history' = [history EXCEPT !.ready = TRUE]
        /\ UNCHANGED <<i, ret, objs, files, knows, open, launcher, lret>>
    BY StepTable DEF Ready
  <1>2. /\ history'.ready /\ history'.found = history.found /\ history'.refused = history.refused
        /\ history'.served = history.served /\ history'.killed = history.killed
    BY <1>1 DEF TypeInv, History
  <1>3. history' \in History
    BY <1>1 DEF TypeInv, History
  <1>4. TypeInv'
    BY <1>1, <1>2, <1>3 DEF TypeInv, Start, Before, Starting, Up, Halt
  <1>5. PartsInv'
    BY <1>1, <1>2, <1>3 DEF PartsInv, Made, Kept, Parts, Cached, Servers, Start, Before, Starting, Up
  <1>6. FilesInv'
    BY <1>1, <1>2, <1>3 DEF FilesInv, Servers
  <1>7. KnowsInv'
    BY <1>1, <1>2, <1>3 DEF KnowsInv, Early, Start, Before, Starting, Up
  <1>8. PipeInv'
    <2>1. pipe = <<>> /\ lret = 0 /\ launcher = (IF Background THEN "read" ELSE "none") /\ ret = 0 /\ open = Background
      BY <1>1 DEF PipeInv, Fresh
    <2>2. ToldReady'
      <3>1. Append(<<>>, 0) = <<0>>
        OBVIOUS
      <3>2. pipe' = IF Background THEN <<0>> ELSE <<>>
        BY <1>1, <2>1, <3>1 DEF Written
      <3>3. QED
        BY <1>1, <2>1, <3>2 DEF ToldReady
    <2>3. QED
      BY <1>1, <1>2, <1>3, <2>1, <2>2 DEF PipeInv, Starting, Halt
  <1>9. ~history'.killed
    BY <1>1, <1>2, <1>3 DEF TypeInv
  <1>10. QED
    BY <1>4, <1>5, <1>6, <1>7, <1>8, <1>9

LEMMA WaitAlive ==
  ASSUME Alive, Handlers \/ EnterPause
  PROVE  Alive'
  <1> USE DEF Alive, LifeInv
  <1>1. /\ (main = "handlers" /\ main' = "enter") \/ (main = "enter" /\ main' = "pause")
        /\ UNCHANGED <<i, ret, objs, files, knows, pipe, open, launcher, lret, history>>
    BY StepTable DEF Handlers, EnterPause, report
  <1>2. TypeInv'
    BY <1>1 DEF TypeInv, Start, Before, Starting, Up, Halt
  <1>3. PartsInv'
    BY <1>1 DEF PartsInv, Made, Kept, Parts, Cached, Servers, Start, Before, Starting, Up
  <1>4. FilesInv'
    BY <1>1 DEF FilesInv, Servers
  <1>5. KnowsInv'
    BY <1>1 DEF KnowsInv, Early, Start, Before, Starting, Up
  <1>6. PipeInv'
    BY <1>1 DEF PipeInv, Fresh, ToldReady, ToldOnce, ToldTwice, Starting, Halt
  <1>7. ~history'.killed
    BY <1>1 DEF TypeInv
  <1>8. QED
    BY <1>2, <1>3, <1>4, <1>5, <1>6, <1>7

LEMMA SignalAlive ==
  ASSUME Alive, Signal
  PROVE  Alive'
  <1> USE DEF Alive, LifeInv
  <1>1. /\ main' = main \/ (main = "pause" /\ main' = "stop ctrl")
        /\ UNCHANGED <<i, ret, objs, files, knows, pipe, open, launcher, lret, history>>
    BY DEF Signal, report
  <1>2. TypeInv'
    BY <1>1 DEF TypeInv, Start, Before, Starting, Up, Halt
  <1>3. PartsInv'
    BY <1>1 DEF PartsInv, Made, Kept, Parts, Cached, Servers, Start, Before, Starting, Up
  <1>4. FilesInv'
    BY <1>1 DEF FilesInv, Servers
  <1>5. KnowsInv'
    <2>1. CASE main' = main
      BY <1>1, <2>1 DEF KnowsInv, Untold
    <2>2. CASE main = "pause" /\ main' = "stop ctrl"
      BY <1>1, <2>2 DEF KnowsInv, Early, Start, Before, Starting, Up
    <2>3. QED
      BY <1>1, <2>1, <2>2
  <1>6. PipeInv'
    BY <1>1 DEF PipeInv, Fresh, ToldReady, ToldOnce, ToldTwice, Starting, Halt
  <1>7. ~history'.killed
    BY <1>1 DEF TypeInv
  <1>8. QED
    BY <1>2, <1>3, <1>4, <1>5, <1>6, <1>7

LEMMA FailedAlive ==
  ASSUME Alive, Failed
  PROVE  Alive'
  <1> USE DEF Alive, LifeInv
  <1>1. /\ main = "failed" /\ main' = "stop ctrl" /\ pipe' = Written(ret)
        /\ UNCHANGED <<i, ret, objs, files, knows, open, launcher, lret, history>>
    BY StepTable DEF Failed
  <1>2. TypeInv'
    BY <1>1 DEF TypeInv, Start, Before, Starting, Up, Halt
  <1>3. PartsInv'
    BY <1>1 DEF PartsInv, Made, Kept, Parts, Cached, Servers, Start, Before, Starting, Up
  <1>4. FilesInv'
    BY <1>1 DEF FilesInv, Servers
  <1>5. KnowsInv'
    BY <1>1 DEF KnowsInv, Early, Start, Before, Starting, Up
  <1>6. PipeInv'
    <2>1. pipe = <<>> /\ lret = 0 /\ launcher = (IF Background THEN "read" ELSE "none") 
      BY <1>1 DEF PipeInv, Fresh
    <2>2. ret = 1
      BY <1>1 DEF PipeInv
    <2>3. open = Background
      BY <1>1 DEF PipeInv
    <2>4. ToldOnce'
      <3>1. Append(<<>>, 1) = <<1>>
        OBVIOUS
      <3>2. pipe' = IF Background THEN <<1>> ELSE <<>>
        BY <1>1, <2>1, <2>2, <3>1 DEF Written
      <3>3. QED
        BY <1>1, <2>1, <3>2 DEF ToldOnce
    <2>5. /\ main' \notin {"options", "null", "fork", "ready", "handlers", "enter", "pause", "failed"} \cup Starting
          /\ main' # "exited"
      BY <1>1 DEF Starting
    <2>6. ret' = ret
      BY <1>1, Zenon
    <2>7. ret' # 0
      BY <2>2, <2>6
    <2>8. open' = Background
      BY <1>1, <2>3, Zenon
    <2>9. QED
      BY <2>4, <2>5, <2>7, <2>8 DEF PipeInv
  <1>7. ~history'.killed
    BY <1>1 DEF TypeInv
  <1>8. QED
    BY <1>2, <1>3, <1>4, <1>5, <1>6, <1>7

LEMMA StopServerAlive ==
  ASSUME Alive, StopServer
  PROVE  Alive'
  <1> USE DEF Alive, LifeInv
  <1>1. /\ UNCHANGED <<i, ret, knows, pipe, open, launcher, lret, history>>
        /\ \/ main = "stop ctrl" /\ main' = "stop io" /\ objs' = objs \ {"ctrl"} /\ files' = Unlinked("ctrl")
           \/ main = "stop io" /\ main' = "leave" /\ objs' = objs \ {"io"} /\ files' = Unlinked("io")
    BY StepTable DEF StopServer, report
  <1>2. TypeInv'
    BY <1>1 DEF TypeInv, Start, Before, Starting, Up, Halt
  <1>3. PartsInv'
    BY <1>1 DEF PartsInv, Made, Kept, Parts, Cached, Servers, Start, Before, Starting, Up
  <1>4. FilesInv'
    BY <1>1 DEF FilesInv, Servers, Unlinked
  <1>5. KnowsInv'
    <2>1. "route" \in objs => "route" \in objs'
      BY <1>1
    <2>2. main' = "leave" => Untold' = Elements(Parents)
      <3> SUFFICES ASSUME main' = "leave" PROVE Untold' = Elements(Parents)
        OBVIOUS
      <3>1. i' = 1
        BY <1>1 DEF TypeInv
      <3>2. \A n \in DOMAIN Parents : n >= 1
        BY DaemonAssumption
      <3>3. {m \in DOMAIN Parents : m >= i'} = DOMAIN Parents
        BY <3>1, <3>2
      <3>4. QED
        BY <3>3 DEF Untold, Elements
    <2>3. QED
      BY <1>1, <2>1, <2>2 DEF KnowsInv, Early, Start, Before, Starting, Up
  <1>6. PipeInv'
    BY <1>1 DEF PipeInv, Fresh, ToldReady, ToldOnce, ToldTwice, Starting, Halt
  <1>7. ~history'.killed
    BY <1>1 DEF TypeInv
  <1>8. QED
    BY <1>2, <1>3, <1>4, <1>5, <1>6, <1>7

LEMMA LeaveAlive ==
  ASSUME Alive, Leave
  PROVE  Alive'
  <1> USE DEF Alive, LifeInv
  <1>1. /\ main = "leave" /\ main' = "leave" /\ "route" \in objs /\ i \in DOMAIN Parents /\ i' = i + 1 /\ i \in Nat \ {0}
        /\ UNCHANGED <<ret, objs, files, pipe, open, launcher, lret>>
    BY DaemonAssumption DEF Leave, report, TypeInv
  <1>2. \/ /\ knows' = knows \ {Parents[i]}
           /\ history' = [history EXCEPT !.refused = @ \ {Parents[i]}]
        \/ /\ Parents[i] \in knows /\ knows' = knows
           /\ history' = [history EXCEPT !.refused = @ \cup {Parents[i]}]
    BY DEF Leave
  <1>3. /\ history'.ready = history.ready /\ history'.found = history.found
        /\ history'.served = history.served /\ history'.killed = history.killed
        /\ \/ knows' = knows \ {Parents[i]} /\ history'.refused = history.refused \ {Parents[i]}
           \/ knows' = knows /\ Parents[i] \in knows /\ history'.refused = history.refused \cup {Parents[i]}
    BY <1>2 DEF TypeInv, History
  <1>4. history' \in History
    BY <1>1, <1>2 DEF TypeInv, History, Elements
  <1>5. TypeInv'
    BY <1>1, <1>4 DEF TypeInv, Start, Before, Starting, Up, Halt
  <1>6. PartsInv'
    BY <1>1, <1>3 DEF PartsInv, Made, Kept, Parts, Cached, Servers, Start, Before, Starting, Up
  <1>7. FilesInv'
    BY <1>1, <1>3 DEF FilesInv, Servers
  <1>8. KnowsInv'
    <2>1. Untold \subseteq Untold' \cup {Parents[i]}
      <3> SUFFICES ASSUME NEW n \in DOMAIN Parents, n >= i PROVE Parents[n] \in Untold' \cup {Parents[i]}
        BY DEF Untold
      <3>1. n \in Nat /\ (n = i \/ n >= i + 1)
        BY <1>1, DaemonAssumption
      <3>2. n >= i + 1 => Parents[n] \in Untold'
        BY <1>1 DEF Untold
      <3>3. QED
        BY <3>1, <3>2
    <2>2. history.refused \subseteq knows /\ knows \subseteq history.refused \cup Untold
          /\ knows \subseteq Elements(Parents)
      BY <1>1 DEF KnowsInv
    <2>3. history'.refused \subseteq knows' /\ knows' \subseteq history'.refused \cup Untold'
          /\ knows' \subseteq Elements(Parents)
      BY <1>3, <2>1, <2>2
    <2>4. main' \notin Early \cup Start /\ main' = "leave" /\ "route" \in objs'
      BY <1>1 DEF Early, Start, Before, Starting, Up
    <2>5. QED
      BY <2>3, <2>4 DEF KnowsInv
  <1>9. PipeInv'
    BY <1>1, <1>3 DEF PipeInv, Fresh, ToldReady, ToldOnce, ToldTwice, Starting, Halt
  <1>10. ~history'.killed
    BY <1>1, <1>2, <1>3, <1>4 DEF TypeInv
  <1>11. QED
    BY <1>5, <1>6, <1>7, <1>8, <1>9, <1>10

LEMMA LeftAlive ==
  ASSUME Alive, Left
  PROVE  Alive'
  <1> USE DEF Alive, LifeInv
  <1>1. /\ main = "leave" /\ main' = "clear" /\ i' = 1 /\ ("route" \in objs => i > Len(Parents))
        /\ UNCHANGED <<ret, objs, files, knows, pipe, open, launcher, lret, history>>
    BY StepTable DEF Left, report
  <1>2. knows = history.refused
    <2>1. "route" \in objs => Untold = {}
      BY <1>1, DaemonAssumption DEF Untold, TypeInv
    <2>2. QED
      BY <1>1, <2>1 DEF KnowsInv
  <1>3. TypeInv'
    BY <1>1, <1>2 DEF TypeInv, Start, Before, Starting, Up, Halt
  <1>4. PartsInv'
    BY <1>1, <1>2 DEF PartsInv, Made, Kept, Parts, Cached, Servers, Start, Before, Starting, Up
  <1>5. FilesInv'
    BY <1>1, <1>2 DEF FilesInv, Servers
  <1>6. KnowsInv'
    <2>1. main' = "clear" /\ main' \notin Early \cup Start /\ knows' = history'.refused
      BY <1>1, <1>2 DEF Early, Start, Before, Starting, Up
    <2>2. QED
      BY <2>1 DEF KnowsInv
  <1>7. PipeInv'
    BY <1>1, <1>2 DEF PipeInv, Fresh, ToldReady, ToldOnce, ToldTwice, Starting, Halt
  <1>8. ~history'.killed
    BY <1>1, <1>2 DEF TypeInv
  <1>9. QED
    BY <1>3, <1>4, <1>5, <1>6, <1>7, <1>8

LEMMA ClearAlive ==
  ASSUME Alive, Clear
  PROVE  Alive'
  <1> USE DEF Alive, LifeInv
  <1>1. /\ main = "clear" /\ main' = "free pool"
        /\ UNCHANGED <<i, ret, objs, files, knows, pipe, open, launcher, lret, history>>
    BY StepTable DEF Clear, report
  <1>2. TypeInv'
    BY <1>1 DEF TypeInv, Start, Before, Starting, Up, Halt
  <1>3. PartsInv'
    BY <1>1 DEF PartsInv, Made, Kept, Parts, Cached, Servers, Start, Before, Starting, Up
  <1>4. FilesInv'
    BY <1>1 DEF FilesInv, Servers
  <1>5. KnowsInv'
    BY <1>1 DEF KnowsInv, Early, Start, Before, Starting, Up
  <1>6. PipeInv'
    BY <1>1 DEF PipeInv, Fresh, ToldReady, ToldOnce, ToldTwice, Starting, Halt
  <1>7. ~history'.killed
    BY <1>1 DEF TypeInv
  <1>8. QED
    BY <1>2, <1>3, <1>4, <1>5, <1>6, <1>7

LEMMA FreeAlive ==
  ASSUME Alive, Free
  PROVE  Alive'
  <1> USE DEF Alive, LifeInv
  <1>1. /\ UNCHANGED <<i, ret, files, knows, pipe, open, launcher, lret, history>>
        /\ \/ main = "free pool" /\ main' = "free route" /\ objs' = objs \ {"pool"}
           \/ main = "free route" /\ main' = "free cache" /\ objs' = objs \ {"route"}
           \/ main = "free cache" /\ main' = "free mutexes" /\ objs' = objs \ {"cache"}
           \/ main = "free mutexes" /\ main' = "report" /\ objs' = objs \ {"mutexes"}
    BY StepTable DEF Free, Part, report
  <1>2. TypeInv'
    BY <1>1 DEF TypeInv, Start, Before, Starting, Up, Halt
  <1>3. PartsInv'
    BY <1>1 DEF PartsInv, Made, Kept, Parts, Cached, Servers, Start, Before, Starting, Up
  <1>4. FilesInv'
    BY <1>1 DEF FilesInv, Servers
  <1>5. KnowsInv'
    BY <1>1 DEF KnowsInv, Early, Start, Before, Starting, Up
  <1>6. PipeInv'
    BY <1>1 DEF PipeInv, Fresh, ToldReady, ToldOnce, ToldTwice, Starting, Halt
  <1>7. ~history'.killed
    BY <1>1 DEF TypeInv
  <1>8. QED
    BY <1>2, <1>3, <1>4, <1>5, <1>6, <1>7

LEMMA ReportAlive ==
  ASSUME Alive, Report
  PROVE  Alive'
  <1> USE DEF Alive, LifeInv
  <1>1. /\ main = "report" /\ main' = "exited" /\ pipe' = (IF ret # 0 THEN Written(ret) ELSE pipe) /\ open' = FALSE
        /\ UNCHANGED <<i, ret, objs, files, knows, launcher, lret, history>>
    BY StepTable DEF Report
  <1>2. TypeInv'
    BY <1>1 DEF TypeInv, Start, Before, Starting, Up, Halt
  <1>3. PartsInv'
    BY <1>1 DEF PartsInv, Made, Kept, Parts, Cached, Servers, Start, Before, Starting, Up
  <1>4. FilesInv'
    BY <1>1 DEF FilesInv, Servers
  <1>5. KnowsInv'
    BY <1>1 DEF KnowsInv, Early, Start, Before, Starting, Up
  <1>6. PipeInv'
    <2>1. ret \in {0, 1} /\ (ret = 0 => ToldReady /\ history.ready) /\ (ret = 1 => ToldOnce)
      BY <1>1 DEF PipeInv, Halt, TypeInv
    <2>2. ret = 1 => ToldTwice'
      <3>1. Append(<<>>, 1) = <<1>> /\ Append(<<1>>, 1) = <<1, 1>>
        BY TwoOnes
      <3>2. ret = 1 => pipe' = IF Background THEN Append(pipe, 1) ELSE pipe
        BY <1>1 DEF Written
      <3>3. QED
        BY <1>1, <2>1, <3>1, <3>2 DEF ToldOnce, ToldTwice
    <2>3. ret = 0 => ToldReady' /\ history'.ready
      BY <1>1, <2>1 DEF ToldReady
    <2>4. /\ main' \notin {"options", "null", "fork", "ready", "handlers", "enter", "pause", "failed"} \cup Starting
          /\ main' \notin Halt /\ (open' = Background \/ main' = "exited") /\ ret' = ret
      BY <1>1 DEF Starting, Halt
    <2>5. QED
      BY <2>1, <2>2, <2>3, <2>4 DEF PipeInv
  <1>7. ~history'.killed
    BY <1>1 DEF TypeInv
  <1>8. QED
    BY <1>2, <1>3, <1>4, <1>5, <1>6, <1>7

-----------------------------------------------------------------------------
(* The launcher and the end by a signal *)

LEMMA Heads ==
  /\ Head(<<0>>) = 0 /\ Tail(<<0>>) = <<>>
  /\ Head(<<1>>) = 1 /\ Tail(<<1>>) = <<>>
  /\ Head(<<1, 1>>) = 1 /\ Tail(<<1, 1>>) = <<1>>
  /\ <<0>> # <<>> /\ <<1>> # <<>> /\ <<1, 1>> # <<>>
  OBVIOUS

LEMMA ReadsNothing ==
  ASSUME Fresh, open = Background, LauncherRead
  PROVE  FALSE
  BY DEF Fresh, LauncherRead

LEMMA ReadsReady ==
  ASSUME ToldReady, LauncherRead
  PROVE  ToldReady' /\ lret' = 0
  <1>1. Background /\ launcher = "read" /\ pipe = <<0>> /\ lret = 0
    BY DEF ToldReady, LauncherRead
  <1>2. lret' = 0 /\ pipe' = <<>> /\ launcher' = "done"
    BY <1>1, Heads DEF LauncherRead, AfterRead
  <1>3. QED
    BY <1>1, <1>2 DEF ToldReady

LEMMA ReadsOnce ==
  ASSUME ToldOnce, open = Background, LauncherRead
  PROVE  ToldOnce' /\ lret' = 1
  <1>1. Background /\ launcher = "read" /\ pipe = <<1>>
    BY DEF ToldOnce, LauncherRead
  <1>2. lret' = 1 /\ pipe' = <<>> /\ launcher' = "again"
    BY <1>1, Heads DEF LauncherRead, AfterRead
  <1>3. QED
    BY <1>1, <1>2 DEF ToldOnce

LEMMA ReadsTwice ==
  ASSUME ToldTwice, LauncherRead
  PROVE  ToldTwice' /\ lret' = 1
  <1>1. \/ launcher = "read" /\ pipe = <<1, 1>>
        \/ launcher = "again" /\ pipe = <<1>>
    BY DEF ToldTwice, LauncherRead
  <1>2. CASE launcher = "read" /\ pipe = <<1, 1>>
    <2>1. lret' = 1 /\ pipe' = <<1>> /\ launcher' = "again"
      BY <1>2, Heads DEF LauncherRead, AfterRead
    <2>2. QED
      BY <2>1 DEF ToldTwice
  <1>3. CASE launcher = "again" /\ pipe = <<1>>
    <2>1. lret' = 1 /\ pipe' = <<>> /\ launcher' = "done"
      BY <1>3, Heads DEF LauncherRead, AfterRead
    <2>2. QED
      BY <2>1 DEF ToldTwice
  <1>4. QED
    BY <1>1, <1>2, <1>3

LEMMA LauncherReadAlive ==
  ASSUME Alive, LauncherRead
  PROVE  Alive'
  <1> USE DEF Alive, LifeInv
  <1>1. UNCHANGED <<main, i, ret, objs, files, knows, open, history>>
    BY DEF LauncherRead, proc
  <1>2. launcher # "none"
    BY DEF LauncherRead
  <1>3. /\ main \notin {"options", "null", "fork", "ready", "failed"} \cup Starting
        /\ main \in {"handlers", "enter", "pause"} \cup (Halt \ {"failed"}) \cup {"exited"}
    <2>1. main \notin {"options", "null", "fork"}
      BY <1>2 DEF PipeInv
    <2>2. main \notin {"ready", "failed"} \cup Starting
      <3> SUFFICES ASSUME main \in {"ready", "failed"} \cup Starting PROVE FALSE
        OBVIOUS
      <3>1. Fresh
        BY DEF PipeInv
      <3>2. open = Background
        BY DEF PipeInv, Starting
      <3>3. QED
        BY <3>1, <3>2, ReadsNothing
    <2>3. QED
      BY <2>1, <2>2 DEF TypeInv, Start, Before, Starting, Up
  <1>4. CASE ToldReady /\ history.ready /\ ret = 0
    <2>1. ToldReady' /\ history'.ready /\ ret' = 0 /\ lret' = 0
      BY <1>1, <1>4, ReadsReady
    <2>2. PipeInv'
      BY <1>1, <1>3, <2>1 DEF PipeInv
    <2>3. QED
      BY <1>1, <2>1, <2>2 DEF TypeInv, PartsInv, FilesInv, KnowsInv, Untold
  <1>5. CASE main # "exited" /\ ToldOnce /\ ret # 0
    <2>1. open = Background
      BY <1>5 DEF PipeInv
    <2>2. ToldOnce' /\ ret' # 0 /\ lret' = 1 /\ main' # "exited"
      BY <1>1, <1>5, <2>1, ReadsOnce
    <2>3. main \notin {"handlers", "enter", "pause"}
      BY <1>5 DEF PipeInv
    <2>4. PipeInv'
      BY <1>1, <1>3, <2>2, <2>3 DEF PipeInv
    <2>5. QED
      BY <1>1, <2>2, <2>4 DEF TypeInv, PartsInv, FilesInv, KnowsInv, Untold
  <1>6. CASE main = "exited" /\ ToldTwice /\ ret # 0
    <2>1. ToldTwice' /\ ret' # 0 /\ lret' = 1
      BY <1>1, <1>6, ReadsTwice
    <2>2. main' \notin Halt /\ main' \notin {"handlers", "enter", "pause"} /\ main' = "exited"
      BY <1>1, <1>6 DEF Halt
    <2>3. PipeInv'
      BY <1>1, <1>3, <2>1, <2>2 DEF PipeInv
    <2>4. QED
      BY <1>1, <2>1, <2>3 DEF TypeInv, PartsInv, FilesInv, KnowsInv, Untold
  <1>7. QED
    BY <1>3, <1>4, <1>5, <1>6 DEF PipeInv

\* Whatever a kill interrupts, the launcher reads zeros and ones.
LEMMA PipeValues ==
  ASSUME Alive
  PROVE  pipe \in Seq({0, 1})
  <1>1. pipe \in {<<>>, <<0>>, <<1>>, <<1, 1>>}
    BY DEF Alive, LifeInv, TypeInv, PipeInv, Fresh, ToldReady, ToldOnce, ToldTwice, Start, Before, Up, Halt, Starting
  <1>2. <<>> \in Seq({0, 1}) /\ <<0>> \in Seq({0, 1}) /\ <<1>> \in Seq({0, 1}) /\ <<1, 1>> \in Seq({0, 1})
    OBVIOUS
  <1>3. QED
    BY <1>1, <1>2

LEMMA Kill ==
  ASSUME Alive, Killed
  PROVE  IInv'
  <1>1. /\ main' = "exited" /\ objs' = {} /\ history' = [history EXCEPT !.killed = TRUE]
        /\ UNCHANGED <<i, ret, pipe, lret>>
    BY DEF Killed
  <1>2. history' \in History /\ history'.killed
    BY <1>1 DEF Alive, TypeInv, History
  <1>3. pipe' \in Seq({0, 1})
    BY <1>1, PipeValues
  <1>4. TypeInv'
    BY <1>1, <1>2 DEF Alive, TypeInv
  <1>5. QED
    BY <1>1, <1>2, <1>3, <1>4 DEF IInv

LEMMA Orphaned ==
  ASSUME IInv, history.killed, LauncherRead
  PROVE  IInv'
  <1>1. UNCHANGED <<main, i, ret, objs, history>>
    BY DEF LauncherRead, proc
  <1>2. pipe \in Seq({0, 1}) /\ lret \in {0, 1}
    BY DEF IInv, TypeInv
  <1>3. pipe' \in Seq({0, 1}) /\ lret' \in {0, 1}
    <2>1. CASE pipe # <<>> /\ lret' = Head(pipe) /\ pipe' = Tail(pipe)
      BY <1>2, <2>1, HeadTailProperties
    <2>2. CASE UNCHANGED <<pipe, lret>>
      BY <1>2, <2>2
    <2>3. QED
      BY <2>1, <2>2 DEF LauncherRead
  <1>4. QED
    BY <1>1, <1>3 DEF IInv, TypeInv

-----------------------------------------------------------------------------
(* The theorems *)

LEMMA InitInv == Init => IInv
  <1> SUFFICES ASSUME Init PROVE IInv
    OBVIOUS
  <1>1. files \in SUBSET Servers
    BY DEF Init, Servers
  <1>2. history \in History /\ ~history.killed /\ history.found = files /\ history.refused = {} /\ ~history.served
    BY <1>1 DEF Init, History
  <1>3. TypeInv
    BY <1>2 DEF Init, TypeInv, Start, Before
  <1>4. PartsInv
    <2>1. main \in Start /\ main \in Before /\ objs = {}
      BY DEF Init, Start, Before
    <2>2. objs = Made(main)
      BY <2>1 DEF Made, Before, Up
    <2>3. QED
      BY <1>2, <2>1, <2>2 DEF PartsInv
  <1>5. FilesInv
    BY <1>2 DEF Init, FilesInv
  <1>6. KnowsInv
    BY <1>2 DEF Init, KnowsInv
  <1>7. PipeInv
    <2>1. main = "options" /\ pipe = <<>> /\ lret = 0 /\ launcher = "none" /\ ret = 0
      BY DEF Init
    <2>2. open = Background
      BY DEF Init
    <2>3. main \notin Starting \cup {"ready", "handlers", "enter", "pause", "fork", "exited", "failed"} \cup Halt
      BY <2>1 DEF Starting, Halt
    <2>4. QED
      BY <2>1, <2>2, <2>3 DEF PipeInv
  <1>8. QED
    BY <1>2, <1>3, <1>4, <1>5, <1>6, <1>7 DEF IInv, LifeInv

LEMMA MainAlive ==
  ASSUME Alive, MainStep
  PROVE  Alive'
  <1>1. CASE Option \/ RegisterNull \/ BadOption \/ Fork
    BY <1>1, OptionAlive, RegisterNullAlive, BadOptionAlive, ForkAlive, Zenon
  <1>2. CASE Fails \/ Create \/ StartIOServer \/ StartCtrlServer \/ Introduce \/ Introduced
    BY <1>2, FailsAlive, CreateAlive, StartIOServerAlive, StartCtrlServerAlive, IntroduceAlive, IntroducedAlive, Zenon
  <1>3. CASE Ready \/ Handlers \/ EnterPause \/ Failed \/ StopServer
    BY <1>3, ReadyAlive, WaitAlive, FailedAlive, StopServerAlive, Zenon
  <1>4. CASE Leave \/ Left \/ Clear \/ Free \/ Report
    BY <1>4, LeaveAlive, LeftAlive, ClearAlive, FreeAlive, ReportAlive, Zenon
  <1>5. QED
    BY <1>1, <1>2, <1>3, <1>4, Zenon DEF MainStep

LEMMA MainRuns ==
  ASSUME MainStep \/ Signal \/ Killed
  PROVE  main # "exited"
  BY DEF MainStep, Signal, Killed, Option, RegisterNull, BadOption, Fork, Fails, Starting, Create, StartIOServer,
         StartCtrlServer, Serve, Introduce, Introduced, Ready, Handlers, EnterPause, Failed, StopServer, Leave,
         Left, Clear, Free, Part, Report

LEMMA NextInv == IInv /\ [Next]_vars => IInv'
  <1> SUFFICES ASSUME IInv, [Next]_vars PROVE IInv'
    OBVIOUS
  <1>1. CASE ~history.killed
    <2>1. Alive
      BY <1>1 DEF IInv, Alive
    <2>2. Alive' => IInv'
      BY DEF IInv, Alive
    <2>3. CASE MainStep
      BY <2>1, <2>2, <2>3, MainAlive
    <2>4. CASE Signal
      BY <2>1, <2>2, <2>4, SignalAlive
    <2>5. CASE Killed
      BY <2>1, <2>5, Kill
    <2>6. CASE LauncherRead
      BY <2>1, <2>2, <2>6, LauncherReadAlive
    <2>7. CASE UNCHANGED vars
      <3>1. UNCHANGED <<main, i, ret, objs, files, knows, pipe, open, launcher, lret, history>>
        BY <2>7 DEF vars, proc, report
      <3>2. TypeInv' /\ PartsInv' /\ FilesInv' /\ KnowsInv'
        BY <2>1, <3>1 DEF Alive, LifeInv, TypeInv, PartsInv, FilesInv, KnowsInv, Untold
      <3>3. PipeInv'
        BY <2>1, <3>1 DEF Alive, LifeInv, PipeInv, Fresh, ToldReady, ToldOnce, ToldTwice
      <3>4. QED
        BY <1>1, <3>1, <3>2, <3>3 DEF IInv, LifeInv
    <2>8. QED
      BY <2>3, <2>4, <2>5, <2>6, <2>7 DEF Next, Done
  <1>2. CASE history.killed
    <2>1. ~(MainStep \/ Signal \/ Killed)
      BY <1>2, MainRuns DEF IInv
    <2>2. CASE LauncherRead
      BY <1>2, <2>2, Orphaned
    <2>3. CASE UNCHANGED vars
      <3>1. UNCHANGED <<main, i, ret, objs, pipe, lret, history>>
        BY <2>3 DEF vars, proc, report
      <3>2. QED
        BY <1>2, <3>1 DEF IInv, TypeInv
    <2>4. QED
      BY <2>1, <2>2, <2>3 DEF Next, Done
  <1>3. QED
    BY <1>1, <1>2

\* The invariant of the daemon's life: at every step of __propd_run the parts,
\* the sockets, the entries at the parents and the messages in the pipe are
\* those that the steps before it have left.
THEOREM Invariance == Spec => []IInv
  BY InitInv, NextInv, PTL DEF Spec

\* Whichever step of the start fails, and whenever the signal comes, a request
\* that is accepted finds the pool, the mutexes, the route and the cache.
THEOREM PartsServe == Spec => []RequestsHaveParts
  <1>1. IInv => RequestsHaveParts
    <2> SUFFICES ASSUME IInv PROVE RequestsHaveParts
      OBVIOUS
    <2>1. CASE history.killed
      BY <2>1 DEF IInv, RequestsHaveParts
    <2>2. CASE ~history.killed /\ main \in Start
      BY <2>2 DEF IInv, LifeInv, PartsInv, Made, Parts, Cached, Servers, Start, Before, Starting, Up, RequestsHaveParts
    <2>3. CASE ~history.killed /\ main \notin Start
      BY <2>3 DEF IInv, TypeInv, LifeInv, PartsInv, Kept, Parts, Cached, Servers, Halt, RequestsHaveParts
    <2>4. QED
      BY <2>1, <2>2, <2>3
  <1>2. QED
    BY <1>1, Invariance, PTL

\* Every way out of __propd_run but a kill leaves the parts freed, the sockets
\* of others alone and its own unlinked, and no parent with an entry that it
\* did not insist on.
THEOREM ExitsClean == Spec => []CleanExit
  <1>1. IInv => CleanExit
    BY DEF IInv, LifeInv, PartsInv, FilesInv, KnowsInv, Kept, Start, Before, Starting, Up, CleanExit
  <1>2. QED
    BY <1>1, Invariance, PTL

\* What propd_run returns in the launcher is what the daemon did.
THEOREM LauncherTrue == Spec => []LauncherTruthful
  <1>1. IInv => LauncherTruthful
    <2> SUFFICES ASSUME IInv, launcher = "done", ~history.killed
                 PROVE  IF lret = 0 THEN history.ready ELSE ret # 0 /\ objs = {} /\ knows = history.refused
      BY DEF LauncherTruthful
    <2>1. CASE lret = 0
      BY <2>1 DEF IInv, TypeInv, LifeInv, PipeInv, Fresh, ToldReady, ToldOnce, ToldTwice, Start, Before, Up, Halt, Starting
    <2>2. CASE lret # 0
      <3>1. main = "exited" /\ ret # 0
        BY <2>2 DEF IInv, TypeInv, LifeInv, PipeInv, Fresh, ToldReady, ToldOnce, ToldTwice, Start, Before, Up, Halt, Starting
      <3>2. objs = {} /\ knows = history.refused
        BY <3>1 DEF IInv, LifeInv, PartsInv, KnowsInv, Kept, Start, Before, Starting, Up
      <3>3. QED
        BY <2>2, <3>1, <3>2
    <2>3. QED
      BY <2>1, <2>2
  <1>2. QED
    BY <1>1, Invariance, PTL
=============================================================================
