------------------------------- MODULE Client -------------------------------
(***************************************************************************)
(* The command line client app/prop/main.c: one command per process.  argv *)
(* has the words behind the options; a word is a key or a text, a record   *)
(* that value_parse reads.  The daemon answers each request with success   *)
(* or an error; store is what it keeps.                                    *)
(***************************************************************************)
EXTENDS Helpers

CONSTANTS
  CKeys,
  Commands,   \* the command lines
  NoEntry

VARIABLES argv, i, ret, out, status, store, begun

cvars == <<argv, i, ret, out, status, store, begun>>

argc == Len(argv)
Command == argv[1]
Error == 5          \* any errno
Failed == 255       \* UINT8_MAX, and -1 as an exit status
Aborted == 134      \* an assertion fails; without assertions a null pointer is read
NoMemory == 139     \* the same, because a value could not be allocated

ClientInit ==
  /\ argv \in Commands
  /\ i = 1
  /\ ret = 0
  /\ out = <<>>       \* what was reported for each key
  /\ status = -1      \* the exit status; -1 while the process runs
  /\ store \in [CKeys -> {NoEntry, [type |-> "cstring", data |-> <<0>>]}]
  /\ begun = store    \* what it kept at the start

Running == status = -1
Exit(s) == status' = s /\ UNCHANGED <<argv, i, ret, out, store, begun>>

\* The number of arguments each command insists on.
Arity ==
  CASE argc = 0 -> FALSE
    [] Command \in {"get", "del"} -> argc >= 2
    [] Command = "set" -> argc >= 3 /\ argc % 2 = 1
    [] Command = "ctrl" ->
         \/ argc >= 4 /\ argv[2] = "register_child"
         \/ argc >= 3 /\ argv[2] \in {"register_parent", "unregister_child", "unregister_parent"}
         \/ argc >= 2 /\ argv[2] \in {"dump_db_route", "dump_db_cache"}
    [] OTHER -> FALSE

Usage == Running /\ i = 1 /\ ~Arity /\ Exit(Failed)

\* The result of a control request is the exit status.  A dump is asked for
\* without a place for the data, which ctrl_final0 asserts after the request
\* was sent.
Control ==
  /\ Running /\ Arity /\ Command = "ctrl"
  /\ \E r \in {0, Error} :
       Exit(IF r = 0 /\ argv[2] \in {"dump_db_route", "dump_db_cache"} THEN Aborted ELSE r)

\* constructor_unix
Connect ==
  /\ Running /\ i = 1 /\ Arity /\ Command # "ctrl"
  /\ \/ i' = 2 /\ UNCHANGED <<argv, ret, out, status, store, begun>>
     \/ Exit(Failed)

Step == IF Command = "set" THEN 2 ELSE 1

\* One round of the loop; what follows it is reported and remembered.
Round(r, kept) ==
  /\ ret' = r
  /\ out' = Append(out, r)
  /\ i' = i + Step
  /\ store' = kept
  /\ UNCHANGED <<argv, status, begun>>

InLoop(command) == Running /\ i \in 2 .. argc /\ Command = command

Get ==
  /\ InLoop("get")
  /\ \E r \in {0, Error} :
       /\ r = 0 => store[argv[i]] # NoEntry
       /\ Round(r, store)

\* What the daemon has for a key that was to become v, when the answer is r:
\* after an error (the answer is lost, the file was truncated, nothing was
\* done) it may have v, no value, or what it had.
Kept(r, v) ==
  {[store EXCEPT ![argv[i]] = x] : x \in IF r = 0 THEN {v} ELSE {v, NoEntry, store[argv[i]]}}

\* storage_set asserts the value and formats it.
Set ==
  LET value == value_parse(argv[i + 1]) IN
  /\ InLoop("set")
  /\ \/ value = Invalid /\ Exit(Aborted)
     \/ Exit(NoMemory)
     \/ value # Invalid /\ \E r \in {0, Error} : \E kept \in Kept(r, value) : Round(r, kept)

Del ==
  /\ InLoop("del")
  /\ \E r \in {0, Error} : \E kept \in Kept(r, NoEntry) : Round(r, kept)

Finish == Running /\ i > argc /\ argc > 1 /\ Exit(ret)

ClientNext == Usage \/ Control \/ Connect \/ Get \/ Set \/ Del \/ Finish

-----------------------------------------------------------------------------
\* The rounds that named k, and what round n asked for.
Rounds(k) == {n \in DOMAIN out : argv[2 + (n - 1) * Step] = k}
Last(S) == CHOOSE x \in S : \A y \in S : y <= x
Wanted(n) == IF Command = "del" THEN NoEntry ELSE Meaning(argv[1 + 2 * n])

Possible(k) ==
  IF Rounds(k) = {} \/ Command = "get" THEN {begun[k]}
  ELSE IF out[Last(Rounds(k))] = 0 THEN {Wanted(Last(Rounds(k)))}
  ELSE {begun[k], NoEntry} \cup {Wanted(n) : n \in Rounds(k)}

\* Whatever the number of arguments and wherever a command stops, the daemon
\* has for each key what its last argument means if that was reported as done,
\* what it had if the key was not named, and after an error nothing that was
\* not there or asked for; a process that ends by itself has reported every
\* argument, and one that an assertion stops was given a text that means
\* nothing.
AppliesArguments ==
  argc > 1 /\ Command # "ctrl" =>
    /\ \A k \in CKeys : store[k] \in Possible(k)
    /\ status \in {0, Error} => 1 + Len(out) * Step = argc
    /\ status = Aborted => Meaning(argv[3 + 2 * Len(out)]) = Invalid
=============================================================================
