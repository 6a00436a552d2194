------------------------------ MODULE MCLocal ------------------------------
(***************************************************************************)
(* The parts that share no state with each other, one at a time: the file, *)
(* the memory and the unix storage, the command line client, the helpers.  *)
(***************************************************************************)
EXTENDS FileStorage, MCStream

CONSTANTS f1, f2, v1, v2, NoEntry

VARIABLES
  live, layout, mapped, mem, wrote, writer, ans,            \* Memory
  argv, i, cret, out, status, store, begun,         \* Client
  part

MCKeys == {f1}              \* keys meet only where their paths are cut
MCTwoKeys == {f1, f2}
MCValues == {v1, v2}
MCLength == [v \in MCValues |-> IF v = v1 THEN 1 ELSE 2]
MCEmpty == [v \in MCValues |-> IF v = v1 THEN 0 ELSE 1]

\* Positions with masks that share a word, in and out of order, and one that
\* is not valid.
P(n, o, l, m) == [name |-> n, offset |-> o, length |-> l, mask |-> m, valid |-> TRUE]
MCConfigs == {
  <<P("a", 0, 2, 6), P("b", 0, 2, 8), P("c", 0, 2, 1), P("d", 2, 3, 0)>>,
  <<P("c", 4, 2, 15), P("b", 1, 3, 0), P("a", 0, 1, 2)>>,
  <<P("a", 0, 1, 3), [P("b", 1, 1, 3) EXCEPT !.valid = FALSE]>>}
MCData == {<<0>>, <<1>>, <<2>>, <<3>>, <<2, 1>>, <<3, 3>>, <<1, 0, 2>>}
MCNames == {"a", "b", "c", "d"}

M == INSTANCE Memory WITH
  ByteBits <- 2, WordBytes <- 2, AddrBits <- 4, Configs <- MCConfigs, Data <- MCData,
  Names <- MCNames, MemFaults <- {"deny"}

\* Digits 0 .. 2; integers of three and of five bits: texts up to five
\* characters are below, at and above the limits of both.
H == INSTANCE Helpers WITH Base <- 3, W32 <- 3, W64 <- 5

Texts ==
  {t \in [tag : {"i32", "u32", "i64", "u64", "float", "double", "data", "none"}, body : H!Strings({0, 1, 2, H!X, H!Minus}, 4)] :
     t.tag \in {"u32", "u64"} => ~H!Negative(t.body)}
Some == {[tag |-> "i32", body |-> <<1, 1>>], [tag |-> "i32", body |-> <<1, 0>>], [tag |-> "data", body |-> <<2, 1>>]}

MCCommands ==
  {<<>>, <<"sync">>, <<"get">>, <<"get", "x">>, <<"del", "x", "y">>, <<"del">>, <<"get", "x", "y", "x">>,
   <<"set">>, <<"set", "x">>, <<"set", "x", [tag |-> "none", body |-> <<>>], "y">>,
   <<"ctrl">>, <<"ctrl", "register_child", "x">>, <<"ctrl", "register_child", "x", "y">>,
   <<"ctrl", "register_parent">>, <<"ctrl", "unregister_parent", "x">>,
   <<"ctrl", "unregister_child", "x">>, <<"ctrl", "dump_db_route">>, <<"ctrl", "dump_db_cache">>}
  \cup {<<"set", "x", t>> : t \in Texts}
  \cup {<<"set", "x", t, k, u, "x", s>> : t \in Some, u \in Some, s \in Some, k \in {"x", "y"}}

C == INSTANCE Client WITH
  Base <- 3, W32 <- 3, W64 <- 5, CKeys <- {"x", "y"}, Commands <- MCCommands, ret <- cret

mvars == <<live, layout, mapped, mem, wrote, writer, ans>>
cvars == <<argv, i, cret, out, status, store, begun>>
allvars == <<vars, streamVars, mvars, cvars, part>>

\* The parts that are not looked at rest in an initial state.
LocalInit ==
  /\ part \in {"file", "unix", "memory", "client", "helpers"}
  /\ Init /\ (part = "file" \/ dir)
  /\ StreamInit /\ (part = "unix" \/ Shared)
  /\ M!MemInit
  /\ C!ClientInit /\ (part = "client" \/ (argv = <<>> /\ store["x"] = NoEntry /\ store["y"] = NoEntry))

LocalNext ==
  /\ \/ part = "file" /\ Next /\ UNCHANGED <<streamVars, mvars, cvars>>
     \/ part = "unix" /\ StreamNext /\ UNCHANGED <<vars, mvars, cvars>>
     \/ part = "memory" /\ M!MemNext /\ UNCHANGED <<vars, streamVars, cvars>>
     \/ part = "client" /\ C!ClientNext /\ UNCHANGED <<vars, streamVars, mvars>>
  /\ UNCHANGED part

\* Fairness is that of Stream; a connection that rests has nothing to do.
LocalSpec == LocalInit /\ [][LocalNext]_allvars /\ Fairness

-----------------------------------------------------------------------------
\* A position of the layout is inside the mapped region and reads as what was
\* written to it last, whatever is written to its neighbours in the same word
\* (memory.c, position.c, layout.c).
FieldsKept == M!FieldsKept

\* What prop set and prop del report is what the daemon keeps
\* (app/prop/main.c, value_parse).
AppliesArguments == C!AppliesArguments

\* Keys reach the storages whose patterns they match (prefix_match).
PrefixMatches == part = "helpers" => H!PrefixMatchesUpTo(3)

\* Memory and lists that are printed stay within their buffers, keep what fits,
\* and read back (hexmem, hex2mem, arrayfmt_cstring, arrayparse_cstring).
TextFits == part = "helpers" => H!HexFitsUpTo(5, 11) /\ H!ListsReadBackUpTo(2, 7)
=============================================================================
