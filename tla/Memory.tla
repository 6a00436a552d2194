------------------------------- MODULE Memory -------------------------------
(***************************************************************************)
(* The memory storage: lib/builtin/memory.c on lib/memio/.  A layout names *)
(* positions in a mapped region; up to WordBytes long (4 in the code) a    *)
(* position is an integer, of which the mask selects adjacent bits, longer *)
(* ones are data.  get reads a position with pos_read; one other process   *)
(* that shares the region writes positions with pos_write, which reads the *)
(* word and writes it back without a lock.                                 *)
(***************************************************************************)
EXTENDS Integers, Sequences, FiniteSetsExt, TLC

CONSTANTS
  ByteBits, WordBytes,    \* 8 and 4 in the code
  AddrBits,               \* 32: the width of offset and length
  Configs,                \* layout files: sequences of entries, which may be bad
  Data,                   \* what pos_write may be given, sequences of bytes
  Names,                  \* the keys that are asked for
  MemFaults               \* of {"deny", "nomap"}

VARIABLES
  live,      \* the storage has been constructed
  layout,    \* the positions, in the order of the file
  mapped,    \* the length of the mapping
  mem,       \* mem[a]: the byte at address a of the region
  wrote,     \* wrote[i]: the last data that was written at position i, <<>> if
             \* there is none or it is being written
  writer,    \* the write that is under way: the position, the data, what it read
  ans        \* the answer to the last get

mvars == <<live, layout, mapped, mem, wrote, writer, ans>>

NoWrite == [pos |-> 0, data |-> <<>>, raw |-> <<>>]
NoAnswer == [name |-> "none", ret |-> "none", data |-> <<>>]

MemInit ==
  /\ live = FALSE /\ layout = <<>> /\ mapped = 0
  /\ mem = <<>> /\ wrote = <<>> /\ writer = NoWrite
  /\ ans = NoAnswer

-----------------------------------------------------------------------------
(* position.c.  A mask is w ones followed by s zeros; without a mask it is *)
(* 0, and whatever the shift by -1 does, nothing is selected.              *)

Pow2(n) == 2^n
MaskShift(m) == IF m = 0 THEN 0 ELSE Max({s \in 0 .. ByteBits * WordBytes : m % Pow2(s) = 0})
MaskMax(m) == m \div Pow2(MaskShift(m))
MaskRead(m, w) == (w \div Pow2(MaskShift(m))) % (MaskMax(m) + 1)

Mut_MaskWrite(m, w, v) == v * Pow2(MaskShift(m))
MaskWrite(m, w, v) == w + (v - MaskRead(m, w)) * Pow2(MaskShift(m))

MaskLength(m) == Min({n \in 1 .. WordBytes : MaskMax(m) < Pow2(n * ByteBits)})

\* Little endian.
Word(s) == MapThenFoldSet(+, 0, LAMBDA i : s[i] * Pow2((i - 1) * ByteBits),
                          LAMBDA S : CHOOSE i \in S : TRUE, DOMAIN s)
Bytes(w, n) == [i \in 1 .. n |-> (w \div Pow2((i - 1) * ByteBits)) % Pow2(ByteBits)]
Padded(s, n) == [i \in 1 .. n |-> IF i <= Len(s) THEN s[i] ELSE 0]

\* The bytes of the region that pos occupies.
At(pos) == [i \in 1 .. pos.length |-> mem[pos.offset + i - 1]]
Put(pos, s) ==
  [a \in DOMAIN mem |-> IF a \in pos.offset .. pos.offset + pos.length - 1
                          THEN s[a - pos.offset + 1] ELSE mem[a]]

IsInteger(pos) == pos.length <= WordBytes

\* pos_read into a buffer of length n; <<>> for -ENOBUFS.
PosRead(pos, n) ==
  CASE IsInteger(pos) /\ n >= MaskLength(pos.mask) ->
         Padded(Bytes(MaskRead(pos.mask, Word(At(pos))), MaskLength(pos.mask)), n)
    [] ~IsInteger(pos) /\ n >= pos.length -> Padded(At(pos), n)
    [] OTHER -> <<>>

\* What pos_write accepts, and the region after it, if raw was there before.
Fits(pos, s) ==
  IF IsInteger(pos) THEN Len(s) <= WordBytes /\ Word(s) <= MaskMax(pos.mask)
                    ELSE Len(s) <= pos.length
PosWrite(pos, raw, s) ==
  IF IsInteger(pos)
    THEN Put(pos, Bytes(MaskWrite(pos.mask, Word(raw), Word(s)), pos.length))
    ELSE Put(pos, Padded(s, pos.length))

-----------------------------------------------------------------------------
(* layout.c and list_search.c                                              *)

Longer(end, length) == IF end > length THEN end ELSE length

\* The loop of layout_length over the first n positions, in uint32_t.
layout_length(l) ==
  LET f[n \in 0 .. Len(l)] ==
        IF n = 0 THEN 0
        ELSE Longer((l[n].offset + l[n].length) % Pow2(AddrBits), f[n - 1])
  IN f[Len(l)]

\* parse_pos needs a name, an offset and a length of every entry.
layout_parse(cfg) == \A i \in DOMAIN cfg : cfg[i].valid

\* __lst_search: the first position of that name, 0 without one.
Search(l, name) ==
  LET hits == {i \in DOMAIN l : l[i].name = name} IN IF hits = {} THEN 0 ELSE Min(hits)

-----------------------------------------------------------------------------
(* lib/builtin/memory.c                                                    *)

\* parse and constructor_memory.  A layout with a bad entry, no memory or no
\* /dev/mem undo everything.  mmap fails with MAP_FAILED, which is not NULL.
MemConstruct(cfg) ==
  /\ ~live
  /\ \/ /\ layout_parse(cfg)
        /\ live' = TRUE
        /\ layout' = cfg
        /\ mapped' \in {layout_length(cfg)} \cup (IF "nomap" \in MemFaults THEN {0} ELSE {})
        /\ \E b \in {0, Pow2(ByteBits) - 1} : mem' = [a \in 0 .. mapped' - 1 |-> b]
        /\ wrote' = [i \in DOMAIN cfg |-> <<>>]
     \/ /\ "deny" \in MemFaults \/ ~layout_parse(cfg)
        /\ UNCHANGED <<live, layout, mapped, mem, wrote>>
  /\ ans' = NoAnswer
  /\ UNCHANGED writer

\* memory_deinit
MemDestruct ==
  /\ live
  /\ live' = FALSE
  /\ layout' = <<>> /\ mapped' = 0 /\ mem' = <<>> /\ wrote' = <<>>
  /\ writer' = NoWrite
  /\ ans' = NoAnswer

\* memory_get.  The result of pos_read is not looked at: when it refuses, the
\* value is what malloc returned.
Answer(i) ==
  IF i = 0 THEN [ret |-> "enoent", data |-> <<>>]
  ELSE LET data == PosRead(layout[i], layout[i].length) IN
       [ret |-> IF data = <<>> THEN "undefined" ELSE "ok", data |-> data]

MemGet(name) ==
  /\ live
  /\ ans' = [name |-> name] @@ Answer(Search(layout, name))
  /\ UNCHANGED <<live, layout, mapped, mem, wrote, writer>>

\* The process that has the region mapped too writes position i: it reads the
\* word ...
MemWrite(i, s) ==
  /\ writer = NoWrite
  /\ i \in DOMAIN layout
  /\ Fits(layout[i], s)
  /\ writer' = [pos |-> i, data |-> s, raw |-> At(layout[i])]
  /\ wrote' = [wrote EXCEPT ![i] = <<>>]
  /\ ans' = NoAnswer
  /\ UNCHANGED <<live, layout, mapped, mem>>

\* ... and writes it back.  Data goes there without being read first.
MemWriteBack ==
  /\ writer # NoWrite
  /\ mem' = PosWrite(layout[writer.pos], writer.raw, writer.data)
  /\ wrote' = [wrote EXCEPT ![writer.pos] = writer.data]
  /\ writer' = NoWrite
  /\ ans' = NoAnswer
  /\ UNCHANGED <<live, layout, mapped>>

MemNext ==
  \/ \E cfg \in Configs : MemConstruct(cfg)
  \/ MemDestruct
  \/ \E name \in Names : MemGet(name)
  \/ \E i \in DOMAIN layout, s \in Data : MemWrite(i, s)
  \/ MemWriteBack

-----------------------------------------------------------------------------
\* Every position lies inside the mapping.
ReadsInside ==
  \A i \in DOMAIN layout : layout[i].offset + layout[i].length <= mapped

\* Every position lies inside the mapping, and a get returns what was last
\* written there, whatever was or is being written to its neighbours in the
\* same word since, and ENOENT for no other name.
FieldsKept ==
  /\ ReadsInside
  /\ ans.ret = "enoent" => \A i \in DOMAIN layout : layout[i].name # ans.name
  /\ ans.ret \notin {"none", "enoent"} => \A i \in DOMAIN layout :
       layout[i].name = ans.name /\ wrote[i] # <<>> =>
         ans.data = Padded(wrote[i], layout[i].length)

\* `regard as integer if length <= 4': an integer has one value.  (value_to_u32
\* copies length bytes into an unassigned uint32_t.)
IntegersDefined ==
  \A i \in DOMAIN layout : IsInteger(layout[i]) => layout[i].length = WordBytes
=============================================================================
