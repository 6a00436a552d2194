------------------------- MODULE StorageProofs -------------------------
(***************************************************************************)
(* The storages of lib/builtin/ that keep their values elsewhere: in files *)
(* and at another daemon.                                                  *)
(*                                                                         *)
(* The file storage, for any keys, values and lengths: what a get returns  *)
(* is whole, and it is what the calls before have promised.                *)
(*                                                                         *)
(* The unix storage, for any callers, connections and lengths: a call that *)
(* succeeds has received the answer to its own request, and a shared       *)
(* connection is drained when the next caller gets it.                     *)
(***************************************************************************)
EXTENDS FileStorage, Stream, SequenceTheorems, TLAPS

FileUnit == Keys \X Values \X Nat

\* The first n units of a file of v.
Part(k, v, n) == [u \in 1 .. n |-> <<k, v, u - 1>>]

Writing(k) == pc[k] \in {"fwrite", "fclose"}

\* What is at a key's own path is always the beginning of a value that was set,
\* never a mixture; during a set it is as much as was handed over.
FileInv(k) ==
  /\ k \in DOMAIN disk =>
       k \notin Long /\ \E v \in Values : \E n \in 0 .. Length[v] + 1 : disk[k] = Part(k, v, n)
  /\ Writing(k) => op[k] = "set" /\ val[k] \in Values
  /\ Writing(k) /\ k \notin Long => k \in DOMAIN disk /\ disk[k] = Part(k, val[k], pos[k])
  /\ pc[k] = "fwrite" => pos[k] = 0
  /\ pc[k] = "fclose" => pos[k] <= buf[k] /\ buf[k] <= Length[val[k]] + 1
  /\ pc[k] \in {"head", "data"} => k \in DOMAIN disk
  /\ pc[k] = "data" => 1 \in DOMAIN disk[k] /\ got[k] = <<disk[k][1]>>

WholeInv(k) ==
  GetDone(k) /\ ret[k] = "ok" => \E v \in Values : got[k] = Image(k, v)

IInv ==
  /\ TypeOK
  /\ \A k \in Keys : FileInv(k)
  /\ \A k \in Keys : WholeInv(k)

\* What ReadsBack needs of its surroundings: fclose does not fail, no path is
\* cut, and no value is empty.
Reliable == "flush" \notin Faults /\ Long = {} /\ \A v \in Values : Length[v] > 0

\* What the calls promise is what the file holds.
PromiseInv(k) ==
  /\ acked[k] \in Values => k \in DOMAIN disk /\ disk[k] = Image(k, acked[k])
  /\ acked[k] = NoValue => k \notin DOMAIN disk
  /\ Writing(k) => acked[k] = Unknown
  /\ pc[k] = "fclose" /\ ret[k] = "ok" => buf[k] = Length[val[k]] + 1

RInv ==
  /\ IInv
  /\ Reliable
  /\ \A k \in Keys : PromiseInv(k)
  /\ ReadsBack

-----------------------------------------------------------------------------
(* Files and their parts *)

LEMMA PartIsSeq ==
  ASSUME NEW k \in Keys, NEW v \in Values, NEW n \in Nat
  PROVE  Part(k, v, n) \in Seq(FileUnit) /\ Len(Part(k, v, n)) = n
  <1>1. Part(k, v, n) \in [1 .. n -> FileUnit]
    BY DEF Part, FileUnit
  <1>2. Part(k, v, n) \in Seq(FileUnit)
    BY <1>1, SeqDef
  <1>3. DOMAIN Part(k, v, n) = 1 .. n
    BY DEF Part
  <1>4. QED
    BY <1>2, <1>3, LenProperties

LEMMA ImageIsPart ==
  ASSUME NEW k \in Keys, NEW v \in Values
  PROVE  /\ Image(k, v) = Part(k, v, Length[v] + 1)
         /\ Length[v] \in Nat
         /\ Len(Image(k, v)) = Length[v] + 1
  <1>1. Length[v] \in Nat
    BY FileAssumption
  <1>2. Image(k, v) = Part(k, v, Length[v] + 1)
    BY DEF Image, Part
  <1>3. QED
    BY <1>1, <1>2, PartIsSeq

\* Handing over the next units makes a longer part.
LEMMA WrittenPart ==
  ASSUME NEW k \in Keys, NEW v \in Values, NEW n \in Nat, NEW j \in Nat,
         n <= j, j <= Length[v] + 1
  PROVE  Written(Part(k, v, n), Image(k, v), n, j) = Part(k, v, j)
  <1>1. Len(Part(k, v, n)) = n
    BY PartIsSeq
  <1>2. (IF n > j THEN n ELSE j) = j
    OBVIOUS
  <1>3. Written(Part(k, v, n), Image(k, v), n, j)
          = [u \in 1 .. j |-> IF u \in n + 1 .. j THEN Image(k, v)[u]
                                ELSE IF u <= n THEN Part(k, v, n)[u] ELSE Hole]
    BY <1>1, <1>2 DEF Written
  <1>4. \A u \in 1 .. j : u \in n + 1 .. j => Image(k, v)[u] = <<k, v, u - 1>>
    BY ImageIsPart DEF Image
  <1>5. \A u \in 1 .. j : u \notin n + 1 .. j => u <= n /\ Part(k, v, n)[u] = <<k, v, u - 1>>
    BY DEF Part
  <1>6. QED
    BY <1>3, <1>4, <1>5 DEF Part

LEMMA SingletonSeq ==
  ASSUME NEW S, NEW e \in S
  PROVE  /\ <<e>> \in Seq(S) /\ Len(<<e>>) = 1 /\ <<e>>[1] = e
         /\ \A s \in Seq(S) : Len(s) = 1 /\ s[1] = e => s = <<e>>
  <1>1. <<e>> \in Seq(S) /\ Len(<<e>>) = 1 /\ <<e>>[1] = e
    OBVIOUS
  <1>2. ASSUME NEW s \in Seq(S), Len(s) = 1, s[1] = e PROVE s = <<e>>
    <2>1. \A u \in 1 .. Len(s) : s[u] = <<e>>[u]
      BY <1>1, <1>2
    <2>2. QED
      BY <1>1, <1>2, <2>1, SeqEqual
  <1>3. QED
    BY <1>1, <1>2

\* What is read from a part.
LEMMA HeadOfPart ==
  ASSUME NEW k \in Keys, NEW v \in Values, NEW n \in Nat, disk[k] = Part(k, v, n)
  PROVE  /\ n = 0 => Slice(k, 0, 1) = <<>>
         /\ n > 0 => Slice(k, 0, 1) = <<<<k, v, 0>>>> /\ disk[k][1] = <<k, v, 0>> /\ 1 \in DOMAIN disk[k]
         /\ Slice(k, 0, 1) \in Seq(FileUnit)
  <1>1. Len(Part(k, v, n)) = n
    BY PartIsSeq
  <1>2. Slice(k, 0, 1) = SubSeq(Part(k, v, n), 1, IF 1 < n THEN 1 ELSE n)
    BY <1>1 DEF Slice, GetPath
  <1>3. CASE n = 0
    BY <1>2, <1>3, SubSeqEmpty
  <1>4. CASE n > 0
    <2>1. Slice(k, 0, 1) = SubSeq(Part(k, v, n), 1, 1)
      BY <1>2, <1>4
    <2>2. Part(k, v, n)[1] = <<k, v, 0>> /\ 1 \in DOMAIN Part(k, v, n) /\ <<k, v, 0>> \in FileUnit
      BY <1>4 DEF Part, FileUnit
    <2>3. \A u \in 1 .. 1 : Part(k, v, n)[u] \in FileUnit
      BY <2>2
    <2>4. /\ SubSeq(Part(k, v, n), 1, 1) \in Seq(FileUnit)
          /\ Len(SubSeq(Part(k, v, n), 1, 1)) = 1
          /\ SubSeq(Part(k, v, n), 1, 1)[1] = <<k, v, 0>>
      BY <2>2, <2>3, SubSeqProperties
    <2>5. SubSeq(Part(k, v, n), 1, 1) = <<<<k, v, 0>>>>
      <3>1. PICK e \in FileUnit : e = <<k, v, 0>>
        BY <2>2
      <3>2. PICK s \in Seq(FileUnit) : s = SubSeq(Part(k, v, n), 1, 1)
        BY <2>4, Zenon
      <3>3. Len(s) = 1 /\ s[1] = e
        BY <2>4, <3>1, <3>2, Zenon
      <3>4. s = <<e>>
        BY <3>3, SingletonSeq, Zenon
      <3>5. QED
        BY <3>1, <3>2, <3>4, Zenon
    <2>6. disk[k][1] = <<k, v, 0>> /\ 1 \in DOMAIN disk[k]
      BY <2>2
    <2>7. Slice(k, 0, 1) \in Seq(FileUnit) /\ Slice(k, 0, 1) = <<<<k, v, 0>>>>
      BY <2>1, <2>4, <2>5, Zenon
    <2>8. n # 0
      BY <1>4
    <2>9. QED
      BY <2>6, <2>7, <2>8, Zenon
  <1>5. QED
    BY <1>3, <1>4

LEMMA DataOfPart ==
  ASSUME NEW k \in Keys, NEW v \in Values, NEW n \in 1 .. Length[v] + 1, disk[k] = Part(k, v, n)
  PROVE  /\ Slice(k, 1, Length[v] + 1) \in Seq(FileUnit)
         /\ Len(Slice(k, 1, Length[v] + 1)) = n - 1
         /\ n = Length[v] + 1 => <<<<k, v, 0>>>> \o Slice(k, 1, Length[v] + 1) = Image(k, v)
  <1>1. Len(Part(k, v, n)) = n /\ Length[v] \in Nat /\ n \in Nat
    BY PartIsSeq, ImageIsPart
  <1>2. Slice(k, 1, Length[v] + 1) = SubSeq(Part(k, v, n), 2, n)
    BY <1>1 DEF Slice, GetPath
  <1>3. \A u \in 2 .. n : Part(k, v, n)[u] = <<k, v, u - 1>> /\ <<k, v, u - 1>> \in FileUnit
    BY <1>1 DEF Part, FileUnit
  <1>4. PICK s : s = SubSeq(Part(k, v, n), 2, n)
    OBVIOUS
  <1>5. s \in Seq(FileUnit) /\ Len(s) = n - 1 /\ \A u \in 1 .. n - 1 : s[u] = <<k, v, u>>
    <2>1. \A u \in 2 .. n : Part(k, v, n)[u] \in FileUnit
      BY <1>3
    <2>2. /\ s \in Seq(FileUnit)
          /\ Len(s) = IF 2 <= n THEN n - 2 + 1 ELSE 0
          /\ \A u \in 1 .. n - 2 + 1 : s[u] = Part(k, v, n)[2 + u - 1]
      BY <1>1, <1>4, <2>1, SubSeqProperties
    <2>3. Len(s) = n - 1
      BY <1>1, <2>2
    <2>4. ASSUME NEW u \in 1 .. n - 1 PROVE s[u] = <<k, v, u>>
      <3>1. PICK w \in 2 .. n : w = u + 1
        BY <1>1
      <3>2. u \in 1 .. n - 2 + 1 /\ 2 + u - 1 = w /\ w - 1 = u
        BY <1>1, <3>1
      <3>3. s[u] = Part(k, v, n)[w]
        BY <2>2, <3>2
      <3>4. Part(k, v, n)[w] = <<k, v, w - 1>>
        BY <1>3
      <3>5. QED
        BY <3>2, <3>3, <3>4
    <2>5. QED
      BY <2>2, <2>3, <2>4
  <1>6. <<<<k, v, 0>>>> \o s = Part(k, v, n)
    <2>1. PICK e \in FileUnit : e = <<k, v, 0>>
      BY DEF FileUnit
    <2>2. <<e>> \in Seq(FileUnit) /\ Len(<<e>>) = 1 /\ <<e>>[1] = e
      BY SingletonSeq
    <2>3. PICK t : t = <<e>> \o s
      OBVIOUS
    <2>4. /\ t \in Seq(FileUnit) /\ Len(t) = 1 + (n - 1)
          /\ \A u \in 1 .. 1 + (n - 1) : t[u] = IF u <= 1 THEN <<e>>[u] ELSE s[u - 1]
      BY <1>5, <2>2, <2>3, ConcatProperties
    <2>5. ASSUME NEW u \in 1 .. n PROVE t[u] = <<k, v, u - 1>>
      <3>1. u \in 1 .. 1 + (n - 1) /\ (u > 1 => u - 1 \in 1 .. n - 1) /\ (~(u <= 1) => u > 1) /\ (u <= 1 => u = 1)
        BY <1>1
      <3>2. t[u] = IF u <= 1 THEN <<e>>[u] ELSE s[u - 1]
        BY <2>4, <3>1
      <3>3. CASE u <= 1
        BY <2>1, <2>2, <3>1, <3>2, <3>3
      <3>4. CASE ~(u <= 1)
        BY <1>5, <3>1, <3>2, <3>4
      <3>5. QED
        BY <3>3, <3>4
    <2>6. \A u \in 1 .. n : Part(k, v, n)[u] = <<k, v, u - 1>>
      BY DEF Part
    <2>7. Part(k, v, n) \in Seq(FileUnit) /\ Len(t) = n
      BY <1>1, <2>4, PartIsSeq
    <2>8. t = Part(k, v, n)
      BY <1>1, <2>4, <2>5, <2>6, <2>7, SeqEqual
    <2>9. QED
      BY <2>1, <2>3, <2>8
  <1>7. QED
    BY <1>2, <1>4, <1>5, <1>6, ImageIsPart

-----------------------------------------------------------------------------
(* Every step keeps the invariant *)

LEMMA InitInv == Init => IInv
  <1> SUFFICES ASSUME Init PROVE IInv
    OBVIOUS
  <1>1. <<>> \in Seq(Keys \X Values \X Nat)
    OBVIOUS
  <1>2. TypeOK
    BY <1>1 DEF Init, TypeOK
  <1>3. ASSUME NEW k \in Keys PROVE FileInv(k) /\ WholeInv(k)
    BY DEF Init, FileInv, WholeInv, Writing, GetDone
  <1>4. QED
    BY <1>2, <1>3 DEF IInv

\* A call of one key leaves the others alone.
Others(k) ==
  \A q \in Keys \ {k} :
    /\ pc'[q] = pc[q] /\ op'[q] = op[q] /\ ret'[q] = ret[q] /\ val'[q] = val[q]
    /\ buf'[q] = buf[q] /\ pos'[q] = pos[q] /\ got'[q] = got[q] /\ acked'[q] = acked[q]
    /\ q \in DOMAIN disk' <=> q \in DOMAIN disk
    /\ q \in DOMAIN disk => disk'[q] = disk[q]

LEMMA OthersKeep ==
  ASSUME IInv, NEW k \in Keys, Others(k), NEW q \in Keys \ {k}
  PROVE  FileInv(q)' /\ WholeInv(q)'
  <1>1. FileInv(q) /\ WholeInv(q)
    BY DEF IInv
  <1>2. FileInv(q)'
    BY <1>1 DEF Others, FileInv, Writing
  <1>3. WholeInv(q)'
    BY <1>1 DEF Others, WholeInv, GetDone
  <1>4. QED
    BY <1>2, <1>3

LEMMA SetOpenInv ==
  ASSUME IInv, NEW k \in Keys, NEW v \in Values, SetOpen(k, v)
  PROVE  IInv' /\ Others(k)
  <1> USE FileAssumption
  <1>1. FileInv(k) /\ TypeOK
    BY DEF IInv
  <1>2. SetPath(k) \in Keys \cup {Cut} /\ (SetPath(k) \in Keys => SetPath(k) = k /\ k \notin Long)
        /\ (k \notin Long => SetPath(k) = k)
    BY DEF SetPath
  <1>3. DOMAIN disk' \subseteq Keys \cup {Cut}
    BY <1>1, <1>2 DEF SetOpen, TypeOK
  <1>4. TypeOK'
    <2>1. CASE Returns(k, "error") /\ UNCHANGED <<disk, val, buf, pos, acked>>
      BY <1>1, <2>1 DEF SetOpen, TypeOK, Returns
    <2>2. CASE /\ pc' = [pc EXCEPT ![k] = "fwrite"] /\ val' = [val EXCEPT ![k] = v] /\ buf' = [buf EXCEPT ![k] = 0]
               /\ pos' = [pos EXCEPT ![k] = 0] /\ acked' = [acked EXCEPT ![k] = Unknown] /\ UNCHANGED ret
      BY <1>1, <1>3, <2>2 DEF SetOpen, TypeOK
    <2>3. QED
      BY <2>1, <2>2 DEF SetOpen
  <1>5. Others(k)
    BY <1>1, <1>2 DEF SetOpen, TypeOK, Returns, Others
  <1>6. WholeInv(k)'
    BY <1>1 DEF SetOpen, TypeOK, WholeInv, GetDone
  <1>7. FileInv(k)'
    <2>1. CASE Fault("deny") /\ Returns(k, "error") /\ UNCHANGED <<disk, val, buf, pos, acked>>
      BY <1>1, <2>1 DEF SetOpen, TypeOK, Returns, FileInv, Writing
    <2>2. CASE pc' = [pc EXCEPT ![k] = "fwrite"] /\ val' = [val EXCEPT ![k] = v] /\ pos' = [pos EXCEPT ![k] = 0]
               /\ disk' = [p \in DOMAIN disk \cup {SetPath(k)} |-> IF p = SetPath(k) THEN OpenW(p) ELSE disk[p]]
      <3>1. pc'[k] = "fwrite" /\ val'[k] = v /\ pos'[k] = 0 /\ op'[k] = "set"
        BY <1>1, <2>2 DEF TypeOK, SetOpen
      <3>2. 0 \in 0 .. Length[v] + 1
        OBVIOUS
      <3>3. <<>> = Part(k, v, 0)
        BY PartIsSeq, EmptySeq
      <3>4. CASE k \in Long
        <4>1. k \notin DOMAIN disk'
          BY <1>1, <1>2, <2>2, <3>4 DEF FileInv
        <4>2. QED
          BY <3>1, <3>4, <4>1 DEF FileInv, Writing
      <3>5. CASE k \notin Long
        <4>1. k \in DOMAIN disk' /\ disk'[k] = Part(k, v, 0)
          BY <1>2, <2>2, <3>3, <3>5 DEF OpenW
        <4>2. QED
          BY <3>1, <3>2, <3>5, <4>1 DEF FileInv, Writing
      <3>6. QED
        BY <3>4, <3>5
    <2>3. QED
      BY <2>1, <2>2 DEF SetOpen
  <1>8. QED
    BY <1>4, <1>5, <1>6, <1>7, OthersKeep DEF IInv

\* The file after a hand-over.
LEMMA HandOverFile ==
  ASSUME IInv, NEW k \in Keys, Writing(k), NEW j \in Nat, pos[k] <= j, j <= Length[val[k]] + 1,
         HandOver(k, j)
  PROVE  /\ pos'[k] = j /\ DOMAIN disk' = DOMAIN disk /\ pos' \in [Keys -> Nat]
         /\ \A q \in Keys \ {k} : pos'[q] = pos[q] /\ (q \in DOMAIN disk => disk'[q] = disk[q])
         /\ k \in Long => k \notin DOMAIN disk
         /\ k \notin Long => k \in DOMAIN disk /\ disk'[k] = Part(k, val[k], j)
  <1> USE FileAssumption
  <1>1. FileInv(k) /\ TypeOK /\ val[k] \in Values /\ pos[k] \in Nat
    BY DEF IInv, TypeOK, FileInv
  <1>2. SetPath(k) \in Keys => SetPath(k) = k
    BY DEF SetPath
  <1>3. pos'[k] = j /\ pos' \in [Keys -> Nat] /\ \A q \in Keys \ {k} : pos'[q] = pos[q]
    BY <1>1 DEF TypeOK, HandOver
  <1>4. DOMAIN disk' = DOMAIN disk
    BY DEF HandOver
  <1>5. \A q \in Keys \ {k} : q \in DOMAIN disk => disk'[q] = disk[q]
    BY <1>2 DEF HandOver
  <1>6. k \in Long => k \notin DOMAIN disk
    BY <1>1 DEF FileInv
  <1>7. ASSUME k \notin Long PROVE k \in DOMAIN disk /\ disk'[k] = Part(k, val[k], j)
    <2>1. k \in DOMAIN disk /\ disk[k] = Part(k, val[k], pos[k]) /\ SetPath(k) = k
      BY <1>1, <1>7 DEF FileInv, SetPath
    <2>2. disk'[k] = Written(disk[k], Image(k, val[k]), pos[k], j)
      BY <2>1 DEF HandOver, Exists
    <2>3. QED
      BY <1>1, <2>1, <2>2, WrittenPart
  <1>8. QED
    BY <1>3, <1>4, <1>5, <1>6, <1>7

LEMMA FwriteInv ==
  ASSUME IInv, NEW k \in Keys, Fwrite(k)
  PROVE  /\ IInv' /\ Others(k) /\ Writing(k)
         /\ ret'[k] = "ok" => buf'[k] = Length[val[k]] + 1
         /\ pc'[k] = "fclose"
  <1> USE FileAssumption
  <1>1. FileInv(k) /\ TypeOK /\ pc[k] = "fwrite" /\ Writing(k) /\ val[k] \in Values /\ op[k] = "set" /\ pos[k] = 0
    BY DEF IInv, FileInv, Fwrite, Writing
  <1>2. PICK n \in Nat : n = Length[val[k]] + 1 /\ n = Len(Image(k, val[k]))
    BY <1>1, ImageIsPart
  <1>3. PICK m \in 0 .. n, j \in 0 .. n :
          /\ j <= m /\ HandOver(k, j) /\ buf' = [buf EXCEPT ![k] = m]
          /\ ret' = [ret EXCEPT ![k] = FwriteRet(m < n)]
    BY <1>2 DEF Fwrite
  <1>4. j \in Nat /\ pos[k] <= j /\ j <= Length[val[k]] + 1
    BY <1>1, <1>2
  <1>5. /\ pos'[k] = j /\ DOMAIN disk' = DOMAIN disk /\ pos' \in [Keys -> Nat]
        /\ \A q \in Keys \ {k} : pos'[q] = pos[q] /\ (q \in DOMAIN disk => disk'[q] = disk[q])
        /\ k \in Long => k \notin DOMAIN disk
        /\ k \notin Long => k \in DOMAIN disk /\ disk'[k] = Part(k, val[k], j)
    BY <1>1, <1>3, <1>4, HandOverFile
  <1>6. pc'[k] = "fclose" /\ buf'[k] = m /\ ret'[k] = FwriteRet(m < n) /\ val' = val /\ op' = op
    BY <1>1, <1>3 DEF Fwrite, TypeOK
  <1>7. TypeOK'
    <2>1. m \in Nat /\ FwriteRet(m < n) \in {"ok", "error"}
      BY DEF FwriteRet
    <2>2. buf' \in [Keys -> Nat] /\ ret' \in [Keys -> {"ok", "error", "enoent", "eio"}]
      BY <1>1, <1>3, <2>1 DEF TypeOK
    <2>3. QED
      BY <1>1, <1>5, <2>2 DEF Fwrite, TypeOK
  <1>8. Others(k)
    BY <1>1, <1>3, <1>5 DEF Fwrite, TypeOK, Others
  <1>9. WholeInv(k)'
    BY <1>6 DEF WholeInv, GetDone
  <1>10. FileInv(k)'
    <2>1. j \in 0 .. Length[val[k]] + 1
      BY <1>2
    <2>2. k \in DOMAIN disk' => k \notin Long /\ \E v \in Values : \E l \in 0 .. Length[v] + 1 : disk'[k] = Part(k, v, l)
      BY <1>1, <1>5, <2>1
    <2>3. pos'[k] <= buf'[k] /\ buf'[k] <= Length[val[k]] + 1
      BY <1>2, <1>3, <1>5, <1>6
    <2>4. QED
      BY <1>1, <1>5, <1>6, <2>2, <2>3 DEF FileInv, Writing
  <1>11. ret'[k] = "ok" => buf'[k] = Length[val[k]] + 1
    BY <1>2, <1>3, <1>6 DEF FwriteRet
  <1>12. QED
    BY <1>1, <1>6, <1>7, <1>8, <1>9, <1>10, <1>11, OthersKeep DEF IInv

LEMMA FcloseInv ==
  ASSUME IInv, NEW k \in Keys, Fclose(k)
  PROVE  /\ IInv' /\ Others(k) /\ Writing(k)
         /\ DOMAIN disk' = DOMAIN disk
         /\ k \notin Long /\ "flush" \notin Faults /\ buf[k] = Length[val[k]] + 1 =>
              disk'[k] = Image(k, val[k])
         /\ k \notin Long => k \in DOMAIN disk
         /\ val[k] \in Values
  <1> USE FileAssumption
  <1>1. FileInv(k) /\ TypeOK /\ pc[k] = "fclose" /\ Writing(k) /\ val[k] \in Values /\ op[k] = "set"
        /\ pos[k] <= buf[k] /\ buf[k] <= Length[val[k]] + 1 /\ pos[k] \in Nat /\ buf[k] \in Nat
    BY DEF IInv, FileInv, Fclose, Writing, TypeOK
  <1>2. PICK n \in Nat : n = Length[val[k]] + 1 /\ n = Len(Image(k, val[k])) /\ Image(k, val[k]) = Part(k, val[k], n)
    BY <1>1, ImageIsPart
  <1>3. PICK j \in pos[k] .. buf[k] : (j < buf[k] => Fault("flush") \/ buf[k] < n) /\ HandOver(k, j)
    BY <1>2 DEF Fclose
  <1>4. j \in Nat /\ pos[k] <= j /\ j <= Length[val[k]] + 1
    BY <1>1, <1>2
  <1>5. /\ pos'[k] = j /\ DOMAIN disk' = DOMAIN disk /\ pos' \in [Keys -> Nat]
        /\ \A q \in Keys \ {k} : pos'[q] = pos[q] /\ (q \in DOMAIN disk => disk'[q] = disk[q])
        /\ k \in Long => k \notin DOMAIN disk
        /\ k \notin Long => k \in DOMAIN disk /\ disk'[k] = Part(k, val[k], j)
    BY <1>1, <1>3, <1>4, HandOverFile
  <1>6. pc'[k] = "idle" /\ val' = val /\ op' = op /\ op[k] = op'[k]
    BY <1>1 DEF Fclose, TypeOK, Returns
  <1>7. TypeOK'
    BY <1>1, <1>5 DEF Fclose, Returns, TypeOK
  <1>8. Others(k)
    BY <1>1, <1>5 DEF Fclose, TypeOK, Others, Returns
  <1>9. FileInv(k)'
    <2>1. j \in 0 .. Length[val[k]] + 1
      BY <1>4
    <2>2. k \in DOMAIN disk' => k \notin Long /\ \E v \in Values : \E l \in 0 .. Length[v] + 1 : disk'[k] = Part(k, v, l)
      BY <1>1, <1>5, <2>1
    <2>3. QED
      BY <1>6, <2>2 DEF FileInv, Writing
  <1>10. ASSUME k \notin Long, "flush" \notin Faults, buf[k] = Length[val[k]] + 1 PROVE disk'[k] = Image(k, val[k])
    <2>1. j = n
      BY <1>1, <1>2, <1>3, <1>10 DEF Fault
    <2>2. QED
      BY <1>2, <1>5, <1>10, <2>1
  <1>11. WholeInv(k)'
    BY <1>1, <1>6 DEF WholeInv, GetDone
  <1>12. QED
    BY <1>1, <1>5, <1>7, <1>8, <1>9, <1>10, <1>11, OthersKeep DEF IInv

LEMMA GetOpenInv ==
  ASSUME IInv, NEW k \in Keys, GetOpen(k)
  PROVE  IInv' /\ Others(k)
  <1>1. FileInv(k) /\ TypeOK
    BY DEF IInv
  <1>2. <<>> \in Seq(Keys \X Values \X Nat)
    OBVIOUS
  <1>3. got' \in [Keys -> Seq(Keys \X Values \X Nat)]
    BY <1>1, <1>2 DEF GetOpen, TypeOK
  <1>4. TypeOK'
    BY <1>1, <1>3 DEF GetOpen, TypeOK, Returns
  <1>5. Others(k)
    BY <1>1 DEF GetOpen, TypeOK, Returns, Others
  <1>6. FileInv(k)'
    BY <1>1 DEF GetOpen, TypeOK, Returns, FileInv, Writing, GetPath, Exists
  <1>7. WholeInv(k)'
    BY <1>1 DEF GetOpen, TypeOK, Returns, WholeInv, GetDone
  <1>8. QED
    BY <1>4, <1>5, <1>6, <1>7, OthersKeep DEF IInv

LEMMA ReadHeadInv ==
  ASSUME IInv, NEW k \in Keys, ReadHead(k)
  PROVE  /\ IInv' /\ Others(k)
         /\ \A v \in Values : disk[k] = Image(k, v) => ret'[k] # "eio" \/ pc'[k] # "idle"
         /\ k \in DOMAIN disk
         /\ pc'[k] = "idle" => ret'[k] \in {"error", "eio"}
  <1> USE FileAssumption
  <1>1. FileInv(k) /\ TypeOK /\ k \in DOMAIN disk /\ k \notin Long
    BY DEF IInv, ReadHead, FileInv
  <1>2. PICK v \in Values : \E n \in 0 .. Length[v] + 1 : disk[k] = Part(k, v, n)
    BY <1>1 DEF FileInv
  <1>3. PICK n \in 0 .. Length[v] + 1 : disk[k] = Part(k, v, n)
    BY <1>2
  <1>4. n \in Nat
    OBVIOUS
  <1>5. PICK h : h = Slice(k, 0, 1)
    OBVIOUS
  <1>6. /\ n = 0 => h = <<>>
        /\ n > 0 => h = <<disk[k][1]>> /\ 1 \in DOMAIN disk[k]
        /\ h \in Seq(Keys \X Values \X Nat)
    <2>1. /\ n = 0 => Slice(k, 0, 1) = <<>>
          /\ n > 0 => Slice(k, 0, 1) = <<<<k, v, 0>>>> /\ disk[k][1] = <<k, v, 0>> /\ 1 \in DOMAIN disk[k]
          /\ Slice(k, 0, 1) \in Seq(FileUnit)
      BY <1>3, <1>4, HeadOfPart
    <2>2. QED
      BY <1>5, <2>1, Zenon DEF FileUnit
  <1>7. got' = [got EXCEPT ![k] = h]
        /\ \/ h = <<>> /\ Returns(k, "eio")
           \/ h # <<>> /\ Returns(k, "error")
           \/ h # <<>> /\ pc' = [pc EXCEPT ![k] = "data"] /\ UNCHANGED ret
        /\ UNCHANGED <<dir, up, disk, op, val, buf, pos, acked>> /\ pc[k] = "head"
    BY <1>5, Zenon DEF ReadHead
  <1>8. TypeOK'
    <2>1. got' \in [Keys -> Seq(Keys \X Values \X Nat)]
      BY <1>1, <1>6, <1>7 DEF TypeOK
    <2>2. QED
      BY <1>1, <1>7, <2>1 DEF TypeOK, Returns
  <1>9. Others(k)
    BY <1>1, <1>7 DEF TypeOK, Returns, Others
  <1>10. got'[k] = h /\ disk' = disk
    BY <1>1, <1>7 DEF TypeOK
  <1>11. pc'[k] = "data" => 1 \in DOMAIN disk'[k] /\ got'[k] = <<disk'[k][1]>>
    <2>1. pc'[k] = "data" => h # <<>>
      BY <1>1, <1>7 DEF TypeOK, Returns
    <2>2. n = 0 \/ n > 0
      BY <1>4
    <2>3. QED
      BY <1>6, <1>10, <2>1, <2>2, Zenon
  <1>12. pc'[k] \in {"idle", "data"} /\ (pc'[k] = "idle" => ret'[k] \in {"eio", "error"} /\ (ret'[k] = "eio" => h = <<>>))
    BY <1>1, <1>7 DEF TypeOK, Returns
  <1>13. FileInv(k)'
    BY <1>1, <1>7, <1>10, <1>11, <1>12 DEF FileInv, Writing
  <1>14. WholeInv(k)'
    BY <1>12 DEF WholeInv, GetDone
  <1>15. ASSUME NEW w \in Values, disk[k] = Image(k, w) PROVE ret'[k] # "eio" \/ pc'[k] # "idle"
    <2>1. disk[k] = Part(k, w, Length[w] + 1) /\ Length[w] + 1 \in Nat /\ Length[w] + 1 > 0
      BY <1>15, ImageIsPart
    <2>2. Slice(k, 0, 1) = <<<<k, w, 0>>>>
      BY <2>1, HeadOfPart
    <2>3. h # <<>>
      <3>1. PICK e : e = <<k, w, 0>>
        OBVIOUS
      <3>2. h = <<e>>
        BY <1>5, <2>2, <3>1, Zenon
      <3>3. <<e>> # <<>>
        OBVIOUS
      <3>4. QED
        BY <3>2, <3>3
    <2>4. QED
      BY <1>12, <2>3
  <1>16. QED
    BY <1>1, <1>8, <1>9, <1>12, <1>13, <1>14, <1>15, OthersKeep DEF IInv

LEMMA ReadDataInv ==
  ASSUME IInv, NEW k \in Keys, ReadData(k)
  PROVE  /\ IInv' /\ Others(k)
         /\ k \in DOMAIN disk
         /\ \A v \in Values : disk[k] = Image(k, v) /\ Length[v] > 0 =>
              ret'[k] = "ok" /\ got'[k] = Image(k, v)
         /\ pc'[k] = "idle" /\ ret'[k] \in {"ok", "eio"}
  <1> USE FileAssumption
  <1>1. FileInv(k) /\ TypeOK /\ pc[k] = "data" /\ k \in DOMAIN disk /\ k \notin Long
        /\ 1 \in DOMAIN disk[k] /\ got[k] = <<disk[k][1]>>
    BY DEF IInv, ReadData, FileInv
  <1>2. ASSUME NEW v \in Values, NEW n \in 0 .. Length[v] + 1, disk[k] = Part(k, v, n)
        PROVE  /\ n \in 1 .. Length[v] + 1
               /\ ret'[k] = IF n - 1 = Length[v] /\ Length[v] > 0 THEN "ok" ELSE "eio"
               /\ got'[k] \in Seq(Keys \X Values \X Nat)
               /\ n = Length[v] + 1 => got'[k] = Image(k, v)
               /\ Image(k, v) = Part(k, v, Length[v] + 1)
    <2>1. n \in 1 .. Length[v] + 1 /\ disk[k][1] = <<k, v, 0>>
      BY <1>1, <1>2 DEF Part
    <2>2. PICK e \in FileUnit : e = <<k, v, 0>> /\ got[k] = <<e>>
      BY <1>1, <2>1 DEF FileUnit
    <2>3. got[k][1] = e /\ e[2] = v
      BY <2>2
    <2>4. PICK d : d = Slice(k, 1, Length[v] + 1)
      OBVIOUS
    <2>5. d \in Seq(FileUnit) /\ Len(d) = n - 1 /\ (n = Length[v] + 1 => <<e>> \o d = Image(k, v))
      <3>1. /\ Slice(k, 1, Length[v] + 1) \in Seq(FileUnit)
            /\ Len(Slice(k, 1, Length[v] + 1)) = n - 1
            /\ n = Length[v] + 1 => <<<<k, v, 0>>>> \o Slice(k, 1, Length[v] + 1) = Image(k, v)
        BY <1>2, <2>1, DataOfPart
      <3>2. QED
        BY <2>2, <2>4, <3>1, Zenon
    <2>6. /\ got' = [got EXCEPT ![k] = got[k] \o d]
          /\ Returns(k, IF Complete(Len(d), Length[v]) THEN "ok" ELSE "eio")
      BY <2>3, <2>4 DEF ReadData
    <2>7. got'[k] = <<e>> \o d
      BY <1>1, <2>2, <2>6 DEF TypeOK
    <2>8. <<e>> \o d \in Seq(FileUnit)
      BY <2>5, SingletonSeq, ConcatProperties
    <2>9. ret'[k] = IF n - 1 = Length[v] /\ Length[v] > 0 THEN "ok" ELSE "eio"
      BY <1>1, <2>5, <2>6 DEF TypeOK, Returns, Complete
    <2>10. QED
      BY <2>1, <2>5, <2>7, <2>8, <2>9, ImageIsPart DEF FileUnit
  <1>3. PICK v \in Values : \E n \in 0 .. Length[v] + 1 : disk[k] = Part(k, v, n)
    BY <1>1 DEF FileInv
  <1>4. PICK n \in 0 .. Length[v] + 1 : disk[k] = Part(k, v, n)
    BY <1>3
  <1>5. /\ pc' = [pc EXCEPT ![k] = "idle"] /\ (\E r : ret' = [ret EXCEPT ![k] = r])
        /\ (\E g : got' = [got EXCEPT ![k] = g])
        /\ UNCHANGED <<dir, up, disk, op, val, buf, pos, acked>>
    BY DEF ReadData, Returns
  <1>6. Length[v] \in Nat
    OBVIOUS
  <1>7. /\ ret'[k] = IF n - 1 = Length[v] /\ Length[v] > 0 THEN "ok" ELSE "eio"
        /\ got'[k] \in Seq(Keys \X Values \X Nat)
        /\ n = Length[v] + 1 => got'[k] = Image(k, v)
    BY <1>2, <1>4
  <1>8. ret'[k] \in {"ok", "eio"} /\ (ret'[k] = "ok" => got'[k] = Image(k, v))
    BY <1>6, <1>7
  <1>9. TypeOK'
    <2>1. got' \in [Keys -> Seq(Keys \X Values \X Nat)]
      BY <1>1, <1>5, <1>7 DEF TypeOK
    <2>2. ret' \in [Keys -> {"ok", "error", "enoent", "eio"}]
      BY <1>1, <1>5, <1>8 DEF TypeOK
    <2>3. QED
      BY <1>1, <1>5, <2>1, <2>2 DEF TypeOK
  <1>10. Others(k)
    BY <1>1, <1>5 DEF TypeOK, Others
  <1>11. pc'[k] = "idle"
    BY <1>1, <1>5 DEF TypeOK
  <1>12. FileInv(k)'
    BY <1>1, <1>5, <1>11 DEF FileInv, Writing
  <1>13. WholeInv(k)'
    BY <1>8 DEF WholeInv
  <1>14. ASSUME NEW w \in Values, disk[k] = Image(k, w), Length[w] > 0
         PROVE  ret'[k] = "ok" /\ got'[k] = Image(k, w)
    <2>1. PICK m \in 0 .. Length[w] + 1 : m = Length[w] + 1
      OBVIOUS
    <2>2. disk[k] = Part(k, w, m)
      BY <1>14, <2>1, ImageIsPart
    <2>3. ret'[k] = (IF m - 1 = Length[w] /\ Length[w] > 0 THEN "ok" ELSE "eio")
          /\ (m = Length[w] + 1 => got'[k] = Image(k, w))
      BY <1>2, <2>2
    <2>4. Length[w] \in Nat
      OBVIOUS
    <2>5. QED
      BY <1>14, <2>1, <2>3, <2>4
  <1>15. QED
    BY <1>1, <1>8, <1>9, <1>10, <1>11, <1>12, <1>13, <1>14, OthersKeep DEF IInv

LEMMA DelInv ==
  ASSUME IInv, NEW k \in Keys, Del(k)
  PROVE  IInv' /\ Others(k)
  <1> USE FileAssumption
  <1>1. FileInv(k) /\ TypeOK
    BY DEF IInv
  <1>2. SetPath(k) \in Keys => SetPath(k) = k
    BY DEF SetPath
  <1>3. \/ UNCHANGED disk
        \/ disk' = [p \in DOMAIN disk \ {SetPath(k)} |-> disk[p]]
    BY DEF Del
  <1>4. DOMAIN disk' \subseteq DOMAIN disk /\ \A p \in DOMAIN disk' : disk'[p] = disk[p]
    BY <1>3
  <1>5. pc'[k] = "idle" /\ op'[k] = "del"
    BY <1>1 DEF Del, TypeOK, Returns
  <1>6. TypeOK'
    BY <1>1, <1>4 DEF Del, TypeOK, Returns
  <1>7. Others(k)
    BY <1>1, <1>2, <1>3 DEF Del, TypeOK, Returns, Others
  <1>8. FileInv(k)'
    BY <1>1, <1>4, <1>5 DEF FileInv, Writing
  <1>9. WholeInv(k)'
    BY <1>5 DEF WholeInv, GetDone
  <1>10. QED
    BY <1>6, <1>7, <1>8, <1>9, OthersKeep DEF IInv

LEMMA ConstructInv == IInv /\ Construct => IInv'
  <1> SUFFICES ASSUME IInv, Construct PROVE IInv'
    OBVIOUS
  <1>1. up' \in BOOLEAN /\ dir' \in BOOLEAN
    BY DEF IInv, Construct, TypeOK
  <1>2. UNCHANGED <<disk, pc, op, ret, val, buf, pos, got, acked>>
    BY DEF Construct
  <1>3. QED
    BY <1>1, <1>2 DEF IInv, TypeOK, FileInv, WholeInv, Writing, GetDone

LEMMA CrashInv == IInv /\ Crash => IInv'
  <1> SUFFICES ASSUME IInv, Crash PROVE IInv'
    OBVIOUS
  <1>1. TypeOK'
    BY DEF IInv, Crash, TypeOK
  <1>2. ASSUME NEW k \in Keys PROVE FileInv(k)' /\ WholeInv(k)'
    <2>1. FileInv(k) /\ pc'[k] = "idle" /\ op'[k] = "none" /\ disk' = disk
      BY DEF IInv, Crash
    <2>2. QED
      BY <2>1 DEF FileInv, WholeInv, Writing, GetDone
  <1>3. QED
    BY <1>1, <1>2 DEF IInv

LEMMA StutterInv == IInv /\ UNCHANGED vars => IInv'
  BY DEF IInv, vars, TypeOK, FileInv, WholeInv, Writing, GetDone

LEMMA NextInv == IInv /\ [Next]_vars => IInv'
  BY SetOpenInv, FwriteInv, FcloseInv, GetOpenInv, ReadHeadInv, ReadDataInv, DelInv, ConstructInv,
     CrashInv, StutterInv DEF Next

\* The invariant that the theorems rest on holds throughout: type correctness,
\* and files that hold the beginning of one value each.
THEOREM Invariance == Spec => []IInv
  BY InitInv, NextInv, PTL DEF Spec

\* Whatever a crash or a full disk has interrupted, a get that succeeds returns
\* a whole value that was set for its key: for any keys, values and lengths,
\* paths that are cut, and every failure of the disk.
THEOREM GetsWhole == Spec => []NeverTorn
  <1>1. IInv => NeverTorn
    BY DEF IInv, WholeInv, NeverTorn
  <1>2. QED
    BY <1>1, Invariance, PTL

-----------------------------------------------------------------------------
(* What a get finds *)

FoundInv(k) ==
  GetDone(k) /\ acked[k] # Unknown =>
    /\ ret[k] = "ok" => acked[k] # NoValue /\ got[k] = Image(k, acked[k])
    /\ ret[k] = "enoent" => acked[k] = NoValue
    /\ ret[k] # "eio"

LEMMA FoundIsReadsBack == TypeOK => (ReadsBack <=> \A k \in Keys : FoundInv(k))
  <1> SUFFICES ASSUME TypeOK PROVE ReadsBack <=> \A k \in Keys : FoundInv(k)
    OBVIOUS
  <1>1. \A k \in Keys : ret[k] \in {"ok", "error", "enoent", "eio"}
    BY DEF TypeOK
  <1>2. QED
    BY <1>1 DEF ReadsBack, FoundInv

LEMMA OthersPromise ==
  ASSUME RInv, NEW k \in Keys, Others(k), IInv', PromiseInv(k)', FoundInv(k)'
  PROVE  RInv'
  <1>1. ASSUME NEW q \in Keys \ {k} PROVE PromiseInv(q)' /\ FoundInv(q)'
    <2>1. PromiseInv(q) /\ FoundInv(q)
      BY FoundIsReadsBack DEF RInv, IInv
    <2>2. PromiseInv(q)'
      BY <2>1 DEF Others, PromiseInv, Writing
    <2>3. FoundInv(q)'
      BY <2>1 DEF Others, FoundInv, GetDone
    <2>4. QED
      BY <2>2, <2>3
  <1>2. \A q \in Keys : PromiseInv(q)' /\ FoundInv(q)'
    BY <1>1
  <1>3. ReadsBack'
    <2>1. TypeOK'
      BY DEF IInv
    <2>2. \A q \in Keys : ret'[q] \in {"ok", "error", "enoent", "eio"}
      BY <2>1 DEF TypeOK
    <2>3. QED
      BY <1>2, <2>2 DEF ReadsBack, FoundInv
  <1>4. QED
    BY <1>2, <1>3 DEF RInv, Reliable

LEMMA SetsPromise ==
  ASSUME RInv, NEW k \in Keys,
         \/ \E v \in Values : SetOpen(k, v)
         \/ Fwrite(k) \/ Fclose(k)
  PROVE  RInv'
  <1> USE FileAssumption
  <1>1. IInv /\ FileInv(k) /\ PromiseInv(k) /\ TypeOK /\ k \notin Long /\ "flush" \notin Faults
    BY DEF RInv, IInv, Reliable
  <1>2. ASSUME NEW v \in Values, SetOpen(k, v) PROVE RInv'
    <2>1. IInv' /\ Others(k)
      BY <1>1, <1>2, SetOpenInv
    <2>2. op'[k] = "set"
      BY <1>1, <1>2 DEF SetOpen, TypeOK
    <2>3. PromiseInv(k)'
      <3>1. CASE Returns(k, "error") /\ UNCHANGED <<disk, val, buf, pos, acked>>
        BY <1>1, <3>1 DEF TypeOK, Returns, PromiseInv, Writing
      <3>2. CASE acked' = [acked EXCEPT ![k] = Unknown] /\ pc' = [pc EXCEPT ![k] = "fwrite"]
        BY <1>1, <3>2 DEF TypeOK, PromiseInv, Writing
      <3>3. QED
        BY <1>2, <3>1, <3>2 DEF SetOpen
    <2>4. FoundInv(k)'
      BY <2>2 DEF FoundInv, GetDone
    <2>5. QED
      BY <2>1, <2>3, <2>4, OthersPromise
  <1>3. ASSUME Fwrite(k) PROVE RInv'
    <2>1. IInv' /\ Others(k) /\ Writing(k) /\ pc'[k] = "fclose"
          /\ (ret'[k] = "ok" => buf'[k] = Length[val[k]] + 1)
      BY <1>1, <1>3, FwriteInv
    <2>2. acked' = acked /\ val' = val /\ acked[k] = Unknown
      BY <1>1, <1>3, <2>1 DEF Fwrite, PromiseInv
    <2>3. PromiseInv(k)'
      BY <2>1, <2>2 DEF PromiseInv, Writing
    <2>4. FoundInv(k)'
      BY <2>1 DEF FoundInv, GetDone
    <2>5. QED
      BY <2>1, <2>3, <2>4, OthersPromise
  <1>4. ASSUME Fclose(k) PROVE RInv'
    <2>1. /\ IInv' /\ Others(k) /\ Writing(k) /\ DOMAIN disk' = DOMAIN disk /\ k \in DOMAIN disk
          /\ buf[k] = Length[val[k]] + 1 => disk'[k] = Image(k, val[k])
          /\ val[k] \in Values
      BY <1>1, <1>4, FcloseInv
    <2>2. pc'[k] = "idle" /\ op'[k] = "set" /\ acked[k] = Unknown
      BY <1>1, <1>4, <2>1 DEF Fclose, Returns, TypeOK, FileInv, PromiseInv
    <2>3. CASE ret[k] = "ok"
      <3>1. acked'[k] = val[k] /\ disk'[k] = Image(k, val[k])
        BY <1>1, <1>4, <2>1, <2>3 DEF Fclose, PromiseInv, TypeOK
      <3>2. PromiseInv(k)'
        BY <2>1, <2>2, <3>1 DEF PromiseInv, Writing
      <3>3. FoundInv(k)'
        BY <2>2 DEF FoundInv, GetDone
      <3>4. QED
        BY <2>1, <3>2, <3>3, OthersPromise
    <2>4. CASE ret[k] # "ok"
      <3>1. acked'[k] = Unknown
        BY <1>4, <2>2, <2>4 DEF Fclose
      <3>2. PromiseInv(k)'
        BY <2>2, <3>1 DEF PromiseInv, Writing
      <3>3. FoundInv(k)'
        BY <2>2 DEF FoundInv, GetDone
      <3>4. QED
        BY <2>1, <3>2, <3>3, OthersPromise
    <2>5. QED
      BY <2>3, <2>4
  <1>5. QED
    BY <1>2, <1>3, <1>4

LEMMA GetsPromise ==
  ASSUME RInv, NEW k \in Keys, GetOpen(k) \/ ReadHead(k) \/ ReadData(k) \/ Del(k)
  PROVE  RInv'
  <1> USE FileAssumption
  <1>1. IInv /\ FileInv(k) /\ PromiseInv(k) /\ TypeOK /\ k \notin Long /\ \A v \in Values : Length[v] > 0
    BY DEF RInv, IInv, Reliable
  <1>2. acked[k] \in Values \cup {NoValue, Unknown}
    BY <1>1 DEF TypeOK
  <1>3. ASSUME GetOpen(k) PROVE RInv'
    <2>1. IInv' /\ Others(k) /\ acked' = acked /\ disk' = disk
      BY <1>1, <1>3, GetOpenInv DEF GetOpen
    <2>2. \/ k \notin DOMAIN disk /\ pc'[k] = "idle" /\ ret'[k] = "enoent"
          \/ pc'[k] = "idle" /\ ret'[k] = "error"
          \/ pc'[k] = "head"
      BY <1>1, <1>3 DEF GetOpen, Returns, TypeOK, GetPath, Exists
    <2>3. PromiseInv(k)'
      BY <1>1, <2>1, <2>2 DEF PromiseInv, Writing
    <2>4. FoundInv(k)'
      BY <1>1, <1>2, <2>1, <2>2 DEF FoundInv, GetDone, PromiseInv
    <2>5. QED
      BY <2>1, <2>3, <2>4, OthersPromise
  <1>4. ASSUME ReadHead(k) PROVE RInv'
    <2>1. /\ IInv' /\ Others(k) /\ acked' = acked /\ disk' = disk /\ k \in DOMAIN disk
          /\ \A v \in Values : disk[k] = Image(k, v) => ret'[k] # "eio" \/ pc'[k] # "idle"
          /\ pc'[k] = "idle" => ret'[k] \in {"error", "eio"}
      BY <1>1, <1>4, ReadHeadInv DEF ReadHead
    <2>2. pc'[k] \in {"idle", "data"}
      BY <1>1, <1>4 DEF ReadHead, Returns, TypeOK
    <2>3. PromiseInv(k)'
      BY <1>1, <2>1, <2>2 DEF PromiseInv, Writing
    <2>4. FoundInv(k)'
      BY <1>1, <1>2, <2>1 DEF FoundInv, GetDone, PromiseInv
    <2>5. QED
      BY <2>1, <2>3, <2>4, OthersPromise
  <1>5. ASSUME ReadData(k) PROVE RInv'
    <2>1. /\ IInv' /\ Others(k) /\ acked' = acked /\ disk' = disk /\ k \in DOMAIN disk
          /\ \A v \in Values : disk[k] = Image(k, v) /\ Length[v] > 0 =>
               ret'[k] = "ok" /\ got'[k] = Image(k, v)
          /\ pc'[k] = "idle" /\ ret'[k] \in {"ok", "eio"}
      BY <1>1, <1>5, ReadDataInv DEF ReadData
    <2>2. PromiseInv(k)'
      BY <1>1, <2>1 DEF PromiseInv, Writing
    <2>3. FoundInv(k)'
      <3>1. acked[k] # Unknown => acked[k] \in Values /\ disk[k] = Image(k, acked[k])
        BY <1>1, <1>2, <2>1 DEF PromiseInv
      <3>2. acked[k] # Unknown => ret'[k] = "ok" /\ got'[k] = Image(k, acked[k]) /\ acked[k] # NoValue
        BY <1>1, <2>1, <3>1
      <3>3. QED
        BY <2>1, <3>2 DEF FoundInv
    <2>4. QED
      BY <2>1, <2>2, <2>3, OthersPromise
  <1>6. ASSUME Del(k) PROVE RInv'
    <2>1. IInv' /\ Others(k)
      BY <1>1, <1>6, DelInv
    <2>2. pc'[k] = "idle" /\ op'[k] = "del" /\ SetPath(k) = k
      BY <1>1, <1>6 DEF Del, Returns, TypeOK, SetPath
    <2>3. \/ UNCHANGED <<disk, acked>>
          \/ k \notin DOMAIN disk' /\ acked'[k] = NoValue
      BY <1>1, <1>6, <2>2 DEF Del, TypeOK
    <2>4. PromiseInv(k)'
      BY <1>1, <2>2, <2>3 DEF PromiseInv, Writing
    <2>5. FoundInv(k)'
      BY <2>2 DEF FoundInv, GetDone
    <2>6. QED
      BY <2>1, <2>4, <2>5, OthersPromise
  <1>7. QED
    BY <1>3, <1>4, <1>5, <1>6

LEMMA RestPromise ==
  ASSUME RInv, Construct \/ Crash \/ UNCHANGED vars
  PROVE  RInv'
  <1>1. IInv' /\ Reliable
    BY ConstructInv, CrashInv, StutterInv DEF RInv
  <1>2. ASSUME NEW k \in Keys PROVE PromiseInv(k)' /\ FoundInv(k)'
    <2>1. PromiseInv(k) /\ FoundInv(k)
      BY FoundIsReadsBack DEF RInv, IInv
    <2>2. \/ UNCHANGED <<disk, pc, op, ret, val, buf, pos, got, acked>>
          \/ UNCHANGED <<disk, acked>> /\ pc'[k] = "idle" /\ op'[k] = "none"
      BY DEF Construct, Crash, vars
    <2>3. PromiseInv(k)'
      BY <2>1, <2>2 DEF PromiseInv, Writing
    <2>4. FoundInv(k)'
      BY <2>1, <2>2 DEF FoundInv, GetDone
    <2>5. QED
      BY <2>3, <2>4
  <1>3. \A k \in Keys : ret'[k] \in {"ok", "error", "enoent", "eio"}
    BY <1>1 DEF IInv, TypeOK
  <1>4. ReadsBack'
    BY <1>2, <1>3 DEF ReadsBack, FoundInv
  <1>5. QED
    BY <1>1, <1>2, <1>4 DEF RInv, Reliable

LEMMA InitPromise == Reliable /\ Init => RInv
  <1> SUFFICES ASSUME Reliable, Init PROVE RInv
    OBVIOUS
  <1>1. ASSUME NEW k \in Keys PROVE PromiseInv(k)
    BY FileAssumption DEF Init, PromiseInv, Writing
  <1>2. ReadsBack
    BY DEF Init, ReadsBack, GetDone
  <1>3. QED
    BY <1>1, <1>2, InitInv DEF RInv

\* When fclose does not fail, no path is cut and no value is empty, a get finds
\* what the completed calls before it have promised, and nothing where they
\* have promised nothing -- across crashes, full disks and refused calls.
THEOREM GetsPromised == Reliable /\ Spec => []ReadsBack
  <1>1. RInv /\ [Next]_vars => RInv'
    BY SetsPromise, GetsPromise, RestPromise DEF Next
  <1>2. RInv => ReadsBack
    BY DEF RInv
  <1>3. QED
    BY <1>1, <1>2, InitPromise, PTL DEF Spec

-----------------------------------------------------------------------------
(***************************************************************************)
(* The unix storage                                                        *)
(***************************************************************************)
\* What a shared connection needs of its surroundings: data arrives in one
\* piece and there is memory for it.
Whole == Shared => SetupFaults \cap {"nomem", "split"} = {}

Early == {"idle", "lock", "connect"}
Receives == {"duration", "head", "data", "result"}
Busy == {"begin", "data.send", "discard", "end"} \cup Receives
Asked == {"lock", "connect", "begin"}

Drained(k) == upstream[k] = <<>> /\ down[k] = <<>> /\ srv[k] \in {"recv", "none"}

\* A connection has one caller, and a shared one is drained between calls.
OwnInv ==
  /\ \A t \in Callers : at[t] \in Busy => conn[t] \in Conns
  /\ \A t \in Callers : at[t] \in Early => conn[t] = NoConn
  /\ \A t \in Callers : conn[t] # NoConn => conn[t] \in open
  /\ \A t, u \in Callers : conn[t] = conn[u] /\ conn[t] # NoConn => t = u
  /\ \A t \in Callers : (at[t] = "lock" => Shared) /\ (at[t] = "connect" => ~Shared)
  /\ Shared => TheConn \in open /\ \A t \in Callers : conn[t] # NoConn => conn[t] = TheConn /\ mutex = t
  /\ Shared /\ mutex = NoThread => Drained(TheConn)

\* What is asked for and how much of it is left to send.
CallInv(t) ==
  /\ me[t].clean
  /\ at[t] \in Busy \cup Asked => me[t].op \in {"get", "set", "del"}
  /\ at[t] \in {"duration", "head", "data", "discard"} => me[t].op = "get"
  /\ at[t] = "data.send" => me[t].op = "set"
  /\ at[t] \in Busy \cup Asked /\ me[t].op = "del" => me[t].len = 0
  /\ at[t] \in Asked /\ me[t].op = "get" => me[t].len = 0
  /\ at[t] = "result" /\ me[t].op = "set" => me[t].len = 0
  /\ at[t] = "begin" => Drained(conn[t])

\* The answer to get i: a duration, the head of a value of length n, its data
\* and the result r.
Answer(i, n, r, j) ==
  [id |-> i,
   part |-> IF j <= 2 THEN "duration" ELSE IF j <= 4 THEN "head" ELSE IF j <= n + 4 THEN "data" ELSE "result",
   val |-> IF j <= 2 THEN 0 ELSE IF j <= 4 THEN n ELSE IF j <= n + 4 THEN 0 ELSE r]

\* How much of it the caller has read when it is at p and has been told n.
Before(p, n) == IF p = "duration" THEN 0 ELSE IF p = "head" THEN 2 ELSE IF p = "data" THEN 4 ELSE n + 4

\* How much of it the child has sent.
Sent(t, n, s) ==
  LET k == conn[t] IN
  /\ srv[k] # "data"
  /\ srv[k] \notin {"recv", "none"} => cur[k].id = me[t].id
  /\ \/ srv[k] = "recv" /\ s = 0 /\ upstream[k] = <<[id |-> me[t].id, part |-> "get", val |-> 0]>>
     \/ srv[k] = "recv" /\ s = n + 5 /\ upstream[k] = <<>>
     \/ srv[k] # "recv" /\ upstream[k] = <<>>
  /\ srv[k] = "duration" => s = 0
  /\ srv[k] = "value" => s = 2
  /\ srv[k] = "rest" => cur[k].len \in 1 .. n /\ s = n + 4 - cur[k].len
  /\ srv[k] = "result" => s = n + 4
  /\ Shared => srv[k] # "rest" /\ s \in {0, 2, n + 4, n + 5}

GetInv(t) ==
  at[t] \in Receives /\ me[t].op = "get" =>
    \E n \in Lengths \cup {0} : \E r \in {0, EIO} :
      /\ at[t] \in {"data", "result"} => me[t].len = n
      /\ \A j \in 1 .. Len(down[conn[t]]) :
           down[conn[t]][j] = Answer(me[t].id, n, r, Before(at[t], n) + j)
      /\ Sent(t, n, Before(at[t], n) + Len(down[conn[t]]))

\* The request and the answer of a set or del on a shared connection.
InTurn(t) ==
  LET k == conn[t] IN
  \/ srv[k] = "none" /\ upstream[k] = <<>> /\ Len(down[k]) <= 1
  \/ /\ srv[k] = "recv" /\ down[k] = <<>>
     /\ upstream[k] # <<>> /\ upstream[k][1].part = me[t].op /\ upstream[k][1].val = Len(upstream[k]) - 1 + me[t].len
     /\ at[t] = "data.send" \/ me[t].op = "del" => Len(upstream[k]) = 1
  \/ /\ srv[k] = "data" /\ down[k] = <<>> /\ me[t].op = "set"
     /\ cur[k].len = Len(upstream[k]) + me[t].len
     /\ at[t] = "data.send" => upstream[k] = <<>>
  \/ srv[k] = "result" /\ at[t] = "result" /\ upstream[k] = <<>> /\ down[k] = <<>>
  \/ srv[k] = "recv" /\ at[t] = "result" /\ upstream[k] = <<>> /\ Len(down[k]) = 1

\* The units a of a set or del and the units d of its answer, when its server
\* is at s: its own, with the header and the result before anything that the
\* child makes of data left behind.
SetLink(t, a, d, s) ==
  /\ \A j \in 1 .. Len(a) : a[j].id = me[t].id /\ a[j].part # "get"
  /\ \A j \in 1 .. Len(d) : d[j].id = me[t].id
  /\ d # <<>> => d[1].part = "result"
  /\ s \in {"duration", "value", "rest"} => d # <<>>
  /\ s = "recv" /\ d = <<>> => a # <<>> /\ a[1].part = me[t].op

SetInv(t) ==
  LET k == conn[t] IN
  at[t] \in {"data.send", "result"} /\ me[t].op # "get" =>
    /\ SetLink(t, upstream[k], down[k], srv[k])
    /\ srv[k] \notin {"recv", "none"} => cur[k].id = me[t].id
    /\ Shared => InTurn(t)

\* A call that is over leaves a shared connection drained.
OverInv(t) ==
  Shared =>
    /\ at[t] = "discard" => upstream[conn[t]] = <<>> /\ srv[conn[t]] \in {"recv", "none"}
    /\ at[t] = "end" => Drained(conn[t])

OfCaller(t) == CallInv(t) /\ GetInv(t) /\ SetInv(t) /\ OverInv(t)

LinkInv == Constants /\ Whole /\ StreamTypeOK /\ OwnInv /\ \A t \in Callers : OfCaller(t)

-----------------------------------------------------------------------------
(* Sequences of units *)

LEMMA IsEmpty ==
  ASSUME NEW S, NEW s \in Seq(S)
  PROVE  Len(s) \in Nat /\ (s = <<>> <=> Len(s) = 0)
  BY EmptySeq, LenProperties

LEMMA DropSeq ==
  ASSUME NEW S, NEW s \in Seq(S), NEW n \in 0 .. Len(s)
  PROVE  /\ Drop(s, n) \in Seq(S)
         /\ Len(Drop(s, n)) = Len(s) - n
         /\ \A j \in 1 .. Len(s) - n : Drop(s, n)[j] = s[n + j]
  <1>1. Len(s) \in Nat /\ \A j \in 1 .. Len(s) : s[j] \in S
    BY LenProperties
  <1>2. n + 1 \in Int /\ Len(s) \in Int /\ \A j \in n + 1 .. Len(s) : s[j] \in S
    BY <1>1
  <1>3. /\ Drop(s, n) \in Seq(S)
        /\ Len(Drop(s, n)) = IF n + 1 <= Len(s) THEN Len(s) - (n + 1) + 1 ELSE 0
        /\ \A j \in 1 .. Len(s) - (n + 1) + 1 : Drop(s, n)[j] = s[(n + 1) + j - 1]
    BY <1>2, SubSeqProperties DEF Drop
  <1>4. PICK l \in Nat : l = Len(s)
    BY <1>1
  <1>5. l - (n + 1) + 1 = l - n /\ (n + 1 <= l \/ l - n = 0) /\ \A j \in Nat : (n + 1) + j - 1 = n + j
    BY <1>4
  <1>6. Len(Drop(s, n)) = Len(s) - n
    BY <1>3, <1>4, <1>5
  <1>7. \A j \in 1 .. Len(s) - n : Drop(s, n)[j] = s[n + j]
    BY <1>3, <1>4, <1>5
  <1>8. QED
    BY <1>3, <1>6, <1>7

LEMMA UnitsSeq ==
  ASSUME NEW i \in Nat, NEW part \in Parts, NEW w \in Nat, NEW n \in Nat
  PROVE  /\ Units(i, part, w, n) \in Seq(Unit)
         /\ Len(Units(i, part, w, n)) = n
         /\ \A j \in 1 .. n : Units(i, part, w, n)[j] = [id |-> i, part |-> part, val |-> w]
  <1>1. [id |-> i, part |-> part, val |-> w] \in Unit
    BY DEF Unit
  <1>2. QED
    BY <1>1 DEF Units

LEMMA JoinSeq ==
  ASSUME NEW S, NEW s \in Seq(S), NEW u \in Seq(S)
  PROVE  /\ s \o u \in Seq(S)
         /\ Len(s \o u) = Len(s) + Len(u)
         /\ \A j \in 1 .. Len(s) : (s \o u)[j] = s[j]
         /\ \A j \in 1 .. Len(u) : (s \o u)[Len(s) + j] = u[j]
  OBVIOUS

LEMMA TakeSeq ==
  ASSUME NEW S, NEW s \in Seq(S), NEW n \in 0 .. Len(s)
  PROVE  \A j \in 1 .. n : SubSeq(s, 1, n)[j] = s[j] /\ s[j] \in S
  <1>1. Len(s) \in Nat /\ \A j \in 1 .. Len(s) : s[j] \in S
    BY LenProperties
  <1>2. 1 \in Int /\ n \in Int /\ \A j \in 1 .. n : s[j] \in S
    BY <1>1
  <1>3. \A j \in 1 .. n - 1 + 1 : SubSeq(s, 1, n)[j] = s[1 + j - 1]
    BY <1>2, SubSeqProperties
  <1>4. QED
    BY <1>2, <1>3

LEMMA TailSeq ==
  ASSUME NEW S, NEW s \in Seq(S), s # <<>>
  PROVE  /\ Head(s) \in S /\ Head(s) = s[1] /\ Len(s) \in Nat \ {0}
         /\ Tail(s) \in Seq(S) /\ Len(Tail(s)) = Len(s) - 1
         /\ \A j \in 1 .. Len(s) - 1 : Tail(s)[j] = s[j + 1]
  BY HeadTailProperties, EmptySeq

-----------------------------------------------------------------------------
(* Types *)

LEMMA TheConnIn == Constants => TheConn \in Conns
  BY DEF Constants, TheConn

LEMMA PiecesType ==
  ASSUME NEW n \in Nat
  PROVE  \A m \in Pieces(n) : m \in 0 .. n
  BY DEF Pieces

\* What a send to the child adds.
LEMMA SendUpEffect ==
  ASSUME StreamTypeOK, NEW t \in Callers, conn[t] \in Conns, NEW i \in Nat, NEW part \in Parts, NEW w \in Nat,
         NEW n \in Nat, NEW next, SendUp(t, Units(i, part, w, n), next)
  PROVE  \/ /\ Peer(conn[t]) /\ UNCHANGED parent /\ at' = [at EXCEPT ![t] = next]
            /\ upstream' \in [Conns -> Seq(Unit)]
            /\ \A k \in Conns : k # conn[t] => upstream'[k] = upstream[k]
            /\ Len(upstream'[conn[t]]) = Len(upstream[conn[t]]) + n
            /\ \A j \in 1 .. Len(upstream[conn[t]]) : upstream'[conn[t]][j] = upstream[conn[t]][j]
            /\ \A j \in 1 .. n : upstream'[conn[t]][Len(upstream[conn[t]]) + j] = [id |-> i, part |-> part, val |-> w]
         \/ ~Peer(conn[t]) /\ parent' = "killed" /\ UNCHANGED <<upstream, at>>
  <1>1. CASE ~Peer(conn[t])
    BY <1>1 DEF SendUp
  <1>2. CASE Peer(conn[t])
    <2>1. PICK u \in Seq(Unit) : u = Units(i, part, w, n)
      BY UnitsSeq
    <2>2. Len(u) = n /\ \A j \in 1 .. n : u[j] = [id |-> i, part |-> part, val |-> w]
      BY <2>1, UnitsSeq
    <2>3. PICK s \in Seq(Unit) : s = upstream[conn[t]]
      BY DEF StreamTypeOK
    <2>4. upstream' = [upstream EXCEPT ![conn[t]] = s \o u] /\ UNCHANGED parent /\ at' = [at EXCEPT ![t] = next]
      BY <1>2, <2>1, <2>3 DEF SendUp
    <2>5. s \o u \in Seq(Unit) /\ Len(s \o u) = Len(s) + Len(u)
      BY JoinSeq
    <2>6. (\A j \in 1 .. Len(s) : (s \o u)[j] = s[j]) /\ \A j \in 1 .. Len(u) : (s \o u)[Len(s) + j] = u[j]
      BY JoinSeq
    <2>7. upstream' \in [Conns -> Seq(Unit)] /\ upstream'[conn[t]] = s \o u /\ \A k \in Conns : k # conn[t] => upstream'[k] = upstream[k]
      BY <2>4, <2>5 DEF StreamTypeOK
    <2>8. QED
      BY <1>2, <2>2, <2>3, <2>4, <2>5, <2>6, <2>7
  <1>3. QED
    BY <1>1, <1>2

\* What a send to the caller adds.
LEMMA SendDownEffect ==
  ASSUME StreamTypeOK, NEW k \in Conns, NEW u \in Seq(Unit), NEW next, SendDown(k, u, next), k \in open
  PROVE  /\ srv' = [srv EXCEPT ![k] = next]
         /\ down' \in [Conns -> Seq(Unit)]
         /\ \A c \in Conns : c # k => down'[c] = down[c]
         /\ Len(down'[k]) = Len(down[k]) + Len(u)
         /\ \A j \in 1 .. Len(down[k]) : down'[k][j] = down[k][j]
         /\ \A j \in 1 .. Len(u) : down'[k][Len(down[k]) + j] = u[j]
  <1>1. PICK s \in Seq(Unit) : s = down[k]
    BY DEF StreamTypeOK
  <1>2. down' = [down EXCEPT ![k] = s \o u] /\ srv' = [srv EXCEPT ![k] = next]
    BY <1>1 DEF SendDown, Goes
  <1>3. s \o u \in Seq(Unit) /\ Len(s \o u) = Len(s) + Len(u)
    BY JoinSeq
  <1>4. (\A j \in 1 .. Len(s) : (s \o u)[j] = s[j]) /\ \A j \in 1 .. Len(u) : (s \o u)[Len(s) + j] = u[j]
    BY JoinSeq
  <1>5. down' \in [Conns -> Seq(Unit)] /\ down'[k] = s \o u /\ \A c \in Conns : c # k => down'[c] = down[c]
    BY <1>2, <1>3 DEF StreamTypeOK
  <1>6. QED
    BY <1>1, <1>2, <1>3, <1>4, <1>5

\* A receive of n units of d, where v is what the first one says.
Told(t, d, n, v) ==
  me' = [me EXCEPT ![t].clean = @ /\ n = Asks(t) /\ \A j \in 1 .. n : Mine(t, d[j]),
                   ![t].len = IF at[t] = "head" THEN v ELSE @,
                   ![t].res = IF at[t] # "result" THEN @ ELSE IF v = 0 THEN "ok" ELSE "error"]

\* A receive that found n units.
Received(t, d, n) ==
  \/ /\ n < Asks(t) /\ n = Len(d)
     /\ me' = [me EXCEPT ![t].res = "error"]
     /\ at' = [at EXCEPT ![t] = IF me[t].op = "get" THEN "discard" ELSE "end"]
  \/ /\ n = Asks(t)
     /\ \E v \in IF n = 0 THEN {0} ELSE Read(t, d[1], IF at[t] = "result" THEN {0, EIO} ELSE Lengths) :
          Told(t, d, n, v)
     /\ at' = [at EXCEPT ![t] =
                 IF at[t] = "result" /\ me[t].op = "get" /\ me'[t].res = "error"
                   THEN "discard" ELSE NextRecv[at[t]]]

\* What a receive of the caller takes and leaves.
Taken(k, d, n) ==
  /\ down' \in [Conns -> Seq(Unit)]
  /\ \A c \in Conns : c # k => down'[c] = down[c]
  /\ Len(down'[k]) = Len(d) - n
  /\ \A j \in 1 .. Len(d) - n : down'[k][j] = d[n + j]

LEMMA RecvEffect ==
  ASSUME StreamTypeOK, Constants, NEW t \in Callers, RecvDown(t), NEW k \in Conns, k = conn[t],
         NEW d \in Seq(Unit), d = down[k]
  PROVE  \E n \in 0 .. Len(d) :
           /\ Taken(k, d, n)
           /\ Received(t, d, n)
  <1>1. Asks(t) \in Nat /\ Len(d) \in Nat
    BY IsEmpty DEF StreamTypeOK, Asks, RecvDown, NextRecv, CallRecord
  <1>2. PICK n \in 0 .. Len(d) : n = Least(Asks(t), Len(d))
    BY <1>1 DEF Least
  <1>3. \A j \in 1 .. n : SubSeq(d, 1, n)[j] = d[j]
    BY TakeSeq
  <1>4. /\ Drop(d, n) \in Seq(Unit) /\ Len(Drop(d, n)) = Len(d) - n
        /\ \A j \in 1 .. Len(d) - n : Drop(d, n)[j] = d[n + j]
    BY DropSeq
  <1>5. down' = [down EXCEPT ![k] = Drop(d, n)]
    BY <1>2 DEF RecvDown
  <1>6. /\ down' \in [Conns -> Seq(Unit)] /\ down'[k] = Drop(d, n)
        /\ \A c \in Conns : c # k => down'[c] = down[c]
    BY <1>4, <1>5 DEF StreamTypeOK
  <1>7. n # 0 => SubSeq(d, 1, n)[1] = d[1]
    BY <1>3
  <1>8. \/ /\ Short(t, n)
           /\ me' = [me EXCEPT ![t].res = "error"]
           /\ at' = [at EXCEPT ![t] = IF me[t].op = "get" THEN "discard" ELSE "end"]
        \/ /\ ~Short(t, n)
           /\ \E v \in IF n = 0 THEN {0} ELSE Read(t, d[1], IF at[t] = "result" THEN {0, EIO} ELSE Lengths) :
                Told(t, d, n, v)
           /\ at' = [at EXCEPT ![t] =
                       IF at[t] = "result" /\ me[t].op = "get" /\ me'[t].res = "error"
                         THEN "discard" ELSE NextRecv[at[t]]]
    <2>1. (\A j \in 1 .. n : Mine(t, SubSeq(d, 1, n)[j])) <=> \A j \in 1 .. n : Mine(t, d[j])
      BY <1>3 DEF Mine
    <2>2. QED
      BY <1>2, <1>7, <2>1, ZenonT(60) DEF RecvDown, Told
  <1>9. (Short(t, n) => n < Asks(t) /\ n = Len(d)) /\ (~Short(t, n) => n = Asks(t))
    BY <1>1, <1>2 DEF Least, Short
  <1>10. /\ Len(down'[k]) = Len(d) - n
         /\ \A j \in 1 .. Len(d) - n : down'[k][j] = d[n + j]
    BY <1>4, <1>6
  <1>11. Received(t, d, n)
    BY <1>8, <1>9, Zenon DEF Received
  <1>12. Taken(k, d, n)
    BY <1>6, <1>10 DEF Taken
  <1>13. QED
    BY <1>11, <1>12

-----------------------------------------------------------------------------
(* What a step leaves alone *)

\* Nothing that the invariants of u speak of changes.
Same(u) ==
  /\ at'[u] = at[u] /\ me'[u] = me[u] /\ conn'[u] = conn[u]
  /\ conn[u] \in Conns =>
       /\ upstream'[conn[u]] = upstream[conn[u]] /\ down'[conn[u]] = down[conn[u]]
       /\ srv'[conn[u]] = srv[conn[u]] /\ cur'[conn[u]] = cur[conn[u]]

LEMMA OtherCallers ==
  ASSUME NEW u \in Callers, OwnInv, OfCaller(u), UNCHANGED setup, Same(u)
  PROVE  OfCaller(u)'
  <1>1. CASE at[u] \in Busy
    <2>1. conn[u] \in Conns
      BY <1>1 DEF OwnInv
    <2>2. /\ at'[u] = at[u] /\ me'[u] = me[u] /\ conn'[u] = conn[u]
          /\ upstream'[conn[u]] = upstream[conn[u]] /\ down'[conn[u]] = down[conn[u]]
          /\ srv'[conn[u]] = srv[conn[u]] /\ cur'[conn[u]] = cur[conn[u]]
      BY <2>1 DEF Same
    <2>3. CallInv(u)'
      BY <2>2 DEF OfCaller, CallInv, Drained
    <2>4. GetInv(u)'
      <3>1. \A n, s : Sent(u, n, s)' <=> Sent(u, n, s)
        BY <2>2 DEF Sent, Shared
      <3>2. GetInv(u)
        BY DEF OfCaller
      <3>3. QED
        BY <2>2, <3>1, <3>2 DEF GetInv
    <2>5. SetInv(u)'
      BY <2>2 DEF OfCaller, SetInv, SetLink, InTurn, Shared
    <2>6. OverInv(u)'
      BY <2>2 DEF OfCaller, OverInv, Drained, Shared
    <2>7. QED
      BY <2>3, <2>4, <2>5, <2>6 DEF OfCaller
  <1>2. CASE at[u] \notin Busy
    BY <1>2 DEF OfCaller, CallInv, GetInv, SetInv, OverInv, Busy, Receives, Same
  <1>3. QED
    BY <1>1, <1>2

\* The invariants of a caller that is not in the middle of a call.
LEMMA NotBusy ==
  ASSUME NEW u \in Callers, at'[u] \notin Busy \cup Asked, me'[u].clean
  PROVE  OfCaller(u)'
  BY DEF OfCaller, CallInv, GetInv, SetInv, OverInv, Busy, Receives, Asked

\* A step of caller t.
LEMMA OfOne ==
  ASSUME LinkInv, StreamTypeOK', OwnInv', UNCHANGED setup, NEW t \in Callers, OfCaller(t)',
         \A u \in Callers : u # t => Same(u)
  PROVE  LinkInv'
  <1>1. \A u \in Callers : u # t => OfCaller(u)'
    BY OtherCallers DEF LinkInv
  <1>2. (\A u \in Callers : OfCaller(u))'
    BY <1>1
  <1>3. (Constants /\ Whole)'
    BY DEF LinkInv, Constants, Whole, Shared, SetupFaults
  <1>4. QED
    BY <1>2, <1>3 DEF LinkInv

\* Between calls nothing happens on an open connection.
LEMMA Resting ==
  ASSUME NEW k \in open, upstream[k] = <<>>, srv[k] \in {"recv", "none"}, ServerStep(k)
  PROVE  FALSE
  BY DEF ServerStep, ServeRecv, ServeData, ServeDuration, ServeValue, ServeRest, ServeResult

LEMMA ApartFrom ==
  ASSUME OwnInv, NEW t \in Callers, conn[t] \in Conns, Constants
  PROVE  /\ \A u \in Callers : u # t => conn[u] # conn[t]
         /\ Shared => conn[t] = TheConn /\ mutex = t
         /\ mutex = t => mutex # NoThread
  BY DEF OwnInv, Constants

\* Ownership when nobody gets or gives back a connection.
LEMMA OwnKept ==
  ASSUME OwnInv, UNCHANGED <<setup, conn, mutex, open>>, at \in [Callers -> STRING],
         NEW t \in Callers, NEW p \in STRING, at' = [at EXCEPT ![t] = p],
         p \in Busy => at[t] \in Busy, p \notin Early,
         (Shared /\ mutex = NoThread) => Drained(TheConn)'
  PROVE  OwnInv'
  <1>1. /\ \A u \in Callers : at'[u] \in Busy => at[u] \in Busy
        /\ \A u \in Callers : at'[u] \in Early => at'[u] = at[u]
    OBVIOUS
  <1>2. \A u \in Callers : at'[u] \in {"lock", "connect"} => at'[u] = at[u]
    BY <1>1 DEF Early
  <1>3. conn' = conn /\ mutex' = mutex /\ open' = open /\ (Shared' <=> Shared) /\ TheConn' = TheConn
    BY DEF Shared, TheConn
  <1>4. QED
    BY <1>1, <1>2, <1>3 DEF OwnInv

-----------------------------------------------------------------------------
(* The steps of a caller that send and receive nothing *)

Points == {"idle", "lock", "connect", "begin", "data.send", "discard", "end", "exited"} \cup Receives

LEMMA PcType == StreamTypeOK <=> (StreamTypeOK /\ at \in [Callers -> Points])
  BY DEF StreamTypeOK, Points, Receives, NextRecv

LEMMA CallKeeps ==
  ASSUME LinkInv, UNCHANGED setup, NEW t \in Callers, NEW o \in Ops, NEW n \in Lengths \cup {0}, Call(t, o, n)
  PROVE  LinkInv'
  <1>1. /\ me[t] \in CallRecord /\ calls' \in Nat
        /\ me' = [me EXCEPT ![t] = [NoCall EXCEPT !.id = calls', !.op = o, !.len = n]]
        /\ o \in {"get", "set", "del"} /\ n \in Nat /\ (o # "set" => n = 0)
        /\ at[t] = "idle" /\ at' = [at EXCEPT ![t] = IF Shared THEN "lock" ELSE "connect"]
        /\ UNCHANGED <<conn, mutex, open, upstream, down, srv, cur, parent, child>>
    BY DEF LinkInv, Call, StreamTypeOK, Constants, server
  <1>2. PICK c \in CallRecord : /\ c = [NoCall EXCEPT !.id = calls', !.op = o, !.len = n]
                                /\ c.clean /\ c.op = o /\ c.len = n
    <2>1. PICK i \in Nat : i = calls'
      BY <1>1
    <2>2. o \in Parts
      BY <1>1 DEF Parts
    <2>3. PICK c \in CallRecord : c = NoCall /\ c.clean = TRUE
      <3>1. NoCall \in CallRecord
        BY DEF NoCall, CallRecord
      <3>2. NoCall.clean = TRUE
        BY DEF NoCall
      <3>3. QED
        BY <3>1, <3>2
    <2>4. PICK e \in CallRecord : e = [c EXCEPT !.id = i, !.op = o, !.len = n]
      BY <1>1, <2>2 DEF CallRecord
    <2>5. e.clean = c.clean /\ e.op = o /\ e.len = n
      BY <2>4 DEF CallRecord
    <2>6. QED
      BY <2>1, <2>3, <2>4, <2>5
  <1>3. me' \in [Callers -> CallRecord] /\ me'[t] = c /\ \A u \in Callers : u # t => me'[u] = me[u]
    BY <1>1, <1>2 DEF LinkInv, StreamTypeOK
  <1>4. StreamTypeOK'
    BY <1>1, <1>3 DEF LinkInv, StreamTypeOK
  <1>5. at'[t] = (IF Shared THEN "lock" ELSE "connect") /\ \A u \in Callers : u # t => at'[u] = at[u]
    BY <1>1 DEF LinkInv, StreamTypeOK
  <1>6. OwnInv'
    <2>1. conn' = conn /\ mutex' = mutex /\ open' = open /\ (Shared' <=> Shared) /\ TheConn' = TheConn
      BY <1>1 DEF Shared, TheConn
    <2>2. Drained(TheConn)' <=> Drained(TheConn)
      BY <1>1, <2>1 DEF Drained
    <2>3. conn[t] = NoConn
      BY <1>1 DEF LinkInv, OwnInv, Early
    <2>4. at'[t] \notin Busy
      BY <1>5 DEF Busy, Receives
    <2>5. QED
      BY <1>5, <2>1, <2>2, <2>3, <2>4 DEF LinkInv, OwnInv
  <1>7. OfCaller(t)'
    BY <1>1, <1>2, <1>3, <1>5 DEF OfCaller, CallInv, GetInv, SetInv, OverInv, Busy, Receives, Asked
  <1>8. \A u \in Callers : u # t => Same(u)
    BY <1>1, <1>3, <1>5 DEF Same
  <1>9. QED
    BY <1>4, <1>6, <1>7, <1>8, OfOne

LEMMA LockKeeps ==
  ASSUME LinkInv, UNCHANGED setup, NEW t \in Callers, Lock(t)
  PROVE  LinkInv'
  <1>1. /\ at[t] = "lock" /\ mutex = NoThread /\ mutex' = t
        /\ conn' = [conn EXCEPT ![t] = TheConn] /\ at' = [at EXCEPT ![t] = "begin"]
        /\ UNCHANGED <<me, open, upstream, down, srv, cur, parent, child, calls>>
    BY DEF Lock, Free, server
  <1>2. TheConn \in Conns
    BY TheConnIn DEF LinkInv
  <1>3. StreamTypeOK'
    BY <1>1, <1>2 DEF LinkInv, StreamTypeOK
  <1>4. /\ at'[t] = "begin" /\ \A u \in Callers : u # t => at'[u] = at[u]
        /\ conn'[t] = TheConn /\ \A u \in Callers : u # t => conn'[u] = conn[u]
    BY <1>1 DEF LinkInv, StreamTypeOK
  <1>5. Shared /\ Drained(TheConn) /\ \A u \in Callers : conn[u] = NoConn
    BY <1>1 DEF LinkInv, OwnInv, Constants
  <1>6. /\ (Shared' <=> Shared) /\ TheConn' = TheConn /\ mutex' # NoThread
        /\ Drained(TheConn)' /\ TheConn # NoConn
    BY <1>1, <1>2, <1>5 DEF Shared, TheConn, Drained, LinkInv, Constants
  <1>7. OwnInv'
    BY <1>1, <1>2, <1>4, <1>5, <1>6 DEF LinkInv, OwnInv, Early, Busy
  <1>8. OfCaller(t)'
    <2>1. CallInv(t)
      BY DEF LinkInv, OfCaller
    <2>2. Drained(conn[t])'
      BY <1>1, <1>4, <1>5 DEF Drained
    <2>3. QED
      BY <1>1, <1>4, <2>1, <2>2 DEF OfCaller, CallInv, GetInv, SetInv, OverInv, Busy, Receives, Asked
  <1>9. \A u \in Callers : u # t => Same(u)
    BY <1>1, <1>4 DEF Same
  <1>10. QED
    BY <1>3, <1>7, <1>8, <1>9, OfOne

LEMMA ConnectKeeps ==
  ASSUME LinkInv, UNCHANGED setup, NEW t \in Callers, Connect(t)
  PROVE  LinkInv'
  <1>1. at[t] = "connect" /\ UNCHANGED <<mutex, cur, parent, child, calls>> /\ ~Shared /\ conn[t] = NoConn
    BY DEF Connect, LinkInv, OwnInv, Early
  <1>2. (Shared' <=> Shared) /\ NoConn \notin Conns
    BY DEF Shared, LinkInv, Constants
  <1>3. CASE child = "down"
    <2>1. /\ me' = [me EXCEPT ![t].res = "error"] /\ at' = [at EXCEPT ![t] = "idle"]
          /\ UNCHANGED <<conn, open, upstream, down, srv>>
      BY <1>3 DEF Connect
    <2>2. StreamTypeOK'
      BY <1>1, <2>1 DEF LinkInv, StreamTypeOK, CallRecord
    <2>3. /\ at'[t] = "idle" /\ \A u \in Callers : u # t => at'[u] = at[u] /\ me'[u] = me[u]
          /\ me'[t].clean = me[t].clean
      BY <2>1 DEF LinkInv, StreamTypeOK, CallRecord
    <2>4. OwnInv'
      BY <1>1, <1>2, <2>1, <2>3 DEF LinkInv, OwnInv, Early, Busy, Receives
    <2>5. me[t].clean
      BY DEF LinkInv, OfCaller, CallInv
    <2>6. at'[t] \notin Busy \cup Asked
      BY <2>3 DEF Busy, Receives, Asked
    <2>7. OfCaller(t)'
      BY <2>3, <2>5, <2>6, NotBusy
    <2>8. \A u \in Callers : u # t => Same(u)
      BY <1>1, <2>1, <2>3 DEF Same
    <2>9. QED
      BY <2>2, <2>4, <2>7, <2>8, OfOne
  <1>4. CASE child # "down"
    <2>1. PICK k \in Conns \ open :
            /\ conn' = [conn EXCEPT ![t] = k] /\ open' = open \cup {k}
            /\ upstream' = [upstream EXCEPT ![k] = <<>>] /\ down' = [down EXCEPT ![k] = <<>>]
            /\ srv' = [srv EXCEPT ![k] = "recv"] /\ at' = [at EXCEPT ![t] = "begin"]
            /\ UNCHANGED me
      BY <1>4 DEF Connect
    <2>2. <<>> \in Seq(Unit)
      OBVIOUS
    <2>3. StreamTypeOK'
      BY <1>1, <2>1, <2>2 DEF LinkInv, StreamTypeOK
    <2>4. /\ at'[t] = "begin" /\ \A u \in Callers : u # t => at'[u] = at[u]
          /\ conn'[t] = k /\ \A u \in Callers : u # t => conn'[u] = conn[u]
          /\ upstream'[k] = <<>> /\ down'[k] = <<>> /\ srv'[k] = "recv"
          /\ \A c \in Conns : c # k => upstream'[c] = upstream[c] /\ down'[c] = down[c] /\ srv'[c] = srv[c]
      BY <2>1 DEF LinkInv, StreamTypeOK
    <2>5. \A u \in Callers : conn[u] # k
      BY <1>2, <2>1 DEF LinkInv, OwnInv
    <2>6. OwnInv'
      BY <1>1, <1>2, <2>1, <2>4, <2>5 DEF LinkInv, OwnInv, Early
    <2>7. OfCaller(t)'
      <3>1. CallInv(t)
        BY DEF LinkInv, OfCaller
      <3>2. Drained(conn[t])'
        BY <2>4 DEF Drained
      <3>3. QED
        BY <1>1, <2>1, <2>4, <3>1, <3>2 DEF OfCaller, CallInv, GetInv, SetInv, OverInv, Busy, Receives, Asked
    <2>8. \A u \in Callers : u # t => Same(u)
      BY <1>1, <2>1, <2>4, <2>5 DEF Same
    <2>9. QED
      BY <2>3, <2>6, <2>7, <2>8, OfOne
  <1>5. QED
    BY <1>3, <1>4

LEMMA NoMemoryKeeps ==
  ASSUME LinkInv, UNCHANGED setup, NEW t \in Callers, NoMemory(t)
  PROVE  LinkInv'
  <1>1. /\ at[t] = "data" /\ at' = [at EXCEPT ![t] = "discard"] /\ me' = [me EXCEPT ![t].res = "error"]
        /\ UNCHANGED <<conn, mutex, open, upstream, down, srv, cur, parent, child, calls>>
    BY DEF NoMemory, server
  <1>2. ~Shared /\ ~Shared'
    BY DEF NoMemory, SetupFaults, Shared, LinkInv, Whole, StreamTypeOK
  <1>3. StreamTypeOK'
    BY <1>1 DEF LinkInv, StreamTypeOK, CallRecord
  <1>4. /\ at'[t] = "discard" /\ \A u \in Callers : u # t => at'[u] = at[u] /\ me'[u] = me[u]
        /\ me'[t].clean = me[t].clean /\ me'[t].op = me[t].op /\ me'[t].len = me[t].len
    BY <1>1 DEF LinkInv, StreamTypeOK, CallRecord
  <1>5. OwnInv'
    BY <1>1, <1>2, <1>4 DEF LinkInv, OwnInv, Busy, Early, Receives
  <1>6. CallInv(t)
    BY DEF LinkInv, OfCaller
  <1>7. OfCaller(t)'
    BY <1>1, <1>2, <1>4, <1>6 DEF OfCaller, CallInv, GetInv, SetInv, OverInv, Busy, Receives, Asked
  <1>8. \A u \in Callers : u # t => Same(u)
    BY <1>1, <1>4 DEF Same
  <1>9. QED
    BY <1>3, <1>5, <1>7, <1>8, OfOne

LEMMA DiscardKeeps ==
  ASSUME LinkInv, UNCHANGED setup, NEW t \in Callers, Discard(t)
  PROVE  LinkInv'
  <1>1. /\ at[t] = "discard" /\ at' = [at EXCEPT ![t] = "end"] /\ down' = [down EXCEPT ![conn[t]] = <<>>]
        /\ UNCHANGED <<me, conn, mutex, open, upstream, srv, cur, parent, child, calls>>
    BY DEF Discard, server
  <1>2. conn[t] \in Conns
    BY <1>1 DEF LinkInv, OwnInv, Busy
  <1>3. /\ down' \in [Conns -> Seq(Unit)] /\ down'[conn[t]] = <<>>
        /\ \A c \in Conns : c # conn[t] => down'[c] = down[c]
    <2>1. <<>> \in Seq(Unit)
      OBVIOUS
    <2>2. QED
      BY <1>1, <1>2, <2>1 DEF LinkInv, StreamTypeOK
  <1>4. StreamTypeOK'
    BY <1>1, <1>3 DEF LinkInv, StreamTypeOK
  <1>5. at'[t] = "end" /\ \A u \in Callers : u # t => at'[u] = at[u]
    BY <1>1 DEF LinkInv, StreamTypeOK
  <1>6. /\ \A u \in Callers : u # t => conn[u] # conn[t]
        /\ Shared => mutex # NoThread
    BY <1>2, ApartFrom DEF LinkInv
  <1>7. (Shared' <=> Shared) /\ TheConn' = TheConn
    BY DEF Shared, TheConn
  <1>8. OwnInv'
    BY <1>1, <1>5, <1>6, <1>7 DEF LinkInv, OwnInv, Busy, Early
  <1>9. CallInv(t) /\ OverInv(t)
    BY DEF LinkInv, OfCaller
  <1>10. OfCaller(t)'
    BY <1>1, <1>3, <1>5, <1>7, <1>9 DEF OfCaller, CallInv, GetInv, SetInv, OverInv, Busy, Receives, Asked, Drained
  <1>11. \A u \in Callers : u # t => Same(u)
    BY <1>1, <1>3, <1>5, <1>6 DEF Same
  <1>12. QED
    BY <1>4, <1>8, <1>10, <1>11, OfOne

LEMMA EndKeeps ==
  ASSUME LinkInv, UNCHANGED setup, NEW t \in Callers, End(t)
  PROVE  LinkInv'
  <1>1. /\ at[t] = "end" /\ at' = [at EXCEPT ![t] = "idle"] /\ conn' = [conn EXCEPT ![t] = NoConn]
        /\ Shared => mutex' = NoThread /\ open' = open
        /\ ~Shared => open' = open \ {conn[t]} /\ mutex' = mutex
        /\ UNCHANGED <<me, upstream, down, srv, cur, parent, child, calls>>
    BY DEF End, Unlocked, server
  <1>2. conn[t] \in Conns
    BY <1>1 DEF LinkInv, OwnInv, Busy
  <1>3. StreamTypeOK'
    BY <1>1 DEF LinkInv, StreamTypeOK
  <1>4. /\ at'[t] = "idle" /\ \A u \in Callers : u # t => at'[u] = at[u]
        /\ conn'[t] = NoConn /\ \A u \in Callers : u # t => conn'[u] = conn[u]
    BY <1>1 DEF LinkInv, StreamTypeOK
  <1>5. /\ \A u \in Callers : u # t => conn[u] # conn[t]
        /\ Shared => conn[t] = TheConn /\ mutex = t
    BY <1>2, ApartFrom DEF LinkInv
  <1>6. (Shared' <=> Shared) /\ TheConn' = TheConn /\ (Drained(TheConn)' <=> Drained(TheConn))
    BY <1>1 DEF Shared, TheConn, Drained
  <1>7. Shared => Drained(TheConn)
    BY <1>1, <1>5 DEF LinkInv, OfCaller, OverInv
  <1>8. Shared => \A u \in Callers : conn'[u] = NoConn
    BY <1>4, <1>5 DEF LinkInv, OwnInv
  <1>9. OwnInv'
    <2>1. CASE Shared
      BY <1>1, <1>4, <1>6, <1>7, <1>8, <2>1 DEF LinkInv, OwnInv, Busy, Early, Receives
    <2>2. CASE ~Shared
      <3>1. \A u \in Callers : u # t /\ conn[u] # NoConn => conn[u] \in open /\ conn[u] # conn[t]
        BY <1>5 DEF LinkInv, OwnInv
      <3>2. QED
        BY <1>1, <1>4, <1>6, <2>2, <3>1 DEF LinkInv, OwnInv, Busy, Early, Receives
    <2>3. QED
      BY <2>1, <2>2
  <1>10. me'[t].clean /\ at'[t] \notin Busy \cup Asked
    BY <1>1, <1>4 DEF LinkInv, OfCaller, CallInv, Busy, Receives, Asked
  <1>11. OfCaller(t)'
    BY <1>10, NotBusy
  <1>12. \A u \in Callers : u # t => Same(u)
    BY <1>1, <1>4 DEF Same
  <1>13. QED
    BY <1>3, <1>9, <1>11, <1>12, OfOne

LEMMA CancelKeeps ==
  ASSUME LinkInv, UNCHANGED setup, NEW t \in Callers, Cancel(t)
  PROVE  LinkInv'
  <1>1. /\ at' = [at EXCEPT ![t] = "exited"]
        /\ UNCHANGED <<me, conn, mutex, open, upstream, down, srv, cur, parent, child, calls>>
    BY DEF Cancel, server
  <1>2. StreamTypeOK'
    BY <1>1 DEF LinkInv, StreamTypeOK
  <1>3. at'[t] = "exited" /\ \A u \in Callers : u # t => at'[u] = at[u]
    BY <1>1 DEF LinkInv, StreamTypeOK
  <1>4. (Shared' <=> Shared) /\ TheConn' = TheConn /\ (Drained(TheConn)' <=> Drained(TheConn))
    BY <1>1 DEF Shared, TheConn, Drained
  <1>5. OwnInv'
    BY <1>1, <1>3, <1>4 DEF LinkInv, OwnInv, Busy, Early, Receives
  <1>6. me'[t].clean /\ at'[t] \notin Busy \cup Asked
    BY <1>1, <1>3 DEF LinkInv, OfCaller, CallInv, Busy, Receives, Asked
  <1>7. OfCaller(t)'
    BY <1>6, NotBusy
  <1>8. \A u \in Callers : u # t => Same(u)
    BY <1>1, <1>3 DEF Same
  <1>9. QED
    BY <1>2, <1>5, <1>7, <1>8, OfOne

LEMMA StopKeeps ==
  ASSUME LinkInv, UNCHANGED setup, Stop
  PROVE  LinkInv'
  <1>1. /\ parent' = "stop"
        /\ UNCHANGED <<at, me, conn, mutex, open, upstream, down, srv, cur, child, calls>>
    BY DEF Stop, caller, server
  <1>2. StreamTypeOK'
    BY <1>1 DEF LinkInv, StreamTypeOK
  <1>3. (Shared' <=> Shared) /\ TheConn' = TheConn /\ (Drained(TheConn)' <=> Drained(TheConn))
    BY <1>1 DEF Shared, TheConn, Drained
  <1>4. OwnInv'
    BY <1>1, <1>3 DEF LinkInv, OwnInv
  <1>5. \A u \in Callers : Same(u)
    BY <1>1 DEF Same
  <1>6. (\A u \in Callers : OfCaller(u))'
    BY <1>5, OtherCallers DEF LinkInv
  <1>7. (Constants /\ Whole)'
    BY DEF LinkInv, Constants, Whole, Shared, SetupFaults
  <1>8. QED
    BY <1>2, <1>4, <1>6, <1>7 DEF LinkInv

LEMMA HangKeeps ==
  ASSUME LinkInv, UNCHANGED setup, Hang
  PROVE  LinkInv'
  <1>1. /\ child' = "hung"
        /\ UNCHANGED <<at, me, conn, mutex, open, upstream, down, srv, cur, parent, calls>>
    BY DEF Hang, caller, server
  <1>2. StreamTypeOK'
    BY <1>1 DEF LinkInv, StreamTypeOK
  <1>3. (Shared' <=> Shared) /\ TheConn' = TheConn /\ (Drained(TheConn)' <=> Drained(TheConn))
    BY <1>1 DEF Shared, TheConn, Drained
  <1>4. OwnInv'
    BY <1>1, <1>3 DEF LinkInv, OwnInv
  <1>5. \A u \in Callers : Same(u)
    BY <1>1 DEF Same
  <1>6. (\A u \in Callers : OfCaller(u))'
    BY <1>5, OtherCallers DEF LinkInv
  <1>7. (Constants /\ Whole)'
    BY DEF LinkInv, Constants, Whole, Shared, SetupFaults
  <1>8. QED
    BY <1>2, <1>4, <1>6, <1>7 DEF LinkInv

-----------------------------------------------------------------------------
(* The request *)

LEMMA BeginKeeps ==
  ASSUME LinkInv, UNCHANGED setup, NEW t \in Callers, Begin(t)
  PROVE  LinkInv'
  <1>1. /\ at[t] = "begin"
        /\ UNCHANGED <<me, conn, mutex, open, down, srv, cur, child, calls>>
    BY DEF Begin, server
  <1>2. PICK k \in Conns : k = conn[t]
    BY <1>1 DEF LinkInv, OwnInv, Busy
  <1>3. CallInv(t) /\ me[t] \in CallRecord
    BY DEF LinkInv, OfCaller, StreamTypeOK
  <1>4. /\ me[t].op \in {"get", "set", "del"} /\ (me[t].op # "set" => me[t].len = 0) /\ me[t].clean
        /\ upstream[k] = <<>> /\ down[k] = <<>> /\ srv[k] \in {"recv", "none"}
    BY <1>1, <1>2, <1>3 DEF CallInv, Drained, Busy, Asked
  <1>5. me[t].id \in Nat /\ me[t].op \in Parts /\ me[t].len \in Nat
    BY <1>3, <1>4 DEF CallRecord, Parts
  <1>6. PICK p \in {"duration", "data.send", "result"} :
          /\ (me[t].op = "get" => p = "duration") /\ (me[t].op = "set" => p = "data.send")
          /\ (me[t].op = "del" => p = "result")
          /\ SendUp(t, Units(me[t].id, me[t].op, me[t].len, 1), p)
    <2>1. PICK p : p = CASE me[t].op = "get" -> "duration"
                         [] me[t].op = "set" -> "data.send"
                         [] me[t].op = "del" -> "result"
      OBVIOUS
    <2>2. SendUp(t, Units(me[t].id, me[t].op, me[t].len, 1), p)
      BY <2>1 DEF Begin
    <2>3. /\ p \in {"duration", "data.send", "result"}
          /\ (me[t].op = "get" => p = "duration") /\ (me[t].op = "set" => p = "data.send")
          /\ (me[t].op = "del" => p = "result")
      BY <1>4, <2>1
    <2>4. QED
      BY <2>2, <2>3
  <1>7. \/ /\ Peer(k) /\ UNCHANGED parent /\ at' = [at EXCEPT ![t] = p]
           /\ upstream' \in [Conns -> Seq(Unit)]
           /\ \A c \in Conns : c # k => upstream'[c] = upstream[c]
           /\ Len(upstream'[k]) = Len(upstream[k]) + 1
           /\ \A j \in 1 .. 1 : upstream'[k][Len(upstream[k]) + j] = [id |-> me[t].id, part |-> me[t].op, val |-> me[t].len]
        \/ ~Peer(k) /\ parent' = "killed" /\ UNCHANGED <<upstream, at>>
    BY <1>2, <1>5, <1>6, SendUpEffect DEF LinkInv
  <1>8. /\ \A u \in Callers : u # t => conn[u] # k
        /\ Shared => mutex # NoThread
    BY <1>2, ApartFrom DEF LinkInv
  <1>9. (Shared' <=> Shared) /\ TheConn' = TheConn
    BY DEF Shared, TheConn
  <1>10. CASE ~Peer(k)
    <2>1. parent' = "killed" /\ UNCHANGED <<upstream, at>>
      BY <1>7, <1>10
    <2>2. StreamTypeOK'
      BY <1>1, <2>1 DEF LinkInv, StreamTypeOK
    <2>3. OwnInv'
      BY <1>1, <1>8, <1>9, <2>1, <1>2 DEF LinkInv, OwnInv, Drained
    <2>4. \A u \in Callers : Same(u)
      BY <1>1, <2>1 DEF Same
    <2>5. OfCaller(t)'
      BY <2>4, OtherCallers DEF LinkInv
    <2>6. QED
      BY <2>2, <2>3, <2>4, <2>5, OfOne
  <1>11. CASE Peer(k)
    <2>1. PICK x \in Seq(Unit) : x = upstream'[k]
      BY <1>7, <1>11
    <2>2. Len(x) = 1 /\ x[1] = [id |-> me[t].id, part |-> me[t].op, val |-> me[t].len]
      <3>1. Len(upstream[k]) = 0
        BY <1>4
      <3>2. QED
        BY <1>7, <1>11, <2>1, <3>1
    <2>3. /\ UNCHANGED parent /\ at' = [at EXCEPT ![t] = p] /\ upstream' \in [Conns -> Seq(Unit)]
          /\ \A c \in Conns : c # k => upstream'[c] = upstream[c]
      BY <1>7, <1>11
    <2>4. p \in {"duration", "result", "data.send"} /\ StreamTypeOK'
      BY <1>1, <1>6, <2>3 DEF LinkInv, StreamTypeOK, NextRecv
    <2>5. at'[t] = p /\ \A u \in Callers : u # t => at'[u] = at[u]
      BY <2>3 DEF LinkInv, StreamTypeOK
    <2>6. OwnInv'
      BY <1>1, <1>2, <1>6, <1>8, <1>9, <2>5 DEF LinkInv, OwnInv, Early, Busy
    <2>7. srv[k] = "recv"
      BY <1>4, <1>11 DEF Peer
    <2>8. /\ conn'[t] = k /\ me'[t] = me[t] /\ down'[k] = <<>> /\ srv'[k] = "recv"
      BY <1>1, <1>2, <1>4, <2>7
    <2>9. CallInv(t)'
      BY <1>4, <1>6, <2>5, <2>8 DEF CallInv, Busy, Receives, Asked
    <2>10. OverInv(t)'
      BY <1>6, <2>5 DEF OverInv
    <2>11. GetInv(t)'
      <3>1. CASE me[t].op # "get"
        BY <2>8, <3>1 DEF GetInv
      <3>2. CASE me[t].op = "get"
        <4>1. p = "duration" /\ me[t].len = 0
          BY <1>4, <1>6, <3>2
        <4>2. x = <<[id |-> me[t].id, part |-> "get", val |-> 0]>>
          BY <2>2, <3>2, <4>1
        <4>3. 0 \in Lengths \cup {0} /\ 0 \in {0, EIO} /\ Len(down'[k]) = 0
          BY <2>8
        <4>4. Sent(t, 0, 0)'
          BY <2>1, <2>8, <4>2 DEF Sent
        <4>5. Before(at[t], 0)' = 0
          BY <2>5, <4>1 DEF Before
        <4>6. QED
          BY <2>5, <2>8, <4>1, <4>3, <4>4, <4>5 DEF GetInv
      <3>3. QED
        BY <3>1, <3>2
    <2>12. SetInv(t)'
      <3>1. CASE me[t].op = "get"
        BY <2>8, <3>1 DEF SetInv
      <3>2. CASE me[t].op # "get"
        <4>1. x # <<>> /\ x[1].id = me[t].id /\ x[1].part = me[t].op /\ x[1].val = me[t].len
          <5>1. Len(x) # 0
            BY <2>2
          <5>2. x # <<>>
            BY <5>1, IsEmpty
          <5>3. QED
            BY <2>2, <5>2
        <4>2. InTurn(t)'
          <5>1. x[1].val = Len(x) - 1 + me[t].len
            BY <1>5, <2>2, <4>1
          <5>2. QED
            BY <2>1, <2>2, <2>8, <4>1, <5>1 DEF InTurn
        <4>3. \A j \in 1 .. Len(x) : x[j].id = me[t].id /\ x[j].part # "get"
          BY <2>2, <3>2, <4>1
        <4>4. SetLink(t, x, <<>>, "recv")'
          BY <2>8, <4>1, <4>3 DEF SetLink
        <4>5. QED
          BY <2>1, <2>8, <4>2, <4>4 DEF SetInv
      <3>3. QED
        BY <3>1, <3>2
    <2>13. \A u \in Callers : u # t => Same(u)
      BY <1>1, <1>8, <2>3, <2>5 DEF Same
    <2>14. QED
      BY <2>4, <2>6, <2>9, <2>10, <2>11, <2>12, <2>13, OfOne DEF OfCaller
  <1>12. QED
    BY <1>10, <1>11

LEMMA SendDataKeeps ==
  ASSUME LinkInv, UNCHANGED setup, NEW t \in Callers, SendData(t)
  PROVE  LinkInv'
  <1>1. /\ at[t] = "data.send"
        /\ UNCHANGED <<conn, mutex, open, down, srv, cur, child, calls>>
    BY DEF SendData, server
  <1>2. PICK k \in Conns : k = conn[t]
    BY <1>1 DEF LinkInv, OwnInv, Busy
  <1>3. CallInv(t) /\ SetInv(t) /\ me[t] \in CallRecord
    BY DEF LinkInv, OfCaller, StreamTypeOK
  <1>4. me[t].op = "set" /\ me[t].clean /\ me[t].len \in Nat /\ me[t].id \in Nat
    BY <1>1, <1>3 DEF CallInv, CallRecord
  <1>5. PICK n \in Pieces(me[t].len) :
          /\ SendUp(t, Units(me[t].id, "data", 0, n), IF n < me[t].len THEN "data.send" ELSE "result")
          /\ me' = [me EXCEPT ![t].len = @ - n]
    BY DEF SendData
  <1>6. n \in 0 .. me[t].len /\ (Shared => n = me[t].len)
    <2>1. n \in 0 .. me[t].len
      BY <1>4, <1>5, PiecesType
    <2>2. Shared => "split" \notin SetupFaults
      BY DEF LinkInv, StreamTypeOK, Whole, Shared, SetupFaults
    <2>3. QED
      BY <1>5, <2>1, <2>2 DEF Pieces
  <1>7. /\ me' \in [Callers -> CallRecord]
        /\ me'[t].len = me[t].len - n /\ me'[t].id = me[t].id /\ me'[t].op = me[t].op
        /\ me'[t].clean = me[t].clean /\ \A u \in Callers : u # t => me'[u] = me[u]
    <2>1. PICK m \in Nat : m = me[t].len - n
      BY <1>4, <1>6
    <2>2. me' = [me EXCEPT ![t] = [me[t] EXCEPT !.len = m]] /\ me \in [Callers -> CallRecord]
      BY <1>5, <2>1 DEF LinkInv, StreamTypeOK
    <2>3. PICK c \in CallRecord : c = [me[t] EXCEPT !.len = m]
      BY <1>3 DEF CallRecord
    <2>4. c.len = m /\ c.id = me[t].id /\ c.op = me[t].op /\ c.clean = me[t].clean
      BY <1>3, <2>3 DEF CallRecord
    <2>5. me' \in [Callers -> CallRecord] /\ me'[t] = c /\ \A u \in Callers : u # t => me'[u] = me[u]
      BY <2>2, <2>3
    <2>6. QED
      BY <2>1, <2>4, <2>5
  <1>8. PICK p \in {"data.send", "result"} :
          /\ p = IF n < me[t].len THEN "data.send" ELSE "result"
          /\ SendUp(t, Units(me[t].id, "data", 0, n), p)
    BY <1>5
  <1>9. \/ /\ Peer(k) /\ UNCHANGED parent /\ at' = [at EXCEPT ![t] = p]
           /\ upstream' \in [Conns -> Seq(Unit)]
           /\ \A c \in Conns : c # k => upstream'[c] = upstream[c]
           /\ Len(upstream'[k]) = Len(upstream[k]) + n
           /\ \A j \in 1 .. Len(upstream[k]) : upstream'[k][j] = upstream[k][j]
           /\ \A j \in 1 .. n : upstream'[k][Len(upstream[k]) + j] = [id |-> me[t].id, part |-> "data", val |-> 0]
        \/ ~Peer(k) /\ parent' = "killed" /\ UNCHANGED <<upstream, at>>
    <2>1. n \in Nat /\ "data" \in Parts /\ 0 \in Nat
      BY <1>4, <1>6 DEF Parts
    <2>2. QED
      BY <1>2, <1>4, <1>8, <2>1, SendUpEffect DEF LinkInv
  <1>10. /\ \A u \in Callers : u # t => conn[u] # k
         /\ Shared => mutex # NoThread
    BY <1>2, ApartFrom DEF LinkInv
  <1>11. (Shared' <=> Shared) /\ TheConn' = TheConn
    BY DEF Shared, TheConn
  <1>12. /\ SetLink(t, upstream[k], down[k], srv[k])
         /\ srv[k] \notin {"recv", "none"} => cur[k].id = me[t].id
         /\ Shared => InTurn(t)
    BY <1>1, <1>2, <1>3, <1>4 DEF SetInv
  <1>13. CASE ~Peer(k)
    <2>1. parent' = "killed" /\ UNCHANGED <<upstream, at>> /\ srv[k] = "none"
      BY <1>9, <1>13 DEF Peer
    <2>2. StreamTypeOK'
      BY <1>1, <1>7, <2>1 DEF LinkInv, StreamTypeOK
    <2>3. OwnInv'
      BY <1>1, <1>10, <1>11, <2>1, <1>2 DEF LinkInv, OwnInv, Drained
    <2>4. \A u \in Callers : u # t => Same(u)
      BY <1>1, <1>7, <2>1 DEF Same
    <2>5. CallInv(t)' /\ GetInv(t)' /\ OverInv(t)'
      BY <1>1, <1>4, <1>7, <2>1 DEF CallInv, GetInv, OverInv, Busy, Receives, Asked
    <2>6. Shared => InTurn(t)'
      BY <1>1, <1>2, <1>12, <2>1 DEF InTurn
    <2>7. SetInv(t)'
      <3>1. SetLink(t, upstream[k], down[k], srv[k])'
        BY <1>1, <1>7, <1>12, <2>1 DEF SetLink
      <3>2. QED
        BY <1>1, <1>2, <1>7, <1>11, <1>12, <2>1, <2>6, <3>1 DEF SetInv
    <2>8. QED
      BY <2>2, <2>3, <2>4, <2>5, <2>7, OfOne DEF OfCaller
  <1>14. CASE Peer(k)
    <2>1. PICK a \in Seq(Unit) : a = upstream[k]
      BY DEF LinkInv, StreamTypeOK
    <2>2. PICK x \in Seq(Unit) : x = upstream'[k]
      BY <1>9, <1>14
    <2>3. /\ Len(a) \in Nat /\ Len(x) = Len(a) + n
          /\ \A j \in 1 .. Len(a) : x[j] = a[j]
          /\ \A j \in 1 .. n : x[Len(a) + j] = [id |-> me[t].id, part |-> "data", val |-> 0]
      BY <1>9, <1>14, <2>1, <2>2, IsEmpty
    <2>4. /\ UNCHANGED parent /\ at' = [at EXCEPT ![t] = p] /\ upstream' \in [Conns -> Seq(Unit)]
          /\ \A c \in Conns : c # k => upstream'[c] = upstream[c]
      BY <1>9, <1>14
    <2>5. StreamTypeOK'
      BY <1>1, <1>7, <1>8, <2>4 DEF LinkInv, StreamTypeOK, NextRecv
    <2>6. at'[t] = p /\ \A u \in Callers : u # t => at'[u] = at[u]
      BY <2>4 DEF LinkInv, StreamTypeOK
    <2>7. OwnInv'
      BY <1>1, <1>2, <1>8, <1>10, <1>11, <2>6 DEF LinkInv, OwnInv, Early, Busy, Receives
    <2>8. p = "result" => me'[t].len = 0
      BY <1>4, <1>6, <1>7, <1>8
    <2>9. CallInv(t)' /\ GetInv(t)' /\ OverInv(t)'
      BY <1>4, <1>7, <1>8, <2>6, <2>8 DEF CallInv, GetInv, OverInv, Busy, Receives, Asked
    <2>10. \A j \in 1 .. Len(x) : x[j].id = me[t].id /\ x[j].part # "get"
      <3>1. SUFFICES ASSUME NEW j \in 1 .. Len(x) PROVE x[j].id = me[t].id /\ x[j].part # "get"
        OBVIOUS
      <3>2. CASE j <= Len(a)
        <4>1. x[j] = a[j] /\ a[j].id = me[t].id /\ a[j].part # "get"
          BY <1>12, <2>1, <2>3, <3>2 DEF SetLink
        <4>2. QED
          BY <4>1
      <3>3. CASE j > Len(a)
        <4>1. j - Len(a) \in 1 .. n /\ j = Len(a) + (j - Len(a))
          BY <1>4, <1>6, <2>3, <3>3
        <4>2. x[j] = [id |-> me[t].id, part |-> "data", val |-> 0]
          BY <2>3, <4>1
        <4>3. QED
          BY <4>2
      <3>4. QED
        BY <2>3, <3>2, <3>3
    <2>11. /\ conn'[t] = k /\ down'[k] = down[k] /\ srv'[k] = srv[k] /\ cur'[k] = cur[k]
      BY <1>1, <1>2
    <2>12. Shared => InTurn(t)'
      <3>1. SUFFICES ASSUME Shared PROVE InTurn(t)'
        OBVIOUS
      <3>2. n = me[t].len /\ p = "result" /\ me'[t].len = 0
        BY <1>4, <1>6, <1>8, <3>1, <2>8
      <3>3. srv[k] # "none" /\ at[t] # "result"
        BY <1>1, <1>14 DEF Peer
      <3>4. CASE srv[k] = "recv" /\ down[k] = <<>> /\ a # <<>> /\ a[1].part = "set"
                  /\ a[1].val = Len(a) - 1 + me[t].len /\ Len(a) = 1
        <4>1. x[1] = a[1] /\ Len(x) = 1 + me[t].len
          BY <2>3, <3>2, <3>4
        <4>2. Len(x) # 0
          BY <1>4, <4>1
        <4>3. x # <<>>
          BY <4>2, IsEmpty
        <4>4. x[1].part = "set" /\ x[1].val = Len(x) - 1 + 0
          BY <1>4, <3>4, <4>1
        <4>5. QED
          BY <1>4, <1>7, <2>2, <2>6, <2>11, <3>2, <3>4, <4>3, <4>4 DEF InTurn
      <3>5. CASE srv[k] = "data" /\ down[k] = <<>> /\ cur[k].len = Len(a) + me[t].len /\ a = <<>>
        <4>1. Len(a) = 0
          BY <3>5
        <4>2. cur[k].len = Len(x) + 0
          BY <2>3, <3>2, <3>5, <4>1
        <4>3. QED
          BY <1>4, <1>7, <2>2, <2>6, <2>11, <3>2, <3>5, <4>2 DEF InTurn
      <3>6. QED
        BY <1>1, <1>2, <1>4, <1>12, <2>1, <3>1, <3>3, <3>4, <3>5 DEF InTurn
    <2>13. SetInv(t)'
      <3>1. a # <<>> => x # <<>> /\ x[1] = a[1]
        <4>1. a # <<>> => Len(a) # 0 /\ Len(x) # 0
          BY <1>4, <1>6, <2>3, IsEmpty
        <4>2. QED
          BY <2>3, <4>1, IsEmpty
      <3>2. SetLink(t, x, down[k], srv[k])'
        BY <1>1, <1>7, <1>12, <2>1, <2>10, <3>1 DEF SetLink
      <3>3. QED
        BY <1>1, <1>7, <1>11, <1>12, <2>2, <2>11, <2>12, <3>2 DEF SetInv
    <2>14. \A u \in Callers : u # t => Same(u)
      BY <1>1, <1>7, <1>10, <2>4, <2>6 DEF Same
    <2>15. QED
      BY <2>5, <2>7, <2>9, <2>13, <2>14, OfOne DEF OfCaller
  <1>15. QED
    BY <1>13, <1>14

-----------------------------------------------------------------------------
(* The answer *)

LEMMA UpdateAt ==
  ASSUME NEW S, NEW T, NEW f \in [S -> T], NEW x \in S, NEW y \in T
  PROVE  /\ [f EXCEPT ![x] = y] \in [S -> T] /\ [f EXCEPT ![x] = y][x] = y
         /\ \A u \in S : u # x => [f EXCEPT ![x] = y][u] = f[u]
  OBVIOUS

\* What a receive makes of the call.
LEMMA RecvCall ==
  ASSUME LinkInv, NEW t \in Callers, NEW n \in Nat, NEW v \in Nat, NEW d,
         Told(t, d, n, v)
  PROVE  /\ me' \in [Callers -> CallRecord]
         /\ \A u \in Callers : u # t => me'[u] = me[u]
         /\ me'[t].id = me[t].id /\ me'[t].op = me[t].op
         /\ me'[t].len = IF at[t] = "head" THEN v ELSE me[t].len
         /\ me[t].clean /\ n = Asks(t) /\ (\A j \in 1 .. n : Mine(t, d[j])) => me'[t].clean
  <1>1. me[t] \in CallRecord /\ me \in [Callers -> CallRecord]
    BY DEF LinkInv, StreamTypeOK
  <1>2. PICK b \in BOOLEAN : b = (me[t].clean /\ n = Asks(t) /\ \A j \in 1 .. n : Mine(t, d[j]))
    BY Zenon
  <1>3. PICK l \in Nat : l = IF at[t] = "head" THEN v ELSE me[t].len
    BY <1>1 DEF CallRecord
  <1>4. PICK e \in {"none", "ok", "error"} : e = IF at[t] # "result" THEN me[t].res ELSE IF v = 0 THEN "ok" ELSE "error"
    BY <1>1 DEF CallRecord
  <1>5. me' = [me EXCEPT ![t] = [me[t] EXCEPT !.clean = b, !.len = l, !.res = e]]
    BY <1>1, <1>2, <1>3, <1>4 DEF CallRecord, Told
  <1>6. PICK c \in CallRecord : c = [me[t] EXCEPT !.clean = b, !.len = l, !.res = e]
    BY <1>1 DEF CallRecord
  <1>7. c.clean = b /\ c.len = l /\ c.id = me[t].id /\ c.op = me[t].op
    BY <1>1, <1>6 DEF CallRecord
  <1>8. me' \in [Callers -> CallRecord] /\ me'[t] = c /\ \A u \in Callers : u # t => me'[u] = me[u]
    <2>1. me' = [me EXCEPT ![t] = c]
      BY <1>5, <1>6, Zenon
    <2>2. /\ [me EXCEPT ![t] = c] \in [Callers -> CallRecord] /\ [me EXCEPT ![t] = c][t] = c
          /\ \A u \in Callers : u # t => [me EXCEPT ![t] = c][u] = me[u]
      BY <1>1, UpdateAt, Zenon
    <2>3. QED
      BY <2>1, <2>2, Zenon
  <1>9. me[t].clean /\ n = Asks(t) /\ (\A j \in 1 .. n : Mine(t, d[j])) => me'[t].clean
    BY <1>2, <1>7, <1>8
  <1>10. QED
    BY <1>3, <1>7, <1>8, <1>9

\* Where the caller goes on, short of its units or with all of them.
Progress(t, d, n) ==
  \/ /\ n < Asks(t) /\ n = Len(d)
     /\ me'[t].clean /\ me'[t].len = me[t].len
     /\ at'[t] = IF me[t].op = "get" THEN "discard" ELSE "end"
  \/ /\ n = Asks(t)
     /\ (\A j \in 1 .. n : Mine(t, d[j])) => me'[t].clean
     /\ at[t] # "head" => me'[t].len = me[t].len
     /\ at[t] = "head" /\ Mine(t, d[1]) => me'[t].len = d[1].val
     /\ \/ at'[t] = NextRecv[at[t]]
        \/ at[t] = "result" /\ me[t].op = "get" /\ at'[t] = "discard"

Moved(t) ==
  /\ me' \in [Callers -> CallRecord] /\ at' \in [Callers -> Points]
  /\ \A u \in Callers : u # t => me'[u] = me[u] /\ at'[u] = at[u]
  /\ me'[t].id = me[t].id /\ me'[t].op = me[t].op

LEMMA RecvStep ==
  ASSUME LinkInv, UNCHANGED setup, NEW t \in Callers, RecvDown(t), NEW k \in Conns, k = conn[t],
         NEW d \in Seq(Unit), d = down[k]
  PROVE  \E n \in 0 .. Len(d) :
           /\ Taken(k, d, n)
           /\ Moved(t)
           /\ Progress(t, d, n)
  <1>1. StreamTypeOK /\ Constants /\ at \in [Callers -> Points] /\ me \in [Callers -> CallRecord] /\ me[t].clean
    BY PcType DEF LinkInv, StreamTypeOK, OfCaller, CallInv
  <1>2. at[t] \in Receives
    BY DEF RecvDown, NextRecv, Receives
  <1>3. PICK n \in 0 .. Len(d) :
          /\ Taken(k, d, n)
          /\ Received(t, d, n)
    BY <1>1, RecvEffect
  <1>4. CASE /\ n < Asks(t) /\ n = Len(d)
             /\ me' = [me EXCEPT ![t].res = "error"]
             /\ at' = [at EXCEPT ![t] = IF me[t].op = "get" THEN "discard" ELSE "end"]
    <2>1. /\ me' \in [Callers -> CallRecord] /\ me'[t].clean = me[t].clean /\ me'[t].len = me[t].len
          /\ me'[t].id = me[t].id /\ me'[t].op = me[t].op
          /\ \A u \in Callers : u # t => me'[u] = me[u]
      BY <1>1, <1>4 DEF CallRecord
    <2>2. /\ at' \in [Callers -> Points] /\ at'[t] = (IF me[t].op = "get" THEN "discard" ELSE "end")
          /\ \A u \in Callers : u # t => at'[u] = at[u]
      BY <1>1, <1>4 DEF Points
    <2>3. me'[t].clean
      BY <1>1, <2>1
    <2>4. QED
      BY <1>3, <1>4, <2>1, <2>2, <2>3, Zenon DEF Moved, Progress
  <1>5. CASE /\ n = Asks(t)
             /\ \E v \in IF n = 0 THEN {0} ELSE Read(t, d[1], IF at[t] = "result" THEN {0, EIO} ELSE Lengths) :
                  Told(t, d, n, v)
             /\ at' = [at EXCEPT ![t] =
                         IF at[t] = "result" /\ me[t].op = "get" /\ me'[t].res = "error"
                           THEN "discard" ELSE NextRecv[at[t]]]
    <2>1. PICK v \in IF n = 0 THEN {0} ELSE Read(t, d[1], IF at[t] = "result" THEN {0, EIO} ELSE Lengths) :
            Told(t, d, n, v)
      BY <1>5, Zenon
    <2>2. n \in Nat /\ Len(d) \in Nat
      BY IsEmpty
    <2>3. n # 0 => d[1] \in Unit
      BY <2>2, LenProperties
    <2>4. v \in Nat
      BY <1>1, <2>3 DEF Read, Constants, EIO, Unit
    <2>5. at[t] = "head" => n # 0
      <3>1. n = Asks(t)
        BY <1>5, Zenon
      <3>2. QED
        BY <3>1 DEF Asks
    <2>6. at[t] = "head" /\ Mine(t, d[1]) => v = d[1].val
      BY <2>5 DEF Read
    <2>7. /\ me' \in [Callers -> CallRecord]
          /\ \A u \in Callers : u # t => me'[u] = me[u]
          /\ me'[t].id = me[t].id /\ me'[t].op = me[t].op
          /\ me'[t].len = (IF at[t] = "head" THEN v ELSE me[t].len)
          /\ (me[t].clean /\ n = Asks(t) /\ (\A j \in 1 .. n : Mine(t, d[j])) => me'[t].clean)
      BY <2>1, <2>2, <2>4, RecvCall, Zenon
    <2>8. PICK p \in Points : /\ at' = [at EXCEPT ![t] = p]
                              /\ \/ p = NextRecv[at[t]]
                                 \/ at[t] = "result" /\ me[t].op = "get" /\ p = "discard"
      <3>1. NextRecv[at[t]] \in Points /\ "discard" \in Points
        BY <1>2 DEF NextRecv, Receives, Points
      <3>2. QED
        BY <1>5, <3>1, Zenon
    <2>9. at' \in [Callers -> Points] /\ at'[t] = p /\ \A u \in Callers : u # t => at'[u] = at[u]
      BY <1>1, <2>8
    <2>10. QED
      BY <1>1, <1>3, <1>5, <2>6, <2>7, <2>8, <2>9, Zenon DEF Moved, Progress
  <1>6. QED
    BY <1>3, <1>4, <1>5, Zenon DEF Received

LEMMA AnswerParts ==
  ASSUME NEW i, NEW n \in Nat, NEW r, NEW j \in Nat \ {0}
  PROVE  /\ Answer(i, n, r, j).id = i
         /\ j \in 1 .. 2 => Answer(i, n, r, j).part = "duration"
         /\ j \in 3 .. 4 => Answer(i, n, r, j).part = "head" /\ Answer(i, n, r, j).val = n
         /\ j \in 5 .. n + 4 => Answer(i, n, r, j).part = "data"
         /\ j = n + 5 => Answer(i, n, r, j).part = "result"
  BY DEF Answer

LEMMA OneUnit ==
  ASSUME NEW n \in Nat, NEW l \in Nat, n + 4 + l \in {0, 2, n + 4, n + 5}, n + 4 + l >= n + 5
  PROVE  l = 1
  OBVIOUS

\* The receives of a get follow the answer part by part.
LEMMA RecvGet ==
  ASSUME LinkInv, UNCHANGED setup, NEW t \in Callers, NEW k \in Conns, k = conn[t], conn'[t] = k,
         UNCHANGED <<upstream, srv, cur>>, NEW d \in Seq(Unit), d = down[k], d # <<>> \/ ~Peer(k),
         at[t] \in Receives, me[t].op = "get",
         NEW m \in 0 .. Len(d), Taken(k, d, m),
         Moved(t), Progress(t, d, m)
  PROVE  OfCaller(t)'
  <1> USE DEF Moved, Progress
  <1>1. PICK n \in Lengths \cup {0} : \E r \in {0, EIO} :
          /\ at[t] \in {"data", "result"} => me[t].len = n
          /\ \A j \in 1 .. Len(d) : d[j] = Answer(me[t].id, n, r, Before(at[t], n) + j)
          /\ Sent(t, n, Before(at[t], n) + Len(d))
    BY DEF LinkInv, OfCaller, GetInv
  <1>2. PICK r \in {0, EIO} :
          /\ at[t] \in {"data", "result"} => me[t].len = n
          /\ \A j \in 1 .. Len(d) : d[j] = Answer(me[t].id, n, r, Before(at[t], n) + j)
          /\ Sent(t, n, Before(at[t], n) + Len(d))
    BY <1>1
  <1>3. n \in Nat /\ Len(d) \in Nat /\ m \in Nat /\ (d = <<>> <=> Len(d) = 0) /\ me[t].len \in Nat
    <2>1. Lengths \subseteq Nat /\ me[t].len \in Nat
      BY DEF LinkInv, Constants, StreamTypeOK, CallRecord
    <2>2. Len(d) \in Nat /\ (d = <<>> <=> Len(d) = 0)
      BY IsEmpty
    <2>3. QED
      BY <2>1, <2>2
  <1>4. PICK b \in Nat : /\ b = Before(at[t], n)
                         /\ at[t] = "duration" => b = 0 /\ Asks(t) = 2
                         /\ at[t] = "head" => b = 2 /\ Asks(t) = 2
                         /\ at[t] = "data" => b = 4 /\ Asks(t) = n
                         /\ at[t] = "result" => b = n + 4 /\ Asks(t) = 1
    BY <1>2, <1>3 DEF Before, Asks, Receives
  <1>5. at[t] \in {"duration", "head", "data", "result"}
    BY DEF Receives
  <1>6. /\ srv[k] # "data" /\ (srv[k] = "recv" \/ upstream[k] = <<>>)
        /\ srv[k] = "recv" /\ b + Len(d) # 0 => b + Len(d) = n + 5 /\ upstream[k] = <<>>
        /\ srv[k] = "duration" => b + Len(d) = 0
        /\ srv[k] = "value" => b + Len(d) = 2
        /\ srv[k] = "rest" => b + Len(d) < n + 4
        /\ srv[k] = "result" => b + Len(d) = n + 4
        /\ Shared => b + Len(d) \in {0, 2, n + 4, n + 5}
    <2>1. PICK s \in Nat : s = b + Len(d)
      BY <1>3
    <2>2. Sent(t, n, s)
      BY <1>2, <1>4, <2>1
    <2>3. srv[k] = "rest" => s < n + 4
      BY <1>3, <2>2 DEF Sent
    <2>4. QED
      BY <2>1, <2>2, <2>3 DEF Sent
  <1>7. srv[k] \in {"none", "recv", "data", "duration", "value", "rest", "result"}
    BY DEF LinkInv, StreamTypeOK
  <1>8. Shared' <=> Shared
    BY DEF Shared
  <1>9. CASE m < Asks(t)
    <2>1. m = Len(d) /\ at'[t] = "discard" /\ me'[t].clean
      BY <1>3, <1>4, <1>5, <1>9
    <2>2. Shared => upstream[k] = <<>> /\ srv[k] \in {"recv", "none"}
      <3>1. SUFFICES ASSUME Shared PROVE upstream[k] = <<>> /\ srv[k] \in {"recv", "none"}
        OBVIOUS
      <3>2. CASE d = <<>>
        BY <1>6, <3>2 DEF Peer
      <3>3. CASE d # <<>>
        <4>1. Len(d) > 0 /\ Len(d) < Asks(t)
          BY <1>3, <1>9, <2>1, <3>3
        <4>2. b + Len(d) \in {0, 2, n + 4, n + 5}
          BY <1>6, <3>1
        <4>3. QED
          BY <1>3, <1>4, <1>5, <4>1, <4>2
      <3>4. QED
        BY <3>2, <3>3
    <2>3. CallInv(t)' /\ GetInv(t)' /\ SetInv(t)'
      BY <2>1 DEF CallInv, GetInv, SetInv, Busy, Receives, Asked
    <2>4. OverInv(t)'
      BY <1>8, <2>1, <2>2 DEF OverInv
    <2>5. QED
      BY <2>3, <2>4 DEF OfCaller
  <1>10. CASE m = Asks(t)
    <2>1. \A j \in 1 .. m : Mine(t, d[j])
      <3>1. SUFFICES ASSUME NEW j \in 1 .. m PROVE Mine(t, d[j])
        OBVIOUS
      <3>2. j \in 1 .. Len(d) /\ b + j \in Nat \ {0} /\ j \in Nat
        BY <1>3
      <3>3. d[j] = Answer(me[t].id, n, r, b + j)
        BY <1>2, <1>4, <3>2
      <3>4. /\ at[t] = "duration" => b + j \in 1 .. 2
            /\ at[t] = "head" => b + j \in 3 .. 4
            /\ at[t] = "data" => b + j \in 5 .. n + 4
            /\ at[t] = "result" => b + j = n + 5
        BY <1>3, <1>4, <1>10
      <3>5. d[j].id = me[t].id /\ d[j].part = at[t]
        BY <1>3, <1>5, <3>2, <3>3, <3>4, AnswerParts
      <3>6. QED
        BY <3>5 DEF Mine
    <2>2. me'[t].clean
      BY <1>3, <1>4, <1>5, <1>10, <2>1
    <2>3. at[t] = "head" => me'[t].len = n
      <3>1. SUFFICES ASSUME at[t] = "head" PROVE me'[t].len = n
        OBVIOUS
      <3>2. m = 2 /\ b = 2 /\ 1 \in 1 .. m /\ 1 \in 1 .. Len(d)
        BY <1>3, <1>4, <1>10, <3>1
      <3>3. d[1] = Answer(me[t].id, n, r, 3)
        BY <1>2, <1>4, <3>2
      <3>4. d[1].val = n
        BY <1>3, <3>3, AnswerParts
      <3>5. Mine(t, d[1])
        BY <2>1, <3>2
      <3>6. QED
        BY <1>10, <3>1, <3>4, <3>5
    <2>4. CASE at[t] # "result"
      <3>1. PICK p \in {"head", "data", "result"} : /\ p = at'[t]
                                                    /\ p = NextRecv[at[t]]
        BY <1>3, <1>4, <1>5, <1>10, <2>4 DEF NextRecv
      <3>2. CallInv(t)' /\ SetInv(t)' /\ OverInv(t)'
        BY <2>2, <3>1 DEF CallInv, SetInv, OverInv, Busy, Receives, Asked
      <3>3. GetInv(t)'
        <4>1. PICK x \in Seq(Unit) : x = down'[k]
          BY DEF Taken
        <4>2. Len(x) = Len(d) - m /\ \A j \in 1 .. Len(d) - m : x[j] = d[m + j]
          BY <4>1 DEF Taken
        <4>3. Before(p, n) = b + m
          BY <1>2, <1>3, <1>4, <1>5, <1>10, <2>4, <3>1 DEF NextRecv, Before
        <4>4. \A j \in 1 .. Len(x) : x[j] = Answer(me[t].id, n, r, Before(p, n) + j)
          <5>1. SUFFICES ASSUME NEW j \in 1 .. Len(x) PROVE x[j] = Answer(me[t].id, n, r, Before(p, n) + j)
            OBVIOUS
          <5>2. x[j] = d[m + j] /\ m + j \in 1 .. Len(d) /\ j \in Nat
            BY <1>3, <4>2
          <5>3. d[m + j] = Answer(me[t].id, n, r, b + (m + j))
            BY <1>2, <1>4, <5>2
          <5>4. b + (m + j) = Before(p, n) + j
            BY <1>3, <4>3, <5>2
          <5>5. QED
            BY <5>2, <5>3, <5>4
        <4>5. Before(p, n) + Len(x) = b + Len(d)
          BY <1>3, <4>2, <4>3
        <4>6. Sent(t, n, b + Len(d))'
          BY <1>2, <1>4, <1>8 DEF Sent
        <4>7. at'[t] \in {"data", "result"} => me'[t].len = n
          BY <1>2, <1>3, <1>4, <1>5, <1>10, <2>3, <2>4, <3>1 DEF NextRecv
        <4>8. Sent(t, n, Before(p, n) + Len(x))'
          BY <4>5, <4>6
        <4>9. QED
          BY <3>1, <4>1, <4>4, <4>7, <4>8 DEF GetInv
      <3>4. QED
        BY <3>2, <3>3 DEF OfCaller
    <2>5. CASE at[t] = "result"
      <3>1. at'[t] \in {"discard", "end"} /\ b + Len(d) >= n + 5 /\ Len(d) # 0
        BY <1>3, <1>4, <1>10, <2>5 DEF NextRecv
      <3>2. srv[k] \in {"recv", "none"} /\ upstream[k] = <<>>
        BY <1>3, <1>6, <1>7, <3>1
      <3>3. Shared => down'[k] = <<>>
        <4>1. Len(down'[k]) = Len(d) - m
          BY DEF Taken
        <4>2. m = 1 /\ b = n + 4
          BY <1>4, <1>10, <2>5
        <4>3. Shared => Len(d) = 1
          <5>1. SUFFICES ASSUME Shared PROVE Len(d) = 1
            OBVIOUS
          <5>2. b + Len(d) \in {0, 2, n + 4, n + 5} /\ b + Len(d) >= n + 5
            BY <1>6, <3>1, <5>1
          <5>3. QED
            BY <1>3, <4>2, <5>2, OneUnit
        <4>4. down'[k] \in Seq(Unit)
          BY DEF Taken
        <4>5. Shared => Len(down'[k]) = 0
          BY <4>1, <4>2, <4>3
        <4>6. QED
          BY <4>4, <4>5, IsEmpty
      <3>4. CallInv(t)' /\ GetInv(t)' /\ SetInv(t)'
        BY <2>2, <3>1 DEF CallInv, GetInv, SetInv, Busy, Receives, Asked
      <3>5. OverInv(t)'
        BY <1>8, <3>1, <3>2, <3>3 DEF OverInv, Drained
      <3>6. QED
        BY <3>4, <3>5 DEF OfCaller
    <2>6. QED
      BY <2>4, <2>5
  <1>11. QED
    BY <1>9, <1>10

\* The receive of a set or del takes its own result.
LEMMA RecvSet ==
  ASSUME LinkInv, UNCHANGED setup, NEW t \in Callers, NEW k \in Conns, k = conn[t], conn'[t] = k,
         UNCHANGED <<upstream, srv, cur>>, NEW d \in Seq(Unit), d = down[k], d # <<>> \/ ~Peer(k),
         at[t] \in Receives, me[t].op # "get",
         NEW m \in 0 .. Len(d), Taken(k, d, m),
         Moved(t), Progress(t, d, m)
  PROVE  OfCaller(t)'
  <1> USE DEF Moved, Progress
  <1>1. CallInv(t) /\ SetInv(t)
    BY DEF LinkInv, OfCaller
  <1>2. at[t] = "result" /\ me[t].op \in {"set", "del"} /\ me[t].len = 0 /\ Asks(t) = 1
    BY <1>1 DEF CallInv, Receives, Busy, Asks
  <1>3. /\ \A j \in 1 .. Len(d) : d[j].id = me[t].id
        /\ d # <<>> => d[1].part = "result"
        /\ Shared => InTurn(t)
    BY <1>1, <1>2 DEF SetInv, SetLink
  <1>4. Len(d) \in Nat /\ (d = <<>> <=> Len(d) = 0) /\ m \in Nat
    BY IsEmpty
  <1>5. at'[t] = "end" /\ me'[t].len = 0 /\ m \in {0, 1} /\ (m = 0 => d = <<>>)
    BY <1>2, <1>4 DEF NextRecv
  <1>6. me'[t].clean
    <2>1. CASE m < Asks(t)
      BY <1>2, <1>4, <2>1
    <2>2. CASE m = Asks(t)
      <3>1. \A j \in 1 .. m : Mine(t, d[j])
        BY <1>2, <1>3, <1>4, <1>5 DEF Mine
      <3>2. QED
        BY <1>2, <1>4, <2>2, <3>1
    <2>3. QED
      BY <2>1, <2>2
  <1>7. Shared' <=> Shared
    BY DEF Shared
  <1>8. Shared => down'[k] = <<>> /\ upstream[k] = <<>> /\ srv[k] \in {"recv", "none"}
    <2>1. SUFFICES ASSUME Shared PROVE down'[k] = <<>> /\ upstream[k] = <<>> /\ srv[k] \in {"recv", "none"}
      OBVIOUS
    <2>2. \/ srv[k] = "none" /\ upstream[k] = <<>> /\ Len(d) <= 1
          \/ srv[k] = "recv" /\ upstream[k] = <<>> /\ Len(d) = 1
          \/ srv[k] # "none" /\ d = <<>>
      BY <1>3, <2>1 DEF InTurn
    <2>3. /\ srv[k] \in {"recv", "none"} /\ upstream[k] = <<>> /\ Len(d) <= 1
      <3>1. d = <<>> => srv[k] = "none"
        BY DEF Peer
      <3>2. CASE srv[k] = "none" /\ upstream[k] = <<>> /\ Len(d) <= 1
        BY <3>2
      <3>3. CASE srv[k] = "recv" /\ upstream[k] = <<>> /\ Len(d) = 1
        BY <3>3
      <3>4. QED
        BY <2>2, <3>1, <3>2, <3>3, Zenon
    <2>4. Len(d) - m = 0
      BY <1>4, <1>5, <2>3
    <2>5. Len(down'[k]) = Len(d) - m /\ down'[k] \in Seq(Unit)
      BY DEF Taken
    <2>6. down'[k] = <<>>
      BY <2>4, <2>5, IsEmpty
    <2>7. QED
      BY <2>3, <2>6
  <1>9. CallInv(t)' /\ GetInv(t)' /\ SetInv(t)'
    BY <1>2, <1>5, <1>6 DEF CallInv, GetInv, SetInv, Busy, Receives, Asked
  <1>10. OverInv(t)'
    BY <1>5, <1>7, <1>8 DEF OverInv, Drained
  <1>11. QED
    BY <1>9, <1>10 DEF OfCaller

LEMMA RecvDownKeeps ==
  ASSUME LinkInv, UNCHANGED setup, NEW t \in Callers, RecvDown(t)
  PROVE  LinkInv'
  <1>1. /\ at[t] \in Receives
        /\ UNCHANGED <<conn, mutex, open, upstream, srv, cur, parent, child, calls>>
    BY DEF RecvDown, server, NextRecv, Receives
  <1>2. PICK k \in Conns : k = conn[t]
    BY <1>1 DEF LinkInv, OwnInv, Busy
  <1>3. PICK d \in Seq(Unit) : d = down[k]
    BY DEF LinkInv, StreamTypeOK
  <1>4. d # <<>> \/ ~Peer(k)
    BY <1>2, <1>3 DEF RecvDown
  <1>5. PICK m \in 0 .. Len(d) :
          /\ Taken(k, d, m)
          /\ Moved(t)
          /\ Progress(t, d, m)
    BY <1>2, <1>3, RecvStep
  <1>6. StreamTypeOK'
    <2>1. at' \in [Callers -> {"idle", "lock", "connect", "begin", "data.send", "discard",
                               "end", "exited"} \cup DOMAIN NextRecv]
      BY <1>5 DEF Moved, Points, Receives, NextRecv
    <2>2. down' \in [Conns -> Seq(Unit)] /\ me' \in [Callers -> CallRecord]
      BY <1>5 DEF Moved, Taken
    <2>3. QED
      BY <1>1, <2>1, <2>2 DEF LinkInv, StreamTypeOK
  <1>7. OfCaller(t)'
    <2>1. conn'[t] = k /\ UNCHANGED <<upstream, srv, cur>>
      BY <1>1, <1>2
    <2>2. CASE me[t].op = "get"
      BY <1>1, <1>2, <1>3, <1>4, <1>5, <2>1, <2>2, RecvGet, Zenon
    <2>3. CASE me[t].op # "get"
      BY <1>1, <1>2, <1>3, <1>4, <1>5, <2>1, <2>3, RecvSet, Zenon
    <2>4. QED
      BY <2>2, <2>3
  <1>8. /\ \A u \in Callers : u # t => conn[u] # k
        /\ Shared => mutex # NoThread
    BY <1>2, ApartFrom DEF LinkInv
  <1>9. (Shared' <=> Shared) /\ TheConn' = TheConn
    BY DEF Shared, TheConn
  <1>10. at'[t] \in Busy /\ \A u \in Callers : u # t => me'[u] = me[u] /\ at'[u] = at[u]
    <2>1. at'[t] \in {"discard", "end", "head", "data", "result"}
      BY <1>1, <1>5 DEF Progress, NextRecv, Receives
    <2>2. QED
      BY <1>5, <2>1 DEF Moved, Busy, Receives
  <1>11. at'[t] \notin Early
    BY <1>10 DEF Busy, Receives, Early
  <1>12. OwnInv'
    BY <1>1, <1>2, <1>8, <1>9, <1>10, <1>11 DEF LinkInv, OwnInv, Early
  <1>13. \A u \in Callers : u # t => Same(u)
    BY <1>1, <1>5, <1>8, <1>10 DEF Same, Taken
  <1>14. QED
    BY <1>6, <1>7, <1>12, <1>13, OfOne

-----------------------------------------------------------------------------
(* The steps of the child *)

\* A step on k concerns the one caller of k, and only while it waits for an
\* answer.
LEMMA OfServer ==
  ASSUME LinkInv, NEW k \in Conns, ServerStep(k), UNCHANGED <<at, me, conn, mutex, open>>, StreamTypeOK',
         \A c \in Conns : c # k =>
           upstream'[c] = upstream[c] /\ down'[c] = down[c] /\ srv'[c] = srv[c] /\ cur'[c] = cur[c],
         \A t \in Callers : conn[t] = k /\ k \in open /\ at[t] \in Receives /\ me[t].op = "get" => GetInv(t)',
         \A t \in Callers : conn[t] = k /\ k \in open /\ at[t] \in {"data.send", "result"} /\ me[t].op # "get" => SetInv(t)'
  PROVE  LinkInv'
  <1>1. /\ UNCHANGED setup /\ (Shared' <=> Shared) /\ TheConn' = TheConn
        /\ NoConn \notin Conns /\ TheConn \in Conns
    BY TheConnIn DEF ServerStep, Shared, TheConn, LinkInv, Constants
  <1>2. OwnInv'
    <2>1. Shared /\ mutex = NoThread => Drained(TheConn)'
      <3>1. SUFFICES ASSUME Shared, mutex = NoThread PROVE Drained(TheConn)'
        OBVIOUS
      <3>2. TheConn \in open /\ Drained(TheConn)
        BY <3>1 DEF LinkInv, OwnInv
      <3>3. CASE k = TheConn
        BY <3>2, <3>3, Resting DEF Drained
      <3>4. CASE k # TheConn
        BY <1>1, <3>2, <3>4 DEF Drained
      <3>5. QED
        BY <3>3, <3>4
    <2>2. QED
      BY <1>1, <2>1 DEF LinkInv, OwnInv
  <1>3. ASSUME NEW u \in Callers PROVE OfCaller(u)'
    <2>1. CASE conn[u] # k
      <3>1. Same(u)
        BY <2>1 DEF Same
      <3>2. QED
        BY <1>1, <3>1, OtherCallers DEF LinkInv
    <2>2. CASE conn[u] = k
      <3>1. k \in open
        BY <1>1, <2>2 DEF LinkInv, OwnInv
      <3>2. CallInv(u) /\ OverInv(u)
        BY DEF LinkInv, OfCaller
      <3>3. at[u] # "begin"
        BY <2>2, <3>1, <3>2, Resting DEF CallInv, Drained
      <3>4. CallInv(u)'
        BY <3>2, <3>3 DEF CallInv
      <3>5. Shared => at[u] \notin {"discard", "end"}
        BY <2>2, <3>1, <3>2, Resting DEF OverInv, Drained
      <3>6. OverInv(u)'
        BY <1>1, <3>5 DEF OverInv
      <3>7. GetInv(u)'
        <4>1. CASE at[u] \in Receives /\ me[u].op = "get"
          BY <2>2, <3>1, <4>1
        <4>2. CASE ~(at[u] \in Receives /\ me[u].op = "get")
          BY <4>2 DEF GetInv
        <4>3. QED
          BY <4>1, <4>2
      <3>8. SetInv(u)'
        <4>1. CASE at[u] \in {"data.send", "result"} /\ me[u].op # "get"
          BY <2>2, <3>1, <4>1
        <4>2. CASE ~(at[u] \in {"data.send", "result"} /\ me[u].op # "get")
          BY <4>2 DEF SetInv
        <4>3. QED
          BY <4>1, <4>2
      <3>9. QED
        BY <3>4, <3>6, <3>7, <3>8 DEF OfCaller
    <2>3. QED
      BY <2>1, <2>2
  <1>4. (Constants /\ Whole)'
    BY <1>1 DEF LinkInv, Constants, Whole, Shared, SetupFaults
  <1>5. (\A u \in Callers : OfCaller(u))'
    BY <1>3
  <1>6. QED
    BY <1>2, <1>4, <1>5 DEF LinkInv

\* GetInv with its witnesses: b units of the answer have been read and d are
\* on their way.
OnItsWay(t, n, r, b, d) ==
  /\ b = Before(at[t], n) /\ d = down[conn[t]]
  /\ at[t] \in {"data", "result"} => me[t].len = n
  /\ \A j \in 1 .. Len(d) : d[j] = Answer(me[t].id, n, r, b + j)
  /\ Sent(t, n, b + Len(d))

LEMMA GetFacts ==
  ASSUME LinkInv, NEW t \in Callers, NEW k \in Conns, conn[t] = k, at[t] \in Receives, me[t].op = "get"
  PROVE  \E d \in Seq(Unit), n \in Lengths \cup {0}, r \in {0, EIO}, b \in Nat : OnItsWay(t, n, r, b, d)
  <1>1. PICK d \in Seq(Unit) : d = down[conn[t]]
    BY DEF LinkInv, StreamTypeOK
  <1>2. PICK n \in Lengths \cup {0} : \E r \in {0, EIO} :
          /\ at[t] \in {"data", "result"} => me[t].len = n
          /\ \A j \in 1 .. Len(d) : d[j] = Answer(me[t].id, n, r, Before(at[t], n) + j)
          /\ Sent(t, n, Before(at[t], n) + Len(d))
    BY <1>1 DEF LinkInv, OfCaller, GetInv
  <1>3. PICK r \in {0, EIO} :
          /\ at[t] \in {"data", "result"} => me[t].len = n
          /\ \A j \in 1 .. Len(d) : d[j] = Answer(me[t].id, n, r, Before(at[t], n) + j)
          /\ Sent(t, n, Before(at[t], n) + Len(d))
    BY <1>2
  <1>4. PICK b \in Nat : b = Before(at[t], n)
    <2>1. n \in Nat
      BY DEF LinkInv, Constants
    <2>2. Before(at[t], n) \in Nat
      BY <2>1 DEF Before
    <2>3. QED
      BY <2>2
  <1>5. OnItsWay(t, n, r, b, d)
    BY <1>1, <1>3, <1>4 DEF OnItsWay
  <1>6. QED
    BY <1>5

LEMMA WayFacts ==
  ASSUME Constants, NEW t \in Callers, at[t] \in Receives, NEW d \in Seq(Unit), NEW n \in Lengths \cup {0}, NEW r,
         NEW b \in Nat, OnItsWay(t, n, r, b, d)
  PROVE  /\ n \in Nat /\ Len(d) \in Nat /\ (Len(d) = 0 <=> d = <<>>)
         /\ at[t] \in {"data", "result"} => b >= 4
         /\ at[t] \in {"duration", "head"} => \A l : Before(at[t], l) = b
  <1>1. n \in Nat
    BY DEF Constants
  <1>2. b = Before(at[t], n)
    BY DEF OnItsWay
  <1>3. QED
    BY <1>1, <1>2, IsEmpty DEF Before

LEMMA GetHolds ==
  ASSUME NEW t \in Callers, NEW n \in Lengths \cup {0}, NEW r \in {0, EIO}, NEW b, NEW d, OnItsWay(t, n, r, b, d)'
  PROVE  GetInv(t)'
  BY DEF GetInv, OnItsWay

LEMMA SetFacts ==
  ASSUME LinkInv, NEW t \in Callers, NEW k \in Conns, conn[t] = k,
         at[t] \in {"data.send", "result"}, me[t].op # "get"
  PROVE  /\ SetLink(t, upstream[k], down[k], srv[k])
         /\ srv[k] \notin {"recv", "none"} => cur[k].id = me[t].id
         /\ Shared => InTurn(t)
         /\ me[t].op \in {"set", "del"} /\ (me[t].op = "del" => me[t].len = 0)
         /\ at[t] = "result" => me[t].len = 0
         /\ at[t] = "data.send" => me[t].op = "set"
         /\ me[t].len \in Nat
  <1>1. SetInv(t) /\ CallInv(t) /\ me[t] \in CallRecord
    BY DEF LinkInv, OfCaller, StreamTypeOK
  <1>2. me[t].len \in Nat
    BY <1>1 DEF CallRecord
  <1>3. /\ me[t].op \in {"set", "del"} /\ (me[t].op = "del" => me[t].len = 0)
        /\ at[t] = "result" => me[t].len = 0
        /\ at[t] = "data.send" => me[t].op = "set"
    BY <1>1 DEF CallInv, Busy, Receives
  <1>4. QED
    BY <1>1, <1>2, <1>3 DEF SetInv

LEMMA ServeRecvKeeps ==
  ASSUME LinkInv, UNCHANGED setup, NEW k \in Conns, child # "hung", ServeRecv(k)
  PROVE  LinkInv'
  <1>1. /\ srv[k] = "recv"
        /\ UNCHANGED <<at, me, conn, mutex, open, down, parent, child, calls>>
    BY DEF ServeRecv, caller
  <1>2. PICK a \in Seq(Unit) : a = upstream[k]
    BY DEF LinkInv, StreamTypeOK
  <1>3. ServerStep(k) /\ (Shared' <=> Shared)
    BY DEF ServerStep, Shared
  <1>4. CASE a = <<>>
    <2>1. k \notin open /\ srv' = [srv EXCEPT ![k] = "none"] /\ UNCHANGED <<upstream, cur>>
      BY <1>2, <1>4 DEF ServeRecv, Goes
    <2>2. StreamTypeOK' /\ \A c \in Conns : c # k => srv'[c] = srv[c]
      BY <1>1, <2>1 DEF LinkInv, StreamTypeOK
    <2>3. QED
      BY <1>1, <1>3, <2>1, <2>2, OfServer
  <1>5. CASE a # <<>>
    <2>1. PICK h \in Unit, z \in Seq(Unit) :
            /\ h = Head(a) /\ z = Tail(a) /\ h = a[1] /\ Len(a) \in Nat \ {0} /\ Len(z) = Len(a) - 1
            /\ \A j \in 1 .. Len(a) - 1 : z[j] = a[j + 1]
      <3>1. /\ Head(a) \in Unit /\ Head(a) = a[1] /\ Len(a) \in Nat \ {0}
            /\ Tail(a) \in Seq(Unit) /\ Len(Tail(a)) = Len(a) - 1
            /\ \A j \in 1 .. Len(a) - 1 : Tail(a)[j] = a[j + 1]
        BY <1>5, TailSeq
      <3>2. QED
        BY <3>1, Zenon
    <2>2. PICK o \in Outcomes, q \in Requested(h) :
            /\ upstream' = [upstream EXCEPT ![k] = z]
            /\ cur' = [cur EXCEPT ![k] = [NoCall EXCEPT !.id = h.id, !.op = q.op, !.len = q.len,
                                                        !.res = IF q.op = "none" THEN "ok" ELSE o]]
            /\ Goes(k, CASE q.op = "get" -> "duration" [] q.op = "set" -> "data" [] OTHER -> "result")
      BY <1>2, <1>5, <2>1 DEF ServeRecv
    <2>3. /\ h.id \in Nat /\ q.op \in Parts \cup {"none"} /\ q.len \in Nat
          /\ h.part # "data" => q.op = h.part /\ q.len = h.val
      <3>1. h.id \in Nat /\ h.part \in Parts /\ h.val \in Nat
        BY DEF Unit
      <3>2. CASE h.part = "data"
        <4>1. q \in [op : {"get", "set", "del", "none"}, len : Lengths]
          BY <3>2 DEF Requested
        <4>2. q.op \in {"get", "set", "del", "none"} /\ q.len \in Lengths
          BY <4>1
        <4>3. QED
          BY <3>1, <3>2, <4>2 DEF Parts, LinkInv, Constants
      <3>3. CASE h.part # "data"
        <4>1. q = [op |-> h.part, len |-> h.val]
          BY <3>3 DEF Requested
        <4>2. QED
          BY <3>1, <4>1
      <3>4. QED
        BY <3>2, <3>3
    <2>4. PICK p \in {"duration", "data", "result"} :
            /\ srv' = [srv EXCEPT ![k] = p]
            /\ q.op = "get" <=> p = "duration"
            /\ q.op = "set" => p = "data"
            /\ q.op \notin {"get", "set"} => p = "result"
      BY <2>2 DEF Goes
    <2>5. PICK e \in CallRecord :
            /\ e = [NoCall EXCEPT !.id = h.id, !.op = q.op, !.len = q.len,
                                  !.res = IF q.op = "none" THEN "ok" ELSE o]
            /\ e.id = h.id /\ e.len = q.len
      <3>1. PICK y \in {"none", "ok", "error"} : y = IF q.op = "none" THEN "ok" ELSE o
        BY DEF Outcomes
      <3>2. PICK c \in CallRecord : c = NoCall
        BY DEF NoCall, CallRecord
      <3>3. PICK e \in CallRecord : e = [c EXCEPT !.id = h.id, !.op = q.op, !.len = q.len, !.res = y]
        BY <2>3 DEF CallRecord
      <3>4. e.id = h.id /\ e.len = q.len
        BY <3>3 DEF CallRecord
      <3>5. QED
        BY <3>1, <3>2, <3>3, <3>4, Zenon
    <2>6. cur' = [cur EXCEPT ![k] = e]
      BY <2>2, <2>5, Zenon
    <2>7. StreamTypeOK'
      BY <1>1, <2>2, <2>4, <2>6 DEF LinkInv, StreamTypeOK
    <2>8. /\ upstream'[k] = z /\ cur'[k] = e /\ srv'[k] = p
          /\ \A c \in Conns : c # k => upstream'[c] = upstream[c] /\ srv'[c] = srv[c] /\ cur'[c] = cur[c]
      BY <2>2, <2>4, <2>6 DEF LinkInv, StreamTypeOK
    <2>9. ASSUME NEW t \in Callers, conn[t] = k, at[t] \in Receives, me[t].op = "get" PROVE GetInv(t)'
      <3>1. PICK d \in Seq(Unit), n \in Lengths \cup {0}, r \in {0, EIO}, b \in Nat : OnItsWay(t, n, r, b, d)
        BY <2>9, GetFacts
      <3>2. n \in Nat /\ Len(d) \in Nat
        BY <2>9, <3>1, WayFacts DEF LinkInv
      <3>3. b + Len(d) = 0 /\ a = <<[id |-> me[t].id, part |-> "get", val |-> 0]>>
        BY <1>1, <1>2, <1>5, <2>9, <3>1 DEF Sent, OnItsWay
      <3>4. h = [id |-> me[t].id, part |-> "get", val |-> 0] /\ Len(z) = 0
        BY <2>1, <3>3
      <3>5. z = <<>> /\ p = "duration" /\ e.id = me[t].id
        BY <2>3, <2>4, <2>5, <3>4, IsEmpty
      <3>6. Sent(t, n, b + Len(d))'
        BY <1>1, <2>8, <2>9, <3>3, <3>5 DEF Sent
      <3>7. OnItsWay(t, n, r, b, d)'
        BY <1>1, <3>1, <3>6 DEF OnItsWay
      <3>8. QED
        BY <3>7, GetHolds
    <2>10. ASSUME NEW t \in Callers, conn[t] = k, at[t] \in {"data.send", "result"}, me[t].op # "get" PROVE SetInv(t)'
      <3>1. /\ SetLink(t, a, down[k], "recv")
            /\ Shared => InTurn(t)
            /\ me[t].op \in {"set", "del"}
            /\ at[t] = "data.send" => me[t].op = "set"
            /\ me[t].len \in Nat /\ (me[t].op = "del" => me[t].len = 0)
        BY <1>1, <1>2, <2>10, SetFacts
      <3>2. h.id = me[t].id /\ h.part # "get"
        BY <2>1, <3>1 DEF SetLink
      <3>3. \A j \in 1 .. Len(z) : z[j].id = me[t].id /\ z[j].part # "get"
        <4>1. SUFFICES ASSUME NEW j \in 1 .. Len(z) PROVE z[j].id = me[t].id /\ z[j].part # "get"
          OBVIOUS
        <4>2. j + 1 \in 1 .. Len(a) /\ z[j] = a[j + 1]
          BY <2>1
        <4>3. QED
          BY <3>1, <4>2 DEF SetLink
      <3>4. SetLink(t, z, down[k], p)
        <4>1. down[k] = <<>> => p # "duration"
          BY <2>1, <2>3, <2>4, <3>1, <3>2 DEF SetLink
        <4>2. QED
          BY <3>1, <3>3, <4>1 DEF SetLink
      <3>5. Shared => InTurn(t)'
        <4>1. SUFFICES ASSUME Shared PROVE InTurn(t)'
          OBVIOUS
        <4>2. /\ down[k] = <<>> /\ h.part = me[t].op /\ h.val = Len(a) - 1 + me[t].len
              /\ at[t] = "data.send" \/ me[t].op = "del" => Len(a) = 1
          BY <1>1, <1>2, <1>5, <2>1, <2>10, <3>1, <4>1 DEF InTurn
        <4>3. at[t] = "data.send" \/ me[t].op = "del" => z = <<>>
          <5>1. at[t] = "data.send" \/ me[t].op = "del" => Len(z) = 0
            BY <2>1, <4>2
          <5>2. QED
            BY <5>1, IsEmpty
        <4>4. CASE me[t].op = "set"
          <5>1. p = "data" /\ e.len = Len(z) + me[t].len
            BY <2>1, <2>3, <2>4, <2>5, <3>1, <4>2, <4>4
          <5>2. QED
            BY <1>1, <2>8, <2>10, <4>2, <4>3, <4>4, <5>1 DEF InTurn
        <4>5. CASE me[t].op = "del"
          <5>1. p = "result" /\ at[t] = "result"
            BY <2>3, <2>4, <2>10, <3>1, <4>2, <4>5
          <5>2. QED
            BY <1>1, <2>8, <2>10, <4>2, <4>3, <4>5, <5>1 DEF InTurn
        <4>6. QED
          BY <3>1, <4>4, <4>5
      <3>6. SetLink(t, upstream[k], down[k], srv[k])' /\ cur'[k].id = me'[t].id
        BY <1>1, <2>5, <2>8, <3>2, <3>4 DEF SetLink
      <3>7. QED
        BY <1>1, <1>3, <2>10, <3>5, <3>6 DEF SetInv
    <2>11. QED
      BY <1>1, <1>3, <2>7, <2>8, <2>9, <2>10, OfServer
  <1>6. QED
    BY <1>4, <1>5

LEMMA ServeDataKeeps ==
  ASSUME LinkInv, UNCHANGED setup, NEW k \in Conns, child # "hung", ServeData(k)
  PROVE  LinkInv'
  <1>1. /\ srv[k] = "data" /\ srv' = [srv EXCEPT ![k] = "result"]
        /\ UNCHANGED <<at, me, conn, mutex, open, down, parent, child, calls>>
    BY DEF ServeData, caller, Goes, AfterData
  <1>2. PICK a \in Seq(Unit) : a = upstream[k]
    BY DEF LinkInv, StreamTypeOK
  <1>3. ServerStep(k) /\ (Shared' <=> Shared)
    BY DEF ServerStep, Shared
  <1>4. cur[k] \in CallRecord /\ cur[k].len \in Nat /\ Len(a) \in Nat
    BY IsEmpty DEF LinkInv, StreamTypeOK, CallRecord
  <1>5. PICK n \in 0 .. Len(a) : n = Least(cur[k].len, Len(a))
    BY <1>4 DEF Least
  <1>6. PICK z \in Seq(Unit) : /\ upstream' = [upstream EXCEPT ![k] = z]
                               /\ \A j \in 1 .. Len(z) : \E i \in 1 .. Len(a) : z[j] = a[i]
                               /\ Shared => (a # <<>> \/ k \notin open) /\ Len(z) = Len(a) - n
    <2>1. CASE (a # <<>> \/ k \notin open) /\ upstream' = [upstream EXCEPT ![k] = Drop(a, n)]
      <3>1. /\ Drop(a, n) \in Seq(Unit) /\ Len(Drop(a, n)) = Len(a) - n
            /\ \A j \in 1 .. Len(a) - n : Drop(a, n)[j] = a[n + j]
        BY DropSeq
      <3>2. \A j \in 1 .. Len(a) - n : n + j \in 1 .. Len(a)
        BY <1>4
      <3>3. QED
        BY <2>1, <3>1, <3>2
    <2>2. CASE "nomem" \in SetupFaults /\ upstream' = [upstream EXCEPT ![k] = <<>>]
      <3>1. ~Shared
        BY <2>2 DEF LinkInv, Whole, StreamTypeOK, Shared, SetupFaults
      <3>2. <<>> \in Seq(Unit)
        OBVIOUS
      <3>3. PICK z \in Seq(Unit) : z = <<>>
        BY <3>2
      <3>4. z = <<>> /\ Len(z) = 0
        BY <3>3, IsEmpty
      <3>5. upstream' = [upstream EXCEPT ![k] = z] /\ \A j \in 1 .. Len(z) : \E i \in 1 .. Len(a) : z[j] = a[i]
        BY <2>2, <3>4
      <3>6. QED
        BY <3>1, <3>5
    <2>3. QED
      BY <1>2, <1>5, <2>1, <2>2 DEF ServeData
  <1>7. PICK e \in CallRecord : cur' = [cur EXCEPT ![k] = e] /\ e.id = cur[k].id
    <2>1. [cur[k] EXCEPT !.res = "error"] \in CallRecord /\ [cur[k] EXCEPT !.res = "error"].id = cur[k].id
      BY <1>4 DEF CallRecord
    <2>2. cur' = [cur EXCEPT ![k] = cur[k]] \/ cur' = [cur EXCEPT ![k] = [cur[k] EXCEPT !.res = "error"]]
      BY DEF ServeData, LinkInv, StreamTypeOK
    <2>3. QED
      BY <1>4, <2>1, <2>2
  <1>8. StreamTypeOK'
    BY <1>1, <1>6, <1>7 DEF LinkInv, StreamTypeOK
  <1>9. /\ upstream'[k] = z /\ cur'[k] = e /\ srv'[k] = "result"
        /\ \A c \in Conns : c # k => upstream'[c] = upstream[c] /\ srv'[c] = srv[c] /\ cur'[c] = cur[c]
    BY <1>1, <1>6, <1>7 DEF LinkInv, StreamTypeOK
  <1>10. ASSUME NEW t \in Callers, conn[t] = k, at[t] \in Receives, me[t].op = "get" PROVE FALSE
    <2>1. PICK d \in Seq(Unit), n0 \in Lengths \cup {0}, r \in {0, EIO}, b \in Nat : OnItsWay(t, n0, r, b, d)
      BY <1>10, GetFacts
    <2>2. QED
      BY <1>1, <1>10, <2>1 DEF OnItsWay, Sent
  <1>11. ASSUME NEW t \in Callers, conn[t] = k, k \in open, at[t] \in {"data.send", "result"}, me[t].op # "get"
         PROVE  SetInv(t)'
    <2>1. /\ SetLink(t, a, down[k], "data") /\ cur[k].id = me[t].id
          /\ Shared => InTurn(t)
          /\ at[t] = "result" => me[t].len = 0
      BY <1>1, <1>2, <1>11, SetFacts
    <2>2. \A j \in 1 .. Len(z) : z[j].id = me[t].id /\ z[j].part # "get"
      <3>1. TAKE j \in 1 .. Len(z)
      <3>2. PICK i \in 1 .. Len(a) : z[j] = a[i]
        BY <1>6
      <3>3. a[i].id = me[t].id /\ a[i].part # "get"
        BY <1>2, <2>1, Zenon DEF SetLink
      <3>4. QED
        BY <3>2, <3>3, Zenon
    <2>3. Shared => InTurn(t)'
      <3>1. SUFFICES ASSUME Shared PROVE InTurn(t)'
        OBVIOUS
      <3>2. /\ down[k] = <<>> /\ cur[k].len = Len(a) + me[t].len
            /\ at[t] = "data.send" => a = <<>>
        BY <1>1, <1>2, <1>11, <2>1, <3>1 DEF InTurn
      <3>3. a # <<>> /\ Len(z) = Len(a) - n
        BY <1>6, <1>11, <3>1, Zenon
      <3>4. at[t] = "result" /\ me[t].len = 0
        BY <1>11, <2>1, <3>2, <3>3
      <3>5. n = Len(a)
        BY <1>4, <1>5, <3>2, <3>4 DEF Least
      <3>6. Len(z) = 0
        BY <1>4, <3>3, <3>5
      <3>7. z = <<>>
        BY <3>6, IsEmpty
      <3>8. QED
        BY <1>1, <1>9, <1>11, <3>2, <3>4, <3>7 DEF InTurn
    <2>4. SetLink(t, upstream[k], down[k], srv[k])' /\ cur'[k].id = me'[t].id
      BY <1>1, <1>7, <1>9, <2>1, <2>2 DEF SetLink
    <2>5. QED
      BY <1>1, <1>3, <1>11, <2>3, <2>4 DEF SetInv
  <1>12. QED
    BY <1>1, <1>3, <1>8, <1>9, <1>10, <1>11, OfServer

\* A send on a connection that the caller has closed ends the worker.
LEMMA ServedInVain ==
  ASSUME LinkInv, NEW k \in Conns, ServerStep(k), k \notin open,
         UNCHANGED <<at, me, conn, mutex, open, upstream, down, parent, child, calls>>,
         srv' = [srv EXCEPT ![k] = "none"], cur' \in [Conns -> CallRecord],
         \A c \in Conns : c # k => cur'[c] = cur[c]
  PROVE  LinkInv'
  <1>1. StreamTypeOK'
    BY DEF LinkInv, StreamTypeOK, ServerStep
  <1>2. \A c \in Conns : c # k => srv'[c] = srv[c]
    BY DEF LinkInv, StreamTypeOK
  <1>3. QED
    BY <1>1, <1>2, OfServer

\* A send to the caller of k.
LEMMA ServedOn ==
  ASSUME LinkInv, NEW k \in Conns, k \in open, ServerStep(k),
         UNCHANGED <<at, me, conn, mutex, open, upstream, parent, child, calls>>,
         NEW u \in Seq(Unit), NEW next \in {"value", "rest", "result", "recv"}, SendDown(k, u, next),
         cur' \in [Conns -> CallRecord], \A c \in Conns : c # k => cur'[c] = cur[c],
         \A t \in Callers : conn[t] = k /\ at[t] \in Receives /\ me[t].op = "get" => GetInv(t)',
         \A t \in Callers : conn[t] = k /\ at[t] \in {"data.send", "result"} /\ me[t].op # "get" => SetInv(t)'
  PROVE  LinkInv'
  <1>1. /\ srv' = [srv EXCEPT ![k] = next]
        /\ down' \in [Conns -> Seq(Unit)]
        /\ \A c \in Conns : c # k => down'[c] = down[c]
    BY SendDownEffect DEF LinkInv
  <1>2. StreamTypeOK'
    BY <1>1 DEF LinkInv, StreamTypeOK, ServerStep
  <1>3. \A c \in Conns : c # k => srv'[c] = srv[c]
    BY <1>1 DEF LinkInv, StreamTypeOK
  <1>4. QED
    BY <1>1, <1>2, <1>3, OfServer

Joined(x, d, u) ==
  /\ Len(d) \in Nat /\ Len(u) \in Nat /\ Len(x) = Len(d) + Len(u)
  /\ \A j \in 1 .. Len(d) : x[j] = d[j]
  /\ \A j \in 1 .. Len(u) : x[Len(d) + j] = u[j]

\* What the caller of k finds after a send of u.
LEMMA SentOn ==
  ASSUME LinkInv, NEW k \in Conns, k \in open, NEW u \in Seq(Unit), NEW next, SendDown(k, u, next),
         NEW d \in Seq(Unit), d = down[k]
  PROVE  \E x \in Seq(Unit) : x = down'[k] /\ srv'[k] = next /\ Joined(x, d, u)
  <1>1. /\ srv' = [srv EXCEPT ![k] = next]
        /\ down' \in [Conns -> Seq(Unit)]
        /\ Len(down'[k]) = Len(down[k]) + Len(u)
        /\ \A j \in 1 .. Len(down[k]) : down'[k][j] = down[k][j]
        /\ \A j \in 1 .. Len(u) : down'[k][Len(down[k]) + j] = u[j]
    BY SendDownEffect DEF LinkInv
  <1>2. Len(d) \in Nat /\ Len(u) \in Nat
    BY IsEmpty
  <1>3. srv'[k] = next
    BY <1>1 DEF LinkInv, StreamTypeOK
  <1>4. PICK x \in Seq(Unit) : x = down'[k]
    BY <1>1
  <1>5. Joined(x, d, u)
    BY <1>1, <1>2, <1>4 DEF Joined
  <1>6. QED
    BY <1>3, <1>4, <1>5

\* d is what an answer has from position b on.
Follows(d, i, n, r, b) == \A j \in 1 .. Len(d) : d[j] = Answer(i, n, r, b + j)

\* The answer goes on where it was.
LEMMA GoesOn ==
  ASSUME NEW d, NEW u, NEW x, NEW b \in Nat, NEW i, NEW n, NEW r,
         Joined(x, d, u), Follows(d, i, n, r, b), Follows(u, i, n, r, b + Len(d))
  PROVE  Follows(x, i, n, r, b)
  <1>1. SUFFICES ASSUME NEW j \in 1 .. Len(x) PROVE x[j] = Answer(i, n, r, b + j)
    BY DEF Follows
  <1>2. CASE j <= Len(d)
    BY <1>2 DEF Joined, Follows
  <1>3. CASE j > Len(d)
    <2>1. j - Len(d) \in 1 .. Len(u) /\ Len(d) + (j - Len(d)) = j /\ b + Len(d) + (j - Len(d)) = b + j
      BY <1>3 DEF Joined
    <2>2. x[j] = u[j - Len(d)] /\ u[j - Len(d)] = Answer(i, n, r, b + Len(d) + (j - Len(d)))
      BY <2>1 DEF Joined, Follows
    <2>3. QED
      BY <2>1, <2>2
  <1>4. Len(d) \in Nat
    BY DEF Joined
  <1>5. QED
    BY <1>2, <1>3, <1>4

Consists(u, i, part, w, n) == Len(u) = n /\ \A j \in 1 .. n : u[j] = [id |-> i, part |-> part, val |-> w]

LEMMA TheUnits ==
  ASSUME NEW i \in Nat, NEW part \in Parts, NEW w \in Nat, NEW n \in Nat
  PROVE  \E u \in Seq(Unit) : u = Units(i, part, w, n) /\ Consists(u, i, part, w, n)
  BY UnitsSeq DEF Consists

\* A get that the child makes of data left behind: what it sends comes after
\* the result of the set.
LEMMA SentAfter ==
  ASSUME LinkInv, NEW k \in Conns, k \in open, NEW t \in Callers, conn[t] = k,
         at[t] \in {"data.send", "result"}, me[t].op # "get",
         srv[k] \in {"duration", "value", "rest"},
         UNCHANGED <<setup, at, me, conn, upstream>>, cur'[k].id = cur[k].id,
         NEW u \in Seq(Unit), \A j \in 1 .. Len(u) : u[j].id = cur[k].id,
         NEW next \in {"value", "rest", "result"}, SendDown(k, u, next)
  PROVE  SetInv(t)'
  <1>1. /\ SetLink(t, upstream[k], down[k], srv[k]) /\ cur[k].id = me[t].id
        /\ Shared => InTurn(t)
    BY SetFacts
  <1>2. ~Shared
    BY <1>1 DEF InTurn
  <1>3. PICK d \in Seq(Unit) : d = down[k]
    BY DEF LinkInv, StreamTypeOK
  <1>4. PICK x \in Seq(Unit) : x = down'[k] /\ srv'[k] = next /\ Joined(x, d, u)
    BY <1>3, SentOn
  <1>5. d # <<>> /\ Len(d) # 0 /\ d[1].part = "result"
    BY <1>1, <1>3, IsEmpty DEF SetLink
  <1>6. x # <<>> /\ x[1] = d[1]
    <2>1. Len(x) # 0 /\ 1 \in 1 .. Len(d)
      BY <1>4, <1>5 DEF Joined
    <2>2. QED
      BY <1>4, <2>1, IsEmpty DEF Joined
  <1>7. \A j \in 1 .. Len(x) : x[j].id = me[t].id
    <2>1. SUFFICES ASSUME NEW j \in 1 .. Len(x) PROVE x[j].id = me[t].id
      OBVIOUS
    <2>2. CASE j <= Len(d)
      <3>1. j \in 1 .. Len(d)
        BY <1>4, <2>2 DEF Joined
      <3>2. x[j] = d[j] /\ d[j].id = me[t].id
        BY <1>1, <1>3, <1>4, <3>1 DEF Joined, SetLink
      <3>3. QED
        BY <3>2
    <2>3. CASE j > Len(d)
      <3>1. j - Len(d) \in 1 .. Len(u) /\ Len(d) + (j - Len(d)) = j
        BY <1>4, <2>3 DEF Joined
      <3>2. x[j] = u[j - Len(d)]
        BY <1>4, <3>1 DEF Joined
      <3>3. QED
        BY <1>1, <3>1, <3>2
    <2>4. QED
      BY <1>4, <2>2, <2>3 DEF Joined
  <1>8. SetLink(t, upstream[k], down[k], srv[k])'
    BY <1>1, <1>4, <1>5, <1>6, <1>7 DEF SetLink
  <1>9. Shared' <=> Shared
    BY DEF Shared
  <1>10. QED
    BY <1>1, <1>2, <1>8, <1>9 DEF SetInv

LEMMA ServeDurationKeeps ==
  ASSUME LinkInv, UNCHANGED setup, NEW k \in Conns, child # "hung", ServeDuration(k)
  PROVE  LinkInv'
  <1>1. /\ srv[k] = "duration"
        /\ UNCHANGED <<at, me, conn, mutex, open, upstream, cur, parent, child, calls>>
    BY DEF ServeDuration, caller
  <1>2. ServerStep(k) /\ (Shared' <=> Shared) /\ cur' \in [Conns -> CallRecord]
    BY <1>1 DEF ServerStep, Shared, LinkInv, StreamTypeOK
  <1>3. CASE k \notin open
    <2>1. srv' = [srv EXCEPT ![k] = "none"] /\ UNCHANGED down
      BY <1>3 DEF ServeDuration, SendDown, Goes
    <2>2. QED
      BY <1>1, <1>2, <1>3, <2>1, ServedInVain
  <1>4. CASE k \in open
    <2>1. cur[k].id \in Nat /\ "duration" \in Parts /\ 0 \in Nat /\ 2 \in Nat
      BY DEF LinkInv, StreamTypeOK, CallRecord, Parts
    <2>2. PICK u \in Seq(Unit) : u = Units(cur[k].id, "duration", 0, 2) /\ Consists(u, cur[k].id, "duration", 0, 2)
      BY <2>1, TheUnits
    <2>3. /\ SendDown(k, u, "value") /\ Len(u) = 2
          /\ \A j \in 1 .. 2 : u[j] = [id |-> cur[k].id, part |-> "duration", val |-> 0]
      BY <2>2 DEF ServeDuration, Consists
    <2>4. ASSUME NEW t \in Callers, conn[t] = k, at[t] \in Receives, me[t].op = "get" PROVE GetInv(t)'
      <3>1. PICK d \in Seq(Unit), n \in Lengths \cup {0}, r \in {0, EIO}, b \in Nat : OnItsWay(t, n, r, b, d)
        BY <2>4, GetFacts
      <3>2. n \in Nat /\ Len(d) \in Nat
        BY <2>4, <3>1, WayFacts DEF LinkInv
      <3>3. /\ b + Len(d) = 0 /\ cur[k].id = me[t].id /\ upstream[k] = <<>> /\ d = down[k]
            /\ Follows(d, me[t].id, n, r, b)
        BY <1>1, <2>4, <3>1 DEF OnItsWay, Sent, Follows
      <3>4. PICK x \in Seq(Unit) : x = down'[k] /\ srv'[k] = "value" /\ Joined(x, d, u)
        BY <1>4, <2>3, <3>3, SentOn
      <3>5. Follows(u, me[t].id, n, r, b + Len(d))
        BY <2>3, <3>2, <3>3 DEF Answer, Follows
      <3>6. Follows(x, me[t].id, n, r, b)
        BY <3>3, <3>4, <3>5, GoesOn
      <3>7. b + Len(x) = 2
        BY <2>3, <3>2, <3>3, <3>4 DEF Joined
      <3>8. Sent(t, n, b + Len(x))'
        BY <1>1, <1>2, <2>4, <3>3, <3>4, <3>7 DEF Sent
      <3>9. OnItsWay(t, n, r, b, x)'
        BY <1>1, <2>4, <3>1, <3>4, <3>6, <3>8 DEF OnItsWay, Follows
      <3>10. QED
        BY <3>9, GetHolds
    <2>5. ASSUME NEW t \in Callers, conn[t] = k, at[t] \in {"data.send", "result"}, me[t].op # "get"
           PROVE  SetInv(t)'
      <3>1. \A j \in 1 .. Len(u) : u[j].id = cur[k].id
        BY <2>3
      <3>2. QED
        BY <1>1, <1>4, <2>3, <2>5, <3>1, SentAfter
    <2>6. QED
      BY <1>1, <1>2, <1>4, <2>3, <2>4, <2>5, ServedOn
  <1>5. QED
    BY <1>3, <1>4

\* How much of the value is left to send.
LEMMA LeftToSend ==
  ASSUME LinkInv, NEW k \in Conns, NEW m \in Nat, cur' = [cur EXCEPT ![k].len = m]
  PROVE  /\ cur' \in [Conns -> CallRecord] /\ cur'[k].len = m /\ cur'[k].id = cur[k].id
         /\ \A c \in Conns : c # k => cur'[c] = cur[c]
  <1>1. cur[k] \in CallRecord /\ cur \in [Conns -> CallRecord]
    BY DEF LinkInv, StreamTypeOK
  <1>2. PICK e \in CallRecord : e = [cur[k] EXCEPT !.len = m]
    BY <1>1 DEF CallRecord
  <1>3. e.len = m /\ e.id = cur[k].id
    BY <1>1, <1>2 DEF CallRecord
  <1>4. cur' = [cur EXCEPT ![k] = e]
    BY <1>1, <1>2
  <1>5. QED
    BY <1>1, <1>3, <1>4

\* On a shared connection data is sent in one piece.
LEMMA SentWhole ==
  ASSUME LinkInv, Shared, NEW n, NEW m \in Pieces(n)
  PROVE  m = n
  BY DEF LinkInv, Whole, StreamTypeOK, Shared, SetupFaults, Pieces

\* Whatever the length of the value, the duration is the same.
LEMMA DurationFirst ==
  ASSUME NEW d, NEW i, NEW n, NEW l, NEW r, NEW b \in Nat, Len(d) \in Nat, b + Len(d) = 2, Follows(d, i, n, r, b)
  PROVE  Follows(d, i, l, r, b)
  <1>1. SUFFICES ASSUME NEW j \in 1 .. Len(d) PROVE d[j] = Answer(i, l, r, b + j)
    BY DEF Follows
  <1>2. b + j <= 2 /\ d[j] = Answer(i, n, r, b + j)
    BY DEF Follows
  <1>3. QED
    BY <1>2 DEF Answer

\* Whatever the result, the value before it is the same.
LEMMA ResultLast ==
  ASSUME NEW d, NEW i, NEW n \in Nat, NEW r, NEW q, NEW b \in Nat, Len(d) \in Nat, b + Len(d) = n + 4, Follows(d, i, n, r, b)
  PROVE  Follows(d, i, n, q, b)
  <1>1. SUFFICES ASSUME NEW j \in 1 .. Len(d) PROVE d[j] = Answer(i, n, q, b + j)
    BY DEF Follows
  <1>2. b + j <= n + 4 /\ d[j] = Answer(i, n, r, b + j)
    BY DEF Follows
  <1>3. QED
    BY <1>2 DEF Answer

\* The head and the first m units of a value of length n.
LEMMA ValueUnits ==
  ASSUME NEW i \in Nat, NEW n \in Nat, NEW m \in 0 .. n
  PROVE  \E u \in Seq(Unit) :
           /\ u = Units(i, "head", n, 2) \o Units(i, "data", 0, m)
           /\ Len(u) = 2 + m /\ \A r : Follows(u, i, n, r, 2)
  <1>1. "head" \in Parts /\ "data" \in Parts /\ 2 \in Nat /\ 0 \in Nat /\ m \in Nat
    BY DEF Parts
  <1>2. PICK h \in Seq(Unit) : h = Units(i, "head", n, 2) /\ Consists(h, i, "head", n, 2)
    BY <1>1, TheUnits
  <1>3. PICK v \in Seq(Unit) : v = Units(i, "data", 0, m) /\ Consists(v, i, "data", 0, m)
    BY <1>1, TheUnits
  <1>4. PICK u \in Seq(Unit) : u = h \o v /\ Joined(u, h, v)
    <2>1. Len(h) \in Nat /\ Len(v) \in Nat
      BY IsEmpty
    <2>2. h \o v \in Seq(Unit) /\ Len(h \o v) = Len(h) + Len(v)
      BY JoinSeq
    <2>3. (\A j \in 1 .. Len(h) : (h \o v)[j] = h[j]) /\ \A j \in 1 .. Len(v) : (h \o v)[Len(h) + j] = v[j]
      BY JoinSeq
    <2>4. QED
      BY <2>1, <2>2, <2>3 DEF Joined
  <1>5. Len(h) = 2 /\ Len(v) = m /\ Len(u) = 2 + m
    BY <1>2, <1>3, <1>4 DEF Consists, Joined
  <1>6. ASSUME NEW r PROVE Follows(u, i, n, r, 2)
    <2>1. Follows(h, i, n, r, 2)
      BY <1>2 DEF Consists, Follows, Answer
    <2>2. Follows(v, i, n, r, 2 + Len(h))
      <3>1. SUFFICES ASSUME NEW j \in 1 .. m PROVE v[j] = Answer(i, n, r, 4 + j)
        BY <1>5 DEF Follows
      <3>2. v[j] = [id |-> i, part |-> "data", val |-> 0]
        BY <1>3 DEF Consists
      <3>3. QED
        BY <3>2 DEF Answer
    <2>3. 2 \in Nat
      OBVIOUS
    <2>4. QED
      BY <1>4, <2>1, <2>2, <2>3, GoesOn
  <1>7. QED
    BY <1>2, <1>3, <1>4, <1>5, <1>6

LEMMA Sum ==
  ASSUME NEW a \in Nat, NEW l \in Nat, NEW m \in Nat
  PROVE  a + (l + m) = (a + l) + m
  OBVIOUS

LEMMA ServeValueKeeps ==
  ASSUME LinkInv, UNCHANGED setup, NEW k \in Conns, child # "hung", ServeValue(k)
  PROVE  LinkInv'
  <1>1. /\ srv[k] = "value"
        /\ UNCHANGED <<at, me, conn, mutex, open, upstream, parent, child, calls>>
    BY DEF ServeValue, caller
  <1>2. ServerStep(k) /\ (Shared' <=> Shared)
    BY DEF ServerStep, Shared
  <1>3. PICK l \in Lengths \cup {0} : \E m \in Pieces(l) :
           /\ SendDown(k, Units(cur[k].id, "head", l, 2) \o Units(cur[k].id, "data", 0, m),
                       IF m < l THEN "rest" ELSE "result")
           /\ cur' = [cur EXCEPT ![k].len = l - m]
    BY DEF ServeValue
  <1>4. PICK m \in Pieces(l) :
          /\ SendDown(k, Units(cur[k].id, "head", l, 2) \o Units(cur[k].id, "data", 0, m),
                      IF m < l THEN "rest" ELSE "result")
          /\ cur' = [cur EXCEPT ![k].len = l - m]
    BY <1>3
  <1>5. l \in Nat /\ m \in 0 .. l /\ (Shared => m = l)
    <2>1. l \in Nat
      BY DEF LinkInv, Constants
    <2>2. QED
      BY <1>4, <2>1, PiecesType, SentWhole
  <1>6. l - m \in Nat /\ cur[k].id \in Nat
    BY <1>5 DEF LinkInv, StreamTypeOK, CallRecord
  <1>7. /\ cur' \in [Conns -> CallRecord] /\ cur'[k].len = l - m /\ cur'[k].id = cur[k].id
        /\ \A c \in Conns : c # k => cur'[c] = cur[c]
    BY <1>4, <1>6, LeftToSend
  <1>8. CASE k \notin open
    <2>1. srv' = [srv EXCEPT ![k] = "none"] /\ UNCHANGED down
      BY <1>4, <1>8 DEF SendDown, Goes
    <2>2. QED
      BY <1>1, <1>2, <1>7, <1>8, <2>1, ServedInVain
  <1>9. CASE k \in open
    <2>1. PICK u \in Seq(Unit) :
            /\ u = Units(cur[k].id, "head", l, 2) \o Units(cur[k].id, "data", 0, m)
            /\ Len(u) = 2 + m /\ \A r : Follows(u, cur[k].id, l, r, 2)
      BY <1>5, <1>6, ValueUnits
    <2>2. PICK p \in {"rest", "result"} : /\ p = (IF m < l THEN "rest" ELSE "result")
                                          /\ SendDown(k, u, p)
      BY <1>4, <2>1
    <2>3. ASSUME NEW t \in Callers, conn[t] = k, at[t] \in Receives, me[t].op = "get" PROVE GetInv(t)'
      <3>1. PICK d \in Seq(Unit), n \in Lengths \cup {0}, r \in {0, EIO}, b \in Nat : OnItsWay(t, n, r, b, d)
        BY <2>3, GetFacts
      <3>2. /\ n \in Nat /\ Len(d) \in Nat
            /\ at[t] \in {"data", "result"} => b >= 4
            /\ at[t] \in {"duration", "head"} => \A a : Before(at[t], a) = b
        BY <2>3, <3>1, WayFacts DEF LinkInv
      <3>3. /\ b + Len(d) = 2 /\ cur[k].id = me[t].id /\ upstream[k] = <<>> /\ d = down[k]
            /\ Follows(d, me[t].id, n, r, b)
        BY <1>1, <2>3, <3>1 DEF OnItsWay, Sent, Follows
      <3>4. at[t] \in {"duration", "head"} /\ Before(at[t], l) = b
        <4>1. at[t] \notin {"data", "result"}
          BY <3>2, <3>3
        <4>2. QED
          BY <2>3, <3>2, <4>1 DEF Receives
      <3>5. PICK x \in Seq(Unit) : x = down'[k] /\ srv'[k] = p /\ Joined(x, d, u)
        BY <1>9, <2>2, <3>3, SentOn
      <3>6. Follows(d, me[t].id, l, r, b)
        BY <3>2, <3>3, DurationFirst
      <3>7. Follows(u, me[t].id, l, r, b + Len(d))
        BY <2>1, <3>3
      <3>8. Follows(x, me[t].id, l, r, b)
        BY <3>5, <3>6, <3>7, GoesOn
      <3>9. b + Len(x) = 4 + m
        <4>1. Len(x) = Len(d) + (2 + m)
          BY <2>1, <3>5 DEF Joined
        <4>2. m \in Nat /\ 2 + m \in Nat /\ 2 + (2 + m) = 4 + m
          BY <1>5
        <4>3. PICK a \in Nat : a = Len(d) /\ b + a = 2
          BY <3>2, <3>3
        <4>4. b + (Len(d) + (2 + m)) = 2 + (2 + m)
          BY <4>2, <4>3
        <4>5. QED
          BY <4>1, <4>2, <4>4
      <3>10. Sent(t, l, 4 + m)'
        <4>1. p = "rest" => l - m \in 1 .. l /\ 4 + m = l + 4 - (l - m)
          BY <1>5, <2>2
        <4>2. p = "result" => 4 + m = l + 4
          BY <1>5, <2>2
        <4>3. Shared => p = "result"
          BY <1>5, <2>2
        <4>4. QED
          BY <1>1, <1>2, <1>7, <2>3, <3>3, <3>5, <4>1, <4>2, <4>3 DEF Sent
      <3>11. OnItsWay(t, l, r, b, x)'
        BY <1>1, <2>3, <3>4, <3>5, <3>8, <3>9, <3>10 DEF OnItsWay, Follows
      <3>12. QED
        BY <3>11, GetHolds
    <2>4. ASSUME NEW t \in Callers, conn[t] = k, at[t] \in {"data.send", "result"}, me[t].op # "get"
           PROVE  SetInv(t)'
      <3>1. \A j \in 1 .. Len(u) : u[j].id = cur[k].id
        <4>1. Follows(u, cur[k].id, l, 0, 2)
          BY <2>1
        <4>2. SUFFICES ASSUME NEW j \in 1 .. Len(u) PROVE u[j].id = cur[k].id
          OBVIOUS
        <4>3. u[j] = Answer(cur[k].id, l, 0, 2 + j)
          BY <4>1 DEF Follows
        <4>4. QED
          BY <4>3 DEF Answer
      <3>2. QED
        BY <1>1, <1>7, <1>9, <2>2, <2>4, <3>1, SentAfter
    <2>5. QED
      BY <1>1, <1>2, <1>7, <1>9, <2>2, <2>3, <2>4, ServedOn
  <1>10. QED
    BY <1>8, <1>9

LEMMA ServeRestKeeps ==
  ASSUME LinkInv, UNCHANGED setup, NEW k \in Conns, child # "hung", ServeRest(k)
  PROVE  LinkInv'
  <1>1. /\ srv[k] = "rest"
        /\ UNCHANGED <<at, me, conn, mutex, open, upstream, parent, child, calls>>
    BY DEF ServeRest, caller
  <1>2. ServerStep(k) /\ (Shared' <=> Shared)
    BY DEF ServerStep, Shared
  <1>3. PICK m \in Pieces(cur[k].len) :
          /\ SendDown(k, Units(cur[k].id, "data", 0, m), IF m < cur[k].len THEN "rest" ELSE "result")
          /\ cur' = [cur EXCEPT ![k].len = @ - m]
    BY DEF ServeRest
  <1>4. PICK l \in Nat : l = cur[k].len
    BY DEF LinkInv, StreamTypeOK, CallRecord
  <1>5. m \in 0 .. l /\ m \in Nat /\ l - m \in Nat /\ cur[k].id \in Nat
    <2>1. m \in 0 .. l
      BY <1>3, <1>4, PiecesType
    <2>2. QED
      BY <1>4, <2>1 DEF LinkInv, StreamTypeOK, CallRecord
  <1>6. cur' = [cur EXCEPT ![k].len = l - m]
    BY <1>3, <1>4
  <1>7. /\ cur' \in [Conns -> CallRecord] /\ cur'[k].len = l - m /\ cur'[k].id = cur[k].id
        /\ \A c \in Conns : c # k => cur'[c] = cur[c]
    BY <1>5, <1>6, LeftToSend
  <1>8. CASE k \notin open
    <2>1. srv' = [srv EXCEPT ![k] = "none"] /\ UNCHANGED down
      BY <1>3, <1>8 DEF SendDown, Goes
    <2>2. QED
      BY <1>1, <1>2, <1>7, <1>8, <2>1, ServedInVain
  <1>9. CASE k \in open
    <2>1. "data" \in Parts /\ 0 \in Nat
      BY DEF Parts
    <2>2. PICK u \in Seq(Unit) : u = Units(cur[k].id, "data", 0, m) /\ Consists(u, cur[k].id, "data", 0, m)
      BY <1>5, <2>1, TheUnits
    <2>3. PICK p \in {"rest", "result"} : /\ p = (IF m < l THEN "rest" ELSE "result")
                                          /\ SendDown(k, u, p)
      BY <1>3, <1>4, <2>2
    <2>4. ASSUME NEW t \in Callers, conn[t] = k, at[t] \in Receives, me[t].op = "get" PROVE GetInv(t)'
      <3>1. PICK d \in Seq(Unit), n \in Lengths \cup {0}, r \in {0, EIO}, b \in Nat : OnItsWay(t, n, r, b, d)
        BY <2>4, GetFacts
      <3>2. n \in Nat /\ Len(d) \in Nat
        BY <2>4, <3>1, WayFacts DEF LinkInv
      <3>3. /\ l \in 1 .. n /\ b + Len(d) = n + 4 - l /\ cur[k].id = me[t].id /\ upstream[k] = <<>> /\ d = down[k]
            /\ Follows(d, me[t].id, n, r, b) /\ ~Shared
        BY <1>1, <1>4, <2>4, <3>1 DEF OnItsWay, Sent, Follows
      <3>4. PICK x \in Seq(Unit) : x = down'[k] /\ srv'[k] = p /\ Joined(x, d, u)
        BY <1>9, <2>3, <3>3, SentOn
      <3>5. Follows(u, me[t].id, n, r, b + Len(d))
        <4>1. PICK a \in Nat : a = b + Len(d) /\ a >= 4 /\ a + m <= n + 4
          BY <1>5, <3>2, <3>3
        <4>2. \A j \in 1 .. m : u[j] = Answer(me[t].id, n, r, a + j)
          <5>1. SUFFICES ASSUME NEW j \in 1 .. m PROVE u[j] = Answer(me[t].id, n, r, a + j)
            OBVIOUS
          <5>2. u[j] = [id |-> me[t].id, part |-> "data", val |-> 0]
            BY <2>2, <3>3 DEF Consists
          <5>3. a + j > 4 /\ a + j <= n + 4
            BY <1>5, <3>2, <4>1
          <5>4. QED
            BY <3>2, <5>2, <5>3 DEF Answer
        <4>3. QED
          BY <2>2, <4>1, <4>2 DEF Consists, Follows
      <3>6. Follows(x, me[t].id, n, r, b)
        BY <3>3, <3>4, <3>5, GoesOn
      <3>7. b + Len(x) = n + 4 - (l - m)
        <4>1. Len(x) = Len(d) + m
          BY <2>2, <3>4 DEF Joined, Consists
        <4>2. b + (Len(d) + m) = (n + 4 - l) + m
          BY <1>5, <3>2, <3>3, Sum
        <4>3. QED
          BY <1>5, <3>2, <4>1, <4>2
      <3>8. Sent(t, n, n + 4 - (l - m))'
        <4>1. p = "rest" => l - m \in 1 .. n
          BY <1>5, <2>3, <3>2, <3>3
        <4>2. p = "result" => n + 4 - (l - m) = n + 4
          BY <1>5, <2>3, <3>2
        <4>3. QED
          BY <1>1, <1>2, <1>7, <2>4, <3>3, <3>4, <4>1, <4>2 DEF Sent
      <3>9. OnItsWay(t, n, r, b, x)'
        BY <1>1, <2>4, <3>1, <3>4, <3>6, <3>7, <3>8 DEF OnItsWay, Follows
      <3>10. QED
        BY <3>9, GetHolds
    <2>5. ASSUME NEW t \in Callers, conn[t] = k, at[t] \in {"data.send", "result"}, me[t].op # "get"
           PROVE  SetInv(t)'
      <3>1. \A j \in 1 .. Len(u) : u[j].id = cur[k].id
        BY <2>2 DEF Consists
      <3>2. QED
        BY <1>1, <1>7, <1>9, <2>3, <2>5, <3>1, SentAfter
    <2>6. QED
      BY <1>1, <1>2, <1>7, <1>9, <2>3, <2>4, <2>5, ServedOn
  <1>10. QED
    BY <1>8, <1>9

LEMMA ServeResultKeeps ==
  ASSUME LinkInv, UNCHANGED setup, NEW k \in Conns, child # "hung", ServeResult(k)
  PROVE  LinkInv'
  <1>1. /\ srv[k] = "result"
        /\ UNCHANGED <<at, me, conn, mutex, open, upstream, cur, parent, child, calls>>
    BY DEF ServeResult, caller
  <1>2. ServerStep(k) /\ (Shared' <=> Shared) /\ cur' \in [Conns -> CallRecord]
    BY <1>1 DEF ServerStep, Shared, LinkInv, StreamTypeOK
  <1>3. CASE k \notin open
    <2>1. srv' = [srv EXCEPT ![k] = "none"] /\ UNCHANGED down
      BY <1>3 DEF ServeResult, SendDown, Goes
    <2>2. QED
      BY <1>1, <1>2, <1>3, <2>1, ServedInVain
  <1>4. CASE k \in open
    <2>1. PICK q \in {0, EIO} : q = IF cur[k].res = "ok" THEN 0 ELSE EIO
      OBVIOUS
    <2>2. cur[k].id \in Nat /\ "result" \in Parts /\ q \in Nat /\ 1 \in Nat
      BY DEF LinkInv, StreamTypeOK, CallRecord, Parts, EIO
    <2>3. PICK u \in Seq(Unit) : u = Units(cur[k].id, "result", q, 1) /\ Consists(u, cur[k].id, "result", q, 1)
      BY <2>2, TheUnits
    <2>4. /\ SendDown(k, u, "recv") /\ Len(u) = 1
          /\ u[1] = [id |-> cur[k].id, part |-> "result", val |-> q]
      BY <2>1, <2>3 DEF ServeResult, Consists
    <2>5. ASSUME NEW t \in Callers, conn[t] = k, at[t] \in Receives, me[t].op = "get" PROVE GetInv(t)'
      <3>1. PICK d \in Seq(Unit), n \in Lengths \cup {0}, r \in {0, EIO}, b \in Nat : OnItsWay(t, n, r, b, d)
        BY <2>5, GetFacts
      <3>2. n \in Nat /\ Len(d) \in Nat
        BY <2>5, <3>1, WayFacts DEF LinkInv
      <3>3. /\ b + Len(d) = n + 4 /\ cur[k].id = me[t].id /\ upstream[k] = <<>> /\ d = down[k]
            /\ Follows(d, me[t].id, n, r, b)
        BY <1>1, <2>5, <3>1 DEF OnItsWay, Sent, Follows
      <3>4. PICK x \in Seq(Unit) : x = down'[k] /\ srv'[k] = "recv" /\ Joined(x, d, u)
        BY <1>4, <2>4, <3>3, SentOn
      <3>5. Follows(d, me[t].id, n, q, b)
        BY <3>2, <3>3, ResultLast
      <3>6. Follows(u, me[t].id, n, q, b + Len(d))
        BY <2>4, <3>2, <3>3 DEF Answer, Follows
      <3>7. Follows(x, me[t].id, n, q, b)
        BY <3>4, <3>5, <3>6, GoesOn
      <3>8. b + Len(x) = n + 5
        <4>1. Len(x) = Len(d) + 1
          BY <2>4, <3>4 DEF Joined
        <4>2. PICK a \in Nat : a = Len(d) /\ b + a = n + 4
          BY <3>2, <3>3
        <4>3. QED
          BY <3>2, <4>1, <4>2
      <3>9. Sent(t, n, n + 5)'
        BY <1>1, <1>2, <2>5, <3>3, <3>4 DEF Sent
      <3>10. OnItsWay(t, n, q, b, x)'
        BY <1>1, <2>5, <3>1, <3>4, <3>7, <3>8, <3>9 DEF OnItsWay, Follows
      <3>11. QED
        BY <3>10, GetHolds
    <2>6. ASSUME NEW t \in Callers, conn[t] = k, at[t] \in {"data.send", "result"}, me[t].op # "get" PROVE SetInv(t)'
      <3>1. /\ SetLink(t, upstream[k], down[k], "result") /\ cur[k].id = me[t].id
            /\ Shared => InTurn(t)
        BY <1>1, <2>6, SetFacts
      <3>2. PICK d \in Seq(Unit) : d = down[k]
        BY DEF LinkInv, StreamTypeOK
      <3>3. PICK x \in Seq(Unit) : x = down'[k] /\ srv'[k] = "recv" /\ Joined(x, d, u)
        BY <1>4, <2>4, <3>2, SentOn
      <3>4. SetLink(t, upstream[k], x, "recv")
        <4>1. Len(d) \in Nat /\ Len(x) = Len(d) + 1 /\ x[Len(d) + 1] = u[1]
          BY <2>4, <3>3 DEF Joined
        <4>2. \A j \in 1 .. Len(x) : x[j].id = me[t].id
          <5>1. SUFFICES ASSUME NEW j \in 1 .. Len(x) PROVE x[j].id = me[t].id
            OBVIOUS
          <5>2. CASE j <= Len(d)
            <6>1. j \in 1 .. Len(d)
              BY <4>1, <5>2
            <6>2. x[j] = d[j] /\ d[j].id = me[t].id
              BY <3>1, <3>2, <3>3, <6>1 DEF Joined, SetLink
            <6>3. QED
              BY <6>2
          <5>3. CASE j > Len(d)
            <6>1. j = Len(d) + 1
              BY <4>1, <5>3
            <6>2. QED
              BY <2>4, <3>1, <4>1, <6>1
          <5>4. QED
            BY <4>1, <5>2, <5>3
        <4>3. x # <<>>
          <5>1. Len(x) # 0
            BY <4>1
          <5>2. QED
            BY <5>1, IsEmpty
        <4>4. x[1].part = "result"
          <5>1. CASE d = <<>>
            <6>1. Len(d) = 0
              BY <5>1
            <6>2. x[1] = u[1]
              BY <4>1, <6>1
            <6>3. QED
              BY <2>4, <6>2
          <5>2. CASE d # <<>>
            <6>1. 1 \in 1 .. Len(d)
              BY <4>1, <5>2, IsEmpty
            <6>2. x[1] = d[1] /\ d[1].part = "result"
              BY <3>1, <3>2, <3>3, <5>2, <6>1 DEF Joined, SetLink
            <6>3. QED
              BY <6>2
          <5>3. QED
            BY <5>1, <5>2
        <4>5. QED
          BY <3>1, <4>2, <4>3, <4>4 DEF SetLink
      <3>5. Shared => InTurn(t)'
        <4>1. SUFFICES ASSUME Shared PROVE InTurn(t)'
          OBVIOUS
        <4>2. at[t] = "result" /\ upstream[k] = <<>> /\ d = <<>>
          BY <1>1, <2>6, <3>1, <3>2, <4>1 DEF InTurn
        <4>3. Len(x) = 1
          <5>1. Len(d) = 0
            BY <4>2
          <5>2. QED
            BY <2>4, <3>3, <5>1 DEF Joined
        <4>4. QED
          BY <1>1, <2>6, <3>3, <4>2, <4>3 DEF InTurn
      <3>6. SetLink(t, upstream[k], down[k], srv[k])'
        BY <1>1, <3>3, <3>4 DEF SetLink
      <3>7. QED
        BY <1>1, <1>2, <2>6, <3>3, <3>5, <3>6 DEF SetInv
    <2>7. QED
      BY <1>1, <1>2, <1>4, <2>4, <2>5, <2>6, ServedOn
  <1>5. QED
    BY <1>3, <1>4

LEMMA CloseKeeps ==
  ASSUME LinkInv, UNCHANGED setup, Close
  PROVE  LinkInv'
  <1>1. /\ srv' = [k \in Conns |-> "none"] /\ upstream' = [k \in Conns |-> <<>>] /\ child' = "down"
        /\ UNCHANGED <<at, me, conn, mutex, open, down, cur, parent, calls>>
    BY DEF Close, caller
  <1>2. StreamTypeOK'
    <2>1. upstream' \in [Conns -> Seq(Unit)] /\ srv' \in [Conns -> {"none", "recv", "data", "duration", "value", "rest", "result"}]
      BY <1>1
    <2>2. QED
      BY <1>1, <2>1 DEF LinkInv, StreamTypeOK
  <1>3. (Shared' <=> Shared) /\ TheConn' = TheConn /\ TheConn \in Conns
    BY TheConnIn DEF Shared, TheConn, LinkInv
  <1>4. \A k \in Conns : srv'[k] = "none" /\ upstream'[k] = <<>> /\ down'[k] = down[k]
    BY <1>1
  <1>5. OwnInv'
    BY <1>1, <1>3, <1>4 DEF LinkInv, OwnInv, Drained
  <1>6. ASSUME NEW t \in Callers PROVE OfCaller(t)'
    <2>1. CallInv(t) /\ GetInv(t) /\ SetInv(t) /\ OverInv(t)
      BY DEF LinkInv, OfCaller
    <2>2. CASE at[t] \notin Busy
      BY <1>1, <2>1, <2>2 DEF OfCaller, CallInv, GetInv, SetInv, OverInv, Busy, Receives
    <2>3. CASE at[t] \in Busy
      <3>1. PICK k \in Conns : k = conn[t]
        BY <2>3 DEF LinkInv, OwnInv
      <3>2. srv'[k] = "none" /\ upstream'[k] = <<>> /\ down'[k] = down[k] /\ conn'[t] = k
        BY <1>1, <1>4, <3>1
      <3>3. CallInv(t)'
        BY <1>1, <2>1, <3>1, <3>2 DEF CallInv, Drained
      <3>4. OverInv(t)'
        BY <1>1, <1>3, <2>1, <3>1, <3>2 DEF OverInv, Drained
      <3>5. GetInv(t)'
        <4>1. CASE at[t] \in Receives /\ me[t].op = "get"
          <5>1. PICK d \in Seq(Unit), n \in Lengths \cup {0}, r \in {0, EIO}, b \in Nat : OnItsWay(t, n, r, b, d)
            BY <3>1, <4>1, GetFacts
          <5>2. Sent(t, n, b + Len(d))'
            BY <1>3, <3>1, <3>2, <5>1 DEF OnItsWay, Sent
          <5>3. OnItsWay(t, n, r, b, d)'
            BY <1>1, <5>1, <5>2 DEF OnItsWay
          <5>4. QED
            BY <5>3, GetHolds
        <4>2. CASE ~(at[t] \in Receives /\ me[t].op = "get")
          BY <1>1, <4>2 DEF GetInv
        <4>3. QED
          BY <4>1, <4>2
      <3>6. SetInv(t)'
        <4>1. CASE at[t] \in {"data.send", "result"} /\ me[t].op # "get"
          <5>1. /\ SetLink(t, upstream[k], down[k], srv[k])
                /\ Shared => InTurn(t)
            BY <3>1, <4>1, SetFacts
          <5>2. Shared => InTurn(t)'
            <6>1. SUFFICES ASSUME Shared PROVE InTurn(t)'
              OBVIOUS
            <6>2. Len(down[k]) <= 1
              <7>1. down[k] = <<>> \/ Len(down[k]) = 1 \/ Len(down[k]) <= 1
                BY <3>1, <5>1, <6>1 DEF InTurn
              <7>2. down[k] = <<>> => Len(down[k]) = 0
                OBVIOUS
              <7>3. PICK l \in Nat : l = Len(down[k])
                BY IsEmpty DEF LinkInv, StreamTypeOK
              <7>4. l = 0 \/ l = 1 \/ l <= 1
                BY <7>1, <7>2, <7>3
              <7>5. l <= 1
                BY <7>4
              <7>6. QED
                BY <7>3, <7>5, Zenon
            <6>3. QED
              BY <3>2, <6>2 DEF InTurn
          <5>3. SetLink(t, upstream[k], down[k], srv[k])'
            BY <1>1, <3>2, <5>1 DEF SetLink
          <5>4. QED
            BY <1>1, <1>3, <3>2, <5>2, <5>3 DEF SetInv
        <4>2. CASE ~(at[t] \in {"data.send", "result"} /\ me[t].op # "get")
          BY <1>1, <4>2 DEF SetInv
        <4>3. QED
          BY <4>1, <4>2
      <3>7. QED
        BY <3>3, <3>4, <3>5, <3>6 DEF OfCaller
    <2>4. QED
      BY <2>2, <2>3
  <1>7. (\A t \in Callers : OfCaller(t))'
    BY <1>6
  <1>8. (Constants /\ Whole)'
    BY DEF LinkInv, Constants, Whole, Shared, SetupFaults
  <1>9. QED
    BY <1>2, <1>5, <1>7, <1>8 DEF LinkInv

-----------------------------------------------------------------------------
LEMMA LinkInit ==
  ASSUME Constants, Whole, StreamInit
  PROVE  LinkInv
  <1>1. TheConn \in Conns
    BY TheConnIn
  <1>2. NoCall \in CallRecord /\ NoCall.clean
    <2>1. NoCall \in CallRecord
      BY DEF NoCall, CallRecord
    <2>2. NoCall.clean = TRUE
      BY DEF NoCall
    <2>3. QED
      BY <2>1, <2>2
  <1>3. /\ upstream \in [Conns -> Seq(Unit)] /\ down \in [Conns -> Seq(Unit)]
        /\ \A k \in Conns : upstream[k] = <<>> /\ down[k] = <<>>
    <2>1. <<>> \in Seq(Unit)
      OBVIOUS
    <2>2. upstream = [k \in Conns |-> <<>>] /\ down = [k \in Conns |-> <<>>]
      BY DEF StreamInit
    <2>3. QED
      BY <2>1, <2>2
  <1>4. /\ open = (IF Shared THEN {TheConn} ELSE {})
        /\ srv = [k \in Conns |-> IF k \in open THEN "recv" ELSE "none"]
    BY DEF StreamInit
  <1>5. open \subseteq Conns /\ (Shared => TheConn \in open /\ srv[TheConn] = "recv")
    BY <1>1, <1>4
  <1>6. /\ setup \in Setups /\ at = [t \in Callers |-> "idle"] /\ me = [t \in Callers |-> NoCall]
        /\ conn = [t \in Callers |-> NoConn] /\ mutex = NoThread /\ cur = [k \in Conns |-> NoCall]
        /\ parent = "up" /\ child = "up" /\ calls = 0
    BY DEF StreamInit
  <1>7. StreamTypeOK
    <2>1. srv \in [Conns -> {"none", "recv", "data", "duration", "value", "rest", "result"}]
      BY <1>4
    <2>2. me \in [Callers -> CallRecord] /\ cur \in [Conns -> CallRecord] /\ conn \in [Callers -> Conns \cup {NoConn}]
      BY <1>2, <1>6
    <2>3. QED
      BY <1>3, <1>5, <1>6, <2>1, <2>2 DEF StreamTypeOK
  <1>8. \A t \in Callers : at[t] = "idle" /\ me[t] = NoCall /\ conn[t] = NoConn
    BY <1>6
  <1>9. OwnInv
    BY <1>1, <1>3, <1>5, <1>8 DEF OwnInv, Drained, Busy, Receives, Early
  <1>10. \A t \in Callers : OfCaller(t)
    BY <1>2, <1>8 DEF OfCaller, CallInv, GetInv, SetInv, OverInv, Busy, Receives, Asked
  <1>11. QED
    BY <1>7, <1>9, <1>10 DEF LinkInv

LEMMA LinkNext ==
  ASSUME LinkInv, [StreamNext]_streamVars
  PROVE  LinkInv'
  <1>1. CASE UNCHANGED streamVars
    <2>1. UNCHANGED <<setup, at, me, conn, mutex, open, upstream, down, srv, cur, parent, child, calls>>
      BY <1>1 DEF streamVars, caller, server
    <2>2. StreamTypeOK'
      BY <2>1 DEF LinkInv, StreamTypeOK
    <2>3. (Shared' <=> Shared) /\ TheConn' = TheConn /\ (Drained(TheConn)' <=> Drained(TheConn))
      BY <2>1 DEF Shared, TheConn, Drained
    <2>4. OwnInv'
      BY <2>1, <2>3 DEF LinkInv, OwnInv
    <2>5. \A u \in Callers : Same(u)
      BY <2>1 DEF Same
    <2>6. (\A u \in Callers : OfCaller(u))'
      BY <2>1, <2>5, OtherCallers DEF LinkInv
    <2>7. (Constants /\ Whole)'
      BY <2>1 DEF LinkInv, Constants, Whole, Shared, SetupFaults
    <2>8. QED
      BY <2>2, <2>4, <2>6, <2>7 DEF LinkInv
  <1>2. ASSUME NEW t \in Callers, CallerStep(t) PROVE LinkInv'
    BY <1>2, LockKeeps, ConnectKeeps, BeginKeeps, SendDataKeeps, RecvDownKeeps, NoMemoryKeeps,
       DiscardKeeps, EndKeeps DEF CallerStep
  <1>3. ASSUME NEW t \in Callers, CancelStep(t) PROVE LinkInv'
    BY <1>3, CancelKeeps DEF CancelStep
  <1>4. ASSUME NEW k \in Conns, ServerStep(k) PROVE LinkInv'
    BY <1>4, ServeRecvKeeps, ServeDataKeeps, ServeDurationKeeps, ServeValueKeeps, ServeRestKeeps,
       ServeResultKeeps DEF ServerStep
  <1>5. ASSUME Other PROVE LinkInv'
    BY <1>5, CallKeeps, HangKeeps, CloseKeeps, StopKeeps DEF Other
  <1>6. QED
    BY <1>1, <1>2, <1>3, <1>4, <1>5 DEF StreamNext

\* On every connection that a caller holds there is one conversation, its own:
\* what is on its way is the answer to its request from where it has read on.
THEOREM LinkInvariance == Whole /\ StreamSpec => []LinkInv
  <1>1. Whole /\ StreamInit => LinkInv
    BY LinkInit, StreamAssumption
  <1>2. LinkInv /\ [StreamNext]_streamVars => LinkInv'
    BY LinkNext
  <1>3. QED
    BY <1>1, <1>2, PTL DEF StreamSpec

\* A call of the unix storage that returns 0 has received every part of the
\* answer to its own request and nothing else (get, set and del of unix.c
\* against worker() of io_server.c): on a connection of its own whatever goes
\* wrong, on a shared one as long as data is not cut and malloc succeeds.
THEOREM AnswersOwn == Whole /\ StreamSpec => []AnswersMatch
  <1>1. LinkInv => AnswersMatch
    BY DEF LinkInv, OfCaller, CallInv, AnswersMatch
  <1>2. QED
    BY <1>1, LinkInvariance, PTL

\* The caller that locks the shared connection finds nothing on it that was
\* meant for the one before, and a child that waits for a header, also after
\* errors, a child that has ended and a caller that was cancelled.
THEOREM HandedOverDrained == Whole /\ StreamSpec => []LeftClean
  <1>1. LinkInv => LeftClean
    BY DEF LinkInv, OfCaller, CallInv, Drained, LeftClean
  <1>2. QED
    BY <1>1, LinkInvariance, PTL
=============================================================================
