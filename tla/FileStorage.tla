---------------------------- MODULE FileStorage ----------------------------
(***************************************************************************)
(* lib/builtin/file.c: a file per key.  The callers hold the lock of their *)
(* key (IO), so each key has one call at a time.  A file is a sequence of  *)
(* units: a header, which tells type and length, and the data.  stdio      *)
(* hands the buffer over to the file in pieces, in fwrite or in fclose,    *)
(* and the process may die between any two steps; files survive it.        *)
(***************************************************************************)
EXTENDS Integers, Sequences

CONSTANTS
  Keys,
  Values, Length,   \* Length[v]: units of data of v
  NoValue,
  Long,             \* keys whose path does not fit into path[256]
  Cut,              \* the path they are cut to
  Faults            \* of {"deny", "nomem", "full", "flush"}

Unknown == "unknown"

ASSUME FileAssumption ==
  /\ NoValue \notin Values /\ Unknown \notin Values \cup {NoValue}
  /\ Length \in [Values -> Nat]
  /\ Long \subseteq Keys /\ Cut \notin Keys
  /\ Faults \subseteq {"deny", "nomem", "full", "flush"}

VARIABLES
  dir,     \* the root directory exists
  up,      \* the storage has been constructed
  disk,    \* disk[p]: the file at path p, for the paths that exist
  pc, op, ret,
  val,     \* val[k]: the value that a set writes
  buf,     \* buf[k]: how much of it the stream has taken
  pos,     \* pos[k]: how much of it has been handed over
  got,     \* got[k]: what a get has read
  acked    \* acked[k]: what the calls so far promise: a value, NoValue when
           \* there is none, Unknown after a set that did not complete

vars == <<dir, up, disk, pc, op, ret, val, buf, pos, got, acked>>

Hole == <<NoValue, NoValue, 0>>

\* snprintf into path[PATH_MAX] in file_get, into path[256] elsewhere.
GetPath(k) == k
SetPath(k) == IF k \in Long THEN Cut ELSE k

\* What a complete file holds.
Image(k, v) == [i \in 1 .. Length[v] + 1 |-> <<k, v, i - 1>>]

Init ==
  /\ dir \in BOOLEAN
  /\ up = FALSE
  /\ disk = [p \in {} |-> <<>>]
  /\ pc = [k \in Keys |-> "idle"]
  /\ op = [k \in Keys |-> "none"]
  /\ ret = [k \in Keys |-> "ok"]
  /\ val = [k \in Keys |-> NoValue]
  /\ buf = [k \in Keys |-> 0]
  /\ pos = [k \in Keys |-> 0]
  /\ got = [k \in Keys |-> <<>>]
  /\ acked = [k \in Keys |-> NoValue]

Exists(p) == p \in DOMAIN disk
Fault(f) == f \in Faults
Returns(k, r) == pc' = [pc EXCEPT ![k] = "idle"] /\ ret' = [ret EXCEPT ![k] = r]

\* constructor_file: an existing directory is taken as it is.
Construct ==
  /\ ~up
  /\ \/ up' = TRUE /\ dir' = TRUE
     \/ Fault("nomem") /\ dir' = TRUE /\ UNCHANGED up
     \/ Fault("deny") /\ ~dir /\ UNCHANGED <<up, dir>>
  /\ UNCHANGED <<disk, pc, op, ret, val, buf, pos, got, acked>>

-----------------------------------------------------------------------------
Mut_OpenW(p) == IF Exists(p) THEN disk[p] ELSE <<>>
OpenW(p) == <<>>                     \* fopen(path, "w") truncates

SetOpen(k, v) ==
  /\ up /\ pc[k] = "idle"
  /\ op' = [op EXCEPT ![k] = "set"]
  /\ \/ /\ disk' = [p \in DOMAIN disk \cup {SetPath(k)} |->
                     IF p = SetPath(k) THEN OpenW(p) ELSE disk[p]]
        /\ pc' = [pc EXCEPT ![k] = "fwrite"]
        /\ val' = [val EXCEPT ![k] = v]
        /\ buf' = [buf EXCEPT ![k] = 0]
        /\ pos' = [pos EXCEPT ![k] = 0]
        /\ acked' = [acked EXCEPT ![k] = Unknown]
        /\ UNCHANGED ret
     \/ /\ Fault("deny")
        /\ Returns(k, "error")
        /\ UNCHANGED <<disk, val, buf, pos, acked>>
  /\ UNCHANGED <<dir, up, got>>

\* The file f with the units i + 1 .. j of s in their places.
Written(f, s, i, j) ==
  [u \in 1 .. (IF Len(f) > j THEN Len(f) ELSE j) |->
     IF u \in i + 1 .. j THEN s[u] ELSE IF u <= Len(f) THEN f[u] ELSE Hole]

\* The units up to j reach the file, unless somebody has unlinked it.
HandOver(k, j) ==
  /\ pos' = [pos EXCEPT ![k] = j]
  /\ disk' = IF Exists(SetPath(k))
               THEN [disk EXCEPT ![SetPath(k)] = Written(@, Image(k, val[k]), pos[k], j)]
               ELSE disk

Mut_FwriteRet(short) == "ok"
FwriteRet(short) == IF short THEN "error" ELSE "ok"

\* As much as exceeds the buffer is written now; when the disk is full the
\* stream does not take all.
Fwrite(k) ==
  LET n == Len(Image(k, val[k])) IN
  /\ pc[k] = "fwrite"
  /\ \E m \in 0 .. n, j \in 0 .. n :
       /\ j <= m /\ (m < n => Fault("full"))
       /\ HandOver(k, j)
       /\ buf' = [buf EXCEPT ![k] = m]
       /\ ret' = [ret EXCEPT ![k] = FwriteRet(m < n)]
  /\ pc' = [pc EXCEPT ![k] = "fclose"]
  /\ UNCHANGED <<dir, up, op, val, got, acked>>

\* The rest is written; that this may fail is not looked at.
Fclose(k) ==
  /\ pc[k] = "fclose"
  /\ \E j \in pos[k] .. buf[k] :
       /\ j < buf[k] => Fault("flush") \/ buf[k] < Len(Image(k, val[k]))
       /\ HandOver(k, j)
  /\ Returns(k, ret[k])
  /\ acked' = IF ret[k] = "ok" THEN [acked EXCEPT ![k] = val[k]] ELSE acked
  /\ UNCHANGED <<dir, up, op, val, buf, got>>

-----------------------------------------------------------------------------
GetOpen(k) ==
  /\ up /\ pc[k] = "idle"
  /\ op' = [op EXCEPT ![k] = "get"]
  /\ got' = [got EXCEPT ![k] = <<>>]
  /\ \/ ~Exists(GetPath(k)) /\ Returns(k, "enoent")
     \/ Fault("deny") /\ Returns(k, "error")
     \/ /\ Exists(GetPath(k))
        /\ pc' = [pc EXCEPT ![k] = "head"]
        /\ UNCHANGED ret
  /\ UNCHANGED <<dir, up, disk, val, buf, pos, acked>>

\* The units i + 1 .. j of the file, as many of them as it has.
Slice(k, i, j) ==
  LET f == disk[GetPath(k)] IN SubSeq(f, i + 1, IF j < Len(f) THEN j ELSE Len(f))

ReadHead(k) ==
  /\ pc[k] = "head"
  /\ got' = [got EXCEPT ![k] = Slice(k, 0, 1)]
  /\ \/ Slice(k, 0, 1) = <<>> /\ Returns(k, "eio")
     \/ Slice(k, 0, 1) # <<>> /\ Fault("nomem") /\ Returns(k, "error")
     \/ Slice(k, 0, 1) # <<>> /\ pc' = [pc EXCEPT ![k] = "data"] /\ UNCHANGED ret
  /\ UNCHANGED <<dir, up, disk, op, val, buf, pos, acked>>

\* fread of the data: one item of the announced length.  Without a length it
\* returns 0, which is taken for an error.
Complete(n, m) == n = m /\ m > 0

ReadData(k) ==
  LET m == Length[got[k][1][2]]
      data == Slice(k, 1, m + 1) IN
  /\ pc[k] = "data"
  /\ got' = [got EXCEPT ![k] = @ \o data]
  /\ Returns(k, IF Complete(Len(data), m) THEN "ok" ELSE "eio")
  /\ UNCHANGED <<dir, up, disk, op, val, buf, pos, acked>>

Del(k) ==
  /\ up /\ pc[k] = "idle"
  /\ op' = [op EXCEPT ![k] = "del"]
  /\ \/ /\ Exists(SetPath(k))
        /\ disk' = [p \in DOMAIN disk \ {SetPath(k)} |-> disk[p]]
        /\ acked' = [acked EXCEPT ![k] = NoValue]
        /\ Returns(k, "ok")
     \/ /\ ~Exists(SetPath(k)) \/ Fault("deny")
        /\ Returns(k, IF ~Exists(SetPath(k)) THEN "enoent" ELSE "error")
        /\ UNCHANGED <<disk, acked>>
  /\ UNCHANGED <<dir, up, val, buf, pos, got>>

\* The daemon dies: what was in the buffers is lost.
Crash ==
  /\ up
  /\ up' = FALSE
  /\ pc' = [k \in Keys |-> "idle"]
  /\ op' = [k \in Keys |-> "none"]
  /\ UNCHANGED <<dir, disk, ret, val, buf, pos, got, acked>>

Next ==
  \/ Construct
  \/ Crash
  \/ \E k \in Keys :
       \/ \E v \in Values : SetOpen(k, v)
       \/ Fwrite(k) \/ Fclose(k) \/ GetOpen(k) \/ ReadHead(k) \/ ReadData(k) \/ Del(k)

Spec == Init /\ [][Next]_vars

-----------------------------------------------------------------------------
TypeOK ==
  /\ dir \in BOOLEAN /\ up \in BOOLEAN
  /\ DOMAIN disk \subseteq Keys \cup {Cut}
  /\ pc \in [Keys -> {"idle", "fwrite", "fclose", "head", "data"}]
  /\ op \in [Keys -> {"none", "set", "get", "del"}]
  /\ ret \in [Keys -> {"ok", "error", "enoent", "eio"}]
  /\ val \in [Keys -> Values \cup {NoValue}]
  /\ buf \in [Keys -> Nat] /\ pos \in [Keys -> Nat]
  /\ got \in [Keys -> Seq(Keys \X Values \X Nat)]
  /\ acked \in [Keys -> Values \cup {NoValue, Unknown}]

GetDone(k) == op[k] = "get" /\ pc[k] = "idle"

\* Whatever was interrupted before, by a crash or by a full disk, a get that
\* succeeds returns all of one value that a set of this key was given.
NeverTorn ==
  \A k \in Keys : GetDone(k) /\ ret[k] = "ok" => \E v \in Values : got[k] = Image(k, v)

\* `Returns 0 on success': when the calls so far leave no doubt about the
\* value, a get finds it, or finds none, also after a restart.
ReadsBack ==
  \A k \in Keys : GetDone(k) /\ acked[k] # Unknown =>
    CASE ret[k] = "ok" -> acked[k] # NoValue /\ got[k] = Image(k, acked[k])
      [] ret[k] = "enoent" -> acked[k] = NoValue
      [] OTHER -> ret[k] = "error"
=============================================================================
