------------------------------ MODULE Helpers ------------------------------
(***************************************************************************)
(* The pure functions of lib/misc.c and lib/value.c beside what each is    *)
(* meant to compute.  A character is a number: 0 .. Base - 1 are the       *)
(* digits, two of them a byte; the others stand for themselves.  W32 and   *)
(* W64 are the bits of the two integer sizes.                              *)
(***************************************************************************)
EXTENDS Integers, Sequences, FiniteSets
LOCAL INSTANCE FiniteSetsExt

CONSTANTS Base, W32, W64

X == Base             \* the x of 0x
Dot == Base + 1
Star == Base + 2
Comma == Base + 3
Minus == Base + 4
End == Base + 5       \* the terminator

Lesser(m, n) == IF m < n THEN m ELSE n
Greater(m, n) == IF m < n THEN n ELSE m
Least(S) == CHOOSE x \in S : \A y \in S : x <= y

-----------------------------------------------------------------------------
(* prefix_match: both strings are followed to the first difference, or to  *)
(* their common end.                                                       *)

Char(s, i) == IF i <= Len(s) THEN s[i] ELSE End

Mut_Decides(c1, c2) == c1 = Star \/ c1 = End
Decides(c1, c2) == c1 = Star \/ (c1 = End /\ c2 = End)

prefix_match(p, s) ==
  LET d == Least({i \in 1 .. Len(p) + 1 : Char(p, i) # Char(s, i) \/ Char(p, i) = End})
  IN Decides(Char(p, d), Char(s, d))

\* A pattern without a star is the key itself; one with a star stands for all
\* keys that begin with what precedes it.
Matches(p, s) ==
  LET stars == {i \in DOMAIN p : p[i] = Star} IN
  IF stars = {} THEN p = s
  ELSE LET n == Least(stars) - 1 IN n <= Len(s) /\ SubSeq(p, 1, n) = SubSeq(s, 1, n)

-----------------------------------------------------------------------------
(* arrayparse_cstring and arrayfmt_cstring: lists separated by commas.     *)

\* A word ends before every comma and at the end.  For "" the code counts the
\* entries of an array without any (misc.c:60, 103): what it finds is undefined.
Undefined == << <<-1>> >>
arrayparse(s) ==
  LET ends == {i \in DOMAIN s : s[i] = Comma} \cup {Len(s) + 1}
      nth(j) == CHOOSE e \in ends : Cardinality({x \in ends : x < e}) = j - 1
      start(j) == IF j = 1 THEN 1 ELSE nth(j - 1) + 1
  IN IF s = <<>> THEN Undefined
     ELSE [j \in 1 .. Cardinality(ends) |-> SubSeq(s, start(j), nth(j) - 1)]

Fits(n, length) == n < length

\* Every word with a comma after it; the last one becomes the terminator.  A
\* list that does not fit ends in three dots.
arrayfmt(a, length) ==
  LET f[j \in 0 .. Len(a)] == IF j = 0 THEN <<>> ELSE f[j - 1] \o a[j] \o <<Comma>>
      s == f[Len(a)] IN
  IF Fits(Len(s), length) THEN SubSeq(s, 1, Len(s) - 1)
  ELSE SubSeq(s, 1, length - 4) \o <<Dot, Dot, Dot>>

-----------------------------------------------------------------------------
(* hexmem and hex2mem *)

Dots(n) == [i \in 1 .. n |-> Dot]

\* The bytes i .. j of m as digits.
Hex(m, i, j) ==
  [x \in 1 .. 2 * Greater(0, j - i + 1) |->
     LET byte == m[i + (x - 1) \div 2] IN IF x % 2 = 1 THEN byte \div Base ELSE byte % Base]

Mut_Delta(m, c) == m - c
Delta(m, c) == m - c + 1

hexmem(b, mem) ==
  LET m == Len(mem)
      c == (b - 1) \div 2
      d == Delta(m, c) IN
  IF c >= m THEN Hex(mem, 1, m)
  ELSE IF c < 3 THEN Dots(b - 1)
  ELSE Hex(mem, 1, (m - d) \div 2) \o Dots(2) \o Hex(mem, (m + d) \div 2 + 1, m)

Null == <<-1>>

IsDigit(ch) == ch \in 0 .. Base - 1
Skip0x(s) == IF Len(s) >= 2 /\ s[1] = 0 /\ s[2] = X THEN SubSeq(s, 3, Len(s)) ELSE s
Digits(s) == SubSeq(s, 1, Least({i \in 0 .. Len(s) : i = Len(s) \/ ~IsDigit(s[i + 1])}))

\* The digits that str begins with are read in pairs, at most len of them.
hex2mem(len, str) ==
  LET s == Digits(Skip0x(str)) IN
  IF Len(s) > 2 * len \/ Len(s) % 2 = 1 THEN Null
  ELSE [i \in 1 .. Len(s) \div 2 |-> s[2 * i - 1] * Base + s[2 * i]]

-----------------------------------------------------------------------------
(* value_parse.  A text is a tag, the name before its colon or "none", and *)
(* the characters behind it; a name that is no type is part of the text.   *)
(* The base of a number is always Base.                                    *)

Signed == {"i32", "i64"}
Unsigned == {"u32", "u64"}
Invalid == [type |-> "null", data |-> Null]

Negative(s) == s # <<>> /\ s[1] = Minus
Magnitude(s) ==
  LET u == IF Negative(s) THEN Tail(s) ELSE s
      hex == Digits(Skip0x(u)) IN
  IF hex # <<>> THEN hex ELSE Digits(u)

Number(s) ==
  LET t == Magnitude(s)
      f[i \in 0 .. Len(t)] == IF i = 0 THEN 0 ELSE f[i - 1] * Base + t[i]
  IN IF Negative(s) THEN -f[Len(t)] ELSE f[Len(t)]

\* strtol and strtoul: what is out of range is cut and leaves ERANGE; strtoul
\* negates in its own width.
LongMax == 2^(W64 - 1) - 1
ULongMax == 2^W64 - 1
strtol(n) == Lesser(LongMax, Greater(-LongMax - 1, n))
strtoul(n) == IF n \in -ULongMax .. ULongMax THEN n % 2^W64 ELSE ULongMax
Erange(type, n) == IF type \in Signed THEN strtol(n) # n ELSE n \notin -ULongMax .. ULongMax

Mut_InWidth(type, n) == type \in {"i64", "u64"} \/ n \in -2^(W32 - 1) .. 2^(W32 - 1)
InWidth(type, n) ==
  CASE type = "i32" -> n \in -2^(W32 - 1) .. 2^(W32 - 1) - 1
    [] type = "u32" -> n <= 2^W32 - 1
    [] OTHER -> TRUE

ParseInteger(type, s) ==
  LET n == IF type \in Signed THEN strtol(Number(s)) ELSE strtoul(Number(s)) IN
  IF Magnitude(s) = <<>> \/ Erange(type, Number(s)) \/ ~InWidth(type, n)
    THEN Invalid ELSE [type |-> type, data |-> <<n>>]

ParseData(s) ==
  LET mem == hex2mem(Len(s) \div 2, s) IN
  IF mem = Null THEN Invalid ELSE [type |-> "data", data |-> mem]

\* strtof and strtod, of numbers the type has.
ParseFloat(type, s) ==
  IF Magnitude(s) = <<>> THEN Invalid ELSE [type |-> type, data |-> <<Number(s)>>]

value_parse(t) ==
  CASE t.tag \in Signed \cup Unsigned -> ParseInteger(t.tag, t.body)
    [] t.tag \in {"float", "double"} -> ParseFloat(t.tag, t.body)
    [] t.tag = "data" -> ParseData(t.body)
    [] t.tag \in {"none", "cstring"} -> [type |-> "cstring", data |-> t.body]

\* What a text means, without reading it from left to right: the longest
\* numeral it begins with, if the type has that number; the bytes it begins
\* with; or itself.
IsNumeral(p) ==
  \E sign \in {0, 1}, prefix \in {0, 2} :
    /\ sign + prefix < Len(p)
    /\ sign = 1 => p[1] = Minus
    /\ prefix = 2 => p[sign + 1] = 0 /\ p[sign + 2] = X
    /\ \A n \in sign + prefix + 1 .. Len(p) : p[n] < Base

Denotes(p) ==
  LET sum == MapThenSumSet(LAMBDA n : p[n] * Base^(Len(p) - n), {n \in DOMAIN p : p[n] < Base})
  IN IF p[1] = Minus THEN -sum ELSE sum

Meaning(t) ==
  LET s == t.body
      w == IF t.tag \in {"i32", "u32"} THEN W32 ELSE W64
      range == CASE t.tag \in Signed -> -2^(w - 1) .. 2^(w - 1) - 1
                 [] t.tag \in Unsigned -> 0 .. 2^w - 1
                 [] OTHER -> Int
      numerals == {n \in DOMAIN s : IsNumeral(SubSeq(s, 1, n))}
      number == Denotes(SubSeq(s, 1, CHOOSE n \in numerals : \A m \in numerals : m <= n))
      from == IF Len(s) > 1 /\ s[1] = 0 /\ s[2] = X THEN 3 ELSE 1
      run == {n \in from .. Len(s) : \A m \in from .. n : s[m] < Base} IN
  CASE t.tag \in Signed \cup Unsigned \cup {"float", "double"} ->
         IF numerals # {} /\ number \in range THEN [type |-> t.tag, data |-> <<number>>] ELSE Invalid
    [] t.tag = "data" ->
         IF Cardinality(run) % 2 = 1 THEN Invalid
         ELSE [type |-> "data",
               data |-> [n \in 1 .. Cardinality(run) \div 2 |->
                           s[from + 2 * n - 2] * Base + s[from + 2 * n - 1]]]
    [] OTHER -> [type |-> "cstring", data |-> s]

-----------------------------------------------------------------------------
(* What is claimed of them, for strings up to a length n *)

Strings(S, n) == UNION {[1 .. m -> S] : m \in 0 .. n}

\* A key reaches a storage exactly when it matches one of its patterns (keys
\* have no star in them).
PrefixMatchesUpTo(n) ==
  \A p \in Strings({0, 1, Star}, n), s \in Strings({0, 1}, n) : prefix_match(p, s) <=> Matches(p, s)

\* Memory as text never exceeds its buffer; text that holds all of it reads
\* back as the same memory; otherwise both ends are kept as far as they fit.
HexFitsUpTo(n, b) ==
  \A m \in Strings({0, Base, Base + 1}, n), k \in 1 .. b :
    LET out == hexmem(k, m)
        cap == (k - 1) \div 2
        l == (cap - 1) \div 2
        r == cap - 1 - l IN
    /\ Len(out) <= k - 1
    /\ Len(m) <= cap => hex2mem(Len(m), out) = m
    /\ Len(m) > cap /\ cap >= 3 =>
         out = Hex(m, 1, l) \o Dots(2) \o Hex(m, Len(m) - r + 1, Len(m))

\* A list of words, the arguments of the command line, is printed within its
\* buffer, and read back from there if it fits.
ListsReadBackUpTo(n, b) ==
  \A a \in Strings(Strings({0, 1}, 2), n) \ {<<>>, <<(<<>>)>>}, k \in 4 .. b :
    LET out == arrayfmt(a, k) IN
    /\ Len(out) <= k - 1
    /\ arrayparse(out) = a \/ SubSeq(out, k - 3, k - 1) = Dots(3)
=============================================================================
