-------------------------- MODULE H264Coding_proofs --------------------------
(***************************************************************************)
(* What reading and writing a unit comes to, field by field: the reader     *)
(* finds the fields that were encoded, whatever escapes are in between, and *)
(* the writer makes the encoding of the fields it is given.  Lemmas for the *)
(* proofs about H264Frame.                                                  *)
(***************************************************************************)
EXTENDS H264Frame, Arithmetic

-----------------------------------------------------------------------------
(* Sequences put together.                                                 *)

LEMMA ConcatAssoc ==
    ASSUME NEW S, NEW a \in Seq(S), NEW b \in Seq(S), NEW c \in Seq(S)
    PROVE  (a \o b) \o c = a \o (b \o c)
OBVIOUS

LEMMA ConcatType ==
    ASSUME NEW S, NEW a \in Seq(S), NEW b \in Seq(S)
    PROVE  a \o b \in Seq(S) /\ Len(a \o b) = Len(a) + Len(b)
OBVIOUS

LEMMA ConcatEmpty ==
    ASSUME NEW S, NEW a \in Seq(S)
    PROVE  a \o <<>> = a /\ <<>> \o a = a
OBVIOUS

\* What of a sequence put together of two the elements are.
IsConcat(S, c, a, b) ==
    /\ c \in Seq(S) /\ Len(a) \in Nat /\ Len(b) \in Nat /\ Len(c) = Len(a) + Len(b)
    /\ \A i \in 1 .. Len(a) : c[i] = a[i]
    /\ \A i \in 1 .. Len(b) : c[Len(a) + i] = b[i]

LEMMA ConcatAt ==
    ASSUME NEW S, NEW a, NEW b, a \in Seq(S), b \in Seq(S)
    PROVE  IsConcat(S, a \o b, a, b)
BY DEF IsConcat

IsPart(S, c, a, i, j) ==
    /\ c \in Seq(S) /\ Len(c) = j - i + 1
    /\ \A k \in 1 .. Len(c) : c[k] = a[i + k - 1]

LEMMA SubSeqAt ==
    ASSUME NEW S, NEW a \in Seq(S), NEW i \in Nat, i >= 1, NEW j \in Nat, j <= Len(a), i <= j + 1,
           NEW c, c = SubSeq(a, i, j)
    PROVE  IsPart(S, c, a, i, j)
<1>1. \A k \in i .. j : a[k] \in S
  OBVIOUS
<1>2. Len(c) = j - i + 1 /\ \A k \in 1 .. Len(c) : c[k] = a[i + k - 1]
  OBVIOUS
<1>3. c \in Seq(S)
  <2>1. PICK n \in Nat : n = j - i + 1
    OBVIOUS
  <2>2. \A k \in 1 .. n : i + k - 1 \in i .. j
    BY <2>1
  <2>3. \A k \in 1 .. n : c[k] \in S
    BY ONLY <1>1, <1>2, <2>1, <2>2, Zenon
  <2>4. c = [k \in 1 .. n |-> a[i + k - 1]]
    BY <2>1
  <2>5. c \in [1 .. n -> S]
    BY ONLY <2>3, <2>4, Zenon
  <2>6. \A m \in Nat : \A q \in [1 .. m -> S] : q \in Seq(S)
    OBVIOUS
  <2> QED BY ONLY <2>5, <2>6, n \in Nat, Zenon
<1> QED BY <1>2, <1>3 DEF IsPart

\* FlattenSeq as a function of the sequences put together so far.
LEMMA FlattenHeads ==
    ASSUME NEW S, NEW ss \in Seq(Seq(S)), ss # <<>>
    PROVE  \E h : /\ h \in [1 .. Len(ss) -> Seq(S)]
                  /\ h[1] = ss[1]
                  /\ \A i \in 2 .. Len(ss) : h[i] = h[i - 1] \o ss[i]
                  /\ FlattenSeq(ss) = h[Len(ss)]
<1> DEFINE f == [i \in Nat |-> [x \in Seq(S) |-> IF i + 1 \in 1 .. Len(ss) THEN x \o ss[i + 1] ELSE x]]
           r == CHOOSE h : h = [i \in 1 .. Len(ss) |-> IF i = 1 THEN ss[i] ELSE h[i - 1] \o ss[i]]
<1>1. Len(ss) \in Nat \ {0} /\ ss[1] \in Seq(S) /\ \A i \in 1 .. Len(ss) : ss[i] \in Seq(S)
  OBVIOUS
<1>2. f \in [Nat -> [Seq(S) -> Seq(S)]]
  <2>1. ASSUME NEW x \in Seq(S), NEW i \in 1 .. Len(ss) PROVE x \o ss[i] \in Seq(S)
    BY <1>1, ConcatType
  <2> QED BY <2>1
<1>3. \A i \in 2 .. Len(ss), x \in Seq(S) : f[i - 1][x] = x \o ss[i]
  OBVIOUS
<1>4. PICK h : RecursOn(h, 1 .. Len(ss), 1, Seq(S), ss[1], f)
  <2> HIDE DEF f
  <2> QED BY <1>1, <1>2, RecursiveFromOne
<1>5. /\ h \in [1 .. Len(ss) -> Seq(S)]
      /\ h = [i \in 1 .. Len(ss) |-> IF i = 1 THEN ss[1] ELSE f[i - 1][h[i - 1]]]
  BY <1>4 DEF RecursOn
<1> HIDE DEF f
<1>6. ASSUME NEW i \in 1 .. Len(ss) PROVE h[i] = IF i = 1 THEN ss[i] ELSE h[i - 1] \o ss[i]
  <2>1. CASE i = 1
    BY <1>1, <1>5, <2>1
  <2>2. CASE i # 1
    <3>1. i \in 2 .. Len(ss) /\ i - 1 \in 1 .. Len(ss)
      BY <1>1, <2>2
    <3>2. h[i - 1] \in Seq(S)
      BY <1>5, <3>1
    <3>3. h[i] = f[i - 1][h[i - 1]]
      BY <1>5, <2>2
    <3> QED BY <1>3, <2>2, <3>1, <3>2, <3>3
  <2> QED BY <2>1, <2>2
<1>7. h = [i \in 1 .. Len(ss) |-> IF i = 1 THEN ss[i] ELSE h[i - 1] \o ss[i]]
  BY <1>5, <1>6
<1>8. r = [i \in 1 .. Len(ss) |-> IF i = 1 THEN ss[i] ELSE r[i - 1] \o ss[i]]
  BY <1>7
<1>9. FlattenSeq(ss) = r[Len(ss)]
  BY <1>1 DEF FlattenSeq
<1> HIDE DEF r
<1>10. \A i \in 1 .. Len(ss) : r[i] = h[i]
  <2> DEFINE T == {i \in 1 .. Len(ss) : r[i] = h[i]}
  <2>1. 1 \in T
    BY <1>1, <1>7, <1>8
  <2>2. ASSUME NEW i \in 2 .. Len(ss), i - 1 \in T PROVE i \in T
    <3>1. r[i - 1] = h[i - 1]
      BY <2>2
    <3>2. i \in 1 .. Len(ss) /\ i # 1
      OBVIOUS
    <3>3. r[i] = r[i - 1] \o ss[i]
      BY <1>8, <3>2
    <3>4. h[i] = h[i - 1] \o ss[i]
      BY <1>6, <3>2
    <3> QED BY <3>1, <3>2, <3>3, <3>4
  <2> HIDE DEF T
  <2>3. 1 .. Len(ss) \subseteq T
    <3>1. \A i \in 1 .. Len(ss) : 1 < i /\ i - 1 \in T => i \in T
      BY <2>2
    <3>2. 1 \in Int /\ Len(ss) \in Int /\ (1 <= Len(ss) => 1 \in T)
      BY <1>1, <2>1
    <3> QED BY ONLY <3>1, <3>2, IntervalInduction, Zenon
  <2> QED BY <2>3 DEF T
<1>11. h[1] = ss[1]
  BY <1>1, <1>6
<1>12. ASSUME NEW i \in 2 .. Len(ss) PROVE h[i] = h[i - 1] \o ss[i]
  <2>1. i \in 1 .. Len(ss) /\ i # 1
    OBVIOUS
  <2> QED BY <1>6, <2>1
<1>13. FlattenSeq(ss) = h[Len(ss)]
  BY <1>1, <1>9, <1>10
<1> QED BY <1>5, <1>11, <1>12, <1>13

\* FlattenSeq as a function of the sequences still to be put behind.
FlatTails(t, S, ss) ==
    /\ t \in [0 .. Len(ss) -> Seq(S)]
    /\ t[0] = FlattenSeq(ss)
    /\ t[Len(ss)] = <<>>
    /\ \A i \in 1 .. Len(ss) : t[i - 1] = ss[i] \o t[i]

LEMMA FlattenTails ==
    ASSUME NEW S, NEW ss \in Seq(Seq(S))
    PROVE  \E t : FlatTails(t, S, ss)
<1> DEFINE N == Len(ss)
           f == [n \in Nat |-> [x \in Seq(S) |-> IF N - n \in 1 .. N THEN ss[N - n] \o x ELSE x]]
<1>1. N \in Nat /\ <<>> \in Seq(S) /\ \A i \in 1 .. N : ss[i] \in Seq(S)
  OBVIOUS
<1>2. f \in [Nat -> [Seq(S) -> Seq(S)]]
  <2>1. ASSUME NEW x \in Seq(S), NEW i \in 1 .. N PROVE ss[i] \o x \in Seq(S)
    BY <1>1, ConcatType
  <2> QED BY <2>1
<1>3. \A n \in Nat, x \in Seq(S) : N - n \in 1 .. N => f[n][x] = ss[N - n] \o x
  OBVIOUS
<1> HIDE DEF f
<1>4. PICK g : Recurs(g, Seq(S), <<>>, f)
  BY <1>1, <1>2, Recursion
<1>5. g \in [Nat -> Seq(S)] /\ g[0] = <<>> /\ \A n \in Nat : g[n + 1] = f[n][g[n]]
  BY <1>4 DEF Recurs
<1> DEFINE t == [i \in 0 .. N |-> g[N - i]]
<1> HIDE DEF N
<1>6. t \in [0 .. N -> Seq(S)] /\ t[N] = <<>>
  BY <1>1, <1>5
<1>7. ASSUME NEW i \in 1 .. N PROVE t[i - 1] = ss[i] \o t[i]
  <2>1. N - i \in Nat /\ (N - i) + 1 = N - (i - 1) /\ N - (N - i) = i
    BY <1>1
  <2>2. g[N - (i - 1)] = f[N - i][g[N - i]]
    BY <1>5, <2>1
  <2>3. f[N - i][g[N - i]] = ss[i] \o g[N - i]
    <3>1. g[N - i] \in Seq(S)
      BY <1>5, <2>1
    <3> QED BY <1>3, <2>1, <3>1
  <2>4. t[i - 1] = g[N - (i - 1)] /\ t[i] = g[N - i]
    BY <1>1
  <2> QED BY <2>2, <2>3, <2>4
<1> HIDE DEF t
<1>8. t[0] = FlattenSeq(ss)
  <2>1. CASE N = 0
    BY <1>6, <2>1 DEF FlattenSeq, N
  <2>2. CASE N # 0
    <3>1. ss # <<>>
      BY <2>2 DEF N
    <3>2. PICK h : /\ h \in [1 .. N -> Seq(S)]
                   /\ h[1] = ss[1]
                   /\ \A i \in 2 .. N : h[i] = h[i - 1] \o ss[i]
                   /\ FlattenSeq(ss) = h[N]
      BY <3>1, FlattenHeads, Zenon DEF N
    <3> DEFINE T == {i \in 1 .. N : h[i] \o t[i] = t[0]}
    <3>3. 1 \in Int /\ N \in Int /\ (1 <= N => 1 \in T)
      <4>1. 1 \in 1 .. N
        BY <1>1, <2>2
      <4>2. t[0] = ss[1] \o t[1]
        <5>1. 1 - 1 = 0
          OBVIOUS
        <5>2. t[1 - 1] = ss[1] \o t[1]
          BY ONLY <1>7, <4>1, Zenon
        <5> QED BY ONLY <5>1, <5>2, Zenon
      <4>3. h[1] = ss[1]
        BY <3>2
      <4>4. h[1] \o t[1] = t[0]
        BY ONLY <4>2, <4>3, Zenon
      <4>5. 1 \in T
        BY ONLY <4>1, <4>4, Zenon DEF T
      <4> HIDE DEF T
      <4> QED BY ONLY <1>1, <4>5, SMT
    <3>4. ASSUME NEW i \in 1 .. N, 1 < i, i - 1 \in T PROVE i \in T
      <4>1. i \in 2 .. N /\ i - 1 \in 1 .. N /\ i \in 0 .. N
        BY <1>1, <3>4
      <4>2. /\ h[i - 1] \in Seq(S) /\ ss[i] \in Seq(S) /\ t[i] \in Seq(S)
        BY <1>1, <1>6, <3>2, <4>1
      <4>3. h[i] = h[i - 1] \o ss[i] /\ t[i - 1] = ss[i] \o t[i]
        BY <1>7, <3>2, <4>1
      <4>4. h[i - 1] \o t[i - 1] = t[0]
        BY <3>4
      <4>5. PICK a \in Seq(S), b \in Seq(S), c \in Seq(S) : a = h[i - 1] /\ b = ss[i] /\ c = t[i]
        BY <4>2, Zenon
      <4>6. (a \o b) \o c = a \o (b \o c)
        BY ConcatAssoc, SMT
      <4>7. h[i] \o t[i] = t[0]
        BY ONLY <4>3, <4>4, <4>5, <4>6, Zenon
      <4> QED BY ONLY <4>7, i \in 1 .. N, Zenon DEF T
    <3>5. \A i \in 1 .. N : 1 < i /\ i - 1 \in T => i \in T
      BY <3>4, Zenon
    <3> HIDE DEF T
    <3>6. 1 .. N \subseteq T
      BY ONLY <3>3, <3>5, IntervalInduction, Zenon
    <3>7. N \in 1 .. N /\ N \in 0 .. N
      BY <1>1, <2>2
    <3>8. h[N] \o t[N] = t[0] /\ h[N] \in Seq(S)
      BY <3>2, <3>6, <3>7 DEF T
    <3> QED BY <1>6, <3>2, <3>8, ConcatEmpty
  <2> QED BY <2>1, <2>2
<1> QED BY <1>6, <1>7, <1>8 DEF N, FlatTails

-----------------------------------------------------------------------------
(* The bit reader.                                                         *)

Readers(buf) == [buffer : {buf}, byte_offset : 0 .. Len(buf), bit_offset : 0 .. 7, ok : BOOLEAN]

\* A read of count bits under way: val is what left bits are missing from.
Chunks(buf, count) ==
    {s \in [r : Readers(buf), left : 0 .. count, val : Nat] : s.val < 2^(count - s.left)}

LEMMA ShrType ==
    ASSUME NEW y \in Nat, NEW n \in Nat
    PROVE  Shr(y, n) \in Nat
<1>1. CASE n <= 30
  <2>1. n \in 0 .. 34
    BY <1>1
  <2>2. PICK e \in Nat \ {0} : e = 2^n
    BY ONLY <2>1, PowerPositive, Zenon
  <2>3. y \div e \in Nat
    BY <2>2
  <2> QED BY <1>1, <2>2, <2>3 DEF Shr
<1>2. CASE n > 30
  BY <1>2 DEF Shr
<1> QED BY <1>1, <1>2

\* The next k of a number's bits behind those of another.
LEMMA BitsBehind ==
    ASSUME NEW a \in Nat, NEW k \in Nat, a + k <= 34,
           NEW v \in Nat, v < 2^a, NEW d \in Nat, d < 2^k
    PROVE  v * 2^k + d \in Nat /\ v * 2^k + d < 2^(a + k)
<1>1. a \in 0 .. 34 /\ k \in 0 .. 34
  OBVIOUS
<1>2. 2^a \in Nat \ {0} /\ 2^k \in Nat \ {0} /\ 2^(a + k) = 2^a * 2^k
  BY ONLY <1>1, a \in Nat, k \in Nat, a + k <= 34, PowerPositive, PowerSum, Zenon
<1>3. PICK x \in Nat \ {0}, e \in Nat \ {0} : x = 2^a /\ e = 2^k
  BY ONLY <1>2, Zenon
<1>4. v < x /\ d < e
  BY ONLY <1>3, v < 2^a, d < 2^k, Zenon
<1>5. (x - (v + 1)) * e >= 0 /\ (x - (v + 1)) * e = x * e - (v * e + e)
  BY <1>4
<1>6. v * e + d \in Nat /\ v * e + d < x * e
  BY <1>4, <1>5
<1> QED BY ONLY <1>2, <1>3, <1>6, Zenon

LEMMA TakeBitsType ==
    ASSUME NEW buf \in Bytes, NEW count \in 0 .. 34, NEW s \in Chunks(buf, count),
           s.r.byte_offset < Len(buf), NEW k \in 1 .. s.left, s.r.bit_offset + k <= 8
    PROVE  TakeBits(s, k) \in Chunks(buf, count)
<1>1. PICK o \in 0 .. 7, q \in 0 .. Len(buf) - 1, v \in Nat, l \in 0 .. count, ok \in BOOLEAN :
        s = [r |-> [buffer |-> buf, byte_offset |-> q, bit_offset |-> o, ok |-> ok],
             left |-> l, val |-> v] /\ v < 2^(count - l)
  BY DEF Chunks, Readers
<1>2. k \in 1 .. l /\ o + k <= 8 /\ k \in 1 .. 8
  BY <1>1
<1>3. PICK y \in Byte : y = buf[q + 1]
  <2>1. buf \in Seq(Byte) /\ q + 1 \in 1 .. Len(buf)
    BY <1>1 DEF Bytes
  <2> QED BY ONLY <2>1, SMT
<1>4. PICK w \in Nat : w = Shr(y, 8 - (o + k))
  <2>1. 8 - (o + k) \in Nat /\ y \in Nat
    BY <1>2 DEF Byte
  <2> QED BY ONLY <2>1, <1>3, ShrType, Zenon
<1>5. PICK e \in Nat \ {0} : e = 2^k
  <2>1. k \in 0 .. 34
    BY <1>2
  <2> QED BY ONLY <2>1, PowerPositive, Zenon
<1>6. w % e \in Nat /\ w % e < e
  BY <1>4, <1>5
<1>7. PICK d \in Nat : d = w % 2^k /\ d < 2^k
  BY ONLY <1>5, <1>6, Zenon
<1>8. v * 2^k + d \in Nat /\ v * 2^k + d < 2^((count - l) + k)
  <2>1. count - l \in Nat /\ k \in Nat /\ (count - l) + k <= 34
    BY <1>1, <1>2
  <2> QED BY ONLY <1>1, <1>7, <2>1, BitsBehind, Zenon
<1>9. PICK z \in Nat : z = v * 2^k + d
  BY <1>8
<1>10. (count - l) + k = count - (l - k) /\ l - k \in 0 .. count
  BY <1>1, <1>2
<1>11. z < 2^(count - (l - k))
  BY ONLY <1>8, <1>9, <1>10, Zenon
<1>12. /\ (o + k) % 8 \in 0 .. 7
       /\ q + ((o + k) \div 8) \in 0 .. Len(buf)
  BY <1>1, <1>2 DEF Bytes
<1>13. TakeBits(s, k) =
        [r |-> [buffer |-> buf, byte_offset |-> q + ((o + k) \div 8), bit_offset |-> (o + k) % 8,
                ok |-> ok],
         left |-> l - k, val |-> z]
  <2>1. ByteAt(s.r, 0) = y
    BY <1>1, <1>3 DEF ByteAt
  <2>2. z = s.val * 2^k + (Shr(ByteAt(s.r, 0), 8 - (s.r.bit_offset + k)) % 2^k)
    BY <1>1, <1>4, <1>7, <1>9, <2>1
  <2>3. [s.r EXCEPT !.bit_offset = (o + k) % 8, !.byte_offset = @ + ((o + k) \div 8)]
          = [buffer |-> buf, byte_offset |-> q + ((o + k) \div 8), bit_offset |-> (o + k) % 8,
             ok |-> ok]
    <3>1. PICK x \in Int, y1 \in Int : x = (o + k) % 8 /\ y1 = (o + k) \div 8
      BY <1>2
    <3>2. s.r = [buffer |-> buf, byte_offset |-> q, bit_offset |-> o, ok |-> ok]
      BY <1>1
    <3>3. PICK m : m = [s.r EXCEPT !.bit_offset = x]
      BY Zenon
    <3>4. m = [buffer |-> buf, byte_offset |-> q, bit_offset |-> x, ok |-> ok]
      BY ONLY <3>2, <3>3, SMT
    <3>5. [m EXCEPT !.byte_offset = @ + y1]
            = [buffer |-> buf, byte_offset |-> q + y1, bit_offset |-> x, ok |-> ok]
      BY ONLY <3>4, SMT
    <3>6. [s.r EXCEPT !.bit_offset = x, !.byte_offset = @ + y1]
            = [[s.r EXCEPT !.bit_offset = x] EXCEPT !.byte_offset = @ + y1]
      BY ONLY Zenon
    <3> QED BY ONLY <3>1, <3>3, <3>5, <3>6, Zenon
  <2>4. s.r.bit_offset = o /\ s.left = l
    BY <1>1
  <2> QED BY ONLY <2>2, <2>3, <2>4, Zenon DEF TakeBits
<1>14. [buffer |-> buf, byte_offset |-> q + ((o + k) \div 8), bit_offset |-> (o + k) % 8, ok |-> ok]
         \in Readers(buf)
  BY <1>1, <1>12 DEF Readers
<1>15. TakeBits(s, k) \in [r : Readers(buf), left : 0 .. count, val : Nat]
  BY ONLY <1>9, <1>10, <1>13, <1>14, SMT
<1>16. TakeBits(s, k).val = z /\ TakeBits(s, k).left = l - k
  BY ONLY <1>13, SMT
<1>17. TakeBits(s, k).val < 2^(count - TakeBits(s, k).left)
  BY ONLY <1>11, <1>16, Zenon
<1> QED BY ONLY <1>15, <1>17, Zenon DEF Chunks

LEMMA MinOfTwo ==
    ASSUME NEW a \in Int, NEW b \in Int
    PROVE  Min({a, b}) \in {a, b} /\ Min({a, b}) <= a /\ Min({a, b}) <= b
<1>1. \E x \in {a, b} : \A y \in {a, b} : x <= y
  OBVIOUS
<1> QED BY <1>1 DEF Min

LEMMA SkipType ==
    ASSUME NEW buf \in Bytes, NEW r \in Readers(buf), ~AtEnd(r)
    PROVE  SkipEmulation(r) \in Readers(buf)
BY DEF SkipEmulation, Readers, AtEnd, Bytes

LEMMA ReadByteType ==
    ASSUME NEW buf \in Bytes, NEW count \in 0 .. 34, NEW s \in Chunks(buf, count), s.left # 0
    PROVE  ReadByte(s) \in Chunks(buf, count)
<1>1. PICK r \in Readers(buf), l \in 1 .. count, v \in Nat :
        s = [r |-> r, left |-> l, val |-> v] /\ v < 2^(count - l)
  BY DEF Chunks
<1>2. CASE AtEnd(s.r)
  <2>1. [r EXCEPT !.ok = FALSE] \in Readers(buf)
    BY DEF Readers
  <2>2. [s EXCEPT !.r.ok = FALSE] = [r |-> [r EXCEPT !.ok = FALSE], left |-> l, val |-> v]
    <3>1. [s EXCEPT !.r.ok = FALSE] = [s EXCEPT !.r = [s.r EXCEPT !.ok = FALSE]]
      BY ONLY SMT
    <3>2. s.r = r
      BY <1>1
    <3>3. PICK x : x = [r EXCEPT !.ok = FALSE]
      BY Zenon
    <3>4. [s EXCEPT !.r = x] = [r |-> x, left |-> l, val |-> v]
      BY ONLY <1>1, SMT
    <3> QED BY ONLY <3>1, <3>2, <3>3, <3>4, Zenon
  <2> QED BY <1>1, <1>2, <2>1, <2>2 DEF ReadByte, Chunks
<1>3. CASE ~AtEnd(s.r)
  <2>1. s.left \in Int /\ 8 - s.r.bit_offset \in 1 .. 8 /\ s.left >= 1
    BY <1>1 DEF Readers
  <2>2. PICK k : k = Min({s.left, 8 - s.r.bit_offset})
    BY Zenon
  <2>3. k \in {s.left, 8 - s.r.bit_offset} /\ k <= s.left /\ k <= 8 - s.r.bit_offset
    <3>1. s.left \in Int /\ 8 - s.r.bit_offset \in Int
      BY <2>1
    <3> QED BY ONLY <2>2, <3>1, MinOfTwo, Zenon
  <2>4. k \in 1 .. s.left /\ s.r.bit_offset + k <= 8 /\ s.r.byte_offset < Len(buf)
    BY <1>1, <1>3, <2>1, <2>3 DEF AtEnd, Readers, Bytes
  <2>5. TakeBits(s, k) \in Chunks(buf, count)
    BY ONLY <2>4, TakeBitsType, buf \in Bytes, count \in 0 .. 34, s \in Chunks(buf, count), Zenon
  <2> QED BY ONLY <1>3, <2>2, <2>5, Zenon DEF ReadByte
<1> QED BY <1>2, <1>3

LEMMA ReadChunkType ==
    ASSUME NEW buf \in Bytes, NEW count \in 0 .. 34, NEW s \in Chunks(buf, count)
    PROVE  ReadChunk(s) \in Chunks(buf, count)
<1>1. CASE ~s.r.ok \/ s.left = 0
  BY <1>1 DEF ReadChunk
<1>2. CASE s.r.ok /\ s.left # 0 /\ AtEnd(s.r)
  <2>1. ReadByte(s) \in Chunks(buf, count)
    BY <1>2, ReadByteType
  <2> QED BY <1>2, <2>1 DEF ReadChunk
<1>3. CASE s.r.ok /\ s.left # 0 /\ ~AtEnd(s.r)
  <2>1. s.r \in Readers(buf)
    BY DEF Chunks
  <2>2. SkipEmulation(s.r) \in Readers(buf)
    BY <1>3, <2>1, SkipType
  <2>3. PICK t : t = [s EXCEPT !.r = SkipEmulation(@)]
    BY Zenon
  <2>4. t \in Chunks(buf, count) /\ t.left # 0
    BY <1>3, <2>2, <2>3 DEF Chunks
  <2>5. ReadByte(t) \in Chunks(buf, count)
    BY <2>4, ReadByteType
  <2> QED BY ONLY <1>3, <2>3, <2>5, Zenon DEF ReadChunk
<1> QED BY <1>1, <1>2, <1>3

\* The rounds of read_bits.
ReadRounds(g, buf, r, count) ==
    /\ g \in [Nat -> Chunks(buf, count)]
    /\ g[0] = [r |-> r, left |-> count, val |-> 0]
    /\ \A n \in Nat : g[n + 1] = ReadChunk(g[n])
    /\ ReadBits(r, count) = BitsRead(g[(r.bit_offset + count + 7) \div 8])

LEMMA ReadBitsRounds ==
    ASSUME NEW buf \in Bytes, NEW count \in 0 .. 34, NEW r \in Readers(buf)
    PROVE  \E g : ReadRounds(g, buf, r, count)
<1> DEFINE a == [r |-> r, left |-> count, val |-> 0]
           f == [n \in Nat |-> [s \in Chunks(buf, count) |-> ReadChunk(s)]]
           h == CHOOSE h : h = [n \in Nat |-> IF n = 0 THEN a ELSE ReadChunk(h[n - 1])]
<1>1. a \in Chunks(buf, count)
  <2>1. count - count = 0 /\ 0 < 2^0
    BY PowerZero
  <2>2. 0 < 2^(count - count)
    BY ONLY <2>1, Zenon
  <2>3. a.val = 0 /\ a.left = count
    BY Zenon
  <2>4. a \in [r : Readers(buf), left : 0 .. count, val : Nat]
    OBVIOUS
  <2>5. a.val < 2^(count - a.left)
    BY ONLY <2>2, <2>3, Zenon
  <2> QED BY ONLY <2>4, <2>5, Zenon DEF Chunks
<1>2. f \in [Nat -> [Chunks(buf, count) -> Chunks(buf, count)]]
  BY ReadChunkType
<1>3. \A n \in Nat : \A s \in Chunks(buf, count) : f[n][s] = ReadChunk(s)
  OBVIOUS
<1> HIDE DEF a, f
<1>4. PICK g : RecursOn(g, Nat, 0, Chunks(buf, count), a, f)
  BY <1>1, <1>2, RecursiveOnNat
<1>5. /\ g \in [Nat -> Chunks(buf, count)]
      /\ g = [n \in Nat |-> IF n = 0 THEN a ELSE f[n - 1][g[n - 1]]]
  BY <1>4 DEF RecursOn
<1>6. g[0] = a
  BY <1>5
<1>7. ASSUME NEW n \in Nat, n # 0 PROVE g[n] = ReadChunk(g[n - 1])
  <2>1. n - 1 \in Nat
    BY <1>7
  <2>2. g[n] = f[n - 1][g[n - 1]]
    BY <1>5, <1>7
  <2> QED BY <1>3, <1>5, <2>1, <2>2
<1>8. g = [n \in Nat |-> IF n = 0 THEN a ELSE ReadChunk(g[n - 1])]
  BY <1>5, <1>6, <1>7
<1>9. h = [n \in Nat |-> IF n = 0 THEN a ELSE ReadChunk(h[n - 1])]
  BY <1>8
<1>10. ReadBits(r, count) = BitsRead(h[(r.bit_offset + count + 7) \div 8])
  BY Zenon DEF ReadBits, a
<1> HIDE DEF h
<1>11. g = h
  <2> DEFINE T == {n \in Nat : g[n] = h[n]}
  <2>1. 0 \in T
    BY <1>8, <1>9
  <2>2. ASSUME NEW n \in T PROVE n + 1 \in T
    <3>1. n + 1 \in Nat /\ n + 1 # 0 /\ (n + 1) - 1 = n /\ g[n] = h[n]
      OBVIOUS
    <3>2. g[n + 1] = ReadChunk(g[(n + 1) - 1])
      BY ONLY <1>8, <3>1, Zenon
    <3>3. h[n + 1] = ReadChunk(h[(n + 1) - 1])
      BY ONLY <1>9, <3>1, Zenon
    <3>4. g[n + 1] = h[n + 1]
      BY ONLY <3>1, <3>2, <3>3, Zenon
    <3> QED BY <3>1, <3>4
  <2>3. T \in SUBSET Nat
    OBVIOUS
  <2> HIDE DEF T
  <2>4. T = Nat
    BY <2>1, <2>2, <2>3, SetInduction
  <2>5. \A n \in Nat : g[n] = h[n]
    BY <2>4 DEF T
  <2> QED BY <1>8, <1>9, <2>5
<1>12. \A n \in Nat : g[n + 1] = ReadChunk(g[n])
  <2> TAKE n \in Nat
  <2>1. n + 1 \in Nat /\ n + 1 # 0 /\ (n + 1) - 1 = n
    OBVIOUS
  <2> QED BY ONLY <1>7, <2>1, Zenon
<1>13. ReadRounds(g, buf, r, count)
  BY ONLY <1>5, <1>6, <1>10, <1>11, <1>12, Zenon DEF ReadRounds, a
<1> QED BY ONLY <1>13, Zenon

LEMMA PowerMonotone ==
    ASSUME NEW a \in Nat, NEW b \in Nat, a <= b, b <= 34
    PROVE  2^a <= 2^b
<1>1. b - a \in Nat /\ a + (b - a) = b /\ a + (b - a) <= 34
  OBVIOUS
<1>2. a \in 0 .. 34 /\ b - a \in 0 .. 34
  OBVIOUS
<1>3. 2^b = 2^a * 2^(b - a)
  BY ONLY <1>1, a \in Nat, PowerSum, Zenon
<1>4. 2^a \in Nat \ {0} /\ 2^(b - a) \in Nat \ {0}
  BY ONLY <1>2, PowerPositive, Zenon
<1>5. PICK x \in Nat \ {0}, y \in Nat \ {0} : x = 2^a /\ y = 2^(b - a)
  BY ONLY <1>4, Zenon
<1>6. x <= x * y
  <2>1. x * (y - 1) >= 0 /\ x * (y - 1) = x * y - x
    OBVIOUS
  <2> QED BY <2>1
<1> QED BY ONLY <1>3, <1>5, <1>6, Zenon

LEMMA ReadBitsType ==
    ASSUME NEW buf \in Bytes, NEW count \in 0 .. 34, NEW r \in Readers(buf)
    PROVE  /\ ReadBits(r, count) \in [r : Readers(buf), val : Nat]
           /\ ReadBits(r, count).val < 2^count
<1>1. PICK g : ReadRounds(g, buf, r, count)
  BY ReadBitsRounds, Zenon
<1>2. PICK n \in Nat : n = (r.bit_offset + count + 7) \div 8
  BY DEF Readers
<1>3. PICK s \in Chunks(buf, count) : s = g[n]
  BY <1>1 DEF ReadRounds
<1>4. ReadBits(r, count) = BitsRead(s)
  BY ONLY <1>1, <1>2, <1>3, Zenon DEF ReadRounds
<1>5. s.r \in Readers(buf) /\ s.left \in 0 .. count /\ s.val \in Nat /\ s.val < 2^(count - s.left)
  BY DEF Chunks
<1>6. count - s.left \in Nat /\ count \in Nat /\ count - s.left <= count /\ count <= 34
  BY <1>5
<1>7. 2^(count - s.left) <= 2^count
  BY ONLY <1>6, PowerMonotone, Zenon
<1>8. count - s.left \in 0 .. 34 /\ count \in 0 .. 34
  BY <1>6
<1>9. PICK x \in Nat \ {0}, y \in Nat \ {0} : x = 2^(count - s.left) /\ y = 2^count
  BY ONLY <1>8, PowerPositive, Zenon
<1>10. s.val < y /\ 0 < y
  <2>1. s.val < x /\ x <= y
    BY ONLY <1>5, <1>7, <1>9, Zenon
  <2> QED BY <1>5, <2>1
<1>11. BitsRead(s) \in [r : Readers(buf), val : Nat] /\ BitsRead(s).val < y
  BY <1>5, <1>10 DEF BitsRead
<1> QED BY ONLY <1>4, <1>9, <1>11, Zenon

Zeros(buf) == [r : Readers(buf), val : {0, 1}, zeros : Int]

\* One round of LeadingZeros.
NextZero(s) == IF s.val = 1 \/ ~s.r.ok THEN s ELSE CountBit(s, ReadBits(s.r, 1))

LeadingRounds(g, buf, r) ==
    /\ g \in [0 .. WordBits + 1 -> Zeros(buf)]
    /\ g[0] = [r |-> r, val |-> 0, zeros |-> -1]
    /\ \A n \in 1 .. WordBits + 1 : g[n] = NextZero(g[n - 1])
    /\ LeadingZeros(r) = g[WordBits + 1]

LEMMA NextZeroType ==
    ASSUME NEW buf \in Bytes, NEW s \in Zeros(buf)
    PROVE  NextZero(s) \in Zeros(buf) /\ NextZero(s).zeros \in s.zeros .. s.zeros + 1
<1>1. s.r \in Readers(buf) /\ s.zeros \in Int
  BY DEF Zeros
<1>2. PICK b : b = ReadBits(s.r, 1)
  BY Zenon
<1>3. b \in [r : Readers(buf), val : Nat] /\ b.val < 2^1
  <2>1. 1 \in 0 .. 34
    OBVIOUS
  <2> QED BY ONLY <1>1, <1>2, <2>1, buf \in Bytes, ReadBitsType, Zenon
<1>4. b.val \in {0, 1} /\ b.r \in Readers(buf)
  BY <1>3
<1>5. CountBit(s, b) \in Zeros(buf) /\ CountBit(s, b).zeros = s.zeros + 1
  BY <1>1, <1>4 DEF CountBit, Zeros
<1> QED BY <1>1, <1>2, <1>5 DEF NextZero

LEMMA LeadingZerosRounds ==
    ASSUME NEW buf \in Bytes, NEW r \in Readers(buf)
    PROVE  \E g : LeadingRounds(g, buf, r)
<1> DEFINE a == [r |-> r, val |-> 0, zeros |-> -1]
           f == [n \in Nat |-> [s \in Zeros(buf) |-> NextZero(s)]]
           h == CHOOSE h : h = [n \in 0 .. WordBits + 1 |->
                    IF n = 0 THEN a
                    ELSE LET s == h[n - 1]
                         IN IF s.val = 1 \/ ~s.r.ok THEN s ELSE CountBit(s, ReadBits(s.r, 1))]
<1>1. a \in Zeros(buf)
  BY DEF Zeros
<1>2. f \in [Nat -> [Zeros(buf) -> Zeros(buf)]]
  BY NextZeroType
<1>3. \A n \in Nat : \A s \in Zeros(buf) : f[n][s] = NextZero(s)
  OBVIOUS
<1>0. WordBits + 1 \in Nat
  BY WordBitsAssumption
<1> HIDE DEF a, f
<1>4. PICK g : RecursOn(g, 0 .. WordBits + 1, 0, Zeros(buf), a, f)
  BY <1>0, <1>1, <1>2, RecursiveUpTo
<1>5. /\ g \in [0 .. WordBits + 1 -> Zeros(buf)]
      /\ g = [n \in 0 .. WordBits + 1 |-> IF n = 0 THEN a ELSE f[n - 1][g[n - 1]]]
  BY <1>4 DEF RecursOn
<1>6. g[0] = a
  BY <1>0, <1>5
<1>7. ASSUME NEW n \in 1 .. WordBits + 1 PROVE g[n] = NextZero(g[n - 1])
  <2>1. n - 1 \in Nat /\ n - 1 \in 0 .. WordBits + 1 /\ n \in 0 .. WordBits + 1 /\ n # 0
    BY <1>0
  <2>2. g[n] = f[n - 1][g[n - 1]]
    BY ONLY <1>5, <2>1, Zenon
  <2> QED BY <1>3, <1>5, <2>1, <2>2
<1>8. g = [n \in 0 .. WordBits + 1 |-> IF n = 0 THEN a ELSE NextZero(g[n - 1])]
  <2>1. \A n \in 0 .. WordBits + 1 : n # 0 => n \in 1 .. WordBits + 1
    BY <1>0
  <2> QED BY <1>5, <1>6, <1>7, <2>1
<1>9. h = [n \in 0 .. WordBits + 1 |-> IF n = 0 THEN a ELSE NextZero(h[n - 1])]
  BY <1>8 DEF NextZero
<1>10. LeadingZeros(r) = h[WordBits + 1]
  BY Zenon DEF LeadingZeros, a
<1> HIDE DEF h
<1>11. \A n \in 0 .. WordBits + 1 : g[n] = h[n]
  <2> DEFINE T == {n \in 0 .. WordBits + 1 : g[n] = h[n]}
  <2>1. 0 \in T
    BY <1>0, <1>8, <1>9
  <2>2. ASSUME NEW n \in 0 .. WordBits + 1, 0 < n, n - 1 \in T PROVE n \in T
    <3>1. n # 0 /\ g[n - 1] = h[n - 1]
      BY <2>2
    <3>2. g[n] = NextZero(g[n - 1])
      BY ONLY <1>8, <3>1, n \in 0 .. WordBits + 1, Zenon
    <3>3. h[n] = NextZero(h[n - 1])
      BY ONLY <1>9, <3>1, n \in 0 .. WordBits + 1, Zenon
    <3>4. g[n] = h[n]
      BY ONLY <3>1, <3>2, <3>3, Zenon
    <3> QED BY <3>4
  <2> HIDE DEF T
  <2>3. 0 \in Int /\ WordBits + 1 \in Int /\ (0 <= WordBits + 1 => 0 \in T)
    BY <1>0, <2>1
  <2>4. \A n \in 0 .. WordBits + 1 : 0 < n /\ n - 1 \in T => n \in T
    BY <2>2, Zenon
  <2>5. 0 .. WordBits + 1 \subseteq T
    BY ONLY <2>3, <2>4, IntervalInduction, Zenon
  <2> QED BY <2>5 DEF T
<1>12. WordBits + 1 \in 0 .. WordBits + 1
  BY <1>0
<1>13. LeadingRounds(g, buf, r)
  BY ONLY <1>5, <1>6, <1>7, <1>10, <1>11, <1>12, Zenon DEF LeadingRounds, a
<1> QED BY ONLY <1>13, Zenon

LEMMA LeadingZerosType ==
    ASSUME NEW buf \in Bytes, NEW r \in Readers(buf), r.ok
    PROVE  LeadingZeros(r) \in Zeros(buf) /\ LeadingZeros(r).zeros \in 0 .. WordBits
<1>0. WordBits \in 8 .. 32
  BY WordBitsAssumption
<1>1. PICK g : LeadingRounds(g, buf, r)
  BY LeadingZerosRounds, Zenon
<1>2. /\ g \in [0 .. WordBits + 1 -> Zeros(buf)]
      /\ g[0] = [r |-> r, val |-> 0, zeros |-> -1]
      /\ \A n \in 1 .. WordBits + 1 : g[n] = NextZero(g[n - 1])
      /\ LeadingZeros(r) = g[WordBits + 1]
  BY <1>1 DEF LeadingRounds
<1>3. g[1].zeros = 0
  <2>1. 1 \in 1 .. WordBits + 1 /\ 1 - 1 = 0
    BY <1>0
  <2>2. g[1] = NextZero(g[0])
    BY ONLY <1>2, <2>1, Zenon
  <2>3. NextZero(g[0]) = CountBit(g[0], ReadBits(g[0].r, 1))
    BY <1>2 DEF NextZero
  <2>4. g[0].zeros = -1
    BY <1>2
  <2> QED BY <2>2, <2>3, <2>4 DEF CountBit
<1> DEFINE T == {n \in 1 .. WordBits + 1 : g[n].zeros \in 0 .. n - 1}
<1>4. 1 \in T
  BY <1>0, <1>3
<1>5. ASSUME NEW n \in 1 .. WordBits + 1, 1 < n, n - 1 \in T PROVE n \in T
  <2>1. PICK s \in Zeros(buf) : s = g[n - 1]
    BY <1>2, <1>5
  <2>2. NextZero(s).zeros \in s.zeros .. s.zeros + 1 /\ s.zeros \in 0 .. (n - 1) - 1
    BY <1>5, <2>1, NextZeroType
  <2>3. g[n] = NextZero(s)
    BY <1>2, <2>1
  <2> QED BY <2>2, <2>3
<1> HIDE DEF T
<1>6. 1 \in Int /\ WordBits + 1 \in Int /\ (1 <= WordBits + 1 => 1 \in T)
  BY <1>0, <1>4
<1>7. \A n \in 1 .. WordBits + 1 : 1 < n /\ n - 1 \in T => n \in T
  BY <1>5, Zenon
<1>8. 1 .. WordBits + 1 \subseteq T
  BY ONLY <1>6, <1>7, IntervalInduction, Zenon
<1>9. WordBits + 1 \in T /\ WordBits + 1 \in 0 .. WordBits + 1
  BY <1>0, <1>8
<1> QED BY <1>0, <1>2, <1>9 DEF T

\* What an exp-Golomb number of the code's width is at most.
LEMMA ReadUeType ==
    ASSUME NEW buf \in Bytes, NEW r \in Readers(buf), r.ok
    PROVE  ReadUe(r) \in [r : Readers(buf), val : Nat] /\ ReadUe(r).val + 1 < 2^WordBits
<1>0. WordBits \in 8 .. 32
  BY WordBitsAssumption
<1>1. PICK z \in Zeros(buf) : z = LeadingZeros(r) /\ z.zeros \in 0 .. WordBits
  BY LeadingZerosType
<1>2. z.r \in Readers(buf) /\ z.zeros \in 0 .. 34
  BY <1>0, <1>1 DEF Zeros
<1>3. PICK x : x = ReadBits(z.r, z.zeros)
  BY Zenon
<1>4. x \in [r : Readers(buf), val : Nat] /\ x.val < 2^z.zeros
  BY ONLY <1>2, <1>3, buf \in Bytes, ReadBitsType, Zenon
<1>5. ReadUe(r) = UeValue(z, x)
  BY <1>1, <1>3, Zenon DEF ReadUe, InfoRead
<1>6. WordBits \in 0 .. 34
  BY <1>0
<1>7. PICK w \in Nat \ {0} : w = 2^WordBits
  BY ONLY <1>6, PowerPositive, Zenon
<1>8. 1 < w
  <2>1. 1 \in Nat /\ WordBits \in Nat /\ 1 <= WordBits /\ WordBits <= 34
    BY <1>0
  <2>2. 2^1 <= w
    BY ONLY <2>1, <1>7, PowerMonotone, Zenon
  <2> QED BY <2>2
<1>9. CASE z.zeros >= WordBits \/ ~x.r.ok
  <2>1. UeValue(z, x) = [r |-> [x.r EXCEPT !.ok = FALSE], val |-> 0]
    BY <1>9 DEF UeValue
  <2>2. [x.r EXCEPT !.ok = FALSE] \in Readers(buf)
    BY <1>4 DEF Readers
  <2>3. UeValue(z, x) \in [r : Readers(buf), val : Nat] /\ UeValue(z, x).val + 1 < w
    BY <1>8, <2>1, <2>2
  <2> QED BY ONLY <1>5, <1>7, <2>3, Zenon
<1>10. CASE z.zeros < WordBits /\ x.r.ok
  <2>1. UeValue(z, x) = [r |-> x.r, val |-> 2^z.zeros + x.val - 1]
    BY <1>0, <1>1, <1>10 DEF UeValue
  <2>2. z.zeros \in 0 .. 33 /\ z.zeros + 1 \in Nat /\ WordBits \in Nat
          /\ z.zeros + 1 <= WordBits /\ WordBits <= 34
    BY <1>0, <1>1, <1>10
  <2>3. 2^z.zeros \in Nat \ {0} /\ 2^(z.zeros + 1) = 2 * 2^z.zeros
    BY ONLY <2>2, PowerStep, Zenon
  <2>4. 2^(z.zeros + 1) <= 2^WordBits
    BY ONLY <2>2, PowerMonotone, Zenon
  <2>5. PICK p \in Nat \ {0} : p = 2^z.zeros
    BY ONLY <2>3, Zenon
  <2>6. 2 * p <= w
    BY ONLY <1>7, <2>3, <2>4, <2>5, Zenon
  <2>7. x.val < p /\ x.val \in Nat /\ x.r \in Readers(buf)
    <3>1. x.val < p
      BY ONLY <1>4, <2>5, Zenon
    <3> QED BY <1>4, <3>1
  <2>8. UeValue(z, x) = [r |-> x.r, val |-> p + x.val - 1]
    BY ONLY <2>1, <2>5, Zenon
  <2>9. UeValue(z, x) \in [r : Readers(buf), val : Nat] /\ UeValue(z, x).val + 1 < w
    BY <2>6, <2>7, <2>8
  <2> QED BY ONLY <1>5, <1>7, <2>9, Zenon
<1> QED BY <1>0, <1>1, <1>9, <1>10


UeVals == {v \in Nat : v + 1 < 2^WordBits}
SeVals == {v \in Int : CodeNum(v) \in UeVals}

LEMMA ReadSeType ==
    ASSUME NEW buf \in Bytes, NEW r \in Readers(buf), r.ok
    PROVE  /\ ReadSe(r) \in [r : Readers(buf), val : SeVals]
           /\ CodeNum(ReadSe(r).val) = ReadUe(r).val
<1>1. PICK x \in [r : Readers(buf), val : Nat] : x = ReadUe(r) /\ x.val \in UeVals
  BY ReadUeType DEF UeVals
<1>2. PICK n \in UeVals, q \in Readers(buf) : x = [r |-> q, val |-> n]
  BY <1>1
<1>3. n \in Nat
  BY DEF UeVals
<1>4. PICK v \in Int : v = (IF n % 2 = 0 THEN -(n \div 2) ELSE (n + 1) \div 2)
  BY <1>3
<1>5. CodeNum(v) = n
  <2>1. CASE n % 2 = 0
    <3>1. v = -(n \div 2) /\ v <= 0 /\ -2 * v = n
      BY <1>3, <1>4, <2>1
    <3> QED BY <3>1 DEF CodeNum
  <2>2. CASE n % 2 # 0
    <3>1. n % 2 = 1 /\ n = 2 * (n \div 2) + 1
      BY <1>3, <2>2
    <3>2. v = (n \div 2) + 1 /\ v > 0 /\ 2 * v - 1 = n
      BY <1>3, <1>4, <2>2, <3>1
    <3> QED BY <3>2 DEF CodeNum
  <2> QED BY <2>1, <2>2
<1>6. v \in SeVals
  BY <1>5 DEF SeVals
<1>7. ReadSe(r) = [x EXCEPT !.val = IF @ % 2 = 0 THEN -(@ \div 2) ELSE (@ + 1) \div 2]
  BY <1>1, Zenon DEF ReadSe
<1>8. x.val = n
  BY <1>2
<1>9. ReadSe(r) = [x EXCEPT !.val = v]
  BY ONLY <1>4, <1>7, <1>8, Zenon
<1>10. ReadSe(r) = [r |-> q, val |-> v]
  BY ONLY <1>2, <1>9, SMT
<1> QED BY <1>1, <1>2, <1>5, <1>6, <1>10

-----------------------------------------------------------------------------
(* The bit writer.                                                         *)

\* Below the bits that are pending there is room for the others.
Writers ==
    {w \in [arr : Bytes, pending_byte : Byte, bit_offset : 0 .. 7] :
        w.pending_byte + 2^(8 - w.bit_offset) <= 256 /\ NoEmulation(w.arr)}

\* A byte behind an escape where it needs one makes no start code.
LEMMA EscapeKeeps ==
    ASSUME NEW arr \in Bytes, NoEmulation(arr), NEW p \in Byte, NEW n, n = Len(arr)
    PROVE  LET emulates == /\ p <= 3
                           /\ n >= 2 /\ arr[n - 1] = 0 /\ arr[n] = 0
               new == arr \o (IF emulates THEN <<3>> ELSE <<>>) \o <<p>>
           IN new \in Bytes /\ NoEmulation(new)
<1>1. arr \in Seq(0 .. 255) /\ p \in 0 .. 255 /\ n \in Nat
  BY DEF Bytes, Byte
<1>2. CASE p <= 3 /\ n >= 2 /\ arr[n - 1] = 0 /\ arr[n] = 0
  <2>1. PICK new : new = arr \o <<3>> \o <<p>>
    OBVIOUS
  <2>2. /\ new \in Seq(0 .. 255) /\ Len(new) = n + 2
        /\ \A i \in 1 .. n : new[i] = arr[i]
        /\ new[n + 1] = 3 /\ new[n + 2] = p
    BY <1>1, <2>1
  <2>3. ASSUME NEW i \in 1 .. Len(new) - 2 PROVE ~(new[i] = 0 /\ new[i + 1] = 0 /\ new[i + 2] <= 2)
    <3>1. CASE i <= n - 2
      <4>1. i \in 1 .. Len(arr) - 2 /\ i \in 1 .. n /\ i + 1 \in 1 .. n /\ i + 2 \in 1 .. n
        BY <1>1, <3>1
      <4>2. new[i] = arr[i] /\ new[i + 1] = arr[i + 1] /\ new[i + 2] = arr[i + 2]
        BY ONLY <2>2, <4>1, Zenon
      <4>3. ~(arr[i] = 0 /\ arr[i + 1] = 0 /\ arr[i + 2] <= 2)
        BY ONLY <4>1, NoEmulation(arr), Zenon DEF NoEmulation
      <4> QED BY ONLY <4>2, <4>3, Zenon
    <3>2. CASE i = n - 1
      BY <1>1, <2>2, <3>2
    <3>3. CASE i = n
      BY <1>1, <2>2, <3>3
    <3> QED BY <1>1, <2>2, <3>1, <3>2, <3>3
  <2>4. NoEmulation(new)
    BY <2>3 DEF NoEmulation
  <2> QED BY <1>2, <2>1, <2>2, <2>4 DEF Bytes, Byte
<1>3. CASE ~(p <= 3 /\ n >= 2 /\ arr[n - 1] = 0 /\ arr[n] = 0)
  <2>1. PICK new : new = arr \o <<>> \o <<p>>
    OBVIOUS
  <2>2. /\ new \in Seq(0 .. 255) /\ Len(new) = n + 1
        /\ \A i \in 1 .. n : new[i] = arr[i]
        /\ new[n + 1] = p
    BY <1>1, <2>1
  <2>3. ASSUME NEW i \in 1 .. Len(new) - 2 PROVE ~(new[i] = 0 /\ new[i + 1] = 0 /\ new[i + 2] <= 2)
    <3>1. CASE i <= n - 2
      <4>1. i \in 1 .. Len(arr) - 2 /\ i \in 1 .. n /\ i + 1 \in 1 .. n /\ i + 2 \in 1 .. n
        BY <1>1, <3>1
      <4>2. new[i] = arr[i] /\ new[i + 1] = arr[i + 1] /\ new[i + 2] = arr[i + 2]
        BY ONLY <2>2, <4>1, Zenon
      <4>3. ~(arr[i] = 0 /\ arr[i + 1] = 0 /\ arr[i + 2] <= 2)
        BY ONLY <4>1, NoEmulation(arr), Zenon DEF NoEmulation
      <4> QED BY ONLY <4>2, <4>3, Zenon
    <3>2. CASE i = n - 1
      BY <1>1, <1>3, <2>2, <3>2
    <3> QED BY <1>1, <2>2, <3>1, <3>2
  <2>4. NoEmulation(new)
    BY <2>3 DEF NoEmulation
  <2> QED BY <1>3, <2>1, <2>2, <2>4 DEF Bytes, Byte
<1> QED BY <1>2, <1>3

LEMMA FlushType ==
    ASSUME NEW w, w.arr \in Bytes, NoEmulation(w.arr), w.pending_byte \in Byte
    PROVE  Flush(w) \in Writers
<1> DEFINE n == Len(w.arr)
           emulates == /\ w.pending_byte <= 3
                       /\ n >= 2 /\ w.arr[n - 1] = 0 /\ w.arr[n] = 0
           new == w.arr \o (IF emulates THEN <<3>> ELSE <<>>) \o <<w.pending_byte>>
<1>1. new \in Bytes /\ NoEmulation(new)
  BY EscapeKeeps, Zenon
<1>2. Flush(w) = [arr |-> new, pending_byte |-> 0, bit_offset |-> 0]
  BY Zenon DEF Flush
<1> HIDE DEF new
<1>3. PICK x \in Bytes : x = new
  BY ONLY <1>1, Zenon
<1>4. PICK y : y = [arr |-> x, pending_byte |-> 0, bit_offset |-> 0]
  BY Zenon
<1>5. y \in [arr : Bytes, pending_byte : Byte, bit_offset : 0 .. 7]
  BY <1>3, <1>4 DEF Byte
<1>6. y.pending_byte + 2^(8 - y.bit_offset) <= 256
  <2>1. 2^8 = 256 /\ 8 - 0 = 8 /\ 0 + 256 <= 256
    OBVIOUS
  <2>2. y.pending_byte = 0 /\ y.bit_offset = 0
    BY ONLY <1>4, SMT
  <2> QED BY ONLY <2>1, <2>2, Zenon
<1>7. NoEmulation(y.arr)
  <2>1. y.arr = x
    BY ONLY <1>4, SMT
  <2> QED BY ONLY <1>1, <1>3, <2>1, Zenon
<1> QED BY ONLY <1>2, <1>3, <1>4, <1>5, <1>6, <1>7, Zenon DEF Writers

\* What PutBits leaves in the writer before a full byte is flushed.
Pended(w, x, next) == [w EXCEPT !.pending_byte = @ + x, !.bit_offset = next]

LEMMA PutBitsType ==
    ASSUME NEW count \in 0 .. 34, NEW bits \in Nat, NEW s \in [w : Writers, left : 0 .. count],
           NEW k \in 1 .. s.left, s.w.bit_offset + k <= 8
    PROVE  /\ PutBits(s, bits, k) \in [w : Writers, left : 0 .. count]
           /\ PutBits(s, bits, k).left = s.left - k
<1>1. PICK a \in Bytes, p \in Byte, o \in 0 .. 7, l \in 0 .. count :
        /\ s = [w |-> [arr |-> a, pending_byte |-> p, bit_offset |-> o], left |-> l]
        /\ p + 2^(8 - o) <= 256
        /\ NoEmulation(a)
  BY DEF Writers
<1>2. k \in 1 .. 8 /\ k \in 1 .. l /\ o + k \in 1 .. 8 /\ l - k \in Nat
  BY <1>1
<1>3. PICK x \in Nat : x = Shr(bits, l - k)
  BY ONLY <1>2, bits \in Nat, ShrType, Zenon
<1>4. k \in 0 .. 34 /\ 8 - (o + k) \in 0 .. 34 /\ 8 - o \in 0 .. 34
  BY <1>2
<1>5. 2^k \in Nat \ {0} /\ 2^(8 - (o + k)) \in Nat \ {0} /\ 2^(8 - o) \in Nat \ {0}
  BY ONLY <1>4, PowerPositive, Zenon
<1>6. PICK e \in Nat \ {0}, f \in Nat \ {0}, g \in Nat \ {0} :
        e = 2^k /\ f = 2^(8 - (o + k)) /\ g = 2^(8 - o)
  BY ONLY <1>5, Zenon
<1>7. g = e * f
  <2>1. k + (8 - (o + k)) = 8 - o /\ k \in Nat /\ 8 - (o + k) \in Nat /\ k + (8 - (o + k)) <= 34
    BY <1>2
  <2>2. 2^(k + (8 - (o + k))) = 2^k * 2^(8 - (o + k))
    BY ONLY <2>1, PowerSum, Zenon
  <2> QED BY ONLY <1>6, <2>1, <2>2, Zenon
<1>8. PICK y \in Nat : y = (x % e) * f /\ y + f <= g
  <2>1. x % e \in Nat /\ x % e <= e - 1
    OBVIOUS
  <2>2. PICK d \in Nat : d = x % e /\ d <= e - 1
    BY <2>1
  <2>3. (e - 1 - d) * f >= 0 /\ (e - 1 - d) * f = e * f - (d * f + f) /\ d * f \in Nat
    BY <2>2
  <2>4. d * f + f <= g
    BY <1>7, <2>3
  <2> QED BY <2>2, <2>3, <2>4
<1>9. p + g <= 256
  BY ONLY <1>1, <1>6, Zenon
<1>10. p + y \in Byte /\ p + y + f <= 256
  BY <1>8, <1>9 DEF Byte
<1>11. PICK z \in Byte : z = p + y /\ z + f <= 256
  BY <1>10
<1>12. PICK w1 : w1 = [arr |-> a, pending_byte |-> z, bit_offset |-> o + k]
  BY Zenon
<1>13. PutBits(s, bits, k) = [w |-> FlushFull(w1), left |-> l - k]
  <2>1. s.w = [arr |-> a, pending_byte |-> p, bit_offset |-> o] /\ s.left = l /\ s.w.bit_offset = o
    BY <1>1
  <2>2. [s.w EXCEPT !.pending_byte = @ + y, !.bit_offset = o + k]
          = [[s.w EXCEPT !.pending_byte = @ + y] EXCEPT !.bit_offset = o + k]
    BY ONLY Zenon
  <2>3. [s.w EXCEPT !.pending_byte = @ + y] = [arr |-> a, pending_byte |-> p + y, bit_offset |-> o]
    BY ONLY <2>1, p \in Byte, y \in Nat, SMT DEF Byte
  <2>4. PICK n : n = o + k
    BY Zenon
  <2>5. PICK m : m = [s.w EXCEPT !.pending_byte = @ + y]
    BY Zenon
  <2>6. m = [arr |-> a, pending_byte |-> z, bit_offset |-> o]
    BY ONLY <1>11, <2>3, <2>5, Zenon
  <2>7. [m EXCEPT !.bit_offset = n] = [arr |-> a, pending_byte |-> z, bit_offset |-> n]
    BY ONLY <2>6, SMT
  <2>8. [s.w EXCEPT !.pending_byte = @ + y, !.bit_offset = o + k] = w1
    BY ONLY <1>12, <2>2, <2>4, <2>5, <2>7, Zenon
  <2>9. y = (Shr(bits, s.left - k) % 2^k) * 2^(8 - (s.w.bit_offset + k))
    BY ONLY <1>3, <1>6, <1>8, <2>1, Zenon
  <2> QED BY ONLY <2>1, <2>8, <2>9, Zenon DEF PutBits
<1>14. FlushFull(w1) \in Writers
  <2>1. w1.arr = a /\ w1.pending_byte = z /\ w1.bit_offset = o + k
    BY ONLY <1>12, SMT
  <2>2. CASE o + k = 8
    <3>1. Flush(w1) \in Writers
      BY ONLY <1>1, <2>1, a \in Bytes, z \in Byte, FlushType, Zenon
    <3> QED BY ONLY <2>1, <2>2, <3>1, Zenon DEF FlushFull
  <2>3. CASE o + k # 8
    <3>1. w1 \in [arr : Bytes, pending_byte : Byte, bit_offset : 0 .. 7]
      BY <1>2, <1>12, <2>3
    <3>2. w1.pending_byte + 2^(8 - w1.bit_offset) <= 256
      BY ONLY <1>6, <1>11, <2>1, Zenon
    <3>3. w1 \in Writers
      BY ONLY <1>1, <2>1, <3>1, <3>2, Zenon DEF Writers
    <3> QED BY ONLY <2>1, <2>3, <3>3, Zenon DEF FlushFull
  <2> QED BY ONLY <2>2, <2>3, Zenon
<1>15. l - k \in 0 .. count /\ s.left = l
  BY <1>1, <1>2
<1>16. PICK v \in Writers : v = FlushFull(w1)
  BY ONLY <1>14, Zenon
<1>17. PutBits(s, bits, k) = [w |-> v, left |-> l - k]
  BY ONLY <1>13, <1>16, Zenon
<1> QED BY ONLY <1>15, <1>17, v \in Writers, SMT

Writings(count) == [w : Writers, left : 0 .. count]

LEMMA WriteChunkType ==
    ASSUME NEW count \in 0 .. 34, NEW bits \in Nat, NEW s \in Writings(count)
    PROVE  WriteChunk(s, bits) \in Writings(count)
<1>1. CASE s.left = 0
  BY <1>1 DEF WriteChunk
<1>2. CASE s.left # 0
  <2>1. s.left \in 1 .. count /\ s.w.bit_offset \in 0 .. 7
    BY <1>2 DEF Writings, Writers
  <2>2. 8 - s.w.bit_offset \in Int /\ s.left \in Int
    BY <2>1
  <2>3. PICK k : k = Min({8 - s.w.bit_offset, s.left})
    BY Zenon
  <2>4. k \in {8 - s.w.bit_offset, s.left} /\ k <= 8 - s.w.bit_offset /\ k <= s.left
    BY ONLY <2>2, <2>3, MinOfTwo, Zenon
  <2>5. k \in 1 .. s.left /\ s.w.bit_offset + k <= 8
    BY <2>1, <2>4
  <2>6. PutBits(s, bits, k) \in Writings(count)
    BY <2>5, PutBitsType, Zenon DEF Writings
  <2> QED BY ONLY <1>2, <2>3, <2>6, Zenon DEF WriteChunk
<1> QED BY <1>1, <1>2

\* The rounds of write_bits.
WriteRounds(g, w, bits, count) ==
    /\ g \in [Nat -> Writings(count)]
    /\ g[0] = [w |-> w, left |-> count]
    /\ \A n \in Nat : g[n + 1] = WriteChunk(g[n], bits)
    /\ WriteBits(w, bits, count) = g[(w.bit_offset + count + 7) \div 8].w

LEMMA WriteBitsRounds ==
    ASSUME NEW count \in 0 .. 34, NEW bits \in Nat, NEW w \in Writers
    PROVE  \E g : WriteRounds(g, w, bits, count)
<1> DEFINE a == [w |-> w, left |-> count]
           f == [n \in Nat |-> [s \in Writings(count) |-> WriteChunk(s, bits)]]
           h == CHOOSE h : h = [n \in Nat |-> IF n = 0 THEN a ELSE WriteChunk(h[n - 1], bits)]
<1>1. a \in Writings(count)
  BY DEF Writings
<1>2. f \in [Nat -> [Writings(count) -> Writings(count)]]
  BY WriteChunkType
<1>3. \A n \in Nat : \A s \in Writings(count) : f[n][s] = WriteChunk(s, bits)
  OBVIOUS
<1> HIDE DEF a, f
<1>4. PICK g : RecursOn(g, Nat, 0, Writings(count), a, f)
  BY <1>1, <1>2, RecursiveOnNat
<1>5. /\ g \in [Nat -> Writings(count)]
      /\ g = [n \in Nat |-> IF n = 0 THEN a ELSE f[n - 1][g[n - 1]]]
  BY <1>4 DEF RecursOn
<1>6. g[0] = a
  BY <1>5
<1>7. ASSUME NEW n \in Nat, n # 0 PROVE g[n] = WriteChunk(g[n - 1], bits)
  <2>1. n - 1 \in Nat
    BY <1>7
  <2>2. g[n] = f[n - 1][g[n - 1]]
    BY <1>5, <1>7
  <2> QED BY <1>3, <1>5, <2>1, <2>2
<1>8. g = [n \in Nat |-> IF n = 0 THEN a ELSE WriteChunk(g[n - 1], bits)]
  BY <1>5, <1>6, <1>7
<1>9. h = [n \in Nat |-> IF n = 0 THEN a ELSE WriteChunk(h[n - 1], bits)]
  BY <1>8
<1>10. WriteBits(w, bits, count) = h[(w.bit_offset + count + 7) \div 8].w
  BY Zenon DEF WriteBits, a
<1> HIDE DEF h
<1>11. g = h
  <2> DEFINE T == {n \in Nat : g[n] = h[n]}
  <2>1. 0 \in T
    BY <1>8, <1>9
  <2>2. ASSUME NEW n \in T PROVE n + 1 \in T
    <3>1. n + 1 \in Nat /\ n + 1 # 0 /\ (n + 1) - 1 = n /\ g[n] = h[n]
      OBVIOUS
    <3>2. g[n + 1] = WriteChunk(g[(n + 1) - 1], bits)
      BY ONLY <1>8, <3>1, Zenon
    <3>3. h[n + 1] = WriteChunk(h[(n + 1) - 1], bits)
      BY ONLY <1>9, <3>1, Zenon
    <3>4. g[n + 1] = h[n + 1]
      BY ONLY <3>1, <3>2, <3>3, Zenon
    <3> QED BY <3>1, <3>4
  <2>3. T \in SUBSET Nat
    OBVIOUS
  <2> HIDE DEF T
  <2>4. T = Nat
    BY <2>1, <2>2, <2>3, SetInduction
  <2>5. \A n \in Nat : g[n] = h[n]
    BY <2>4 DEF T
  <2> QED BY <1>8, <1>9, <2>5
<1>12. \A n \in Nat : g[n + 1] = WriteChunk(g[n], bits)
  <2> TAKE n \in Nat
  <2>1. n + 1 \in Nat /\ n + 1 # 0 /\ (n + 1) - 1 = n
    OBVIOUS
  <2> QED BY ONLY <1>7, <2>1, Zenon
<1>13. WriteRounds(g, w, bits, count)
  BY ONLY <1>5, <1>6, <1>10, <1>11, <1>12, Zenon DEF WriteRounds, a
<1> QED BY ONLY <1>13, Zenon

LEMMA WriteBitsType ==
    ASSUME NEW count \in 0 .. 34, NEW bits \in Nat, NEW w \in Writers
    PROVE  WriteBits(w, bits, count) \in Writers
<1>1. PICK g : WriteRounds(g, w, bits, count)
  BY WriteBitsRounds, Zenon
<1>2. PICK n \in Nat : n = (w.bit_offset + count + 7) \div 8
  BY DEF Writers
<1>3. PICK s \in Writings(count) : s = g[n]
  BY <1>1 DEF WriteRounds
<1>4. WriteBits(w, bits, count) = s.w
  BY ONLY <1>1, <1>2, <1>3, Zenon DEF WriteRounds
<1> QED BY <1>4 DEF Writings

\* The width of a number.
LEMMA BitCountType ==
    ASSUME NEW n \in Nat \ {0}, n < 2^WordBits
    PROVE  /\ BitCount(n) \in 1 .. WordBits
           /\ 2^(BitCount(n) - 1) <= n /\ n < 2^BitCount(n)
<1>0. WordBits \in 8 .. 32
  BY WordBitsAssumption
<1> DEFINE T == {k \in 0 .. WordBits : n < 2^k}
<1>1. T \in SUBSET Nat /\ T # {}
  BY <1>0
<1>2. PICK k \in T : \A m \in T : k <= m
  <2> HIDE DEF T
  <2> QED BY <1>1, LeastElement
<1>3. k # 0
  <2>1. SUFFICES ASSUME k = 0 PROVE FALSE
    OBVIOUS
  <2>2. n < 2^k
    OBVIOUS
  <2>3. n < 1
    BY ONLY <2>1, <2>2, PowerZero, Zenon
  <2> QED BY <2>3
<1>4. k \in 1 .. WordBits /\ k - 1 \in 0 .. WordBits /\ ~(k <= k - 1) /\ k - 1 \in 0 .. 34
  BY <1>0, <1>3
<1>5. ~(n < 2^(k - 1))
  BY <1>2, <1>4
<1>6. PICK e \in Nat \ {0} : e = 2^(k - 1)
  BY ONLY <1>4, PowerPositive, Zenon
<1>7. e <= n
  <2>1. ~(n < e)
    BY ONLY <1>5, <1>6, Zenon
  <2> QED BY <2>1
<1>8. k \in 1 .. WordBits /\ 2^(k - 1) <= n /\ n < 2^k
  <2>1. n < 2^k
    OBVIOUS
  <2> QED BY ONLY <1>4, <1>6, <1>7, <2>1, Zenon
<1> QED BY ONLY <1>8, Zenon DEF BitCount

LEMMA WriteUeType ==
    ASSUME NEW w \in Writers, NEW num \in UeVals
    PROVE  WriteUe(w, num) \in Writers
<1>0. WordBits \in 8 .. 32
  BY WordBitsAssumption
<1>1. PICK m \in Nat \ {0} : m = 2^WordBits
  <2>1. WordBits \in 0 .. 34
    BY <1>0
  <2> QED BY ONLY <2>1, PowerPositive, Zenon
<1>2. num \in Nat /\ num + 1 < m
  BY ONLY <1>1, num \in UeVals, SMT DEF UeVals
<1>3. PICK n \in Nat \ {0} : n = num + 1 /\ n < m
  BY <1>2
<1>4. n % m = n
  BY <1>1, <1>3
<1>5. (num + 1) % 2^WordBits = n
  BY ONLY <1>1, <1>3, <1>4, Zenon
<1>6. PICK k \in 1 .. WordBits : k = BitCount(n)
  <2>1. n < 2^WordBits
    BY ONLY <1>1, <1>3, Zenon
  <2> QED BY ONLY <2>1, BitCountType, n \in Nat \ {0}, Zenon
<1>7. k - 1 \in 0 .. 34 /\ k \in 0 .. 34 /\ 0 \in Nat /\ n \in Nat
  BY <1>0
<1>8. WriteBits(w, 0, k - 1) \in Writers
  BY ONLY <1>7, WriteBitsType, w \in Writers, Zenon
<1>9. WriteBits(WriteBits(w, 0, k - 1), n, k) \in Writers
  BY ONLY <1>7, <1>8, WriteBitsType, Zenon
<1> QED BY ONLY <1>5, <1>6, <1>9, Zenon DEF WriteUe

\* What is written of a signed number is the number that was read.
LEMMA WriteSeAsUe ==
    ASSUME NEW w, NEW num \in SeVals
    PROVE  WriteSe(w, num) = WriteUe(w, CodeNum(num))
<1>0. WordBits \in 0 .. 34
  BY WordBitsAssumption
<1>1. PICK m \in Nat \ {0} : m = 2^WordBits
  BY ONLY <1>0, PowerPositive, Zenon
<1>2. PICK n \in Nat : n = CodeNum(num) /\ n + 1 < 2^WordBits
  BY DEF SeVals, UeVals
<1>3. n + 1 < m
  BY ONLY <1>1, <1>2, Zenon
<1>4. n % m = n
  BY <1>3
<1>5. n % 2^WordBits = n
  BY ONLY <1>1, <1>4, Zenon
<1> QED BY ONLY <1>2, <1>5, Zenon DEF WriteSe, CodeNum

LEMMA WriteSeType ==
    ASSUME NEW w \in Writers, NEW num \in SeVals
    PROVE  WriteSe(w, num) \in Writers
<1>1. CodeNum(num) \in UeVals
  BY DEF SeVals
<1> QED BY ONLY <1>1, WriteSeAsUe, WriteUeType, w \in Writers, num \in SeVals, Zenon

-----------------------------------------------------------------------------
(* Fields read and written.                                                *)

Descs == {u(n) : n \in 0 .. 32} \cup {ue, se}

Values(f) == IF f = ue THEN UeVals ELSE IF f = se THEN SeVals ELSE Nat

LEMMA DescCases ==
    ASSUME NEW f \in Descs
    PROVE  \/ f = ue /\ f.code = "ue"
           \/ f = se /\ f.code = "se" /\ f # ue
           \/ f # ue /\ f # se /\ f.code = "u" /\ f.n \in 0 .. 32
BY DEF Descs, u, ue, se

LEMMA ReadType ==
    ASSUME NEW buf \in Bytes, NEW r \in Readers(buf), r.ok, NEW f \in Descs
    PROVE  Read(r, f) \in [r : Readers(buf), val : Values(f)]
<1>1. CASE f = ue /\ f.code = "ue"
  <2>1. Read(r, f) = ReadUe(r)
    BY <1>1 DEF Read
  <2>2. ReadUe(r) \in [r : Readers(buf), val : UeVals]
    BY ReadUeType DEF UeVals
  <2> QED BY <1>1, <2>1, <2>2 DEF Values
<1>2. CASE f = se /\ f.code = "se" /\ f # ue
  <2>1. Read(r, f) = ReadSe(r)
    BY <1>2 DEF Read
  <2>2. ReadSe(r) \in [r : Readers(buf), val : SeVals]
    BY ReadSeType
  <2> QED BY <1>2, <2>1, <2>2 DEF Values
<1>3. CASE f # ue /\ f # se /\ f.code = "u" /\ f.n \in 0 .. 32
  <2>1. Read(r, f) = ReadBits(r, f.n)
    BY <1>3 DEF Read
  <2>2. f.n \in 0 .. 34
    BY <1>3
  <2>3. ReadBits(r, f.n) \in [r : Readers(buf), val : Nat]
    BY ONLY <2>2, ReadBitsType, buf \in Bytes, r \in Readers(buf), Zenon
  <2> QED BY <1>3, <2>1, <2>3 DEF Values
<1> QED BY <1>1, <1>2, <1>3, DescCases

LEMMA WrittenType ==
    ASSUME NEW w \in Writers, NEW f \in Descs, NEW v \in Values(f)
    PROVE  Written(w, f, v) \in Writers
<1>1. CASE f = ue /\ f.code = "ue"
  <2>1. Written(w, f, v) = WriteUe(w, v) /\ v \in UeVals
    BY <1>1 DEF Written, Values
  <2> QED BY <2>1, WriteUeType
<1>2. CASE f = se /\ f.code = "se" /\ f # ue
  <2>1. Written(w, f, v) = WriteSe(w, v) /\ v \in SeVals
    BY <1>2 DEF Written, Values
  <2> QED BY <2>1, WriteSeType
<1>3. CASE f # ue /\ f # se /\ f.code = "u" /\ f.n \in 0 .. 32
  <2>1. Written(w, f, v) = WriteBits(w, v, f.n) /\ v \in Nat /\ f.n \in 0 .. 34
    BY <1>3 DEF Written, Values
  <2> QED BY ONLY <2>1, WriteBitsType, w \in Writers, Zenon
<1> QED BY <1>1, <1>2, <1>3, DescCases

Cursors(buf) == [reader : Readers(buf), writer : Writers, vals : Seq(Int)]

LEMMA ValuesInt == ASSUME NEW f PROVE Values(f) \subseteq Int /\ (f # se => Values(f) \subseteq Nat)
BY DEF Values, UeVals, SeVals

\* The constants the rewriter writes fit in a word.
LEMMA SmallValues ==
    ASSUME NEW f, NEW n \in 0 .. 16
    PROVE  f # se \/ n = 0 => n \in Values(f)
<1>0. 8 \in Nat /\ WordBits \in Nat /\ 8 <= WordBits /\ WordBits <= 34 /\ WordBits \in 0 .. 34
  BY WordBitsAssumption
<1>1. PICK m \in Nat \ {0} : m = 2^WordBits
  BY ONLY <1>0, PowerPositive, Zenon
<1>2. 2^8 <= 2^WordBits
  BY ONLY <1>0, PowerMonotone, Zenon
<1>3. 2^8 = 256
  OBVIOUS
<1>4. 256 <= m
  BY ONLY <1>1, <1>2, <1>3, Zenon
<1>5. n + 1 < m /\ 0 + 1 < m
  BY <1>4
<1>6. n \in UeVals /\ 0 \in UeVals
  <2>1. n \in Nat /\ 0 \in Nat /\ n + 1 < 2^WordBits /\ 0 + 1 < 2^WordBits
    <3>1. n \in Nat /\ 0 \in Nat
      OBVIOUS
    <3> QED BY ONLY <1>1, <1>5, <3>1, Zenon
  <2> QED BY ONLY <2>1, Zenon DEF UeVals
<1>7. 0 \in SeVals
  BY <1>6 DEF SeVals, CodeNum
<1> QED BY <1>6, <1>7 DEF Values

LEMMA TransferFieldType ==
    ASSUME NEW buf \in Bytes, NEW c \in Cursors(buf), NEW f \in Descs, NEW keep \in BOOLEAN
    PROVE  /\ TransferField(c, f, keep) \in Cursors(buf)
           /\ \E v \in Values(f) : TransferField(c, f, keep).vals = Append(c.vals, v)
<1>1. PICK r \in Readers(buf), w \in Writers, vals \in Seq(Int) :
        c = [reader |-> r, writer |-> w, vals |-> vals]
  BY DEF Cursors
<1>2. CASE c.reader.ok
  <2>1. r.ok
    BY <1>1, <1>2
  <2>2. PICK x \in [r : Readers(buf), val : Values(f)] : x = Read(c.reader, f)
    BY <1>1, <2>1, ReadType
  <2>3. x.r \in Readers(buf) /\ x.val \in Values(f)
    BY <2>2
  <2>4. Written(w, f, x.val) \in Writers
    BY <2>3, WrittenType
  <2>5. TransferField(c, f, keep) = Moved(c, x, f, keep)
    BY <1>2, <2>2, Zenon DEF TransferField
  <2>6. PICK v \in Writers : v = (IF keep /\ x.r.ok THEN Written(c.writer, f, x.val) ELSE c.writer)
    BY <1>1, <2>4
  <2>7. Moved(c, x, f, keep) = [reader |-> x.r, writer |-> v, vals |-> Append(c.vals, x.val)]
    BY ONLY <2>6, Zenon DEF Moved
  <2>8. c.vals = vals /\ x.val \in Int
    BY <1>1, <2>3, ValuesInt
  <2> QED BY <2>3, <2>5, <2>7, <2>8 DEF Cursors
<1>3. CASE ~c.reader.ok
  <2>1. TransferField(c, f, keep) = [c EXCEPT !.vals = Append(@, 0)]
    BY <1>3 DEF TransferField
  <2>2. PICK y \in Seq(Int) : y = Append(c.vals, 0)
    <3>1. Append(vals, 0) \in Seq(Int) /\ c.vals = vals
      BY <1>1
    <3> QED BY ONLY <3>1, Zenon
  <2>3. [c EXCEPT !.vals = y] \in Cursors(buf) /\ [c EXCEPT !.vals = y].vals = y
    BY DEF Cursors
  <2>4. TransferField(c, f, keep) = [c EXCEPT !.vals = y]
    BY ONLY <2>1, <2>2, Zenon
  <2>5. TransferField(c, f, keep).vals = Append(c.vals, 0) /\ 0 \in Values(f)
    BY <2>2, <2>3, <2>4, SmallValues
  <2> QED BY <2>3, <2>4, <2>5
<1> QED BY <1>2, <1>3

\* The fields one after the other.
Transfers(g, buf, c, fields, keep) ==
    /\ g \in [0 .. Len(fields) -> Cursors(buf)]
    /\ g[0] = [c EXCEPT !.vals = <<>>]
    /\ \A i \in 1 .. Len(fields) : g[i] = TransferField(g[i - 1], fields[i], keep)
    /\ Transfer(c, fields, keep) = g[Len(fields)]

LEMMA TransferRounds ==
    ASSUME NEW buf \in Bytes, NEW c \in Cursors(buf), NEW fields \in Seq(Descs),
           NEW keep \in BOOLEAN
    PROVE  \E g : Transfers(g, buf, c, fields, keep)
<1> DEFINE N == Len(fields)
           a == [c EXCEPT !.vals = <<>>]
           f == [n \in Nat |-> [x \in Cursors(buf) |->
                    IF n + 1 \in 1 .. N THEN TransferField(x, fields[n + 1], keep) ELSE x]]
           h == CHOOSE h : h = [i \in 0 .. N |->
                    IF i = 0 THEN a ELSE TransferField(h[i - 1], fields[i], keep)]
<1>0. N \in Nat /\ \A i \in 1 .. N : fields[i] \in Descs
  OBVIOUS
<1>1. a \in Cursors(buf)
  <2>1. PICK y \in Seq(Int) : y = <<>>
    <3>1. <<>> \in Seq(Int)
      OBVIOUS
    <3> QED BY ONLY <3>1, Zenon
  <2>2. [c EXCEPT !.vals = y] \in Cursors(buf)
    BY DEF Cursors
  <2> QED BY ONLY <2>1, <2>2, Zenon
<1>2. f \in [Nat -> [Cursors(buf) -> Cursors(buf)]]
  BY <1>0, TransferFieldType
<1>3. \A i \in 1 .. N : \A x \in Cursors(buf) : f[i - 1][x] = TransferField(x, fields[i], keep)
  <2> SUFFICES ASSUME NEW i \in 1 .. N, NEW x \in Cursors(buf)
               PROVE  f[i - 1][x] = TransferField(x, fields[i], keep)
    OBVIOUS
  <2>1. i - 1 \in Nat /\ (i - 1) + 1 = i
    BY <1>0
  <2>2. PICK n \in Nat : n = i - 1 /\ n + 1 = i
    BY <2>1
  <2>3. f[n][x] = TransferField(x, fields[n + 1], keep)
    BY <2>2
  <2> QED BY ONLY <2>2, <2>3, Zenon
<1> HIDE DEF a, f
<1>4. PICK g : RecursOn(g, 0 .. N, 0, Cursors(buf), a, f)
  BY <1>0, <1>1, <1>2, RecursiveUpTo
<1>5. /\ g \in [0 .. N -> Cursors(buf)]
      /\ g = [n \in 0 .. N |-> IF n = 0 THEN a ELSE f[n - 1][g[n - 1]]]
  BY <1>4 DEF RecursOn
<1>6. g[0] = a
  BY <1>0, <1>5
<1> HIDE DEF N
<1>7. ASSUME NEW n \in 1 .. N PROVE g[n] = TransferField(g[n - 1], fields[n], keep)
  <2>1. n - 1 \in 0 .. N /\ n \in 0 .. N /\ n # 0
    BY <1>0
  <2>2. g[n] = f[n - 1][g[n - 1]]
    BY ONLY <1>5, <2>1, Zenon
  <2>3. g[n - 1] \in Cursors(buf)
    BY <1>5, <2>1
  <2> QED BY ONLY <1>3, <2>2, <2>3, n \in 1 .. N, Zenon
<1>8. g = [n \in 0 .. N |-> IF n = 0 THEN a ELSE TransferField(g[n - 1], fields[n], keep)]
  <2>1. \A n \in 0 .. N : n # 0 => n \in 1 .. N
    BY <1>0
  <2> QED BY <1>5, <1>6, <1>7, <2>1
<1>9. h = [n \in 0 .. N |-> IF n = 0 THEN a ELSE TransferField(h[n - 1], fields[n], keep)]
  BY <1>8
<1>10. Transfer(c, fields, keep) = h[N]
  BY Zenon DEF Transfer, a, N
<1> HIDE DEF h
<1>11. \A n \in 0 .. N : g[n] = h[n]
  <2> DEFINE T == {n \in 0 .. N : g[n] = h[n]}
  <2>1. 0 \in T
    BY <1>0, <1>8, <1>9
  <2>2. ASSUME NEW n \in 0 .. N, 0 < n, n - 1 \in T PROVE n \in T
    <3>1. n # 0 /\ g[n - 1] = h[n - 1]
      BY <2>2
    <3>2. g[n] = TransferField(g[n - 1], fields[n], keep)
      BY ONLY <1>8, <3>1, n \in 0 .. N, Zenon
    <3>3. h[n] = TransferField(h[n - 1], fields[n], keep)
      BY ONLY <1>9, <3>1, n \in 0 .. N, Zenon
    <3>4. g[n] = h[n]
      BY ONLY <3>1, <3>2, <3>3, Zenon
    <3> QED BY <3>4
  <2> HIDE DEF T
  <2>3. 0 \in Int /\ N \in Int /\ (0 <= N => 0 \in T)
    BY <1>0, <2>1
  <2>4. \A n \in 0 .. N : 0 < n /\ n - 1 \in T => n \in T
    BY <2>2, Zenon
  <2>5. 0 .. N \subseteq T
    BY ONLY <2>3, <2>4, IntervalInduction, Zenon
  <2> QED BY <2>5 DEF T
<1>12. N \in 0 .. N
  BY <1>0
<1>13. Transfers(g, buf, c, fields, keep)
  BY ONLY <1>5, <1>6, <1>7, <1>10, <1>11, <1>12, Zenon DEF Transfers, a, N
<1> QED BY ONLY <1>13, Zenon

LEMMA TransferType ==
    ASSUME NEW buf \in Bytes, NEW c \in Cursors(buf), NEW fields \in Seq(Descs),
           NEW keep \in BOOLEAN
    PROVE  /\ Transfer(c, fields, keep) \in Cursors(buf)
           /\ Len(Transfer(c, fields, keep).vals) = Len(fields)
           /\ \A i \in 1 .. Len(fields) : Transfer(c, fields, keep).vals[i] \in Values(fields[i])
<1>1. PICK g : Transfers(g, buf, c, fields, keep)
  BY TransferRounds, Zenon
<1> DEFINE N == Len(fields)
<1>2. /\ g \in [0 .. N -> Cursors(buf)]
      /\ g[0] = [c EXCEPT !.vals = <<>>]
      /\ \A i \in 1 .. N : g[i] = TransferField(g[i - 1], fields[i], keep)
      /\ Transfer(c, fields, keep) = g[N]
  BY <1>1 DEF Transfers
<1>0. N \in Nat /\ \A i \in 1 .. N : fields[i] \in Descs
  OBVIOUS
<1> DEFINE T == {n \in 0 .. N : /\ Len(g[n].vals) = n
                                /\ \A i \in 1 .. n : g[n].vals[i] \in Values(fields[i])}
<1> HIDE DEF N
<1>3. 0 \in T
  <2>1. g[0].vals = <<>>
    BY <1>2 DEF Cursors
  <2> QED BY <1>0, <2>1
<1>4. ASSUME NEW n \in 0 .. N, 0 < n, n - 1 \in T PROVE n \in T
  <2>1. n \in 1 .. N /\ n - 1 \in 0 .. N
    BY <1>0, <1>4
  <2>2. PICK x \in Cursors(buf) : x = g[n - 1]
    BY <1>2, <2>1
  <2>3. PICK v \in Values(fields[n]) : TransferField(x, fields[n], keep).vals = Append(x.vals, v)
    BY <1>0, <2>1, TransferFieldType
  <2>0. v \in Int
    BY ValuesInt
  <2>4. g[n].vals = Append(x.vals, v)
    BY <1>2, <2>1, <2>2, <2>3
  <2>5. PICK s \in Seq(Int) : s = x.vals
    BY DEF Cursors
  <2>6. Len(s) = n - 1 /\ \A i \in 1 .. n - 1 : s[i] \in Values(fields[i])
    BY <1>4, <2>2, <2>5
  <2>7. PICK t : t = Append(s, v)
    OBVIOUS
  <2>8. Len(t) = n /\ \A i \in 1 .. n : t[i] \in Values(fields[i])
    <3>1. Len(t) = n /\ t[n] = v /\ \A i \in 1 .. n - 1 : t[i] = s[i]
      BY <2>0, <2>1, <2>6, <2>7
    <3>2. ASSUME NEW i \in 1 .. n PROVE t[i] \in Values(fields[i])
      <4>1. CASE i = n
        BY <2>3, <3>1, <4>1
      <4>2. CASE i # n
        <5>1. i \in 1 .. n - 1
          BY <2>1, <4>2
        <5> QED BY ONLY <2>6, <3>1, <5>1, Zenon
      <4> QED BY <4>1, <4>2
    <3> QED BY <3>1, <3>2
  <2>9. g[n].vals = t
    BY ONLY <2>4, <2>5, <2>7, Zenon
  <2> QED BY <2>8, <2>9
<1> HIDE DEF T
<1>5. 0 \in Int /\ N \in Int /\ (0 <= N => 0 \in T)
  BY <1>0, <1>3
<1>6. \A n \in 0 .. N : 0 < n /\ n - 1 \in T => n \in T
  BY <1>4, Zenon
<1>7. 0 .. N \subseteq T
  BY ONLY <1>5, <1>6, IntervalInduction, Zenon
<1>8. N \in 0 .. N
  BY <1>0
<1>9. N \in T /\ g[N] \in Cursors(buf)
  BY <1>2, <1>7, <1>8
<1> QED BY <1>2, <1>9 DEF T, N

LEMMA CopyType ==
    ASSUME NEW buf \in Bytes, NEW c \in Cursors(buf), NEW fields \in Seq(Descs)
    PROVE  /\ Copy(c, fields) \in Cursors(buf) /\ Skip(c, fields) \in Cursors(buf)
           /\ CopyIf(c, fields) \in Cursors(buf) /\ SkipIf(c, fields) \in Cursors(buf)
           /\ fields # <<>> => LastOf(Copy(c, fields)) \in Values(fields[Len(fields)])
<1>1. Copy(c, fields) \in Cursors(buf) /\ Skip(c, fields) \in Cursors(buf)
  BY TransferType DEF Copy, Skip
<1>2. CopyIf(c, fields) \in Cursors(buf) /\ SkipIf(c, fields) \in Cursors(buf)
  BY <1>1 DEF CopyIf, SkipIf
<1>3. ASSUME fields # <<>> PROVE LastOf(Copy(c, fields)) \in Values(fields[Len(fields)])
  <2>1. Len(fields) \in 1 .. Len(fields)
    BY <1>3
  <2> QED BY ONLY <2>1, TransferType, buf \in Bytes, c \in Cursors(buf), fields \in Seq(Descs),
                Zenon DEF Copy, LastOf
<1> QED BY <1>1, <1>2, <1>3

LEMMA PutType ==
    ASSUME NEW buf \in Bytes, NEW c \in Cursors(buf), NEW f \in Descs, NEW v \in Values(f)
    PROVE  Put(c, f, v) \in Cursors(buf)
<1>1. c.writer \in Writers
  BY DEF Cursors
<1>2. PICK w \in Writers : w = Written(c.writer, f, v)
  BY <1>1, WrittenType
<1>3. [c EXCEPT !.writer = w] \in Cursors(buf)
  BY DEF Cursors
<1> QED BY ONLY <1>2, <1>3, Zenon DEF Put

LEMMA DescsHere ==
    /\ ue \in Descs /\ se \in Descs /\ \A n \in 0 .. 32 : u(n) \in Descs /\ u(n) # ue /\ u(n) # se
    /\ ue # se /\ Values(ue) = UeVals
BY DEF Descs, u, ue, se, Values

LEMMA RepeatType ==
    ASSUME NEW S, NEW x \in S, NEW n \in Nat
    PROVE  Repeat(n, x) \in Seq(S) /\ Len(Repeat(n, x)) = n /\ \A i \in 1 .. n : Repeat(n, x)[i] = x
BY DEF Repeat

\* Where the two ends start.
LEMMA Started ==
    /\ \A buf \in Bytes : NewReader(buf) \in Readers(buf) /\ NewReader(buf).buffer = buf
    /\ NewWriter \in Writers /\ <<>> \in Bytes
<1>1. <<>> \in Bytes
  BY DEF Bytes
<1>2. ASSUME NEW buf \in Bytes PROVE NewReader(buf) \in Readers(buf) /\ NewReader(buf).buffer = buf
  BY DEF Readers, NewReader, Bytes
<1>3. NewWriter \in Writers
  <2>1. NoEmulation(<<>>)
    BY DEF NoEmulation
  <2>2. 2^8 = 256 /\ 8 - 0 = 8 /\ 0 + 256 <= 256
    OBVIOUS
  <2>3. PICK x : x = [arr |-> <<>>, pending_byte |-> 0, bit_offset |-> 0]
    OBVIOUS
  <2>4. x \in [arr : Bytes, pending_byte : Byte, bit_offset : 0 .. 7]
    BY <1>1, <2>3 DEF Byte
  <2>5. x.arr = <<>> /\ x.pending_byte = 0 /\ x.bit_offset = 0
    BY <2>3
  <2>6. x.pending_byte + 2^(8 - x.bit_offset) <= 256
    BY ONLY <2>2, <2>5, Zenon
  <2>7. x \in Writers
    BY ONLY <2>1, <2>4, <2>5, <2>6, Zenon DEF Writers
  <2> QED BY ONLY <2>3, <2>7, Zenon DEF NewWriter
<1> QED BY <1>1, <1>2, <1>3

-----------------------------------------------------------------------------
(* Numbers in bits.                                                        *)

\* V[j] is the number that the first j bits are.
IsValue(V, bits) ==
    /\ V \in [0 .. Len(bits) -> Nat] /\ V[0] = 0
    /\ \A j \in 1 .. Len(bits) : V[j] = 2 * V[j - 1] + bits[j]

\* The number that the bits behind the first a and up to b are.
Val(V, a, b) == V[b] - 2^(b - a) * V[a]

LEMMA ValueExists ==
    ASSUME NEW bits \in Seq({0, 1})
    PROVE  \E V : IsValue(V, bits)
<1> DEFINE f == [i \in Nat |-> [x \in Nat |-> IF i + 1 \in 1 .. Len(bits) THEN 2 * x + bits[i + 1] ELSE x]]
<1>1. Len(bits) \in Nat /\ \A j \in 1 .. Len(bits) : bits[j] \in {0, 1}
  OBVIOUS
<1>2. f \in [Nat -> [Nat -> Nat]]
  BY <1>1
<1>3. PICK V : RecursOn(V, 0 .. Len(bits), 0, Nat, 0, f)
  <2> HIDE DEF f
  <2>1. 0 \in Nat
    OBVIOUS
  <2> QED BY ONLY <1>1, <1>2, <2>1, RecursiveUpTo, Zenon
<1>4. V \in [0 .. Len(bits) -> Nat] /\ V = [j \in 0 .. Len(bits) |-> IF j = 0 THEN 0 ELSE f[j - 1][V[j - 1]]]
  BY <1>3 DEF RecursOn
<1>5. V[0] = 0
  BY <1>1, <1>4
<1>6. ASSUME NEW j \in 1 .. Len(bits) PROVE V[j] = 2 * V[j - 1] + bits[j]
  <2>1. j \in 0 .. Len(bits) /\ j - 1 \in 0 .. Len(bits) /\ j # 0 /\ j - 1 \in Nat /\ (j - 1) + 1 = j
    BY <1>1
  <2>2. V[j - 1] \in Nat
    BY <1>4, <2>1
  <2>3. V[j] = f[j - 1][V[j - 1]]
    BY ONLY <1>4, <2>1, Zenon
  <2> QED BY <2>1, <2>2, <2>3
<1> QED BY ONLY <1>4, <1>5, <1>6, Zenon DEF IsValue

LEMMA ValSame ==
    ASSUME NEW bits \in Seq({0, 1}), NEW V, IsValue(V, bits), NEW a \in 0 .. Len(bits)
    PROVE  Val(V, a, a) = 0
<1>1. V[a] \in Nat
  BY DEF IsValue
<1>2. PICK e : e = 2^(a - a) /\ e = 1
  <2>1. a - a = 0
    OBVIOUS
  <2> QED BY <2>1, PowerZero
<1>3. V[a] - 1 * V[a] = 0
  BY <1>1
<1> QED BY ONLY <1>2, <1>3, Zenon DEF Val

LEMMA ValNext ==
    ASSUME NEW bits \in Seq({0, 1}), NEW V, IsValue(V, bits), NEW a \in 0 .. Len(bits),
           NEW b \in 0 .. Len(bits) - 1, a <= b, b - a <= 33
    PROVE  Val(V, a, b + 1) = 2 * Val(V, a, b) + bits[b + 1] /\ Val(V, a, b) \in Int
<1>1. b + 1 \in 1 .. Len(bits) /\ (b + 1) - 1 = b /\ b \in 0 .. Len(bits)
  OBVIOUS
<1>2. V[b + 1] = 2 * V[b] + bits[b + 1] /\ V[a] \in Nat /\ V[b] \in Nat
  BY <1>1 DEF IsValue
<1>3. bits[b + 1] \in {0, 1}
  BY <1>1
<1>4. PICK k \in 0 .. 33 : k = b - a /\ (b + 1) - a = k + 1
  OBVIOUS
<1>5. PICK e \in Nat, d \in Nat : e = 2^k /\ d = 2^(k + 1) /\ d = 2 * e
  BY PowerStep, Zenon
<1>6. PICK x \in Nat, y \in Nat, z \in Nat, c \in {0, 1} : x = V[a] /\ y = V[b] /\ z = V[b + 1] /\ c = bits[b + 1]
  BY <1>2, <1>3
<1>7. z - d * x = 2 * (y - e * x) + c /\ y - e * x \in Int
  <2>1. z = 2 * y + c
    BY ONLY <1>2, <1>6, Zenon
  <2>2. d * x = 2 * (e * x)
    BY <1>5
  <2>3. PICK p \in Nat : p = e * x /\ d * x = 2 * p
    BY <2>2
  <2>4. z - 2 * p = 2 * (y - p) + c /\ y - p \in Int
    BY <2>1
  <2> QED BY ONLY <2>3, <2>4, Zenon
<1>8. Val(V, a, b + 1) = z - d * x /\ Val(V, a, b) = y - e * x
  BY ONLY <1>4, <1>5, <1>6, Zenon DEF Val
<1> QED BY ONLY <1>6, <1>7, <1>8, Zenon

LEMMA ValRange ==
    ASSUME NEW bits \in Seq({0, 1}), NEW V, IsValue(V, bits), NEW a \in 0 .. Len(bits),
           NEW b \in a .. Len(bits), b - a <= 34
    PROVE  Val(V, a, b) \in Nat /\ Val(V, a, b) < 2^(b - a)
<1> DEFINE T == {c \in a .. b : Val(V, a, c) \in Nat /\ Val(V, a, c) < 2^(c - a)}
<1>1. a \in T
  <2>1. Val(V, a, a) = 0
    BY ValSame
  <2>2. 2^(a - a) = 1
    <3>1. a - a = 0
      OBVIOUS
    <3> QED BY <3>1, PowerZero
  <2>3. a \in a .. b /\ 0 \in Nat /\ 0 < 1
    OBVIOUS
  <2> QED BY ONLY <2>1, <2>2, <2>3, Zenon
<1>2. ASSUME NEW c \in a .. b, a < c, c - 1 \in T PROVE c \in T
  <2>1. PICK k \in 0 .. 33 : k = (c - 1) - a /\ k + 1 = c - a
    BY <1>2
  <2>2. /\ c - 1 \in 0 .. Len(bits) - 1 /\ a <= c - 1 /\ (c - 1) - a <= 33 /\ (c - 1) + 1 = c
    BY <1>2
  <2>3. Val(V, a, c) = 2 * Val(V, a, c - 1) + bits[c]
    BY ONLY bits \in Seq({0, 1}), IsValue(V, bits), a \in 0 .. Len(bits), <2>2, ValNext, Zenon
  <2>4. PICK e \in Nat, d \in Nat : e = 2^k /\ d = 2^(k + 1) /\ d = 2 * e
    BY PowerStep, Zenon
  <2>5. PICK x \in Nat : x = Val(V, a, c - 1) /\ x < e
    BY ONLY <1>2, <2>1, <2>4, Zenon
  <2>6. PICK q \in {0, 1} : q = bits[c]
    BY <2>2
  <2>7. 2 * x + q \in Nat /\ 2 * x + q < d
    BY <2>4, <2>5
  <2> QED BY ONLY <1>2, <2>1, <2>3, <2>4, <2>5, <2>6, <2>7, Zenon
<1> HIDE DEF T
<1>3. a \in Int /\ b \in Int /\ (a <= b => a \in T)
  BY <1>1
<1>4. a .. b \subseteq T
  BY ONLY <1>2, <1>3, IntervalInduction, Zenon
<1>5. b \in T
  BY <1>4
<1> QED BY <1>5 DEF T

LEMMA ValJoin ==
    ASSUME NEW bits \in Seq({0, 1}), NEW V, IsValue(V, bits), NEW a \in 0 .. Len(bits),
           NEW b \in a .. Len(bits), NEW c \in b .. Len(bits), c - a <= 34
    PROVE  Val(V, a, c) = Val(V, a, b) * 2^(c - b) + Val(V, b, c)
<1>1. PICK m \in Nat, n \in Nat : m = b - a /\ n = c - b /\ m + n = c - a /\ m + n <= 34
  OBVIOUS
<1>2. PICK x \in Nat, y \in Nat, z \in Nat : x = V[a] /\ y = V[b] /\ z = V[c]
  <2>1. a \in 0 .. Len(bits) /\ b \in 0 .. Len(bits) /\ c \in 0 .. Len(bits)
    OBVIOUS
  <2>2. V \in [0 .. Len(bits) -> Nat]
    BY ONLY IsValue(V, bits), Zenon DEF IsValue
  <2> QED BY ONLY <2>1, <2>2, Zenon
<1>3. m \in 0 .. 34 /\ n \in 0 .. 34
  BY <1>1
<1>4. PICK d \in Nat, e \in Nat : d = 2^m /\ e = 2^n /\ 2^(m + n) = d * e
  <2>1. 2^m \in Nat /\ 2^n \in Nat
    BY ONLY <1>3, PowerPositive, Zenon
  <2>2. 2^(m + n) = 2^m * 2^n
    BY ONLY <1>1, PowerSum, Zenon
  <2> QED BY ONLY <2>1, <2>2, Zenon
<1>5. z - (d * e) * x = (y - d * x) * e + (z - e * y)
  OBVIOUS
<1>6. Val(V, a, c) = z - (d * e) * x /\ Val(V, a, b) = y - d * x /\ Val(V, b, c) = z - e * y
  BY ONLY <1>1, <1>2, <1>4, Zenon DEF Val
<1> QED BY ONLY <1>1, <1>4, <1>5, <1>6, Zenon

\* Euclid's division, from its result.
LEMMA Divided ==
    ASSUME NEW x \in Int, NEW e \in Nat \ {0}, NEW y \in 0 .. e - 1, NEW z \in Int, z = x * e + y
    PROVE  z \div e = x /\ z % e = y
<1>1. z % e = y
  <2>1. z = e * x + y
    OBVIOUS
  <2> QED BY ONLY <2>1, Remainder, e \in Nat \ {0}, x \in Int, y \in 0 .. e - 1, z \in Int, Zenon
<1>2. z \div e \in Int /\ z = e * (z \div e) + (z % e)
  BY DivMod
<1>3. PICK q \in Int : q = z \div e
  BY <1>2
<1>4. e * q = e * x
  BY <1>1, <1>2, <1>3
<1>5. e * (q - x) = 0 /\ q - x \in Int
  BY <1>4
<1>6. q - x = 0
  <2>1. -e < 0 /\ 0 < e /\ 0 \in Int
    OBVIOUS
  <2> QED BY ONLY <1>5, <2>1, SmallMultiple, e \in Nat \ {0}, Zenon
<1> QED BY <1>1, <1>3, <1>6

-----------------------------------------------------------------------------
(* Bits in bytes, and bytes escaped.                                       *)

LEMMA ByteOfVal ==
    ASSUME NEW bits \in Seq({0, 1}), NEW V, IsValue(V, bits), NEW i \in Nat \ {0}, 8 * i <= Len(bits)
    PROVE  ByteOf(bits, i) = Val(V, 8 * (i - 1), 8 * i) /\ ByteOf(bits, i) \in Byte
<1> DEFINE a == 8 * (i - 1)
           h == [k \in 0 .. 8 |-> Val(V, a, a + k)]
           r == CHOOSE g : g = [k \in 0 .. 8 |-> IF k = 0 THEN 0 ELSE 2 * g[k - 1] + bits[a + k]]
<1>1. a \in 0 .. Len(bits) /\ a + 8 = 8 * i /\ a \in Nat
  OBVIOUS
<1>2. ASSUME NEW k \in 0 .. 8 PROVE h[k] = IF k = 0 THEN 0 ELSE 2 * h[k - 1] + bits[a + k]
  <2> HIDE DEF a
  <2>1. CASE k = 0
    <3>1. Val(V, a, a) = 0 /\ a + 0 = a /\ 0 \in 0 .. 8
      BY <1>1, ValSame
    <3> QED BY ONLY <2>1, <3>1, Zenon
  <2>2. CASE k # 0
    <3>1. PICK b \in 0 .. Len(bits) - 1 : b = a + (k - 1) /\ a <= b /\ b - a <= 33 /\ b + 1 = a + k
      BY <1>1, <2>2
    <3>2. Val(V, a, b + 1) = 2 * Val(V, a, b) + bits[b + 1]
      BY ONLY <1>1, <3>1, ValNext, bits \in Seq({0, 1}), IsValue(V, bits), Zenon
    <3>3. k - 1 \in 0 .. 8
      BY <2>2
    <3> QED BY ONLY <2>2, <3>1, <3>2, <3>3, Zenon
  <2> QED BY <2>1, <2>2
<1> HIDE DEF a
<1>3. h = [k \in 0 .. 8 |-> IF k = 0 THEN 0 ELSE 2 * h[k - 1] + bits[a + k]]
  BY <1>2
<1> HIDE DEF h
<1>4. r = [k \in 0 .. 8 |-> IF k = 0 THEN 0 ELSE 2 * r[k - 1] + bits[a + k]]
  BY <1>3
<1>5. ByteOf(bits, i) = r[8]
  BY Zenon DEF ByteOf, a
<1> HIDE DEF r
<1>6. \A k \in 0 .. 8 : r[k] = h[k]
  <2> DEFINE T == {k \in 0 .. 8 : r[k] = h[k]}
  <2>1. 0 \in T
    BY <1>3, <1>4
  <2>2. ASSUME NEW k \in 0 .. 8, 0 < k, k - 1 \in T PROVE k \in T
    <3>1. k # 0 /\ r[k - 1] = h[k - 1]
      BY <2>2
    <3> QED BY ONLY <1>3, <1>4, <3>1, Zenon
  <2> HIDE DEF T
  <2>3. 0 \in Int /\ 8 \in Int /\ (0 <= 8 => 0 \in T)
    BY <2>1
  <2>4. 0 .. 8 \subseteq T
    BY ONLY <2>2, <2>3, IntervalInduction, Zenon
  <2> QED BY <2>4 DEF T
<1>7. ByteOf(bits, i) = Val(V, a, a + 8)
  BY <1>5, <1>6 DEF h
<1>8. ByteOf(bits, i) = Val(V, a, 8 * i)
  BY ONLY <1>1, <1>7, Zenon
<1>9. 8 * i \in a .. Len(bits) /\ 8 * i - a <= 34 /\ 8 * i - a = 8
  BY <1>1
<1>10. Val(V, a, 8 * i) \in Nat /\ Val(V, a, 8 * i) < 2^8
  BY ONLY <1>1, <1>9, ValRange, bits \in Seq({0, 1}), IsValue(V, bits), Zenon
<1>11. PICK x \in Nat : x = Val(V, a, 8 * i) /\ x < 256
  <2>1. 2^8 = 256
    OBVIOUS
  <2> QED BY ONLY <1>10, <2>1, Zenon
<1>12. x \in Byte
  <2>1. x \in Nat /\ x < 256
    BY ONLY <1>11, Zenon
  <2> QED BY ONLY <2>1 DEF Byte
<1> QED BY ONLY <1>8, <1>11, <1>12, Zenon DEF a

LEMMA ZerosBehind ==
    ASSUME NEW b \in Bytes
    PROVE  IsSuffix(<<0, 0>>, b) <=> Len(b) >= 2 /\ b[Len(b) - 1] = 0 /\ b[Len(b)] = 0
<1> DEFINE z == <<0, 0>>
<1>1. Reverse(z) = <<0, 0>>
  BY DEF Reverse
<1>2. PICK n \in Nat : n = Len(b)
  BY DEF Bytes
<1>3. PICK c : c = Reverse(b)
  OBVIOUS
<1>4. c = [i \in 1 .. n |-> b[(n - i) + 1]]
  BY <1>2, <1>3 DEF Reverse
<1>5. Len(c) = n
  BY <1>4
<1>6. IsSuffix(z, b) <=> Len(z) <= n /\ SubSeq(z, 1, Len(z)) = SubSeq(c, 1, Len(z))
  BY ONLY <1>1, <1>3, <1>5, Zenon DEF IsSuffix, IsPrefix
<1>7. Len(z) = 2 /\ SubSeq(z, 1, 2) = <<0, 0>>
  <2>1. z \in Seq({0})
    OBVIOUS
  <2>2. PICK y \in Seq({0}) : y = z /\ Len(y) = 2
    BY <2>1
  <2>3. SubSeq(y, 1, Len(y)) = y
    OBVIOUS
  <2> QED BY ONLY <2>2, <2>3, Zenon
<1>8. CASE n >= 2
  <2>1. c[1] = b[n] /\ c[2] = b[n - 1]
    BY <1>4, <1>8
  <2>2. SubSeq(c, 1, 2) = <<c[1], c[2]>>
    <3>1. c \in Seq(Byte)
      <4>1. \A i \in 1 .. n : (n - i) + 1 \in 1 .. n /\ b[(n - i) + 1] \in Byte
        BY <1>2 DEF Bytes
      <4>2. c \in [1 .. n -> Byte]
        BY ONLY <1>4, <4>1, Zenon
      <4>3. \A m \in Nat : \A q \in [1 .. m -> Byte] : q \in Seq(Byte)
        OBVIOUS
      <4> QED BY ONLY <4>2, <4>3, n \in Nat, Zenon
    <3>2. PICK s \in Seq(Byte) : s = c /\ Len(s) >= 2
      BY <1>5, <1>8, <3>1
    <3>3. SubSeq(s, 1, 2) = <<s[1], s[2]>>
      <4>1. PICK d : d = SubSeq(s, 1, 2)
        OBVIOUS
      <4>2. 1 \in Nat /\ 1 >= 1 /\ 2 \in Nat /\ 2 <= Len(s) /\ 1 <= 2 + 1
        BY <3>2
      <4>3. IsPart(Byte, d, s, 1, 2)
        BY ONLY <4>1, <4>2, s \in Seq(Byte), SubSeqAt, Zenon
      <4>4. d \in Seq(Byte) /\ Len(d) = 2 /\ d[1] = s[1] /\ d[2] = s[2]
        BY <4>3 DEF IsPart
      <4>5. d = <<s[1], s[2]>>
        BY <4>4
      <4> QED BY ONLY <4>1, <4>5, Zenon
    <3> QED BY ONLY <3>2, <3>3, Zenon
  <2>3. SubSeq(z, 1, Len(z)) = SubSeq(c, 1, Len(z)) <=> c[1] = 0 /\ c[2] = 0
    BY ONLY <1>7, <2>2
  <2> QED BY ONLY <1>2, <1>6, <1>7, <1>8, <2>1, <2>3, Zenon
<1>9. CASE ~(n >= 2)
  BY <1>2, <1>6, <1>7, <1>9
<1> QED BY <1>8, <1>9

\* The bytes b behind those of x.
Behind(x, b) == x \o (IF b <= 3 /\ IsSuffix(<<0, 0>>, x) THEN <<3>> ELSE <<>>) \o <<b>>

LEMMA BehindType ==
    ASSUME NEW x \in Bytes, NEW b \in Byte
    PROVE  /\ Behind(x, b) \in Bytes
           /\ \E n \in {Len(x) + 1, Len(x) + 2} :
                /\ Len(Behind(x, b)) = n /\ Behind(x, b)[n] = b
                /\ n = Len(x) + 2 <=> b <= 3 /\ Len(x) >= 2 /\ x[Len(x) - 1] = 0 /\ x[Len(x)] = 0
                /\ n = Len(x) + 2 => Behind(x, b)[Len(x) + 1] = 3
           /\ \A i \in 1 .. Len(x) : Behind(x, b)[i] = x[i]
<1>1. x \in Seq(Byte) /\ 3 \in Byte /\ Len(x) \in Nat
  BY DEF Bytes, Byte
<1>2. CASE b <= 3 /\ IsSuffix(<<0, 0>>, x)
  <2>1. PICK y : y = x \o <<3>> \o <<b>>
    OBVIOUS
  <2>2. /\ y \in Seq(Byte) /\ Len(y) = Len(x) + 2 /\ y[Len(x) + 1] = 3 /\ y[Len(x) + 2] = b
        /\ \A i \in 1 .. Len(x) : y[i] = x[i]
    BY <1>1, <2>1
  <2>3. Behind(x, b) = y
    BY ONLY <1>2, <2>1, Zenon DEF Behind
  <2>4. b <= 3 /\ Len(x) >= 2 /\ x[Len(x) - 1] = 0 /\ x[Len(x)] = 0
    BY ONLY <1>2, ZerosBehind, x \in Bytes, Zenon
  <2> QED BY ONLY <2>2, <2>3, <2>4, Zenon DEF Bytes
<1>3. CASE ~(b <= 3 /\ IsSuffix(<<0, 0>>, x))
  <2>1. PICK y : y = x \o <<>> \o <<b>>
    OBVIOUS
  <2>2. /\ y \in Seq(Byte) /\ Len(y) = Len(x) + 1 /\ y[Len(x) + 1] = b
        /\ \A i \in 1 .. Len(x) : y[i] = x[i]
    BY <1>1, <2>1
  <2>3. Behind(x, b) = y
    BY ONLY <1>3, <2>1, Zenon DEF Behind
  <2>4. ~(b <= 3 /\ Len(x) >= 2 /\ x[Len(x) - 1] = 0 /\ x[Len(x)] = 0)
    BY ONLY <1>3, ZerosBehind, x \in Bytes, Zenon
  <2>5. Len(x) + 1 # Len(x) + 2
    BY <1>1
  <2> QED BY ONLY <2>2, <2>3, <2>4, <2>5, Zenon DEF Bytes
<1> QED BY <1>2, <1>3

\* U[i] are the first i bytes of y, escaped.
IsEscaping(U, y) ==
    /\ U \in [0 .. Len(y) -> Bytes] /\ U[0] = <<>>
    /\ \A i \in 1 .. Len(y) : U[i] = Behind(U[i - 1], y[i])

LEMMA EscapingExists ==
    ASSUME NEW y \in Bytes
    PROVE  \E U : IsEscaping(U, y) /\ Escaped(y) = U[Len(y)]
<1> DEFINE f == [i \in Nat |-> [x \in Bytes |-> IF i + 1 \in 1 .. Len(y) THEN Behind(x, y[i + 1]) ELSE x]]
           r == CHOOSE g : g = [i \in 0 .. Len(y) |->
                    IF i = 0 THEN <<>>
                    ELSE LET before == g[i - 1]
                             escape == y[i] <= 3 /\ IsSuffix(<<0, 0>>, before)
                         IN before \o (IF escape THEN <<3>> ELSE <<>>) \o <<y[i]>>]
<1>1. Len(y) \in Nat /\ (\A i \in 1 .. Len(y) : y[i] \in Byte) /\ <<>> \in Bytes
  BY DEF Bytes
<1>2. f \in [Nat -> [Bytes -> Bytes]]
  <2>1. \A i \in 1 .. Len(y), x \in Bytes : Behind(x, y[i]) \in Bytes
    BY <1>1, BehindType
  <2> QED BY <2>1
<1>3. PICK V : RecursOn(V, 0 .. Len(y), 0, Bytes, <<>>, f)
  <2> HIDE DEF f
  <2> QED BY ONLY <1>1, <1>2, RecursiveUpTo, Zenon
<1>4. V \in [0 .. Len(y) -> Bytes] /\ V = [j \in 0 .. Len(y) |-> IF j = 0 THEN <<>> ELSE f[j - 1][V[j - 1]]]
  BY <1>3 DEF RecursOn
<1>5. ASSUME NEW j \in 0 .. Len(y) PROVE V[j] = IF j = 0 THEN <<>> ELSE Behind(V[j - 1], y[j])
  <2>1. CASE j = 0
    BY <1>4, <2>1
  <2>2. CASE j # 0
    <3>1. j - 1 \in 0 .. Len(y) /\ j - 1 \in Nat /\ (j - 1) + 1 = j /\ j \in 1 .. Len(y)
      BY <1>1, <2>2
    <3>2. V[j] = f[j - 1][V[j - 1]] /\ V[j - 1] \in Bytes
      BY ONLY <1>4, <2>2, <3>1, Zenon
    <3>3. f[j - 1][V[j - 1]] = Behind(V[j - 1], y[j])
      BY ONLY <3>1, <3>2, Zenon DEF f
    <3> QED BY ONLY <2>2, <3>2, <3>3, Zenon
  <2> QED BY <2>1, <2>2
<1> HIDE DEF f
<1>6. V = [i \in 0 .. Len(y) |-> IF i = 0 THEN <<>> ELSE Behind(V[i - 1], y[i])]
  BY ONLY <1>4, <1>5, Zenon
<1>7. r = [i \in 0 .. Len(y) |-> IF i = 0 THEN <<>> ELSE Behind(r[i - 1], y[i])]
  BY ONLY <1>6, Zenon DEF Behind
<1>8. Escaped(y) = r[Len(y)]
  BY Zenon DEF Escaped
<1> HIDE DEF r
<1>9. \A i \in 0 .. Len(y) : r[i] = V[i]
  <2> DEFINE T == {i \in 0 .. Len(y) : r[i] = V[i]}
  <2>1. 0 \in T
    BY <1>1, <1>6, <1>7
  <2>2. ASSUME NEW i \in 0 .. Len(y), 0 < i, i - 1 \in T PROVE i \in T
    <3>1. i # 0 /\ r[i - 1] = V[i - 1]
      BY <2>2
    <3> QED BY ONLY <1>6, <1>7, <3>1, Zenon
  <2> HIDE DEF T
  <2>3. 0 \in Int /\ Len(y) \in Int /\ (0 <= Len(y) => 0 \in T)
    BY <1>1, <2>1
  <2>4. 0 .. Len(y) \subseteq T
    BY ONLY <2>2, <2>3, IntervalInduction, Zenon
  <2> QED BY <2>4 DEF T
<1>10. V[0] = <<>> /\ \A i \in 1 .. Len(y) : V[i] = Behind(V[i - 1], y[i])
  <2>1. 0 \in 0 .. Len(y) /\ \A i \in 1 .. Len(y) : i \in 0 .. Len(y) /\ i # 0
    BY <1>1
  <2> QED BY ONLY <1>5, <2>1, Zenon
<1>11. Escaped(y) = V[Len(y)]
  BY <1>1, <1>8, <1>9
<1>12. IsEscaping(V, y)
  BY ONLY <1>4, <1>10, Zenon DEF IsEscaping
<1> QED BY ONLY <1>11, <1>12, Zenon

(* A unit: the header y[1], and the bits of its body in the bytes behind;   *)
(* U[i] are the first i bytes, escaped.                                    *)
Coded(bits, V, y, U, m) ==
    /\ m \in Nat /\ bits \in Seq({0, 1}) /\ Len(bits) = 8 * m /\ IsValue(V, bits)
    /\ y \in Bytes /\ Len(y) = m + 1 /\ y[1] > 3 /\ IsEscaping(U, y)
    /\ \A i \in 1 .. m : y[i + 1] = Val(V, 8 * (i - 1), 8 * i)

\* What one more byte does.
Longer(U, y, i) ==
    \E n \in Nat : \E l \in Nat :
        /\ n = Len(U[i]) /\ l = Len(U[i + 1]) /\ l \in {n + 1, n + 2} /\ U[i + 1][l] = y[i + 1]
        /\ l = n + 2 <=> y[i + 1] <= 3 /\ n >= 2 /\ U[i][n - 1] = 0 /\ U[i][n] = 0
        /\ l = n + 2 => U[i + 1][n + 1] = 3
        /\ \A k \in 1 .. n : U[i + 1][k] = U[i][k]

LEMMA EscapedLonger ==
    ASSUME NEW y \in Bytes, NEW U, IsEscaping(U, y)
    PROVE  \A i \in 0 .. Len(y) - 1 : Longer(U, y, i) /\ U[i] \in Bytes /\ U[i + 1] \in Bytes
<1> SUFFICES ASSUME NEW i \in 0 .. Len(y) - 1 PROVE Longer(U, y, i) /\ U[i] \in Bytes /\ U[i + 1] \in Bytes
  OBVIOUS
<1>1. i \in 0 .. Len(y) /\ i + 1 \in 0 .. Len(y) /\ i + 1 \in 1 .. Len(y) /\ (i + 1) - 1 = i
  BY DEF Bytes
<1>2. PICK x \in Bytes, z \in Bytes, b \in Byte : x = U[i] /\ z = U[i + 1] /\ b = y[i + 1]
  <2>1. U[i] \in Bytes /\ U[i + 1] \in Bytes
    BY <1>1 DEF IsEscaping
  <2>2. y[i + 1] \in Byte
    BY <1>1 DEF Bytes
  <2> QED BY ONLY <2>1, <2>2, Zenon
<1>3. U[i + 1] = Behind(U[(i + 1) - 1], y[i + 1])
  BY ONLY <1>1, IsEscaping(U, y), Zenon DEF IsEscaping
<1>4. z = Behind(x, b)
  BY ONLY <1>1, <1>2, <1>3, Zenon
<1>5. PICK l \in {Len(x) + 1, Len(x) + 2} :
        /\ Len(z) = l /\ z[l] = b
        /\ l = Len(x) + 2 <=> b <= 3 /\ Len(x) >= 2 /\ x[Len(x) - 1] = 0 /\ x[Len(x)] = 0
        /\ l = Len(x) + 2 => z[Len(x) + 1] = 3
        /\ \A k \in 1 .. Len(x) : z[k] = x[k]
  BY ONLY <1>4, BehindType, x \in Bytes, b \in Byte, Zenon
<1>6. PICK n \in Nat : n = Len(x)
  BY DEF Bytes
<1>7. l \in Nat
  BY <1>5, <1>6
<1> QED BY ONLY <1>2, <1>5, <1>6, <1>7, Zenon DEF Longer

\* What stands before a byte stays before it.
Before(U, i, j) ==
    /\ U[i] \in Bytes /\ U[j] \in Bytes /\ Len(U[i]) \in Nat /\ Len(U[j]) \in Nat
    /\ Len(U[i]) + (j - i) <= Len(U[j]) /\ \A k \in 1 .. Len(U[i]) : U[j][k] = U[i][k]

LEMMA EscapedPrefix ==
    ASSUME NEW y \in Bytes, NEW U, IsEscaping(U, y), NEW i \in 0 .. Len(y), NEW j \in i .. Len(y)
    PROVE  Before(U, i, j)
<1> DEFINE T == {c \in i .. j : Len(U[i]) + (c - i) <= Len(U[c]) /\ \A k \in 1 .. Len(U[i]) : U[c][k] = U[i][k]}
<1>1. \A c \in 0 .. Len(y) : U[c] \in Bytes /\ Len(U[c]) \in Nat
  BY DEF IsEscaping, Bytes
<1>2. Len(y) \in Nat
  BY DEF Bytes
<1>3. i \in T
  BY <1>1, <1>2
<1>4. ASSUME NEW c \in i .. j, i < c, c - 1 \in T PROVE c \in T
  <2>1. c - 1 \in 0 .. Len(y) - 1 /\ (c - 1) + 1 = c /\ c - 1 \in 0 .. Len(y) /\ c \in 0 .. Len(y)
    BY <1>2, <1>4
  <2>2. PICK n \in Nat, l \in Nat : /\ n = Len(U[c - 1]) /\ l = Len(U[c]) /\ l \in {n + 1, n + 2}
                                    /\ \A k \in 1 .. n : U[c][k] = U[c - 1][k]
    <3>1. Longer(U, y, c - 1)
      BY ONLY <2>1, EscapedLonger, y \in Bytes, IsEscaping(U, y), Zenon
    <3> QED BY ONLY <2>1, <3>1, Zenon DEF Longer
  <2>3. PICK e \in Nat : e = Len(U[i])
    BY <1>1, <1>2
  <2>4. e + ((c - 1) - i) <= n /\ \A k \in 1 .. e : U[c - 1][k] = U[i][k]
    BY ONLY <1>4, <2>2, <2>3, Zenon
  <2>5. \A k \in 1 .. e : k \in 1 .. n
    <3>1. e <= n
      BY <1>4, <2>4
    <3> QED BY <3>1
  <2>6. e + (c - i) <= l
    BY <2>2, <2>4
  <2> QED BY ONLY <1>4, <2>2, <2>3, <2>4, <2>5, <2>6, Zenon
<1> HIDE DEF T
<1>5. i \in Int /\ j \in Int /\ (i <= j => i \in T)
  BY <1>3
<1>6. i .. j \subseteq T
  BY ONLY <1>4, <1>5, IntervalInduction, Zenon
<1>7. j \in T /\ j \in 0 .. Len(y)
  BY <1>2, <1>6
<1> QED BY <1>1, <1>7 DEF T, Before

\* buf holds the unit behind its header.
OverUnit(buf, U, m) ==
    /\ buf \in Bytes /\ Len(buf) >= Len(U[m + 1]) - 1
    /\ \A k \in 1 .. Len(U[m + 1]) - 1 : buf[k] = U[m + 1][k + 1]

\* The reader has read p bits of the body.
Reads(r, buf, U, p) ==
    /\ r \in Readers(buf) /\ r.ok
    /\ r.bit_offset = p % 8
    /\ r.byte_offset = (IF p % 8 = 0 THEN Len(U[p \div 8 + 1]) - 1 ELSE Len(U[p \div 8 + 2]) - 2)

\* The next byte of the body is where the reader looks for it.
AtByte(r, buf, V, U, p) ==
    /\ ~AtEnd(r) /\ SkipEmulation(r) = [r EXCEPT !.byte_offset = Len(U[p \div 8 + 2]) - 2]
    /\ Len(U[p \div 8 + 2]) - 2 \in 0 .. Len(buf) - 1
    /\ buf[(Len(U[p \div 8 + 2]) - 2) + 1] = Val(V, 8 * (p \div 8), 8 * (p \div 8) + 8)

LEMMA NextByte ==
    ASSUME NEW bits, NEW V, NEW y, NEW U, NEW m, Coded(bits, V, y, U, m),
           NEW buf, OverUnit(buf, U, m), NEW r, NEW p \in Nat, p < 8 * m, Reads(r, buf, U, p)
    PROVE  AtByte(r, buf, V, U, p)
<1>1. m \in Nat /\ y \in Bytes /\ Len(y) = m + 1 /\ y[1] > 3 /\ IsEscaping(U, y)
  BY DEF Coded
<1>2. PICK q \in Nat : q = p \div 8 /\ q < m
  <2>1. p \div 8 \in Nat /\ p \div 8 < m
    BY <1>1
  <2> QED BY <2>1
<1>3. /\ q + 1 \in 0 .. Len(y) - 1 /\ (q + 1) + 1 = q + 2 /\ q + 2 \in 0 .. Len(y) /\ m + 1 \in q + 2 .. Len(y)
      /\ 1 \in 0 .. Len(y) /\ q + 1 \in 1 .. Len(y) /\ q + 1 \in 0 .. Len(y) /\ q + 2 \in 1 .. m + 1
      /\ q + 1 \in 1 .. m
  BY <1>1, <1>2
<1>4. PICK n \in Nat, l \in Nat :
        /\ n = Len(U[q + 1]) /\ l = Len(U[q + 2]) /\ l \in {n + 1, n + 2} /\ U[q + 2][l] = y[q + 2]
        /\ l = n + 2 <=> y[q + 2] <= 3 /\ n >= 2 /\ U[q + 1][n - 1] = 0 /\ U[q + 1][n] = 0
        /\ l = n + 2 => U[q + 2][n + 1] = 3
        /\ \A k \in 1 .. n : U[q + 2][k] = U[q + 1][k]
  <2>1. Longer(U, y, q + 1)
    BY ONLY <1>1, <1>3, EscapedLonger, Zenon
  <2> QED BY ONLY <1>3, <2>1, Zenon DEF Longer
<1>5. U[1][1] = y[1] /\ Len(U[1]) = 1
  <2>1. 0 \in 0 .. Len(y) - 1 /\ 0 + 1 = 1
    BY <1>1
  <2>2. Longer(U, y, 0)
    BY ONLY <1>1, <2>1, EscapedLonger, Zenon
  <2>3. PICK a \in Nat, b \in Nat :
          /\ a = Len(U[0]) /\ b = Len(U[1]) /\ b \in {a + 1, a + 2} /\ U[1][b] = y[1]
          /\ b = a + 2 <=> y[1] <= 3 /\ a >= 2 /\ U[0][a - 1] = 0 /\ U[0][a] = 0
    BY ONLY <2>1, <2>2, Zenon DEF Longer
  <2>4. a = 0
    BY <1>1, <2>3 DEF IsEscaping
  <2> QED BY <2>3, <2>4
<1>6. n >= 1 /\ U[q + 1][1] = y[1]
  <2>1. Before(U, 1, q + 1)
    <3>1. q + 1 \in 1 .. Len(y)
      BY <1>3
    <3> QED BY ONLY <1>1, <1>3, <3>1, EscapedPrefix, Zenon
  <2>2. Len(U[1]) + ((q + 1) - 1) <= n /\ U[q + 1][1] = U[1][1]
    <3>1. 1 \in 1 .. 1
      OBVIOUS
    <3> QED BY ONLY <1>4, <1>5, <2>1, <3>1, Zenon DEF Before
  <2> QED BY <1>5, <2>2
<1>7. PICK e \in Nat : e = Len(U[m + 1]) /\ l <= e /\ \A k \in 1 .. l : U[m + 1][k] = U[q + 2][k]
  <2>1. Before(U, q + 2, m + 1)
    BY ONLY <1>1, <1>3, EscapedPrefix, Zenon
  <2>2. PICK e \in Nat : /\ e = Len(U[m + 1]) /\ l + ((m + 1) - (q + 2)) <= e
                         /\ \A k \in 1 .. l : U[m + 1][k] = U[q + 2][k]
    BY ONLY <1>4, <2>1, Zenon DEF Before
  <2>3. l <= e
    <3>1. m \in Nat /\ q < m /\ l + ((m + 1) - (q + 2)) <= e
      BY ONLY <1>1, <1>2, <2>2, Zenon
    <3> QED BY ONLY <3>1, q \in Nat, l \in Nat, e \in Nat
  <2> QED BY ONLY <2>2, <2>3, Zenon
<1>8. PICK L \in Nat : L = Len(buf) /\ L >= e - 1 /\ \A k \in 1 .. e - 1 : buf[k] = U[m + 1][k + 1]
  BY <1>7 DEF OverUnit, Bytes
<1>9. \A k \in 1 .. n : k >= 2 => buf[k - 1] = U[q + 1][k]
  <2> SUFFICES ASSUME NEW k \in 1 .. n, k >= 2 PROVE buf[k - 1] = U[q + 1][k]
    OBVIOUS
  <2>1. k - 1 \in 1 .. e - 1 /\ (k - 1) + 1 = k /\ k \in 1 .. l
    <3>1. l <= e /\ (l = n + 1 \/ l = n + 2)
      BY ONLY <1>4, <1>7
    <3> QED BY ONLY <3>1, k \in 1 .. n, k >= 2, n \in Nat, l \in Nat, e \in Nat
  <2> QED BY ONLY <1>4, <1>7, <1>8, <2>1, Zenon
<1>10. buf[l - 1] = y[q + 2] /\ l - 1 \in 1 .. L
  <2>1. l - 1 \in 1 .. e - 1 /\ (l - 1) + 1 = l /\ l \in 1 .. l
    <3>1. (l = n + 1 \/ l = n + 2) /\ l <= e /\ n >= 1
      BY <1>4, <1>6, <1>7
    <3> QED BY ONLY <3>1, n \in Nat, l \in Nat, e \in Nat
  <2>2. buf[l - 1] = y[q + 2]
    BY ONLY <1>4, <1>7, <1>8, <2>1, Zenon
  <2> QED BY <1>8, <2>1, <2>2
<1>11. l = n + 2 => buf[n] = 3
  <2> SUFFICES ASSUME l = n + 2 PROVE buf[n] = 3
    OBVIOUS
  <2>1. n \in 1 .. e - 1 /\ n + 1 \in 1 .. l
    BY <1>6, <1>7
  <2> QED BY ONLY <1>4, <1>7, <1>8, <2>1, l = n + 2, Zenon
<1>12. y[q + 2] = Val(V, 8 * q, 8 * q + 8) /\ y[q + 2] \in Nat
  <2>1. y[(q + 1) + 1] = Val(V, 8 * ((q + 1) - 1), 8 * (q + 1))
    BY ONLY <1>3, Coded(bits, V, y, U, m), Zenon DEF Coded
  <2>2. 8 * ((q + 1) - 1) = 8 * q /\ 8 * (q + 1) = 8 * q + 8
    OBVIOUS
  <2>3. y[q + 2] \in Byte
    BY <1>1, <1>3 DEF Bytes
  <2>4. y[q + 2] \in Nat
    BY ONLY <2>3 DEF Byte
  <2> QED BY ONLY <1>3, <2>1, <2>2, <2>4, Zenon
<1>13. (l - 2) + 1 = l - 1 /\ l - 2 \in 0 .. L - 1
  BY <1>4, <1>10
<1>14. /\ r.bit_offset = p % 8
       /\ r.byte_offset = (IF p % 8 = 0 THEN n - 1 ELSE l - 2)
       /\ r.buffer = buf
       /\ r \in [buffer : {buf}, byte_offset : 0 .. L, bit_offset : 0 .. 7, ok : BOOLEAN]
  BY ONLY <1>2, <1>4, <1>8, Reads(r, buf, U, p), Zenon DEF Reads, Readers
<1>a. ASSUME NEW b, NEW x, r.byte_offset + (1 - b) = x PROVE ByteAt(r, b) = buf[x]
  <2>1. r.buffer = buf
    BY ONLY <1>14, Zenon
  <2>2. ByteAt(r, b) = r.buffer[r.byte_offset + (1 - b)]
    BY DEF ByteAt
  <2>3. ByteAt(r, b) = r.buffer[x]
    BY ONLY <1>a, <2>2
  <2> QED BY ONLY <2>1, <2>3, Zenon
<1>15. r.byte_offset < L
  BY <1>4, <1>10, <1>14
<1>16. SkipEmulation(r) = [r EXCEPT !.byte_offset = l - 2]
  <2>1. CASE p % 8 # 0
    <3>1. SkipEmulation(r) = r
      BY <1>14, <2>1 DEF SkipEmulation
    <3> QED BY <1>14, <2>1, <3>1
  <2>2. CASE p % 8 = 0 /\ l = n + 2
    <3>1. n >= 3 /\ U[q + 1][n - 1] = 0 /\ U[q + 1][n] = 0
      BY <1>1, <1>4, <1>6, <2>2
    <3>2. buf[n - 1] = 0 /\ buf[n - 2] = 0 /\ buf[n] = 3
      <4>1. n \in 1 .. n /\ n - 1 \in 1 .. n /\ n >= 2 /\ n - 1 >= 2 /\ (n - 1) - 1 = n - 2
        BY <3>1
      <4> QED BY ONLY <1>9, <1>11, <2>2, <3>1, <4>1, Zenon
    <3>3. r.byte_offset = n - 1 /\ r.bit_offset = 0
      BY <1>14, <2>2
    <3>4. r.byte_offset >= 2 /\ r.byte_offset + (1 - 2) = n - 2 /\ r.byte_offset + (1 - 1) = n - 1 /\ r.byte_offset + (1 - 0) = n
          /\ r.byte_offset + 1 = l - 2 + 0
      BY <2>2, <3>1, <3>3
    <3>5. SkipEmulation(r) = [r EXCEPT !.byte_offset = @ + 1]
      <4>1. ByteAt(r, 2) = 0 /\ ByteAt(r, 1) = 0 /\ ByteAt(r, 0) = 3
        BY ONLY <1>a, <3>2, <3>4, Zenon
      <4> QED BY ONLY <3>3, <3>4, <4>1, Zenon DEF SkipEmulation
    <3>6. r.byte_offset + 1 = l - 2
      BY <2>2, <3>3
    <3> QED BY ONLY <3>5, <3>6, Zenon
  <2>3. CASE p % 8 = 0 /\ l # n + 2
    <3>1. l = n + 1 /\ r.byte_offset = n - 1 /\ r.bit_offset = 0
      BY <1>4, <1>14, <2>3
    <3>2. ASSUME r.byte_offset >= 2, ByteAt(r, 2) = 0, ByteAt(r, 1) = 0, ByteAt(r, 0) = 3 PROVE FALSE
      <4>1. r.byte_offset + (1 - 2) = n - 2 /\ r.byte_offset + (1 - 1) = n - 1 /\ r.byte_offset + (1 - 0) = n /\ n >= 3
        BY <3>1, <3>2
      <4>2. buf[n - 2] = 0 /\ buf[n - 1] = 0 /\ buf[n] = 3
        BY ONLY <1>a, <3>2, <4>1, Zenon
      <4>3. n \in 1 .. n /\ n - 1 \in 1 .. n /\ n >= 2 /\ n - 1 >= 2 /\ (n - 1) - 1 = n - 2 /\ l - 1 = n
        BY <3>1, <4>1
      <4>4. U[q + 1][n] = 0 /\ U[q + 1][n - 1] = 0 /\ y[q + 2] = 3
        BY ONLY <1>9, <1>10, <4>2, <4>3, Zenon
      <4>5. 3 <= 3
        OBVIOUS
      <4> QED BY ONLY <1>4, <2>3, <4>3, <4>4, <4>5, Zenon
    <3>3. SkipEmulation(r) = r
      BY ONLY <3>2, Zenon DEF SkipEmulation
    <3> QED BY <1>14, <3>1, <3>3
  <2> QED BY <2>1, <2>2, <2>3
<1>17. ~AtEnd(r)
  BY <1>8, <1>14, <1>15 DEF AtEnd
<1> QED BY ONLY <1>2, <1>4, <1>8, <1>10, <1>12, <1>13, <1>16, <1>17, Zenon DEF AtByte

-----------------------------------------------------------------------------
(* The bits of a body, read and written.                                   *)

LEMMA SmallQuotient ==
    ASSUME NEW x \in Nat, NEW e \in Nat \ {0}, NEW q \in Nat, NEW y \in 0 .. e - 1, x = q * e + y, x < e
    PROVE  q = 0
<1>1. q >= 1 => q * e >= e
  OBVIOUS
<1> QED BY <1>1

LEMMA LargestPower == Largest \in Nat /\ 2^31 = Largest + 1
<1>1. IsPower(31, 2^31)
  <2>1. 31 \in Int
    OBVIOUS
  <2> QED BY ONLY <2>1, PowerTable, Zenon
<1>2. PICK f, g : f = 2^31 /\ g = Largest
  BY Zenon
<1>3. IsPower(31, f)
  BY ONLY <1>1, <1>2, Zenon
<1>4. f = 2147483648
  BY ONLY <1>3, SMT DEF IsPower
<1>5. g = 2147483647
  BY ONLY <1>2, SMT DEF Largest
<1>6. g \in Nat /\ f = g + 1
  BY ONLY <1>4, <1>5, SMT
<1> QED BY ONLY <1>2, <1>6, Zenon

\* Some of a number's bits are the number's, shifted and cut.
LEMMA BitsBetween ==
    ASSUME NEW bits \in Seq({0, 1}), NEW V, IsValue(V, bits), NEW a \in 0 .. Len(bits),
           NEW b \in a .. Len(bits), NEW c \in b .. Len(bits), NEW d \in c .. Len(bits), d - a <= 32,
           Val(V, a, d) <= Largest
    PROVE  Shr(Val(V, a, d), d - c) % 2^(c - b) = Val(V, b, c)
<1>1. PICK n \in 0 .. 32, k \in 0 .. 32 : n = d - c /\ k = c - b
  OBVIOUS
<1>2. PICK e \in Nat \ {0}, h \in Nat \ {0} : e = 2^n /\ h = 2^k
  <2>1. n \in 0 .. 34 /\ k \in 0 .. 34
    OBVIOUS
  <2> QED BY ONLY <2>1, PowerPositive, Zenon
<1>3. /\ b \in 0 .. Len(bits) /\ c \in 0 .. Len(bits) /\ c \in a .. Len(bits) /\ d \in a .. Len(bits)
      /\ d - a <= 34 /\ c - a <= 34 /\ b - a <= 34 /\ c - b <= 34 /\ d - c <= 34
  OBVIOUS
<1>4. PICK x \in Nat, X \in Nat, P \in Nat, B \in Nat, D \in Nat :
        /\ x = Val(V, a, d) /\ X = Val(V, a, c) /\ P = Val(V, a, b) /\ B = Val(V, b, c) /\ D = Val(V, c, d)
        /\ B < h /\ D < e
  <2>1. Val(V, a, d) \in Nat /\ Val(V, a, c) \in Nat /\ Val(V, a, b) \in Nat
    BY ONLY <1>3, ValRange, bits \in Seq({0, 1}), IsValue(V, bits), a \in 0 .. Len(bits),
            b \in a .. Len(bits), Zenon
  <2>2. Val(V, b, c) \in Nat /\ Val(V, b, c) < 2^(c - b)
    BY ONLY <1>3, ValRange, bits \in Seq({0, 1}), IsValue(V, bits), c \in b .. Len(bits), Zenon
  <2>3. Val(V, c, d) \in Nat /\ Val(V, c, d) < 2^(d - c)
    BY ONLY <1>3, ValRange, bits \in Seq({0, 1}), IsValue(V, bits), d \in c .. Len(bits), Zenon
  <2> QED BY ONLY <1>1, <1>2, <2>1, <2>2, <2>3, Zenon
<1>5. x = X * e + D
  <2>1. Val(V, a, d) = Val(V, a, c) * 2^(d - c) + Val(V, c, d)
    BY ONLY <1>3, ValJoin, bits \in Seq({0, 1}), IsValue(V, bits), a \in 0 .. Len(bits),
            d \in c .. Len(bits), Zenon
  <2> QED BY ONLY <1>1, <1>2, <1>4, <2>1, Zenon
<1>6. X = P * h + B
  <2>1. Val(V, a, c) = Val(V, a, b) * 2^(c - b) + Val(V, b, c)
    BY ONLY <1>3, ValJoin, bits \in Seq({0, 1}), IsValue(V, bits), a \in 0 .. Len(bits),
            b \in a .. Len(bits), c \in b .. Len(bits), Zenon
  <2> QED BY ONLY <1>1, <1>2, <1>4, <2>1, Zenon
<1>7. B \in 0 .. h - 1 /\ D \in 0 .. e - 1 /\ X % h = B
  <2>1. B \in 0 .. h - 1 /\ D \in 0 .. e - 1
    BY <1>4
  <2>2. P \in Int /\ X \in Int
    OBVIOUS
  <2>3. X % h = B
    <3>1. B \in 0 .. h - 1 /\ P \in Int /\ X \in Int
      BY ONLY <2>1, <2>2
    <3>2. X = h * P + B
      BY ONLY <1>6, <3>1, h \in Nat \ {0}
    <3> QED BY ONLY <3>1, <3>2, h \in Nat \ {0}, Remainder, Zenon
  <2> QED BY ONLY <2>1, <2>3, Zenon
<1>8. Shr(x, n) = X
  <2>1. CASE n <= 30
    <3>1. x \div e = X
      <4>1. x \in Int /\ X \in Int
        OBVIOUS
      <4> QED BY ONLY <1>5, <1>7, <4>1, e \in Nat \ {0}, Divided, Zenon
    <3>2. ~(n > 30)
      BY <2>1
    <3> QED BY ONLY <1>2, <3>1, <3>2, Zenon DEF Shr
  <2>2. CASE n > 30
    <3>1. PICK f \in Nat : f = 2^31 /\ f <= e
      <4>1. 31 \in 0 .. 33 /\ (n = 31 \/ n = 31 + 1)
        BY <2>2
      <4>2. 2^31 \in Nat \ {0} /\ 2^(31 + 1) = 2 * 2^31
        BY ONLY <4>1, PowerStep, Zenon
      <4>3. PICK f \in Nat : f = 2^31 /\ 2^(31 + 1) = 2 * f
        <5>1. 2^31 \in Nat
          BY <4>2
        <5> QED BY ONLY <4>2, <5>1, Zenon
      <4>4. e = f \/ e = 2 * f
        BY ONLY <1>2, <4>1, <4>3, Zenon
      <4>5. f <= e
        BY ONLY <4>4, f \in Nat
      <4> QED BY ONLY <4>3, <4>5, Zenon
    <3>2. PICK g : g = Largest /\ x <= g
      BY ONLY <1>4, Val(V, a, d) <= Largest, Zenon
    <3>3. f = g + 1 /\ g \in Nat
      <4> QED BY ONLY <3>1, <3>2, LargestPower, Zenon
    <3>5. x < e
      BY ONLY <3>1, <3>2, <3>3, x \in Nat, e \in Nat \ {0}, f \in Nat
    <3>6. X = 0
      BY ONLY <1>5, <1>7, <3>5, SmallQuotient, x \in Nat, X \in Nat, e \in Nat \ {0}, Zenon
    <3> QED BY ONLY <2>2, <3>6, Zenon DEF Shr
  <2> QED BY <2>1, <2>2
<1> QED BY ONLY <1>1, <1>2, <1>4, <1>7, <1>8, Zenon

\* A reader behind p bits of the body, with the value v of what it has read.
ReadsOn(x, buf, U, p, v) == x.val = v /\ Reads(x.r, buf, U, p)

\* One chunk, of k bits, was read; there were left to read.
OneChunk(s, buf, U, V, p, left, v) ==
    \E k \in 1 .. left :
        /\ k = left \/ (p + k) % 8 = 0
        /\ s.left = left - k
        /\ ReadsOn(s, buf, U, p + k, v * 2^k + Val(V, p, p + k))

LEMMA ChunkReads ==
    ASSUME NEW bits, NEW V, NEW y, NEW U, NEW m, Coded(bits, V, y, U, m),
           NEW buf, OverUnit(buf, U, m), NEW r, NEW p \in Nat, Reads(r, buf, U, p),
           NEW left \in 1 .. 34, p + left <= 8 * m, NEW v \in Nat,
           NEW s, s = [r |-> r, left |-> left, val |-> v]
    PROVE  OneChunk(ReadChunk(s), buf, U, V, p, left, v)
<1>0. m \in Nat /\ bits \in Seq({0, 1}) /\ IsValue(V, bits) /\ Len(bits) = 8 * m
  BY DEF Coded
<1>1. PICK q \in Nat, o \in 0 .. 7 : q = p \div 8 /\ o = p % 8 /\ p = 8 * q + o
  OBVIOUS
<1>2. PICK B \in Nat : B = Len(U[q + 2]) - 2 /\ B \in 0 .. Len(buf) - 1
  <2>1. p < 8 * m
    BY <1>0
  <2>2. Len(U[p \div 8 + 2]) - 2 \in 0 .. Len(buf) - 1
    <3>1. AtByte(r, buf, V, U, p)
      BY ONLY <2>1, NextByte, Coded(bits, V, y, U, m), OverUnit(buf, U, m), p \in Nat, Reads(r, buf, U, p), Zenon
    <3> QED BY ONLY <3>1, Zenon DEF AtByte
  <2>3. Len(U[q + 2]) - 2 \in 0 .. Len(buf) - 1
    BY ONLY <1>1, <2>2, Zenon
  <2>4. Len(U[q + 2]) - 2 \in Nat
    BY <2>3
  <2> QED BY ONLY <2>3, <2>4, Zenon
<1>3. /\ ~AtEnd(r) /\ SkipEmulation(r) = [r EXCEPT !.byte_offset = B]
      /\ buf[B + 1] = Val(V, 8 * q, 8 * q + 8)
  <2>1. p < 8 * m
    BY <1>0
  <2>2. /\ ~AtEnd(r) /\ SkipEmulation(r) = [r EXCEPT !.byte_offset = Len(U[p \div 8 + 2]) - 2]
        /\ buf[(Len(U[p \div 8 + 2]) - 2) + 1] = Val(V, 8 * (p \div 8), 8 * (p \div 8) + 8)
    <3>1. AtByte(r, buf, V, U, p)
      BY ONLY <2>1, NextByte, Coded(bits, V, y, U, m), OverUnit(buf, U, m), p \in Nat, Reads(r, buf, U, p), Zenon
    <3> QED BY ONLY <3>1, Zenon DEF AtByte
  <2> QED BY ONLY <1>1, <1>2, <2>2, Zenon
<1>4. PICK L \in Nat : L = Len(buf) /\ B < L
  BY <1>2 DEF OverUnit, Bytes
<1>5. r \in [buffer : {buf}, byte_offset : 0 .. L, bit_offset : 0 .. 7, ok : BOOLEAN] /\ r.ok /\ r.bit_offset = o
  BY ONLY <1>1, <1>4, Reads(r, buf, U, p), Zenon DEF Reads, Readers
<1>6. PICK r2 : r2 = [r EXCEPT !.byte_offset = B]
  BY Zenon
<1>r. /\ r2 = [buffer |-> buf, byte_offset |-> B, bit_offset |-> o, ok |-> TRUE]
      /\ r2.buffer = buf /\ r2.byte_offset = B /\ r2.bit_offset = o /\ r2.ok
  BY ONLY <1>5, <1>6, B \in Nat
<1>7. PICK s2 : s2 = [s EXCEPT !.r = r2]
  BY Zenon
<1>s. /\ s2 = [r |-> r2, left |-> left, val |-> v]
      /\ s2.r = r2 /\ s2.left = left /\ s2.val = v
  BY ONLY <1>7, s = [r |-> r, left |-> left, val |-> v]
<1>8. ReadChunk(s) = ReadByte(s2)
  <2>1. s.r = r /\ s.left = left /\ left # 0
    BY ONLY left \in 1 .. 34, s = [r |-> r, left |-> left, val |-> v]
  <2>2. [s EXCEPT !.r = SkipEmulation(@)] = s2
    BY ONLY <1>3, <1>6, <1>7, <2>1, Zenon
  <2> QED BY ONLY <1>3, <1>5, <2>1, <2>2, Zenon DEF ReadChunk
<1>9. PICK k \in 1 .. left : k = Min({left, 8 - o}) /\ k + o <= 8 /\ (k = left \/ k = 8 - o)
  <2>1. Min({left, 8 - o}) \in {left, 8 - o} /\ Min({left, 8 - o}) <= left /\ Min({left, 8 - o}) <= 8 - o
    <3>1. left \in Int /\ 8 - o \in Int
      OBVIOUS
    <3> QED BY ONLY <3>1, MinOfTwo, Zenon
  <2>2. PICK k \in {left, 8 - o} : k = Min({left, 8 - o}) /\ k <= left /\ k <= 8 - o
    BY ONLY <2>1, Zenon
  <2>3. k \in 1 .. left /\ k + o <= 8 /\ (k = left \/ k = 8 - o)
    BY <2>2
  <2> QED BY ONLY <2>2, <2>3, Zenon
<1>10. ReadByte(s2) = TakeBits(s2, k)
  <2>1. ~AtEnd(s2.r)
    <3>1. s2.r = r2 /\ r2.buffer = buf /\ r2.byte_offset = B
      BY ONLY <1>r, <1>s, Zenon
    <3>2. ~(B >= Len(buf))
      BY <1>4
    <3> QED BY ONLY <3>1, <3>2, Zenon DEF AtEnd
  <2>2. s2.left = left /\ s2.r.bit_offset = o
    BY ONLY <1>r, <1>s, Zenon
  <2> QED BY ONLY <1>9, <2>1, <2>2, Zenon DEF ReadByte
<1>11. PICK next \in 1 .. 8 : next = o + k /\ 8 * q + next = p + k
  BY <1>1, <1>9
<1>12. PICK t : t = [r2 EXCEPT !.bit_offset = next % 8, !.byte_offset = @ + next \div 8]
  BY Zenon
<1>t. /\ t = [buffer |-> buf, byte_offset |-> B + next \div 8, bit_offset |-> next % 8, ok |-> TRUE]
      /\ t.buffer = buf /\ t.byte_offset = B + next \div 8 /\ t.bit_offset = next % 8 /\ t.ok
  <2>1. PICK a, b : a = next % 8 /\ b = next \div 8
    BY Zenon
  <2>2. t = [[r2 EXCEPT !.bit_offset = a] EXCEPT !.byte_offset = @ + b]
    BY ONLY <1>12, <2>1
  <2>3. t = [buffer |-> buf, byte_offset |-> B + b, bit_offset |-> a, ok |-> TRUE]
    BY ONLY <1>r, <2>2
  <2>4. t.buffer = buf /\ t.byte_offset = B + b /\ t.bit_offset = a /\ t.ok
    BY ONLY <2>3
  <2> QED BY ONLY <2>1, <2>3, <2>4, Zenon
<1>13. ByteAt(r2, 0) = Val(V, 8 * q, 8 * q + 8)
  <2>1. r2.byte_offset + (1 - 0) = B + 1 /\ r2.buffer = buf
    <3>1. B + (1 - 0) = B + 1
      OBVIOUS
    <3> QED BY ONLY <1>r, <3>1, Zenon
  <2> QED BY ONLY <1>3, <2>1, Zenon DEF ByteAt
<1>14. Shr(ByteAt(r2, 0), 8 - next) % 2^k = Val(V, p, p + k)
  <2>1. PICK a \in Nat, b \in Nat, c \in Nat, d \in Nat :
          /\ a \in 0 .. Len(bits) /\ b \in a .. Len(bits) /\ c \in b .. Len(bits) /\ d \in c .. Len(bits)
          /\ a = 8 * q /\ b = p /\ c = p + k /\ d = 8 * q + 8
          /\ d - a <= 32 /\ d - c = 8 - next /\ c - b = k /\ d - a = 8 /\ d \in a .. Len(bits)
    <3>1. p < 8 * m
      BY <1>0
    <3>2. 8 * q + 8 <= 8 * m
      BY <1>0, <1>1, <3>1
    <3>3. PICK L2 \in Nat : L2 = Len(bits) /\ L2 = 8 * m
      BY <1>0
    <3>4. /\ 8 * q \in 0 .. L2 /\ p \in 8 * q .. L2 /\ p + k \in p .. L2 /\ 8 * q + 8 \in p + k .. L2
          /\ (8 * q + 8) - 8 * q <= 32 /\ (8 * q + 8) - (p + k) = 8 - next /\ (p + k) - p = k
          /\ (8 * q + 8) - 8 * q = 8 /\ 8 * q + 8 \in 8 * q .. L2
      <4>1. p = 8 * q + o /\ o \in 0 .. 7 /\ k \in 1 .. 8 /\ next = o + k /\ next \in 1 .. 8 /\ 8 * q + 8 <= L2
        BY ONLY <1>1, <1>9, <1>11, <3>2, <3>3, o \in 0 .. 7, next \in 1 .. 8, k \in 1 .. left, left \in 1 .. 34
      <4> QED BY ONLY <4>1, L2 \in Nat, q \in Nat
    <3>5. 8 * q \in Nat /\ p + k \in Nat /\ 8 * q + 8 \in Nat
      OBVIOUS
    <3> QED BY ONLY <3>3, <3>4, <3>5, p \in Nat, Zenon
  <2>2. Val(V, a, d) <= Largest
    <3>1. Val(V, a, d) \in Nat /\ Val(V, a, d) < 2^(d - a)
      <4>1. d - a <= 34
        BY <2>1
      <4> QED BY ONLY <1>0, <2>1, <4>1, ValRange, Zenon
    <3>2. PICK x \in Nat : x = Val(V, a, d) /\ x < 256
      <4>1. PICK f : f = 256
        BY Zenon
      <4>2. 2^8 = f
        BY <4>1
      <4>3. Val(V, a, d) < f
        BY ONLY <2>1, <3>1, <4>2, Zenon
      <4>4. PICK x \in Nat : x = Val(V, a, d) /\ x < f
        BY ONLY <3>1, <4>3, Zenon
      <4>5. x < 256
        BY ONLY <4>1, <4>4, x \in Nat
      <4> QED BY ONLY <4>4, <4>5, Zenon
    <3>3. x <= Largest
      BY ONLY <3>2, x \in Nat DEF Largest
    <3> QED BY ONLY <3>2, <3>3, Zenon
  <2>3. Shr(Val(V, a, d), d - c) % 2^(c - b) = Val(V, b, c)
    BY ONLY <1>0, <2>1, <2>2, BitsBetween, Zenon
  <2> QED BY ONLY <1>13, <2>1, <2>3, Zenon
<1>15. TakeBits(s2, k) = [r |-> t, left |-> left - k, val |-> v * 2^k + Val(V, p, p + k)]
  <2>1. s2.r = r2 /\ s2.left = left /\ s2.val = v /\ s2.r.bit_offset + k = next
    BY ONLY <1>r, <1>s, <1>11, Zenon
  <2> QED BY ONLY <1>12, <1>14, <2>1, Zenon DEF TakeBits
<1>16. Reads(t, buf, U, p + k)
  <2>1. B + next \div 8 \in 0 .. L /\ next % 8 \in 0 .. 7
    BY <1>4
  <2>2. t \in Readers(buf) /\ t.ok
    BY ONLY <1>4, <1>t, <2>1 DEF Readers
  <2>3. t.bit_offset = next % 8 /\ t.byte_offset = B + next \div 8
    BY ONLY <1>t, Zenon
  <2>4. CASE next = 8
    <3>1. (p + k) % 8 = 0 /\ (p + k) \div 8 = q + 1 /\ (q + 1) + 1 = q + 2 /\ next % 8 = 0 /\ next \div 8 = 1
      BY <1>11, <2>4
    <3>2. B + 1 = Len(U[q + 2]) - 1
      <4>1. PICK l : l = Len(U[q + 2])
        OBVIOUS
      <4>2. B = l - 2
        BY ONLY <1>2, <4>1, Zenon
      <4>3. l \in Nat
        <5>1. q + 2 \in 0 .. Len(y) /\ IsEscaping(U, y) /\ q + 2 \in 0 .. m + 1
          BY <1>0, <1>1 DEF Coded
        <5> QED BY <4>1, <5>1 DEF IsEscaping, Bytes
      <4>4. B + 1 = l - 1
        BY ONLY <4>2, <4>3
      <4> QED BY ONLY <4>1, <4>4, Zenon
    <3> QED BY ONLY <2>2, <2>3, <3>1, <3>2, Zenon DEF Reads
  <2>5. CASE next # 8
    <3>1. (p + k) % 8 = next /\ (p + k) \div 8 = q /\ next % 8 = next /\ next \div 8 = 0 /\ next # 0
      BY <1>11, <2>5
    <3>2. B + 0 = B
      OBVIOUS
    <3> QED BY ONLY <1>2, <2>2, <2>3, <3>1, <3>2, Zenon DEF Reads
  <2> QED BY <2>4, <2>5
<1>17. k = left \/ (p + k) % 8 = 0
  BY <1>1, <1>9
<1>18. PICK w : w = v * 2^k + Val(V, p, p + k)
  OBVIOUS
<1>19. PICK x : x = [r |-> t, left |-> left - k, val |-> w]
  BY Zenon
<1>x. x.r = t /\ x.left = left - k /\ x.val = w
  BY ONLY <1>19
<1>20. ReadChunk(s) = x
  BY ONLY <1>8, <1>10, <1>15, <1>18, <1>19, Zenon
<1>21. ReadsOn(x, buf, U, p + k, w)
  BY ONLY <1>16, <1>x, Zenon DEF ReadsOn
<1> QED BY ONLY <1>17, <1>18, <1>x, <1>20, <1>21, Zenon DEF OneChunk

\* The chunks that read_bits is at behind t bits.
Taken(s, buf, U, V, p, count, t) ==
    /\ s = [r |-> s.r, left |-> count - t, val |-> Val(V, p, p + t)]
    /\ Reads(s.r, buf, U, p + t)

TakenOn(s, buf, U, V, p, count, t) ==
    \E k \in 0 .. count - t :
        /\ t + k = count \/ ((p + t + k) % 8 = 0 /\ k > 0)
        /\ Taken(s, buf, U, V, p, count, t + k)

LEMMA ChunkTaken ==
    ASSUME NEW bits, NEW V, NEW y, NEW U, NEW m, Coded(bits, V, y, U, m),
           NEW buf, OverUnit(buf, U, m), NEW p \in Nat, NEW count \in 0 .. 34, p + count <= 8 * m,
           NEW s \in Chunks(buf, count), NEW t \in 0 .. count, Taken(s, buf, U, V, p, count, t),
           ReadChunk(s) \in Chunks(buf, count)
    PROVE  TakenOn(ReadChunk(s), buf, U, V, p, count, t)
<1>0. m \in Nat /\ bits \in Seq({0, 1}) /\ IsValue(V, bits) /\ Len(bits) = 8 * m
  BY DEF Coded
<1>1. PICK v : v = Val(V, p, p + t)
  BY Zenon
<1>2. PICK left : left = count - t
  BY Zenon
<1>3. PICK r : r = s.r
  BY Zenon
<1>4. s = [r |-> r, left |-> left, val |-> v] /\ Reads(r, buf, U, p + t)
  BY ONLY <1>1, <1>2, <1>3, Taken(s, buf, U, V, p, count, t), Zenon DEF Taken
<1>5. v \in Nat /\ left \in 0 .. 34 /\ s.left = left /\ s.r = r
  <2>1. s.val = v /\ s.left = left /\ s.r = r
    BY ONLY <1>4
  <2>2. s.val \in Nat
    BY DEF Chunks
  <2>3. left \in 0 .. 34
    BY <1>2
  <2> QED BY ONLY <2>1, <2>2, <2>3, Zenon
<1>6. CASE left = 0
  <2>1. ReadChunk(s) = s
    BY ONLY <1>5, <1>6, Zenon DEF ReadChunk
  <2>2. 0 \in 0 .. count - t /\ t + 0 = count /\ t + 0 = t
    BY <1>2, <1>6
  <2>3. Taken(ReadChunk(s), buf, U, V, p, count, t + 0)
    BY ONLY <2>1, <2>2, Taken(s, buf, U, V, p, count, t), Zenon
  <2> QED BY ONLY <2>2, <2>3, Zenon DEF TakenOn
<1>7. CASE left # 0
  <2>1. left \in 1 .. 34 /\ p + t \in Nat /\ (p + t) + left <= 8 * m
    BY <1>0, <1>2, <1>5, <1>7
  <2>2. PICK k \in 1 .. left :
          /\ k = left \/ ((p + t) + k) % 8 = 0
          /\ ReadChunk(s).left = left - k
          /\ ReadsOn(ReadChunk(s), buf, U, (p + t) + k, v * 2^k + Val(V, p + t, (p + t) + k))
    <3>1. OneChunk(ReadChunk(s), buf, U, V, p + t, left, v)
      BY ONLY <1>4, <1>5, <2>1, ChunkReads, Coded(bits, V, y, U, m), OverUnit(buf, U, m), Zenon
    <3> QED BY ONLY <3>1, Zenon DEF OneChunk
  <2>3. k \in 0 .. count - t /\ k > 0 /\ (k = left => t + k = count) /\ (p + t) + k = p + (t + k)
        /\ left - k = count - (t + k)
    BY <1>2, <2>1
  <2>4. v * 2^k + Val(V, p + t, p + (t + k)) = Val(V, p, p + (t + k))
    <3>1. /\ p \in 0 .. Len(bits) /\ p + t \in p .. Len(bits) /\ p + (t + k) \in p + t .. Len(bits)
          /\ p + (t + k) - p <= 34 /\ (p + (t + k)) - (p + t) = k /\ (p + (t + k)) - p <= 34
      BY <1>0, <2>1, <2>3
    <3>2. Val(V, p, p + (t + k)) = Val(V, p, p + t) * 2^((p + (t + k)) - (p + t)) + Val(V, p + t, p + (t + k))
      BY ONLY <1>0, <3>1, ValJoin, Zenon
    <3> QED BY ONLY <1>1, <3>1, <3>2, Zenon
  <2>5. PICK z \in Chunks(buf, count) : z = ReadChunk(s)
    BY Zenon
  <2>6. z.val = Val(V, p, p + (t + k)) /\ Reads(z.r, buf, U, p + (t + k)) /\ z.left = count - (t + k)
    BY ONLY <2>2, <2>3, <2>4, <2>5, Zenon DEF ReadsOn
  <2>7. z = [r |-> z.r, left |-> z.left, val |-> z.val]
    BY ONLY z \in Chunks(buf, count) DEF Chunks
  <2>8. Taken(ReadChunk(s), buf, U, V, p, count, t + k)
    BY ONLY <2>5, <2>6, <2>7, Zenon DEF Taken
  <2>9. t + k = count \/ ((p + t + k) % 8 = 0 /\ k > 0)
    BY <2>2, <2>3
  <2> QED BY ONLY <2>3, <2>8, <2>9, Zenon DEF TakenOn
<1> QED BY <1>6, <1>7, Zenon

\* Reading count bits takes the number they are.
LEMMA BitsReads ==
    ASSUME NEW bits, NEW V, NEW y, NEW U, NEW m, Coded(bits, V, y, U, m),
           NEW buf, OverUnit(buf, U, m), NEW r, NEW p \in Nat, Reads(r, buf, U, p),
           NEW count \in 0 .. 34, p + count <= 8 * m
    PROVE  ReadsOn(ReadBits(r, count), buf, U, p + count, Val(V, p, p + count))
<1>0. m \in Nat /\ bits \in Seq({0, 1}) /\ IsValue(V, bits) /\ Len(bits) = 8 * m /\ buf \in Bytes
  BY DEF Coded, OverUnit
<1>1. r \in Readers(buf)
  BY DEF Reads
<1>2. PICK g : ReadRounds(g, buf, r, count)
  BY ONLY <1>0, <1>1, count \in 0 .. 34, ReadBitsRounds, Zenon
<1>3. /\ g[0] = [r |-> r, left |-> count, val |-> 0]
      /\ \A i \in Nat : g[i] \in Chunks(buf, count) /\ g[i + 1] = ReadChunk(g[i])
      /\ ReadBits(r, count) = BitsRead(g[(r.bit_offset + count + 7) \div 8])
  BY ONLY <1>2 DEF ReadRounds
<1>4. PICK o \in 0 .. 7 : o = r.bit_offset /\ o = p % 8
  BY <1>1 DEF Reads, Readers
<1>5. PICK N \in Nat : N = (o + count + 7) \div 8 /\ o + count <= 8 * N
  OBVIOUS
<1> DEFINE T == {i \in 0 .. N : \E t \in 0 .. count : /\ Taken(g[i], buf, U, V, p, count, t)
                                                      /\ t = count \/ o + t >= 8 * i}
<1>6. 0 \in T
  <2>1. 0 \in 0 .. count /\ o + 0 >= 8 * 0 /\ p + 0 = p /\ 0 \in 0 .. N /\ count - 0 = count /\ p \in 0 .. Len(bits)
    BY <1>0
  <2>2. Val(V, p, p) = 0
    BY ONLY <1>0, <2>1, ValSame, Zenon
  <2>3. g[0].r = r
    BY ONLY <1>3
  <2>4. Taken(g[0], buf, U, V, p, count, 0)
    BY ONLY <1>3, <2>1, <2>2, <2>3, Reads(r, buf, U, p), Zenon DEF Taken
  <2> QED BY ONLY <2>1, <2>4, Zenon
<1>7. ASSUME NEW i \in 0 .. N, 0 < i, i - 1 \in T PROVE i \in T
  <2>1. PICK j \in Nat : j = i - 1 /\ j + 1 = i
    BY <1>7
  <2>2. PICK t \in 0 .. count : Taken(g[j], buf, U, V, p, count, t) /\ (t = count \/ o + t >= 8 * j)
    BY ONLY <1>7, <2>1, Zenon
  <2>3. PICK k \in 0 .. count - t :
          /\ t + k = count \/ ((p + t + k) % 8 = 0 /\ k > 0)
          /\ Taken(ReadChunk(g[j]), buf, U, V, p, count, t + k)
    <3>1. g[j] \in Chunks(buf, count) /\ ReadChunk(g[j]) \in Chunks(buf, count)
      <4>1. j + 1 \in Nat
        OBVIOUS
      <4> QED BY ONLY <1>3, <4>1, j \in Nat, Zenon
    <3>2. TakenOn(ReadChunk(g[j]), buf, U, V, p, count, t)
      BY ONLY <2>2, <3>1, ChunkTaken, Coded(bits, V, y, U, m), OverUnit(buf, U, m), p \in Nat,
              count \in 0 .. 34, p + count <= 8 * m, t \in 0 .. count, Zenon
    <3> QED BY ONLY <3>2, Zenon DEF TakenOn
  <2>4. t + k \in 0 .. count /\ (t + k = count \/ o + (t + k) >= 8 * i)
    <3>1. t + k \in 0 .. count /\ (t = count => t + k = count)
      OBVIOUS
    <3>2. CASE t + k # count
      <4>1. (p + t + k) % 8 = 0 /\ k > 0 /\ o + t >= 8 * j
        BY <2>2, <2>3, <3>1, <3>2
      <4>2. o + (t + k) > 8 * j /\ (o + t + k) % 8 = 0
        BY <1>4, <4>1
      <4> QED BY <2>1, <3>1, <4>2
    <3> QED BY <3>1, <3>2
  <2>5. Taken(g[i], buf, U, V, p, count, t + k)
    BY ONLY <1>3, <2>1, <2>3, Zenon
  <2> QED BY ONLY <2>4, <2>5, i \in 0 .. N, Zenon
<1> HIDE DEF T
<1>8. 0 \in Int /\ N \in Int /\ (0 <= N => 0 \in T)
  BY ONLY <1>6, N \in Nat
<1>9. 0 .. N \subseteq T
  BY ONLY <1>7, <1>8, IntervalInduction, Zenon
<1>10. PICK t \in 0 .. count : Taken(g[N], buf, U, V, p, count, t) /\ (t = count \/ o + t >= 8 * N)
  <2>1. N \in 0 .. N
    OBVIOUS
  <2> QED BY ONLY <1>9, <2>1, Zenon DEF T
<1>11. t = count
  BY <1>5, <1>10
<1>12. PICK s : s = g[N]
  BY Zenon
<1>13. s = [r |-> s.r, left |-> count - count, val |-> Val(V, p, p + count)] /\ Reads(s.r, buf, U, p + count)
  BY ONLY <1>10, <1>11, <1>12, Zenon DEF Taken
<1>14. s.r.ok
  BY ONLY <1>13 DEF Reads
<1>15. ReadBits(r, count) = BitsRead(s)
  BY ONLY <1>3, <1>4, <1>5, <1>12, Zenon
<1>16. PICK v : v = Val(V, p, p + count)
  BY Zenon
<1>17. s.val = v
  <2>1. PICK a, l : a = s.r /\ l = count - count
    BY Zenon
  <2>2. s = [r |-> a, left |-> l, val |-> v]
    BY ONLY <1>13, <1>16, <2>1, Zenon
  <2> QED BY ONLY <2>2
<1>18. BitsRead(s).r = s.r /\ BitsRead(s).val = v
  BY ONLY <1>14, <1>17 DEF BitsRead
<1> QED BY ONLY <1>13, <1>15, <1>16, <1>18, Zenon DEF ReadsOn

\* The writer has written p bits of the body.
WritesAt(w, U, V, p, q, o) ==
    w = [arr |-> U[q + 1], pending_byte |-> Val(V, 8 * q, p) * 2^(8 - o), bit_offset |-> o]

Writes(w, U, V, p) == WritesAt(w, U, V, p, p \div 8, p % 8)

LEMMA FlushBehind ==
    ASSUME NEW a \in Bytes, NEW z, NEW o, NEW w, w = [arr |-> a, pending_byte |-> z, bit_offset |-> o]
    PROVE  Flush(w) = [arr |-> Behind(a, z), pending_byte |-> 0, bit_offset |-> 0]
<1>1. w.arr = a /\ w.pending_byte = z
  BY ONLY w = [arr |-> a, pending_byte |-> z, bit_offset |-> o]
<1>2. IsSuffix(<<0, 0>>, a) <=> Len(a) >= 2 /\ a[Len(a) - 1] = 0 /\ a[Len(a)] = 0
  BY ZerosBehind
<1> QED BY ONLY <1>1, <1>2, Zenon DEF Flush, Behind

WritesStill(s, U, V, p, left) == s.left = left /\ Writes(s.w, U, V, p)

LEMMA PutWrites ==
    ASSUME NEW bits, NEW V, NEW y, NEW U, NEW m, Coded(bits, V, y, U, m),
           NEW p \in Nat, NEW k \in 1 .. 8, (p % 8) + k <= 8, p + k <= 8 * m,
           NEW num, NEW left \in k .. 34, Shr(num, left - k) % 2^k = Val(V, p, p + k),
           NEW w, Writes(w, U, V, p), NEW s, s = [w |-> w, left |-> left]
    PROVE  WritesStill(PutBits(s, num, k), U, V, p + k, left - k)
<1>0. m \in Nat /\ bits \in Seq({0, 1}) /\ IsValue(V, bits) /\ Len(bits) = 8 * m
  BY DEF Coded
<1>1. PICK q \in Nat, o \in 0 .. 7, n \in 1 .. 8 :
        /\ q = p \div 8 /\ o = p % 8 /\ n = o + k /\ p = 8 * q + o /\ p + k = 8 * q + n /\ q < m
  <2>1. PICK q \in Nat, o \in 0 .. 7 : q = p \div 8 /\ o = p % 8 /\ p = 8 * q + o
    OBVIOUS
  <2>2. o + k \in 1 .. 8 /\ p + k = 8 * q + (o + k) /\ q < m
    BY <1>0, <2>1
  <2> QED BY ONLY <2>1, <2>2, q \in Nat, o \in 0 .. 7, Zenon
<1>2. PICK x \in Nat, B \in Nat, z \in Nat :
        /\ x = Val(V, 8 * q, p) /\ B = Val(V, p, p + k) /\ z = Val(V, 8 * q, p + k)
        /\ Val(V, 8 * q, p + k) = Val(V, 8 * q, p) * 2^k + Val(V, p, p + k)
  <2>1. /\ 8 * q \in 0 .. Len(bits) /\ p \in 8 * q .. Len(bits) /\ p + k \in p .. Len(bits)
        /\ (p + k) - 8 * q <= 34 /\ (p + k) - p = k /\ p - 8 * q <= 34 /\ p \in 0 .. Len(bits)
        /\ p + k \in 8 * q .. Len(bits) /\ k <= 34
    BY <1>0, <1>1
  <2>2. Val(V, 8 * q, p + k) = Val(V, 8 * q, p) * 2^k + Val(V, p, p + k)
    BY ONLY <1>0, <2>1, ValJoin, Zenon
  <2>3. Val(V, 8 * q, p) \in Nat /\ Val(V, p, p + k) \in Nat /\ Val(V, 8 * q, p + k) \in Nat
    BY ONLY <1>0, <2>1, ValRange, Zenon
  <2> QED BY ONLY <2>2, <2>3, Zenon
<1>3. PICK e \in Nat, f \in Nat : e = 2^k /\ f = 2^(8 - n) /\ 2^(8 - o) = e * f
  <2>1. k \in Nat /\ 8 - n \in Nat /\ k + (8 - n) = 8 - o /\ k + (8 - n) <= 34 /\ k \in 0 .. 34 /\ 8 - n \in 0 .. 34
    BY <1>1
  <2>2. 2^k \in Nat \ {0} /\ 2^(8 - n) \in Nat \ {0}
    BY ONLY <2>1, PowerPositive, Zenon
  <2>3. 2^k \in Nat /\ 2^(8 - n) \in Nat
    BY ONLY <2>2
  <2>4. 2^(k + (8 - n)) = 2^k * 2^(8 - n)
    BY ONLY <2>1, PowerSum, Zenon
  <2> QED BY ONLY <2>1, <2>3, <2>4, Zenon
<1>4. x * (e * f) + B * f = z * f
  <2>1. z = x * e + B
    BY ONLY <1>2, <1>3, Zenon
  <2> QED BY <2>1
<1>5. PICK P \in Nat, Y \in Nat : P = x * (e * f) /\ Y = B * f
  OBVIOUS
<1>6. PICK a \in Bytes : a = U[q + 1]
  <2>1. q + 1 \in 0 .. m + 1
    BY <1>0, <1>1
  <2> QED BY <2>1 DEF Coded, IsEscaping
<1>7. w = [arr |-> a, pending_byte |-> P, bit_offset |-> o]
  <2>1. WritesAt(w, U, V, p, q, o)
    BY ONLY <1>1, Writes(w, U, V, p), Zenon DEF Writes
  <2> QED BY ONLY <1>2, <1>3, <1>5, <1>6, <2>1, Zenon DEF WritesAt
<1>8. PICK w1 : w1 = [arr |-> a, pending_byte |-> P + Y, bit_offset |-> n]
  BY Zenon
<1>9. PutBits(s, num, k) = [w |-> FlushFull(w1), left |-> left - k]
  <2>1. s.w = w /\ s.left = left /\ w.bit_offset = o
    <3>1. s.w = w /\ s.left = left
      BY ONLY s = [w |-> w, left |-> left]
    <3>2. w.bit_offset = o
      BY ONLY <1>7
    <3> QED BY ONLY <3>1, <3>2, Zenon
  <2>2. [w EXCEPT !.pending_byte = @ + Y, !.bit_offset = n] = w1
    <3>1. PICK v : v = [w EXCEPT !.pending_byte = @ + Y]
      BY Zenon
    <3>2. v = [arr |-> a, pending_byte |-> P + Y, bit_offset |-> o]
      BY ONLY <1>7, <3>1, P \in Nat, Y \in Nat
    <3>3. PICK c : c = P + Y
      BY Zenon
    <3>4. v = [arr |-> a, pending_byte |-> c, bit_offset |-> o] /\ w1 = [arr |-> a, pending_byte |-> c, bit_offset |-> n]
      BY ONLY <1>8, <3>2, <3>3, Zenon
    <3>5. [v EXCEPT !.bit_offset = n] = w1
      BY ONLY <3>4
    <3>6. [w EXCEPT !.pending_byte = @ + Y, !.bit_offset = n] = [v EXCEPT !.bit_offset = n]
      BY ONLY <3>1, Zenon
    <3> QED BY ONLY <3>5, <3>6, Zenon
  <2>3. (Shr(num, left - k) % 2^k) * 2^(8 - n) = Y
    BY ONLY <1>2, <1>3, <1>5, Shr(num, left - k) % 2^k = Val(V, p, p + k), Zenon
  <2>4. o + k = n
    BY <1>1
  <2> QED BY ONLY <2>1, <2>2, <2>3, <2>4, Zenon DEF PutBits
<1>10. Writes(FlushFull(w1), U, V, p + k)
  <2>1. P + Y = z * f
    BY <1>4, <1>5
  <2>2. w1.bit_offset = n
    BY ONLY <1>8
  <2>3. CASE n = 8
    <3>1. (p + k) % 8 = 0 /\ (p + k) \div 8 = q + 1 /\ 8 - 0 = 8 /\ (q + 1) + 1 = q + 2 /\ p + k = 8 * (q + 1)
          /\ 8 - n = 0 /\ 8 * (q + 1) \in 0 .. Len(bits)
      BY <1>0, <1>1, <2>3
    <3>2. z * f = z
      <4>1. f = 1
        BY ONLY <1>3, <3>1, PowerZero, Zenon
      <4> QED BY <4>1
    <3>3. z = y[q + 2]
      <4>1. q + 1 \in 1 .. m /\ (q + 1) + 1 = q + 2 /\ (q + 1) - 1 = q
        BY <1>0, <1>1
      <4>2. y[(q + 1) + 1] = Val(V, 8 * ((q + 1) - 1), 8 * (q + 1))
        BY ONLY <4>1, Coded(bits, V, y, U, m), Zenon DEF Coded
      <4> QED BY ONLY <1>2, <3>1, <4>1, <4>2, Zenon
    <3>4. Behind(a, z) = U[q + 2]
      <4>1. q + 2 \in 1 .. Len(y) /\ (q + 2) - 1 = q + 1
        BY <1>0, <1>1 DEF Coded
      <4>2. U[q + 2] = Behind(U[(q + 2) - 1], y[q + 2])
        BY ONLY <4>1, Coded(bits, V, y, U, m), Zenon DEF Coded, IsEscaping
      <4> QED BY ONLY <1>6, <3>3, <4>1, <4>2, Zenon
    <3>5. FlushFull(w1) = [arr |-> U[q + 2], pending_byte |-> 0, bit_offset |-> 0]
      <4>1. P + Y = z
        BY ONLY <2>1, <3>2, Zenon
      <4>2. w1 = [arr |-> a, pending_byte |-> z, bit_offset |-> n]
        BY ONLY <1>8, <4>1, Zenon
      <4>3. Flush(w1) = [arr |-> Behind(a, z), pending_byte |-> 0, bit_offset |-> 0]
        BY ONLY <4>2, a \in Bytes, FlushBehind, Zenon
      <4> QED BY ONLY <2>2, <2>3, <3>4, <4>3, Zenon DEF FlushFull
    <3>6. Val(V, 8 * (q + 1), p + k) * 2^8 = 0
      <4>1. Val(V, 8 * (q + 1), 8 * (q + 1)) = 0
        BY ONLY <1>0, <3>1, ValSame, Zenon
      <4>2. PICK c : c = 2^8 /\ c = 256
        OBVIOUS
      <4>3. 0 * c = 0
        BY ONLY <4>2
      <4> QED BY ONLY <3>1, <4>1, <4>2, <4>3, Zenon
    <3>7. WritesAt(FlushFull(w1), U, V, p + k, q + 1, 0)
      BY ONLY <3>1, <3>5, <3>6, Zenon DEF WritesAt
    <3> QED BY ONLY <3>1, <3>7, Zenon DEF Writes
  <2>4. CASE n # 8
    <3>1. (p + k) % 8 = n /\ (p + k) \div 8 = q
      BY <1>1, <2>4
    <3>2. FlushFull(w1) = w1
      BY ONLY <2>2, <2>4, Zenon DEF FlushFull
    <3>3. w1 = [arr |-> U[q + 1], pending_byte |-> Val(V, 8 * q, p + k) * 2^(8 - n), bit_offset |-> n]
      BY ONLY <1>2, <1>3, <1>6, <1>8, <2>1, Zenon
    <3>4. WritesAt(FlushFull(w1), U, V, p + k, q, n)
      BY ONLY <3>2, <3>3, Zenon DEF WritesAt
    <3> QED BY ONLY <3>1, <3>4, Zenon DEF Writes
  <2> QED BY ONLY <2>3, <2>4, Zenon
<1>11. PICK v, l : v = FlushFull(w1) /\ l = left - k
  BY Zenon
<1>12. PutBits(s, num, k) = [w |-> v, left |-> l]
  BY ONLY <1>9, <1>11, Zenon
<1>13. PutBits(s, num, k).w = v /\ PutBits(s, num, k).left = l
  BY ONLY <1>12
<1> QED BY ONLY <1>10, <1>11, <1>13, Zenon DEF WritesStill

\* The chunks that write_bits is at behind t bits.
Wrote(s, U, V, p, count, t) ==
    s = [w |-> s.w, left |-> count - t] /\ Writes(s.w, U, V, p + t)

WrittenOn(s, U, V, p, count, t) ==
    \E k \in 0 .. count - t :
        /\ t + k = count \/ ((p + t + k) % 8 = 0 /\ k > 0)
        /\ Wrote(s, U, V, p, count, t + k)

LEMMA ChunkWritten ==
    ASSUME NEW bits, NEW V, NEW y, NEW U, NEW m, Coded(bits, V, y, U, m),
           NEW p \in Nat, NEW count \in 0 .. 32, p + count <= 8 * m,
           NEW num, num = Val(V, p, p + count), num <= Largest,
           NEW s, NEW t \in 0 .. count, Wrote(s, U, V, p, count, t),
           WriteChunk(s, num) \in Writings(count)
    PROVE  WrittenOn(WriteChunk(s, num), U, V, p, count, t)
<1>0. m \in Nat /\ bits \in Seq({0, 1}) /\ IsValue(V, bits) /\ Len(bits) = 8 * m
  BY DEF Coded
<1>1. PICK left \in 0 .. 32 : left = count - t
  OBVIOUS
<1>2. PICK w : w = s.w
  BY Zenon
<1>3. s = [w |-> w, left |-> left] /\ Writes(w, U, V, p + t)
  BY ONLY <1>1, <1>2, Wrote(s, U, V, p, count, t), Zenon DEF Wrote
<1>4. s.left = left /\ s.w = w
  BY ONLY <1>3
<1>5. CASE left = 0
  <2>1. WriteChunk(s, num) = s
    BY ONLY <1>4, <1>5, Zenon DEF WriteChunk
  <2>2. 0 \in 0 .. count - t /\ t + 0 = count /\ t + 0 = t
    BY <1>1, <1>5
  <2>3. Wrote(WriteChunk(s, num), U, V, p, count, t + 0)
    BY ONLY <2>1, <2>2, Wrote(s, U, V, p, count, t), Zenon
  <2> QED BY ONLY <2>2, <2>3, Zenon DEF WrittenOn
<1>6. CASE left # 0
  <2>1. PICK o \in 0 .. 7 : o = (p + t) % 8 /\ o = w.bit_offset
    <3>1. (p + t) % 8 \in 0 .. 7
      OBVIOUS
    <3>2. PICK o \in 0 .. 7 : o = (p + t) % 8
      BY <3>1
    <3>3. WritesAt(w, U, V, p + t, (p + t) \div 8, o)
      BY ONLY <1>3, <3>2, Zenon DEF Writes
    <3>4. PICK a, b : w = [arr |-> a, pending_byte |-> b, bit_offset |-> o]
      BY ONLY <3>3, Zenon DEF WritesAt
    <3>5. w.bit_offset = o
      BY ONLY <3>4
    <3> QED BY ONLY <3>2, <3>5, Zenon
  <2>2. PICK k \in Int : k = Min({8 - o, left}) /\ k \in {8 - o, left} /\ k <= 8 - o /\ k <= left
    <3>1. 8 - o \in Int /\ left \in Int
      OBVIOUS
    <3>2. Min({8 - o, left}) \in {8 - o, left} /\ Min({8 - o, left}) <= 8 - o /\ Min({8 - o, left}) <= left
      BY ONLY <3>1, MinOfTwo, Zenon
    <3>3. PICK k : k = Min({8 - o, left}) /\ k \in {8 - o, left} /\ k <= 8 - o /\ k <= left
      BY ONLY <3>2, Zenon
    <3>4. k \in Int
      BY <3>3
    <3> QED BY ONLY <3>3, <3>4, Zenon
  <2>3. k \in 1 .. 8 /\ k \in 1 .. left /\ o + k <= 8 /\ (k = left \/ o + k = 8)
    BY <1>6, <2>2
  <2>4. WriteChunk(s, num) = PutBits(s, num, k)
    BY ONLY <1>4, <1>6, <2>1, <2>2, Zenon DEF WriteChunk
  <2>5. /\ p + t \in Nat /\ (p + t) + k <= 8 * m /\ ((p + t) % 8) + k <= 8 /\ left \in k .. 34
        /\ k \in 0 .. count - t /\ k > 0 /\ (p + t) + k = p + (t + k) /\ left - k = count - (t + k)
        /\ (t + k = count \/ (p + t + k) % 8 = 0)
    BY <1>0, <1>1, <2>1, <2>3
  <2>6. Shr(num, left - k) % 2^k = Val(V, p + t, (p + t) + k)
    <3>1. PICK b \in Nat, c \in Nat, d \in Nat :
            /\ p \in 0 .. Len(bits) /\ b \in p .. Len(bits) /\ c \in b .. Len(bits) /\ d \in c .. Len(bits)
            /\ b = p + t /\ c = (p + t) + k /\ d = p + count
            /\ d - p <= 32 /\ d - c = left - k /\ c - b = k
      <4>1. PICK L \in Nat : L = Len(bits) /\ p + count <= L
        BY <1>0
      <4>2. /\ p \in 0 .. L /\ p + t \in p .. L /\ (p + t) + k \in p + t .. L /\ p + count \in (p + t) + k .. L
            /\ (p + count) - p <= 32 /\ (p + count) - ((p + t) + k) = left - k /\ ((p + t) + k) - (p + t) = k
        BY ONLY <1>1, <2>3, <4>1, left \in 0 .. 32, p \in Nat, t \in 0 .. count, L \in Nat, k \in Int, count \in 0 .. 32
      <4>3. p + t \in Nat /\ (p + t) + k \in Nat /\ p + count \in Nat
        BY <2>3
      <4> QED BY ONLY <4>1, <4>2, <4>3, Zenon
    <3>2. Val(V, p, d) <= Largest /\ num = Val(V, p, d)
      BY ONLY <3>1, num = Val(V, p, p + count), num <= Largest, Zenon
    <3>3. Shr(Val(V, p, d), d - c) % 2^(c - b) = Val(V, b, c)
      BY ONLY <1>0, <3>1, <3>2, BitsBetween, Zenon
    <3> QED BY ONLY <3>1, <3>2, <3>3, Zenon
  <2>7. PutBits(s, num, k).left = left - k /\ Writes(PutBits(s, num, k).w, U, V, (p + t) + k)
    <3>1. PICK c : c = p + t
      BY Zenon
    <3>2. /\ c \in Nat /\ k \in 1 .. 8 /\ (c % 8) + k <= 8 /\ c + k <= 8 * m /\ left \in k .. 34
          /\ Shr(num, left - k) % 2^k = Val(V, c, c + k) /\ Writes(w, U, V, c)
      BY ONLY <1>3, <2>3, <2>5, <2>6, <3>1, Zenon
    <3>3. WritesStill(PutBits(s, num, k), U, V, c + k, left - k)
      BY ONLY <1>3, <3>2, PutWrites, Coded(bits, V, y, U, m), Zenon
    <3> QED BY ONLY <3>1, <3>3, Zenon DEF WritesStill
  <2>8. PICK z : z = WriteChunk(s, num) /\ z \in Writings(count)
    BY Zenon
  <2>9. z = [w |-> z.w, left |-> z.left]
    BY ONLY <2>8 DEF Writings
  <2>10. Wrote(WriteChunk(s, num), U, V, p, count, t + k)
    BY ONLY <2>4, <2>5, <2>7, <2>8, <2>9, Zenon DEF Wrote
  <2> QED BY ONLY <2>5, <2>10, Zenon DEF WrittenOn
<1> QED BY <1>5, <1>6, Zenon

\* Writing the number that the next count bits are.
LEMMA BitsWritten ==
    ASSUME NEW bits, NEW V, NEW y, NEW U, NEW m, Coded(bits, V, y, U, m),
           NEW w \in Writers, NEW p \in Nat, Writes(w, U, V, p),
           NEW count \in 0 .. 32, p + count <= 8 * m,
           NEW num \in Nat, num = Val(V, p, p + count), num <= Largest
    PROVE  Writes(WriteBits(w, num, count), U, V, p + count)
<1>0. count \in 0 .. 34
  OBVIOUS
<1>2. PICK g : WriteRounds(g, w, num, count)
  BY ONLY <1>0, w \in Writers, num \in Nat, WriteBitsRounds, Zenon
<1>3. /\ g[0] = [w |-> w, left |-> count]
      /\ \A i \in Nat : g[i] \in Writings(count) /\ g[i + 1] = WriteChunk(g[i], num)
      /\ WriteBits(w, num, count) = g[(w.bit_offset + count + 7) \div 8].w
  BY ONLY <1>2 DEF WriteRounds
<1>4. PICK o \in 0 .. 7 : o = w.bit_offset /\ o = p % 8
  <2>1. PICK o \in 0 .. 7 : o = p % 8
    OBVIOUS
  <2>2. WritesAt(w, U, V, p, p \div 8, o)
    BY ONLY <2>1, Writes(w, U, V, p), Zenon DEF Writes
  <2>3. PICK a, b : w = [arr |-> a, pending_byte |-> b, bit_offset |-> o]
    BY ONLY <2>2, Zenon DEF WritesAt
  <2>4. w.bit_offset = o
    BY ONLY <2>3
  <2> QED BY ONLY <2>1, <2>4, Zenon
<1>5. PICK N \in Nat : N = (o + count + 7) \div 8 /\ o + count <= 8 * N
  OBVIOUS
<1> DEFINE T == {i \in 0 .. N : \E t \in 0 .. count : /\ Wrote(g[i], U, V, p, count, t)
                                                      /\ t = count \/ o + t >= 8 * i}
<1>6. 0 \in T
  <2>1. 0 \in 0 .. count /\ o + 0 >= 8 * 0 /\ p + 0 = p /\ 0 \in 0 .. N /\ count - 0 = count
    OBVIOUS
  <2>3. g[0].w = w
    BY ONLY <1>3
  <2>4. Wrote(g[0], U, V, p, count, 0)
    BY ONLY <1>3, <2>1, <2>3, Writes(w, U, V, p), Zenon DEF Wrote
  <2> QED BY ONLY <2>1, <2>4, Zenon
<1>7. ASSUME NEW i \in 0 .. N, 0 < i, i - 1 \in T PROVE i \in T
  <2>1. PICK j \in Nat : j = i - 1 /\ j + 1 = i
    BY <1>7
  <2>2. PICK t \in 0 .. count : Wrote(g[j], U, V, p, count, t) /\ (t = count \/ o + t >= 8 * j)
    BY ONLY <1>7, <2>1, Zenon
  <2>3. PICK k \in 0 .. count - t :
          /\ t + k = count \/ ((p + t + k) % 8 = 0 /\ k > 0)
          /\ Wrote(WriteChunk(g[j], num), U, V, p, count, t + k)
    <3>1. WriteChunk(g[j], num) \in Writings(count)
      <4>1. j + 1 \in Nat
        OBVIOUS
      <4> QED BY ONLY <1>3, <4>1, j \in Nat, Zenon
    <3>2. WrittenOn(WriteChunk(g[j], num), U, V, p, count, t)
      BY ONLY <2>2, <3>1, ChunkWritten, Coded(bits, V, y, U, m), p \in Nat, num = Val(V, p, p + count),
              num <= Largest, count \in 0 .. 32, p + count <= 8 * m, t \in 0 .. count, Zenon
    <3> QED BY ONLY <3>2, Zenon DEF WrittenOn
  <2>4. t + k \in 0 .. count /\ (t + k = count \/ o + (t + k) >= 8 * i)
    <3>1. t + k \in 0 .. count /\ (t = count => t + k = count)
      OBVIOUS
    <3>2. CASE t + k # count
      <4>1. (p + t + k) % 8 = 0 /\ k > 0 /\ o + t >= 8 * j
        BY <2>2, <2>3, <3>1, <3>2
      <4>2. o + (t + k) > 8 * j /\ (o + t + k) % 8 = 0
        BY <1>4, <4>1
      <4> QED BY <2>1, <3>1, <4>2
    <3> QED BY <3>1, <3>2
  <2>5. Wrote(g[i], U, V, p, count, t + k)
    BY ONLY <1>3, <2>1, <2>3, Zenon
  <2> QED BY ONLY <2>4, <2>5, i \in 0 .. N, Zenon
<1> HIDE DEF T
<1>8. 0 \in Int /\ N \in Int /\ (0 <= N => 0 \in T)
  BY ONLY <1>6, N \in Nat
<1>9. 0 .. N \subseteq T
  BY ONLY <1>7, <1>8, IntervalInduction, Zenon
<1>10. PICK t \in 0 .. count : Wrote(g[N], U, V, p, count, t) /\ (t = count \/ o + t >= 8 * N)
  <2>1. N \in 0 .. N
    OBVIOUS
  <2> QED BY ONLY <1>9, <2>1, Zenon DEF T
<1>11. t = count
  BY <1>5, <1>10
<1> QED BY ONLY <1>3, <1>4, <1>5, <1>10, <1>11, Zenon DEF Wrote

\* Zeros are 0.
LEMMA ZeroVal ==
    ASSUME NEW bits \in Seq({0, 1}), NEW V, IsValue(V, bits), NEW a \in 0 .. Len(bits),
           NEW b \in a .. Len(bits), b - a <= 34, \A k \in a + 1 .. b : bits[k] = 0
    PROVE  Val(V, a, b) = 0
<1> DEFINE T == {c \in a .. b : Val(V, a, c) = 0}
<1>1. a \in T
  BY ValSame
<1>2. ASSUME NEW c \in a .. b, a < c, c - 1 \in T PROVE c \in T
  <2>1. PICK d \in Nat : d = c - 1 /\ d + 1 = c
    BY <1>2
  <2>2. d \in 0 .. Len(bits) - 1 /\ a <= d /\ d - a <= 33 /\ d + 1 \in a + 1 .. b
    BY <1>2, <2>1
  <2>3. Val(V, a, d + 1) = 2 * Val(V, a, d) + bits[d + 1]
    BY ONLY <2>2, ValNext, bits \in Seq({0, 1}), IsValue(V, bits), a \in 0 .. Len(bits), Zenon
  <2>4. Val(V, a, d) = 0 /\ bits[d + 1] = 0
    BY ONLY <1>2, <2>1, <2>2, \A k \in a + 1 .. b : bits[k] = 0, Zenon
  <2>5. 2 * 0 + 0 = 0
    OBVIOUS
  <2> QED BY ONLY <2>1, <2>3, <2>4, <2>5, c \in a .. b, Zenon
<1> HIDE DEF T
<1>3. a \in Int /\ b \in Int /\ (a <= b => a \in T)
  BY ONLY <1>1, a \in 0 .. Len(bits), b \in a .. Len(bits)
<1>4. a .. b \subseteq T
  BY ONLY <1>2, <1>3, IntervalInduction, Zenon
<1>5. b \in T
  BY <1>4
<1> QED BY ONLY <1>5, Zenon DEF T

\* A number without its last bits, and without one less.
LEMMA ShrNext ==
    ASSUME NEW v \in Nat, v <= Largest, NEW i \in 0 .. 31
    PROVE  Shr(v, i) = 2 * Shr(v, i + 1) + (IF i > 30 THEN 0 ELSE (v \div 2^i) % 2)
<1>1. CASE i = 31
  BY <1>1 DEF Shr
<1>2. CASE i # 31
  <2>1. i \in 0 .. 33 /\ ~(i > 30)
    BY <1>2
  <2>2. PICK e \in Nat \ {0} : e = 2^i /\ 2^(i + 1) = 2 * e
    BY ONLY <2>1, PowerStep, Zenon
  <2>3. PICK x \in Nat, h \in Nat, b \in 0 .. 1 : x = v \div e /\ x = 2 * h + b /\ b = x % 2
    <3>1. v \div e \in Nat
      <4>1. v \in Int /\ 0 <= v
        OBVIOUS
      <4> QED BY ONLY <4>1, e \in Nat \ {0}, SMT
    <3>2. PICK x \in Nat : x = v \div e
      BY ONLY <3>1, Zenon
    <3>3. x \div 2 \in Nat
      BY ONLY x \in Nat
    <3>4. x % 2 \in 0 .. 1
      BY ONLY x \in Nat
    <3>5. PICK h \in Nat, b \in 0 .. 1 : h = x \div 2 /\ b = x % 2
      BY ONLY <3>3, <3>4, Zenon
    <3>6. x = 2 * h + b
      BY ONLY <3>5, x \in Nat
    <3> QED BY ONLY <3>2, <3>5, <3>6, Zenon
  <2>4. Shr(v, i) = x /\ (v \div 2^i) % 2 = b
    BY ONLY <2>1, <2>2, <2>3, Zenon DEF Shr
  <2>5. Shr(v, i + 1) = h
    <3>1. PICK y \in 0 .. e - 1 : v = x * e + y
      <4>1. v % e \in 0 .. e - 1 /\ v = e * (v \div e) + (v % e)
        <5>1. v \in Int
          OBVIOUS
        <5>2. v % e \in 0 .. e - 1
          BY ONLY <5>1, e \in Nat \ {0}, ModRange, Zenon
        <5>3. v = e * (v \div e) + (v % e)
          BY ONLY <5>1, e \in Nat \ {0}, DivMod, Zenon
        <5> QED BY ONLY <5>2, <5>3, Zenon
      <4>2. PICK y \in 0 .. e - 1 : v = e * x + y
        <5>1. PICK y \in 0 .. e - 1 : y = v % e
          BY ONLY <4>1, Zenon
        <5> QED BY ONLY <2>3, <4>1, <5>1, Zenon
      <4>3. v = x * e + y
        BY ONLY <4>2, x \in Nat, e \in Nat \ {0}, y \in 0 .. e - 1
      <4> QED BY ONLY <4>3, Zenon
    <3>2. v = h * (2 * e) + (b * e + y)
      BY ONLY <2>3, <3>1, x \in Nat, e \in Nat \ {0}, y \in 0 .. e - 1, h \in Nat, b \in 0 .. 1
    <3>3. b * e + y \in 0 .. (2 * e) - 1 /\ 2 * e \in Nat \ {0}
      <4>1. b = 0 \/ b = 1
        OBVIOUS
      <4> QED BY ONLY <4>1, e \in Nat \ {0}, y \in 0 .. e - 1
    <3>a. PICK f \in Nat \ {0} : f = 2 * e
      BY ONLY <3>3, Zenon
    <3>4. PICK z \in 0 .. f - 1 : f = 2 * e /\ v = h * f + z
      BY ONLY <3>2, <3>3, <3>a, Zenon
    <3>5. v \div f = h
      <4>1. v \in Int /\ h \in Int
        OBVIOUS
      <4> QED BY ONLY <3>4, <4>1, f \in Nat \ {0}, z \in 0 .. f - 1, Divided, Zenon
    <3>6. CASE i < 30
      <4>1. ~(i + 1 > 30)
        BY <3>6
      <4> QED BY ONLY <2>2, <3>4, <3>5, <4>1, Zenon DEF Shr
    <3>7. CASE i = 30
      <4>1. i + 1 > 30
        BY <3>7
      <4>2. h = 0
        <5>2. v < f
          <6>1. PICK g \in Nat : g = Largest /\ 2^31 = g + 1
            BY ONLY LargestPower, Zenon
          <6>2. f = g + 1
            <7>1. i + 1 = 31
              BY <3>7
            <7> QED BY ONLY <2>2, <3>a, <6>1, <7>1, Zenon
          <6>3. v <= g
            BY ONLY <6>1, v <= Largest, Zenon
          <6> QED BY ONLY <6>2, <6>3, v \in Nat, g \in Nat
        <5> QED BY ONLY <3>4, <5>2, h \in Nat, v \in Nat, f \in Nat \ {0}, z \in 0 .. f - 1, SmallQuotient, Zenon
      <4> QED BY ONLY <4>1, <4>2, Zenon DEF Shr
    <3> QED BY ONLY <2>1, <3>6, <3>7, i \in 0 .. 31, <1>2
  <2> QED BY ONLY <2>1, <2>3, <2>4, <2>5, Zenon
<1> QED BY ONLY <1>1, <1>2, Zenon

\* The n bits behind p are v's.
IsVal(V, a, b, v) == Val(V, a, b) = v

BinaryAt(bits, p, n, v) == \A k \in 1 .. n : bits[p + k] = Binary(v, n)[k]

\* The bits of a binary number are the number.
LEMMA BinaryVal ==
    ASSUME NEW bits \in Seq({0, 1}), NEW V, IsValue(V, bits), NEW p \in Nat, NEW n \in 0 .. 32,
           p + n <= Len(bits), NEW v \in Nat, v <= Largest, n < 31 => v < 2^n,
           BinaryAt(bits, p, n, v)
    PROVE  IsVal(V, p, p + n, v)
<1> DEFINE T == {j \in 0 .. n : Val(V, p, p + j) = Shr(v, n - j)}
<1>1. 0 \in T
  <2>1. p + 0 = p /\ n - 0 = n /\ p \in 0 .. Len(bits) /\ 0 \in 0 .. n
    OBVIOUS
  <2>2. Val(V, p, p) = 0
    BY ONLY <2>1, ValSame, bits \in Seq({0, 1}), IsValue(V, bits), Zenon
  <2>3. Shr(v, n) = 0
    <3>1. CASE n > 30
      BY ONLY <3>1, Zenon DEF Shr
    <3>2. CASE ~(n > 30)
      <4>1. PICK e \in Nat \ {0} : e = 2^n /\ v < e
        <5>1. n \in 0 .. 34 /\ n < 31
          BY <3>2
        <5> QED BY ONLY <5>1, n < 31 => v < 2^n, PowerPositive, Zenon
      <4>2. v \div e = 0
        <5>1. v \in Int /\ 0 \in Int /\ v \in 0 .. e - 1 /\ v = 0 * e + v
          BY <4>1
        <5> QED BY ONLY <5>1, e \in Nat \ {0}, Divided, Zenon
      <4> QED BY ONLY <3>2, <4>1, <4>2, Zenon DEF Shr
    <3> QED BY ONLY <3>1, <3>2
  <2> QED BY ONLY <2>1, <2>2, <2>3, Zenon
<1>2. ASSUME NEW j \in 0 .. n, 0 < j, j - 1 \in T PROVE j \in T
  <2>1. PICK i \in 0 .. 31, d \in Nat : /\ i = n - j /\ i + 1 = n - (j - 1) /\ d = p + (j - 1) /\ d + 1 = p + j
                                       /\ j \in 1 .. n /\ d \in 0 .. Len(bits) - 1 /\ p <= d /\ d - p <= 33
                                       /\ p \in 0 .. Len(bits)
    BY <1>2
  <2>2. Val(V, p, d + 1) = 2 * Val(V, p, d) + bits[d + 1]
    BY ONLY <2>1, ValNext, bits \in Seq({0, 1}), IsValue(V, bits), Zenon
  <2>3. bits[d + 1] = IF i > 30 THEN 0 ELSE (v \div 2^i) % 2
    <3>1. bits[p + j] = Binary(v, n)[j]
      BY ONLY <2>1, BinaryAt(bits, p, n, v), Zenon DEF BinaryAt
    <3>2. Binary(v, n)[j] = IF n - j > 30 THEN 0 ELSE (v \div 2^(n - j)) % 2
      BY ONLY <2>1, Zenon DEF Binary
    <3> QED BY ONLY <2>1, <3>1, <3>2, Zenon
  <2>4. Val(V, p, d) = Shr(v, i + 1)
    BY ONLY <1>2, <2>1, Zenon
  <2>5. Shr(v, i) = 2 * Shr(v, i + 1) + (IF i > 30 THEN 0 ELSE (v \div 2^i) % 2)
    BY ONLY ShrNext, i \in 0 .. 31, v \in Nat, v <= Largest, Zenon
  <2>6. Val(V, p, d + 1) = Shr(v, i)
    BY ONLY <2>2, <2>3, <2>4, <2>5, Zenon
  <2> QED BY ONLY <2>1, <2>6, j \in 0 .. n, Zenon
<1> HIDE DEF T
<1>3. 0 \in Int /\ n \in Int /\ (0 <= n => 0 \in T)
  BY ONLY <1>1, n \in 0 .. 32
<1>4. 0 .. n \subseteq T
  BY ONLY <1>2, <1>3, IntervalInduction, Zenon
<1>5. Val(V, p, p + n) = Shr(v, n - n)
  <2>1. n \in 0 .. n
    BY ONLY n \in 0 .. 32
  <2> QED BY ONLY <1>4, <2>1, Zenon DEF T
<1>6. Shr(v, n - n) = v
  <2>1. n - n = 0 /\ ~(0 > 30)
    OBVIOUS
  <2>2. v \div 1 = v
    OBVIOUS
  <2> QED BY ONLY <2>1, <2>2, PowerZero, Zenon DEF Shr
<1> QED BY ONLY <1>5, <1>6, Zenon DEF IsVal

-----------------------------------------------------------------------------
(* Exp-Golomb codes.                                                       *)

\* v has k zeros in its code.
UeLength(v, k) ==
    /\ v \in UeVals /\ v \in Nat /\ v + 1 \in Nat /\ v + 1 <= Largest
    /\ k \in 0 .. 30 /\ k < WordBits /\ 2^k <= v + 1 /\ v + 1 < 2^(k + 1)
    /\ UeBits(v) = Repeat(k, 0) \o Binary(v + 1, k + 1)

LEMMA UeLengthExists ==
    ASSUME NEW v, FitsUe(v)
    PROVE  \E k : UeLength(v, k)
<1>0. WordBits \in 8 .. 32
  BY WordBitsAssumption
<1>1. PICK g \in Nat : g = Largest /\ 2^31 = g + 1
  BY ONLY LargestPower, Zenon
<1>2. v \in Nat /\ v < g /\ (WordBits < 31 => v + 1 < 2^WordBits)
  BY ONLY <1>1, FitsUe(v), Zenon DEF FitsUe
<1>3. PICK n \in Nat \ {0} : n = v + 1 /\ n <= g
  BY ONLY <1>2, g \in Nat
<1>4. n < 2^WordBits
  <2>1. CASE WordBits < 31
    BY ONLY <1>2, <1>3, <2>1, Zenon
  <2>2. CASE ~(WordBits < 31)
    <3>1. 31 \in Nat /\ WordBits \in Nat /\ 31 <= WordBits /\ WordBits <= 34 /\ WordBits \in 0 .. 34
      BY <1>0, <2>2
    <3>2. 2^31 <= 2^WordBits
      BY ONLY <3>1, PowerMonotone, Zenon
    <3>3. PICK m \in Nat \ {0} : m = 2^WordBits
      BY ONLY <3>1, PowerPositive, Zenon
    <3>4. g + 1 <= m
      BY ONLY <1>1, <3>2, <3>3, Zenon
    <3>5. n < m
      BY ONLY <1>3, <3>4, n \in Nat \ {0}, m \in Nat \ {0}, g \in Nat
    <3> QED BY ONLY <3>3, <3>5, Zenon
  <2> QED BY ONLY <2>1, <2>2
<1> DEFINE P(k) == 2^k <= v + 1 /\ (k = 30 \/ v + 1 < 2^(k + 1))
<1>5. \E k \in 0 .. 30 : P(k)
  <2> DEFINE T == {k \in 0 .. 30 : v + 1 < 2^k}
  <2>1. CASE T = {}
    <3>1. 30 \in 0 .. 30 /\ 30 \in 0 .. 34
      OBVIOUS
    <3>2. PICK e \in Nat \ {0} : e = 2^30
      BY ONLY <3>1, PowerPositive, Zenon
    <3>3. ~(n < e)
      BY ONLY <1>3, <2>1, <3>1, <3>2, Zenon
    <3>4. e <= n
      BY ONLY <3>3, n \in Nat \ {0}, e \in Nat \ {0}
    <3> QED BY ONLY <1>3, <3>1, <3>2, <3>4, Zenon
  <2>2. CASE T # {}
    <3>1. T \in SUBSET Nat
      OBVIOUS
    <3>2. PICK j \in T : \A i \in T : j <= i
      <4> HIDE DEF T
      <4> QED BY ONLY <2>2, <3>1, LeastElement, Zenon
    <3>3. j # 0
      <4>1. PICK e : e = 2^0 /\ e = 1
        BY PowerZero
      <4>2. ~(n < e)
        BY ONLY <4>1, n \in Nat \ {0}
      <4> QED BY ONLY <1>3, <3>2, <4>1, <4>2, Zenon DEF T
    <3>4. PICK k \in 0 .. 30 : k + 1 = j /\ ~(j <= k) /\ k \in 0 .. 34
      BY ONLY <3>2, <3>3
    <3>5. PICK e \in Nat \ {0} : e = 2^k
      BY ONLY <3>4, PowerPositive, Zenon
    <3>6. ~(n < e)
      BY ONLY <1>3, <3>2, <3>4, <3>5, Zenon
    <3>7. e <= n
      BY ONLY <3>6, n \in Nat \ {0}, e \in Nat \ {0}
    <3>8. v + 1 < 2^(k + 1)
      BY ONLY <3>2, <3>4, Zenon DEF T
    <3> QED BY ONLY <1>3, <3>4, <3>5, <3>7, <3>8, Zenon
  <2> QED BY ONLY <2>1, <2>2, Zenon
<1> DEFINE c == CHOOSE k \in 0 .. 30 : P(k)
<1>6. c \in 0 .. 30 /\ P(c)
  <2> HIDE DEF P
  <2> QED BY ONLY <1>5, Zenon
<1>7. UeBits(v) = Repeat(c, 0) \o Binary(v + 1, c + 1)
  BY ONLY Zenon DEF UeBits
<1> HIDE DEF c
<1>8. v + 1 < 2^(c + 1)
  <2>1. CASE c = 30
    <3>1. PICK f : f = 2^31 /\ f = g + 1
      BY ONLY <1>1, Zenon
    <3>2. n < f /\ c + 1 = 31
      BY ONLY <1>3, <2>1, <3>1, n \in Nat \ {0}, g \in Nat
    <3> QED BY ONLY <1>3, <3>1, <3>2, Zenon
  <2>2. CASE c # 30
    BY ONLY <1>6, <2>2, Zenon
  <2> QED BY ONLY <2>1, <2>2
<1>9. c < WordBits
  <2>1. CASE WordBits <= c
    <3>1. WordBits \in Nat /\ c \in Nat /\ c <= 34 /\ WordBits \in 0 .. 34 /\ c \in 0 .. 34
      BY ONLY <1>0, <1>6
    <3>2. 2^WordBits <= 2^c
      BY ONLY <2>1, <3>1, PowerMonotone, Zenon
    <3>3. PICK a \in Nat \ {0}, b \in Nat \ {0} : a = 2^WordBits /\ b = 2^c
      BY ONLY <3>1, PowerPositive, Zenon
    <3>4. a <= b /\ b <= n /\ n < a
      BY ONLY <1>3, <1>4, <1>6, <3>2, <3>3, Zenon
    <3> QED BY ONLY <3>4, n \in Nat \ {0}, a \in Nat \ {0}, b \in Nat \ {0}
  <2> QED BY ONLY <1>0, <1>6, <2>1
<1>10. v \in UeVals /\ v + 1 \in Nat /\ v + 1 <= Largest
  <2>1. v + 1 < 2^WordBits
    BY ONLY <1>3, <1>4, Zenon
  <2>2. v \in UeVals
    BY ONLY <1>2, <2>1, Zenon DEF UeVals
  <2>3. v + 1 \in Nat
    BY ONLY <1>2
  <2> QED BY ONLY <1>1, <1>3, <2>2, <2>3, Zenon
<1>11. UeLength(v, c)
  BY ONLY <1>2, <1>6, <1>7, <1>8, <1>9, <1>10, Zenon DEF UeLength
<1> QED BY ONLY <1>11, Zenon

\* The bits behind p are the code of v.
UeAt(bits, p, k, v) ==
    /\ UeLength(v, k)
    /\ \A i \in 1 .. k : bits[p + i] = 0
    /\ BinaryAt(bits, p + k, k + 1, v + 1)

\* What the code's parts are as numbers.
UeParts(V, p, k, v) ==
    /\ Val(V, p, p + k) = 0
    /\ Val(V, p + k, p + k + 1) = 1
    /\ 2^k + Val(V, p + k + 1, p + 2 * k + 1) = v + 1
    /\ Val(V, p + k, p + 2 * k + 1) = v + 1

LEMMA UeVal ==
    ASSUME NEW bits \in Seq({0, 1}), NEW V, IsValue(V, bits), NEW p \in Nat, NEW k \in Nat, NEW v,
           UeAt(bits, p, k, v), p + 2 * k + 1 <= Len(bits)
    PROVE  UeParts(V, p, k, v)
<1>1. k \in 0 .. 30 /\ UeLength(v, k)
  BY ONLY UeAt(bits, p, k, v), Zenon DEF UeAt, UeLength
<1>2. PICK n \in Nat, e \in Nat \ {0}, d \in Nat : n = v + 1 /\ e = 2^k /\ d = 2^(k + 1) /\ d = 2 * e
  <2>1. k \in 0 .. 33
    BY <1>1
  <2>2. 2^k \in Nat \ {0} /\ 2^(k + 1) = 2 * 2^k /\ 2^(k + 1) \in Nat \ {0}
    BY ONLY <2>1, PowerStep, Zenon
  <2>3. 2^(k + 1) \in Nat
    BY <2>2
  <2>4. v + 1 \in Nat
    BY ONLY <1>1, Zenon DEF UeLength
  <2> QED BY ONLY <2>2, <2>3, <2>4, Zenon
<1>3. e <= n /\ n < d /\ n <= Largest
  BY ONLY <1>1, <1>2, Zenon DEF UeLength
<1>4. PICK q \in Nat, s \in Nat, t \in Nat :
        /\ q = p + k /\ s = p + k + 1 /\ t = p + 2 * k + 1
        /\ p \in 0 .. Len(bits) /\ q \in p .. Len(bits) /\ s \in q .. Len(bits) /\ t \in s .. Len(bits)
        /\ q \in 0 .. Len(bits) /\ t \in q .. Len(bits) /\ s \in 0 .. Len(bits)
        /\ q - p <= 34 /\ t - q <= 34 /\ t - s <= 34 /\ s - q <= 34 /\ t = q + (k + 1)
        /\ t - s = k /\ s - q = 1
  <2>1. PICK L \in Nat : L = Len(bits) /\ p + 2 * k + 1 <= L
    OBVIOUS
  <2>2. /\ p \in 0 .. L /\ p + k \in p .. L /\ p + k + 1 \in p + k .. L /\ p + 2 * k + 1 \in p + k + 1 .. L
        /\ p + k \in 0 .. L /\ p + 2 * k + 1 \in p + k .. L /\ p + k + 1 \in 0 .. L
        /\ (p + k) - p <= 34 /\ (p + 2 * k + 1) - (p + k) <= 34 /\ (p + 2 * k + 1) - (p + k + 1) <= 34
        /\ (p + k + 1) - (p + k) <= 34
        /\ p + 2 * k + 1 = (p + k) + (k + 1) /\ (p + 2 * k + 1) - (p + k + 1) = k /\ (p + k + 1) - (p + k) = 1
    BY ONLY <1>1, <2>1, p \in Nat, L \in Nat
  <2>3. p + k \in Nat /\ p + k + 1 \in Nat /\ p + 2 * k + 1 \in Nat
    OBVIOUS
  <2> QED BY ONLY <2>1, <2>2, <2>3, Zenon
<1>5. Val(V, p, q) = 0
  <2>1. \A i \in p + 1 .. q : bits[i] = 0
    <3> SUFFICES ASSUME NEW i \in p + 1 .. q PROVE bits[i] = 0
      OBVIOUS
    <3>1. PICK j \in 1 .. k : p + j = i
      BY <1>4
    <3> QED BY ONLY <3>1, UeAt(bits, p, k, v), Zenon DEF UeAt
  <2> QED BY ONLY <1>4, <2>1, ZeroVal, bits \in Seq({0, 1}), IsValue(V, bits), Zenon
<1>6. Val(V, q, t) = n
  <2>1. PICK l \in 0 .. 32 : l = k + 1
    BY <1>1
  <2>2. l < 31 => n < 2^l
    BY ONLY <1>2, <1>3, <2>1, Zenon
  <2>3. BinaryAt(bits, q, l, n)
    BY ONLY <1>2, <1>4, <2>1, UeAt(bits, p, k, v), Zenon DEF UeAt
  <2>4. q + l <= Len(bits) /\ t = q + l
    BY <1>4, <2>1
  <2>5. IsVal(V, q, q + l, n)
    BY ONLY <1>3, <2>2, <2>3, <2>4, BinaryVal, bits \in Seq({0, 1}), IsValue(V, bits), n \in Nat, q \in Nat, l \in 0 .. 32, Zenon
  <2> QED BY ONLY <2>4, <2>5, Zenon DEF IsVal
<1>7. PICK a \in Nat, b \in Nat : a = Val(V, q, s) /\ b = Val(V, s, t) /\ a < 2 /\ b < e /\ n = a * e + b
  <2>1. Val(V, q, t) = Val(V, q, s) * 2^(t - s) + Val(V, s, t)
    <3>1. q \in 0 .. Len(bits) /\ s \in q .. Len(bits) /\ t \in s .. Len(bits) /\ t - q <= 34
      BY ONLY <1>4, Zenon
    <3> QED BY ONLY <3>1, ValJoin, bits \in Seq({0, 1}), IsValue(V, bits)
  <2>2. Val(V, q, s) \in Nat /\ Val(V, q, s) < 2^(s - q)
    BY ONLY <1>4, ValRange, bits \in Seq({0, 1}), IsValue(V, bits), Zenon
  <2>3. Val(V, s, t) \in Nat /\ Val(V, s, t) < 2^(t - s)
    BY ONLY <1>4, ValRange, bits \in Seq({0, 1}), IsValue(V, bits), Zenon
  <2>4. 2^1 = 2
    OBVIOUS
  <2> QED BY ONLY <1>2, <1>4, <1>6, <2>1, <2>2, <2>3, <2>4, Zenon
<1>8. a = 1
  <2>1. a < 2 /\ b < e /\ n = a * e + b
    BY ONLY <1>7, Zenon
  <2>2. a = 0 \/ a = 1
    BY ONLY <2>1, a \in Nat
  <2>3. a = 0 => n = b
    BY ONLY <2>1, b \in Nat, e \in Nat \ {0}
  <2> QED BY ONLY <1>3, <2>1, <2>2, <2>3, n \in Nat, b \in Nat, e \in Nat \ {0}
<1>9. e + b = n
  BY ONLY <1>7, <1>8, n \in Nat, b \in Nat, e \in Nat \ {0}
<1> QED BY ONLY <1>2, <1>4, <1>5, <1>6, <1>7, <1>8, <1>9, Zenon DEF UeParts

\* LeadingZeros behind n rounds.
LeadingAt(s, buf, U, p, n, k) ==
    IF n <= k THEN s.val = 0 /\ s.zeros = n - 1 /\ Reads(s.r, buf, U, p + n)
    ELSE s.val = 1 /\ s.zeros = k /\ Reads(s.r, buf, U, p + k + 1)

LEMMA NextZeroReads ==
    ASSUME NEW bits, NEW V, NEW y, NEW U, NEW m, Coded(bits, V, y, U, m),
           NEW buf, OverUnit(buf, U, m), NEW p \in Nat, NEW k \in 0 .. 30, NEW v, UeAt(bits, p, k, v),
           p + 2 * k + 1 <= 8 * m, NEW n \in Nat, NEW s, LeadingAt(s, buf, U, p, n, k)
    PROVE  LeadingAt(NextZero(s), buf, U, p, n + 1, k)
<1>0. m \in Nat /\ bits \in Seq({0, 1}) /\ IsValue(V, bits) /\ Len(bits) = 8 * m
  BY DEF Coded
<1>1. CASE ~(n <= k)
  <2>1. s.val = 1
    BY ONLY <1>1, LeadingAt(s, buf, U, p, n, k), Zenon DEF LeadingAt
  <2>2. NextZero(s) = s
    BY ONLY <2>1, Zenon DEF NextZero
  <2>3. ~(n + 1 <= k)
    BY <1>1
  <2> QED BY ONLY <1>1, <2>2, <2>3, LeadingAt(s, buf, U, p, n, k), Zenon DEF LeadingAt
<1>2. CASE n <= k
  <2>1. s.val = 0 /\ s.zeros = n - 1 /\ Reads(s.r, buf, U, p + n)
    BY ONLY <1>2, LeadingAt(s, buf, U, p, n, k), Zenon DEF LeadingAt
  <2>2. s.r.ok /\ s.val # 1
    BY ONLY <2>1 DEF Reads
  <2>3. PICK b : b = ReadBits(s.r, 1)
    BY Zenon
  <2>4. PICK q \in Nat : q = p + n /\ q + 1 <= 8 * m
    BY <1>0, <1>2
  <2>5. ReadsOn(b, buf, U, q + 1, Val(V, q, q + 1))
    <3>1. 1 \in 0 .. 34
      OBVIOUS
    <3>2. Reads(s.r, buf, U, q)
      BY ONLY <2>1, <2>4, Zenon
    <3>3. ReadsOn(ReadBits(s.r, 1), buf, U, q + 1, Val(V, q, q + 1))
      BY ONLY <2>4, <3>1, <3>2, BitsReads, Coded(bits, V, y, U, m), OverUnit(buf, U, m), Zenon
    <3> QED BY ONLY <2>3, <3>3, Zenon
  <2>6. NextZero(s) = [r |-> b.r, val |-> b.val, zeros |-> s.zeros + 1]
    BY ONLY <2>2, <2>3, Zenon DEF NextZero, CountBit
  <2>7. PICK z : z = s.zeros + 1 /\ z = n
    <3>1. (n - 1) + 1 = n
      OBVIOUS
    <3> QED BY ONLY <2>1, <3>1, Zenon
  <2>8. NextZero(s).r = b.r /\ NextZero(s).val = b.val /\ NextZero(s).zeros = n
    <3>1. PICK x : x = NextZero(s)
      BY Zenon
    <3>2. x = [r |-> b.r, val |-> b.val, zeros |-> z]
      BY ONLY <2>6, <2>7, <3>1, Zenon
    <3>3. x.r = b.r /\ x.val = b.val /\ x.zeros = z
      BY ONLY <3>2
    <3> QED BY ONLY <2>7, <3>1, <3>3, Zenon
  <2>9. Reads(NextZero(s).r, buf, U, q + 1) /\ NextZero(s).val = Val(V, q, q + 1)
    BY ONLY <2>5, <2>8, Zenon DEF ReadsOn
  <2>10. CASE n = k
    <3>1. ~(n + 1 <= k) /\ q + 1 = p + k + 1 /\ q = p + k
      BY <2>4, <2>10
    <3>2. Val(V, p + k, p + k + 1) = 1
      <4>1. p + 2 * k + 1 <= Len(bits) /\ k \in Nat
        BY <1>0
      <4>2. UeParts(V, p, k, v)
        BY ONLY <1>0, <4>1, UeVal, p \in Nat, UeAt(bits, p, k, v), Zenon
      <4> QED BY ONLY <4>2, Zenon DEF UeParts
    <3>3. Reads(NextZero(s).r, buf, U, p + k + 1) /\ NextZero(s).val = 1
      BY ONLY <2>9, <3>1, <3>2, Zenon
    <3> QED BY ONLY <2>8, <2>10, <3>1, <3>3, Zenon DEF LeadingAt
  <2>11. CASE n # k
    <3>1. n + 1 <= k /\ q + 1 = p + (n + 1) /\ n + 1 \in 1 .. k /\ (n + 1) - 1 = n
          /\ q + 1 \in 0 .. Len(bits) /\ q \in 0 .. Len(bits) /\ q + 1 \in q .. Len(bits) /\ (q + 1) - q <= 34
      BY <1>0, <1>2, <2>4, <2>11
    <3>2. Val(V, q, q + 1) = 0
      <4>1. bits[q + 1] = 0
        BY ONLY <3>1, UeAt(bits, p, k, v), Zenon DEF UeAt
      <4>2. \A i \in q + 1 .. q + 1 : bits[i] = 0
        BY ONLY <4>1, q \in Nat
      <4> QED BY ONLY <1>0, <3>1, <4>2, ZeroVal, Zenon
    <3>3. Reads(NextZero(s).r, buf, U, p + (n + 1)) /\ NextZero(s).val = 0
      BY ONLY <2>9, <3>1, <3>2, Zenon
    <3> QED BY ONLY <2>8, <3>1, <3>3, Zenon DEF LeadingAt
  <2> QED BY ONLY <2>10, <2>11
<1> QED BY ONLY <1>1, <1>2

BehindZeros(z, buf, U, p, k) == z.zeros = k /\ Reads(z.r, buf, U, p)

LEMMA LeadingZerosReads ==
    ASSUME NEW bits, NEW V, NEW y, NEW U, NEW m, Coded(bits, V, y, U, m),
           NEW buf, OverUnit(buf, U, m), NEW p \in Nat, NEW k \in 0 .. 30, NEW v, UeAt(bits, p, k, v),
           p + 2 * k + 1 <= 8 * m, NEW r, Reads(r, buf, U, p)
    PROVE  BehindZeros(LeadingZeros(r), buf, U, p + k + 1, k)
<1>0. WordBits \in 8 .. 32
  BY WordBitsAssumption
<1>1. r \in Readers(buf) /\ buf \in Bytes
  BY DEF Reads, OverUnit
<1>2. PICK g : LeadingRounds(g, buf, r)
  BY ONLY <1>1, LeadingZerosRounds, Zenon
<1>3. /\ g[0] = [r |-> r, val |-> 0, zeros |-> -1]
      /\ \A n \in 1 .. WordBits + 1 : g[n] = NextZero(g[n - 1])
      /\ LeadingZeros(r) = g[WordBits + 1]
  BY ONLY <1>2, Zenon DEF LeadingRounds
<1> DEFINE T == {n \in 0 .. WordBits + 1 : LeadingAt(g[n], buf, U, p, n, k)}
<1>4. 0 \in T
  <2>1. 0 <= k /\ 0 \in 0 .. WordBits + 1 /\ p + 0 = p /\ 0 - 1 = -1
    BY <1>0
  <2>2. g[0].r = r /\ g[0].val = 0 /\ g[0].zeros = -1
    BY ONLY <1>3
  <2> QED BY ONLY <2>1, <2>2, Reads(r, buf, U, p), Zenon DEF LeadingAt
<1>5. ASSUME NEW n \in 0 .. WordBits + 1, 0 < n, n - 1 \in T PROVE n \in T
  <2>1. PICK j \in Nat : j = n - 1 /\ j + 1 = n /\ n \in 1 .. WordBits + 1
    BY ONLY <1>0, <1>5
  <2>2. LeadingAt(g[j], buf, U, p, j, k)
    BY ONLY <1>5, <2>1, Zenon
  <2>3. LeadingAt(NextZero(g[j]), buf, U, p, j + 1, k)
    BY ONLY <2>2, NextZeroReads, Coded(bits, V, y, U, m), OverUnit(buf, U, m), p \in Nat, k \in 0 .. 30,
            UeAt(bits, p, k, v), p + 2 * k + 1 <= 8 * m, j \in Nat, Zenon
  <2> QED BY ONLY <1>3, <2>1, <2>3, n \in 0 .. WordBits + 1, Zenon
<1> HIDE DEF T
<1>6. 0 \in Int /\ WordBits + 1 \in Int /\ (0 <= WordBits + 1 => 0 \in T)
  BY ONLY <1>0, <1>4
<1>7. 0 .. WordBits + 1 \subseteq T
  BY ONLY <1>5, <1>6, IntervalInduction, Zenon
<1>8. PICK N \in Nat : N = WordBits + 1 /\ N \in 0 .. WordBits + 1
  BY ONLY <1>0
<1>9. LeadingAt(g[N], buf, U, p, N, k)
  BY ONLY <1>7, <1>8, Zenon DEF T
<1>10. ~(N <= k)
  <2>1. k < WordBits
    BY ONLY UeAt(bits, p, k, v), Zenon DEF UeAt, UeLength
  <2> QED BY ONLY <1>0, <1>8, <2>1, k \in 0 .. 30
<1> QED BY ONLY <1>3, <1>8, <1>9, <1>10, Zenon DEF LeadingAt, BehindZeros

LEMMA UeReads ==
    ASSUME NEW bits, NEW V, NEW y, NEW U, NEW m, Coded(bits, V, y, U, m),
           NEW buf, OverUnit(buf, U, m), NEW p \in Nat, NEW k \in 0 .. 30, NEW v, UeAt(bits, p, k, v),
           p + 2 * k + 1 <= 8 * m, NEW r, Reads(r, buf, U, p)
    PROVE  ReadsOn(ReadUe(r), buf, U, p + 2 * k + 1, v)
<1>0. m \in Nat /\ bits \in Seq({0, 1}) /\ IsValue(V, bits) /\ Len(bits) = 8 * m
  BY DEF Coded
<1>w. WordBits \in 8 .. 32
  BY WordBitsAssumption
<1>1. PICK z : z = LeadingZeros(r)
  BY Zenon
<1>2. PICK q \in Nat : /\ q = p + k + 1 /\ q + k = p + 2 * k + 1 /\ q + k <= 8 * m /\ k \in 0 .. 34
                       /\ p + 2 * k + 1 <= Len(bits) /\ k \in Nat
  BY <1>0
<1>3. z.zeros = k /\ Reads(z.r, buf, U, q)
  <2>1. BehindZeros(LeadingZeros(r), buf, U, p + k + 1, k)
    BY ONLY LeadingZerosReads, Coded(bits, V, y, U, m), OverUnit(buf, U, m), p \in Nat, k \in 0 .. 30,
            UeAt(bits, p, k, v), p + 2 * k + 1 <= 8 * m, Reads(r, buf, U, p), Zenon
  <2> QED BY ONLY <1>1, <1>2, <2>1, Zenon DEF BehindZeros
<1>4. PICK info : info = ReadBits(z.r, k)
  BY Zenon
<1>5. ReadsOn(info, buf, U, q + k, Val(V, q, q + k))
  BY ONLY <1>2, <1>3, <1>4, BitsReads, Coded(bits, V, y, U, m), OverUnit(buf, U, m), Zenon
<1>6. info.r.ok /\ info.val = Val(V, q, q + k) /\ Reads(info.r, buf, U, q + k)
  BY ONLY <1>5, Zenon DEF ReadsOn, Reads
<1>7. 2^k + Val(V, q, q + k) = v + 1 /\ k < WordBits
  <2>1. UeParts(V, p, k, v)
    BY ONLY <1>0, <1>2, UeVal, p \in Nat, UeAt(bits, p, k, v), Zenon
  <2>2. k < WordBits
    BY ONLY UeAt(bits, p, k, v), Zenon DEF UeAt, UeLength
  <2> QED BY ONLY <1>2, <2>1, <2>2, Zenon DEF UeParts
<1>8. 2^k + info.val - 1 = v
  <2>1. v \in Nat
    BY ONLY UeAt(bits, p, k, v), Zenon DEF UeAt, UeLength
  <2>2. PICK e \in Nat : e = 2^k
    <3>1. 2^k \in Nat \ {0}
      BY ONLY <1>2, PowerPositive, Zenon
    <3> QED BY <3>1
  <2>3. PICK i \in Nat : i = info.val
    <3>1. /\ q \in 0 .. Len(bits) /\ q + k \in q .. Len(bits) /\ (q + k) - q <= 34
      BY <1>0, <1>2
    <3>2. Val(V, q, q + k) \in Nat
      BY ONLY <1>0, <3>1, ValRange, Zenon
    <3> QED BY ONLY <1>6, <3>2, Zenon
  <2>4. e + i = v + 1
    BY ONLY <1>6, <1>7, <2>2, <2>3, Zenon
  <2>5. e + i - 1 = v
    BY ONLY <2>1, <2>4, e \in Nat, i \in Nat
  <2> QED BY ONLY <2>2, <2>3, <2>5, Zenon
<1>9. UeValue(z, info) = [r |-> info.r, val |-> v]
  <2>1. ~(k >= WordBits)
    BY ONLY <1>w, <1>7, k \in 0 .. 30
  <2> QED BY ONLY <1>3, <1>6, <1>8, <2>1, Zenon DEF UeValue
<1>10. ReadUe(r) = [r |-> info.r, val |-> v]
  BY ONLY <1>1, <1>3, <1>4, <1>9, Zenon DEF ReadUe, InfoRead
<1>11. ReadUe(r).r = info.r /\ ReadUe(r).val = v
  BY ONLY <1>10
<1> QED BY ONLY <1>2, <1>6, <1>11, Zenon DEF ReadsOn

\* The width of the number behind the zeros.
LEMMA UeBitCount ==
    ASSUME NEW v, NEW k, UeLength(v, k)
    PROVE  BitCount(v + 1) = k + 1 /\ (v + 1) % 2^WordBits = v + 1
<1>0. WordBits \in 8 .. 32
  BY WordBitsAssumption
<1>1. v \in UeVals /\ v \in Nat /\ k \in 0 .. 30 /\ 2^k <= v + 1 /\ v + 1 < 2^(k + 1)
  BY ONLY UeLength(v, k), Zenon DEF UeLength
<1>2. PICK n \in Nat \ {0} : n = v + 1
  BY ONLY <1>1
<1>3. n < 2^WordBits
  <2>1. v + 1 < 2^WordBits
    BY ONLY <1>1, Zenon DEF UeVals
  <2> QED BY ONLY <1>2, <2>1, Zenon
<1>4. PICK j \in 1 .. WordBits : j = BitCount(n) /\ 2^(j - 1) <= n /\ n < 2^j
  BY ONLY <1>3, BitCountType, n \in Nat \ {0}, Zenon
<1>5. /\ j \in Nat /\ j - 1 \in Nat /\ k \in Nat /\ k + 1 \in Nat /\ j <= 34 /\ j - 1 <= 34 /\ k + 1 <= 34 /\ k <= 34
      /\ j \in 0 .. 34 /\ j - 1 \in 0 .. 34 /\ k + 1 \in 0 .. 34 /\ k \in 0 .. 34
  BY ONLY <1>0, <1>1, j \in 1 .. WordBits
<1>6. PICK a \in Nat \ {0}, b \in Nat \ {0}, c \in Nat \ {0}, d \in Nat \ {0} :
        a = 2^j /\ b = 2^(j - 1) /\ c = 2^(k + 1) /\ d = 2^k
  BY ONLY <1>5, PowerPositive, Zenon
<1>7. b <= n /\ n < a /\ d <= n /\ n < c
  BY ONLY <1>1, <1>2, <1>4, <1>6, Zenon
<1>8. ~(j <= k)
  <2> SUFFICES ASSUME j <= k PROVE FALSE
    OBVIOUS
  <2>1. 2^j <= 2^k
    BY ONLY <1>5, j <= k, PowerMonotone, Zenon
  <2>2. a <= d
    BY ONLY <1>6, <2>1, Zenon
  <2> QED BY ONLY <1>7, <2>2, n \in Nat \ {0}, a \in Nat \ {0}, d \in Nat \ {0}
<1>9. ~(k + 1 <= j - 1)
  <2> SUFFICES ASSUME k + 1 <= j - 1 PROVE FALSE
    OBVIOUS
  <2>1. 2^(k + 1) <= 2^(j - 1)
    BY ONLY <1>5, k + 1 <= j - 1, PowerMonotone, Zenon
  <2>2. c <= b
    BY ONLY <1>6, <2>1, Zenon
  <2> QED BY ONLY <1>7, <2>2, n \in Nat \ {0}, b \in Nat \ {0}, c \in Nat \ {0}
<1>10. j = k + 1
  BY ONLY <1>1, <1>8, <1>9, j \in 1 .. WordBits, <1>0
<1>11. n % 2^WordBits = n
  <2>1. WordBits \in 0 .. 34
    BY ONLY <1>0
  <2>2. PICK f \in Nat \ {0} : f = 2^WordBits
    BY ONLY <2>1, PowerPositive, Zenon
  <2>3. n < f
    BY ONLY <1>3, <2>2, Zenon
  <2>4. n % f = n
    BY ONLY <2>3, n \in Nat \ {0}, f \in Nat \ {0}
  <2> QED BY ONLY <2>2, <2>4, Zenon
<1> QED BY ONLY <1>2, <1>4, <1>10, <1>11, Zenon

LEMMA UeWritten ==
    ASSUME NEW bits, NEW V, NEW y, NEW U, NEW m, Coded(bits, V, y, U, m),
           NEW p \in Nat, NEW k \in 0 .. 30, NEW v, UeAt(bits, p, k, v),
           p + 2 * k + 1 <= 8 * m, NEW w \in Writers, Writes(w, U, V, p)
    PROVE  Writes(WriteUe(w, v), U, V, p + 2 * k + 1)
<1>0. m \in Nat /\ bits \in Seq({0, 1}) /\ IsValue(V, bits) /\ Len(bits) = 8 * m
  BY DEF Coded
<1>1. UeLength(v, k) /\ v + 1 \in Nat /\ v + 1 <= Largest
  BY ONLY UeAt(bits, p, k, v), Zenon DEF UeAt, UeLength
<1>2. UeParts(V, p, k, v)
  <2>1. p + 2 * k + 1 <= Len(bits) /\ k \in Nat
    BY <1>0
  <2> QED BY ONLY <1>0, <2>1, UeVal, p \in Nat, UeAt(bits, p, k, v), Zenon
<1>3. PICK q \in Nat : /\ q = p + k /\ q + (k + 1) = p + 2 * k + 1 /\ q + (k + 1) <= 8 * m /\ q <= 8 * m
                       /\ k \in 0 .. 32 /\ k + 1 \in 0 .. 32 /\ k \in 0 .. 34 /\ (k + 1) - 1 = k
  BY <1>0
<1>4. PICK w1 : w1 = WriteBits(w, 0, k)
  BY Zenon
<1>5. w1 \in Writers /\ Writes(w1, U, V, q)
  <2>1. 0 \in Nat /\ 0 <= Largest /\ p + k <= 8 * m
    BY <1>3 DEF Largest
  <2>2. 0 = Val(V, p, p + k)
    BY ONLY <1>2, Zenon DEF UeParts
  <2>3. Writes(WriteBits(w, 0, k), U, V, p + k)
    BY ONLY <1>3, <2>1, <2>2, BitsWritten, Coded(bits, V, y, U, m), w \in Writers, p \in Nat, Writes(w, U, V, p), Zenon
  <2>4. WriteBits(w, 0, k) \in Writers
    BY ONLY <1>3, <2>1, WriteBitsType, w \in Writers, Zenon
  <2> QED BY ONLY <1>3, <1>4, <2>3, <2>4, Zenon
<1>6. PICK n \in Nat, l \in 0 .. 32 : n = v + 1 /\ l = k + 1
  BY ONLY <1>1, <1>3, Zenon
<1>7. Writes(WriteBits(w1, n, l), U, V, q + l)
  <2>1. n = Val(V, q, q + l) /\ n <= Largest /\ q + l <= 8 * m
    BY ONLY <1>1, <1>2, <1>3, <1>6, Zenon DEF UeParts
  <2> QED BY ONLY <1>5, <2>1, BitsWritten, Coded(bits, V, y, U, m), q \in Nat, n \in Nat, l \in 0 .. 32, Zenon
<1>8. WriteUe(w, v) = WriteBits(w1, n, l)
  <2>1. BitCount(n) = l /\ (v + 1) % 2^WordBits = n
    BY ONLY <1>1, <1>6, UeBitCount, Zenon
  <2>2. l - 1 = k
    BY ONLY <1>3, <1>6, Zenon
  <2> QED BY ONLY <1>4, <2>1, <2>2, Zenon DEF WriteUe
<1> QED BY ONLY <1>3, <1>6, <1>7, <1>8, Zenon

-----------------------------------------------------------------------------
(* Fields.                                                                 *)

\* x stands behind the first p bits.
FieldAt(bits, p, x) ==
    /\ FieldBits(x) \in Seq({0, 1}) /\ p + Len(FieldBits(x)) <= Len(bits)
    /\ \A i \in 1 .. Len(FieldBits(x)) : bits[p + i] = FieldBits(x)[i]

\* The three codings.
IsU(x) ==
    /\ x.f.n \in 1 .. 32 /\ x.f = u(x.f.n) /\ x.f.code = "u"
    /\ x.v \in Nat /\ x.v <= Largest /\ (x.f.n < 31 => x.v < 2^x.f.n)
IsUe(x) == x.f = ue /\ x.f.code = "ue" /\ FitsUe(x.v) /\ x.v \in Int
IsSe(x) == x.f = se /\ x.f.code = "se" /\ FitsUe(CodeNum(x.v)) /\ x.v \in Int

LEMMA FieldCases ==
    ASSUME NEW x \in Fields
    PROVE  IsU(x) \/ IsUe(x) \/ IsSe(x)
<1>1. ue.code = "ue" /\ se.code = "se" /\ "ue" # "u" /\ "se" # "u" /\ "ue" # "se"
  BY DEF ue, se
<1>2. Fits(x) /\ x.v \in Int /\ x.f \in {u(n) : n \in 1 .. 32} \cup {ue, se}
  BY ONLY x \in Fields DEF Fields
<1>3. CASE x.f = ue /\ FitsUe(x.v)
  BY ONLY <1>1, <1>2, <1>3, Zenon DEF IsUe
<1>4. CASE x.f = se /\ FitsUe(CodeNum(x.v))
  BY ONLY <1>1, <1>2, <1>4, Zenon DEF IsSe
<1>5. CASE x.f.code = "u" /\ x.v \in Nat /\ x.v <= Largest /\ (x.f.n < 31 => x.v < 2^x.f.n)
  <2>1. x.f # ue /\ x.f # se
    BY ONLY <1>1, <1>5, Zenon
  <2>2. PICK n \in 1 .. 32 : x.f = u(n)
    BY ONLY <1>2, <2>1, Zenon
  <2>3. x.f.n = n
    BY ONLY <2>2 DEF u
  <2> QED BY ONLY <1>5, <2>2, <2>3, Zenon DEF IsU
<1> QED BY ONLY <1>2, <1>3, <1>4, <1>5, Zenon DEF Fits

LEMMA BinaryType ==
    ASSUME NEW v \in Nat, NEW n \in 0 .. 34
    PROVE  Binary(v, n) \in Seq({0, 1}) /\ Len(Binary(v, n)) = n
<1> DEFINE bit(i) == IF n - i > 30 THEN 0 ELSE (v \div 2^(n - i)) % 2
<1>1. ASSUME NEW i \in 1 .. n PROVE bit(i) \in {0, 1}
  <2>1. CASE n - i > 30
    BY ONLY <2>1, Zenon
  <2>2. CASE ~(n - i > 30)
    <3>1. n - i \in 0 .. 34
      BY ONLY n \in 0 .. 34, i \in 1 .. n
    <3>2. PICK e \in Nat \ {0} : e = 2^(n - i)
      BY ONLY <3>1, PowerPositive, Zenon
    <3>3. v \div e \in Int
      <4>1. v \in Int
        OBVIOUS
      <4> QED BY ONLY <4>1, DivMod, e \in Nat \ {0}, Zenon
    <3>4. PICK a \in Int : a = v \div e
      BY ONLY <3>3, Zenon
    <3>5. a % 2 \in {0, 1}
      BY ONLY a \in Int
    <3> QED BY ONLY <2>2, <3>2, <3>4, <3>5, Zenon
  <2> QED BY ONLY <2>1, <2>2
<1>2. Binary(v, n) = [i \in 1 .. n |-> bit(i)]
  BY ONLY Zenon DEF Binary
<1> HIDE DEF bit
<1>3. Binary(v, n) \in [1 .. n -> {0, 1}]
  BY ONLY <1>1, <1>2, Zenon
<1> QED BY <1>3

LEMMA UBits ==
    ASSUME NEW x, IsU(x)
    PROVE  FieldBits(x) = Binary(x.v, x.f.n) /\ FieldBits(x) \in Seq({0, 1}) /\ Len(FieldBits(x)) = x.f.n
<1>1. PICK n \in 0 .. 34, v \in Nat : n = x.f.n /\ v = x.v
  BY DEF IsU
<1>2. FieldBits(x) = Binary(v, n)
  BY ONLY <1>1, IsU(x), Zenon DEF IsU, FieldBits
<1> QED BY ONLY <1>1, <1>2, BinaryType, Zenon

LEMMA UeBitsParts ==
    ASSUME NEW v, NEW k, UeLength(v, k)
    PROVE  /\ UeBits(v) \in Seq({0, 1}) /\ Len(UeBits(v)) = 2 * k + 1
           /\ \A i \in 1 .. k : UeBits(v)[i] = 0
           /\ \A i \in 1 .. k + 1 : UeBits(v)[k + i] = Binary(v + 1, k + 1)[i]
<1>1. k \in 0 .. 30 /\ v + 1 \in Nat /\ UeBits(v) = Repeat(k, 0) \o Binary(v + 1, k + 1)
  BY ONLY UeLength(v, k), Zenon DEF UeLength
<1>2. PICK b \in Seq({0, 1}) : b = Binary(v + 1, k + 1) /\ Len(b) = k + 1
  <2>1. k + 1 \in 0 .. 34
    BY <1>1
  <2> QED BY ONLY <1>1, <2>1, BinaryType, Zenon
<1>3. PICK z \in Seq({0, 1}) : z = Repeat(k, 0) /\ Len(z) = k /\ \A i \in 1 .. k : z[i] = 0
  <2>1. Repeat(k, 0) \in [1 .. k -> {0, 1}] /\ \A i \in 1 .. k : Repeat(k, 0)[i] = 0
    BY DEF Repeat
  <2>2. PICK z : z = Repeat(k, 0)
    BY Zenon
  <2>3. z \in [1 .. k -> {0, 1}] /\ k \in Nat
    BY <1>1, <2>1, <2>2
  <2>4. z \in Seq({0, 1}) /\ Len(z) = k
    BY ONLY <2>3
  <2> QED BY ONLY <2>1, <2>2, <2>4, Zenon
<1>4. PICK c : c = z \o b
  BY Zenon
<1>5. /\ c \in Seq({0, 1}) /\ Len(c) = 2 * k + 1
      /\ \A i \in 1 .. k : c[i] = z[i]
      /\ \A i \in 1 .. k + 1 : c[k + i] = b[i]
  BY ONLY <1>1, <1>2, <1>3, <1>4
<1> QED BY ONLY <1>1, <1>2, <1>3, <1>4, <1>5, Zenon

\* A field that is there as an exp-Golomb code.
LEMMA UeHere ==
    ASSUME NEW bits \in Seq({0, 1}), NEW p \in Nat, NEW x, FieldAt(bits, p, x),
           NEW v, FieldBits(x) = UeBits(v), FitsUe(v)
    PROVE  \E k \in 0 .. 30 : UeAt(bits, p, k, v) /\ Len(FieldBits(x)) = 2 * k + 1
<1>1. PICK k : UeLength(v, k)
  BY ONLY FitsUe(v), UeLengthExists, Zenon
<1>2. k \in 0 .. 30
  BY ONLY <1>1, Zenon DEF UeLength
<1>3. PICK b : b = UeBits(v)
  BY Zenon
<1>4. /\ b \in Seq({0, 1}) /\ Len(b) = 2 * k + 1
      /\ \A i \in 1 .. k : b[i] = 0
      /\ \A i \in 1 .. k + 1 : b[k + i] = Binary(v + 1, k + 1)[i]
  BY ONLY <1>1, <1>3, UeBitsParts, Zenon
<1>5. \A i \in 1 .. 2 * k + 1 : bits[p + i] = b[i]
  BY ONLY <1>3, <1>4, FieldAt(bits, p, x), FieldBits(x) = UeBits(v), Zenon DEF FieldAt
<1>6. \A i \in 1 .. k : bits[p + i] = 0
  <2> SUFFICES ASSUME NEW i \in 1 .. k PROVE bits[p + i] = 0
    OBVIOUS
  <2>1. i \in 1 .. 2 * k + 1
    BY ONLY <1>2, i \in 1 .. k
  <2> QED BY ONLY <1>4, <1>5, <2>1, i \in 1 .. k, Zenon
<1>7. \A i \in 1 .. k + 1 : bits[p + k + i] = Binary(v + 1, k + 1)[i]
  <2> SUFFICES ASSUME NEW i \in 1 .. k + 1 PROVE bits[p + k + i] = Binary(v + 1, k + 1)[i]
    OBVIOUS
  <2>1. k + i \in 1 .. 2 * k + 1 /\ p + (k + i) = p + k + i
    BY ONLY <1>2, p \in Nat, i \in 1 .. k + 1
  <2>2. bits[p + (k + i)] = b[k + i]
    BY ONLY <1>5, <2>1, Zenon
  <2> QED BY ONLY <1>4, <2>1, <2>2, Zenon
<1>8. UeAt(bits, p, k, v)
  BY ONLY <1>1, <1>6, <1>7, Zenon DEF UeAt, BinaryAt
<1>9. Len(FieldBits(x)) = 2 * k + 1
  BY ONLY <1>3, <1>4, FieldBits(x) = UeBits(v), Zenon
<1> QED BY ONLY <1>2, <1>8, <1>9, Zenon

\* A field is read with its value.
LEMMA FieldReads ==
    ASSUME NEW bits, NEW V, NEW y, NEW U, NEW m, Coded(bits, V, y, U, m),
           NEW buf, OverUnit(buf, U, m), NEW p \in Nat, NEW x \in Fields, FieldAt(bits, p, x),
           NEW r, Reads(r, buf, U, p)
    PROVE  ReadsOn(Read(r, x.f), buf, U, p + Len(FieldBits(x)), x.v)
<1>0. m \in Nat /\ bits \in Seq({0, 1}) /\ IsValue(V, bits) /\ Len(bits) = 8 * m
  BY DEF Coded
<1>1. p + Len(FieldBits(x)) <= 8 * m
  BY ONLY <1>0, FieldAt(bits, p, x), Zenon DEF FieldAt
<1>2. ASSUME NEW v, FieldBits(x) = UeBits(v), FitsUe(v)
      PROVE  ReadsOn(ReadUe(r), buf, U, p + Len(FieldBits(x)), v)
  <2>1. PICK k \in 0 .. 30 : UeAt(bits, p, k, v) /\ Len(FieldBits(x)) = 2 * k + 1
    BY ONLY <1>0, <1>2, UeHere, p \in Nat, FieldAt(bits, p, x), Zenon
  <2>2. PICK l \in Nat : l = 2 * k + 1
    OBVIOUS
  <2>3. p + l = p + 2 * k + 1
    BY ONLY <2>2, p \in Nat, k \in 0 .. 30
  <2>4. p + 2 * k + 1 <= 8 * m
    BY ONLY <1>1, <2>1, <2>2, <2>3, Zenon
  <2>5. ReadsOn(ReadUe(r), buf, U, p + 2 * k + 1, v)
    BY ONLY <2>1, <2>4, UeReads, Coded(bits, V, y, U, m), OverUnit(buf, U, m), p \in Nat, Reads(r, buf, U, p), Zenon
  <2> QED BY ONLY <2>1, <2>2, <2>3, <2>5, Zenon
<1>3. CASE IsU(x)
  <2>1. PICK n \in 0 .. 32, v \in Nat : n = x.f.n /\ v = x.v /\ n \in 0 .. 34
    BY <1>3 DEF IsU
  <2>2. FieldBits(x) = Binary(v, n) /\ Len(FieldBits(x)) = n
    BY ONLY <1>3, <2>1, UBits, Zenon
  <2>3. Read(r, x.f) = ReadBits(r, n)
    BY ONLY <1>3, <2>1, Zenon DEF IsU, Read
  <2>4. p + n <= 8 * m /\ p + n <= Len(bits)
    BY ONLY <1>0, <1>1, <2>2, Zenon
  <2>5. BinaryAt(bits, p, n, v)
    BY ONLY <2>2, FieldAt(bits, p, x), Zenon DEF FieldAt, BinaryAt
  <2>6. v <= Largest /\ (n < 31 => v < 2^n)
    BY ONLY <1>3, <2>1, Zenon DEF IsU
  <2>7. IsVal(V, p, p + n, v)
    BY ONLY <1>0, <2>4, <2>5, <2>6, BinaryVal, p \in Nat, n \in 0 .. 32, v \in Nat, Zenon
  <2>8. ReadsOn(ReadBits(r, n), buf, U, p + n, Val(V, p, p + n))
    BY ONLY <2>1, <2>4, BitsReads, Coded(bits, V, y, U, m), OverUnit(buf, U, m), p \in Nat, Reads(r, buf, U, p), Zenon
  <2> QED BY ONLY <2>1, <2>2, <2>3, <2>7, <2>8, Zenon DEF IsVal
<1>4. CASE IsUe(x)
  <2>1. FieldBits(x) = UeBits(x.v) /\ Read(r, x.f) = ReadUe(r) /\ FitsUe(x.v)
    <3>1. "ue" # "u"
      OBVIOUS
    <3> QED BY ONLY <1>4, <3>1, Zenon DEF IsUe, FieldBits, Read
  <2> QED BY ONLY <1>2, <2>1, Zenon
<1>5. CASE IsSe(x)
  <2>1. FieldBits(x) = UeBits(CodeNum(x.v)) /\ Read(r, x.f) = ReadSe(r) /\ FitsUe(CodeNum(x.v))
    <3>1. "se" # "u" /\ "se" # "ue"
      OBVIOUS
    <3> QED BY ONLY <1>5, <3>1, Zenon DEF IsSe, FieldBits, Read
  <2>2. ReadsOn(ReadUe(r), buf, U, p + Len(FieldBits(x)), CodeNum(x.v))
    BY ONLY <1>2, <2>1, Zenon
  <2>3. PICK v \in Int : v = x.v
    BY <1>5 DEF IsSe
  <2>4. PICK c \in Nat : c = CodeNum(v)
    BY DEF CodeNum
  <2>5. (IF c % 2 = 0 THEN -(c \div 2) ELSE (c + 1) \div 2) = v
    <3>1. CASE v <= 0
      <4>1. PICK a \in Nat : a = -v
        BY <3>1
      <4>2. c = 2 * a /\ v = -a
        BY ONLY <2>4, <3>1, <4>1, v \in Int DEF CodeNum
      <4>3. c % 2 = 0 /\ c \div 2 = a
        BY ONLY <4>2, a \in Nat
      <4> QED BY ONLY <4>2, <4>3, Zenon
    <3>2. CASE ~(v <= 0)
      <4>1. PICK a \in Nat : a = v - 1
        BY ONLY <3>2, v \in Int
      <4>2. c = 2 * a + 1 /\ v = a + 1
        BY ONLY <2>4, <3>2, <4>1, v \in Int DEF CodeNum
      <4>3. c % 2 # 0 /\ (c + 1) \div 2 = a + 1
        BY ONLY <4>2, a \in Nat
      <4> QED BY ONLY <4>2, <4>3, Zenon
    <3> QED BY ONLY <3>1, <3>2
  <2>6. PICK z : z = ReadUe(r)
    BY Zenon
  <2>7. z.val = c /\ Reads(z.r, buf, U, p + Len(FieldBits(x)))
    BY ONLY <2>2, <2>3, <2>4, <2>6, Zenon DEF ReadsOn
  <2>8. z \in [r : Readers(buf), val : Nat]
    <3>1. r \in Readers(buf) /\ buf \in Bytes /\ r.ok
      BY DEF Reads, OverUnit
    <3>2. ReadUe(r) \in [r : Readers(buf), val : UeVals]
      BY ONLY <3>1, ReadUeType DEF UeVals
    <3> QED BY ONLY <2>6, <3>2 DEF UeVals
  <2>9. ReadSe(r).r = z.r /\ ReadSe(r).val = v
    <3>1. ReadSe(r) = [z EXCEPT !.val = IF z.val % 2 = 0 THEN -(z.val \div 2) ELSE (z.val + 1) \div 2]
      BY ONLY <2>6, Zenon DEF ReadSe
    <3>2. ReadSe(r) = [z EXCEPT !.val = v]
      BY ONLY <2>5, <2>7, <3>1, Zenon
    <3> QED BY ONLY <2>8, <3>2
  <2> QED BY ONLY <2>1, <2>3, <2>7, <2>9, Zenon DEF ReadsOn
<1> QED BY ONLY <1>3, <1>4, <1>5, FieldCases, x \in Fields, Zenon

\* A field is written where it stands.
LEMMA FieldWritten ==
    ASSUME NEW bits, NEW V, NEW y, NEW U, NEW m, Coded(bits, V, y, U, m),
           NEW p \in Nat, NEW x \in Fields, FieldAt(bits, p, x),
           NEW w \in Writers, Writes(w, U, V, p)
    PROVE  Written(w, x.f, x.v) \in Writers /\ Writes(Written(w, x.f, x.v), U, V, p + Len(FieldBits(x)))
<1>0. m \in Nat /\ bits \in Seq({0, 1}) /\ IsValue(V, bits) /\ Len(bits) = 8 * m
  BY DEF Coded
<1>1. p + Len(FieldBits(x)) <= 8 * m
  BY ONLY <1>0, FieldAt(bits, p, x), Zenon DEF FieldAt
<1>2. ASSUME NEW v, FieldBits(x) = UeBits(v), FitsUe(v)
      PROVE  WriteUe(w, v) \in Writers /\ Writes(WriteUe(w, v), U, V, p + Len(FieldBits(x)))
  <2>1. PICK k \in 0 .. 30 : UeAt(bits, p, k, v) /\ Len(FieldBits(x)) = 2 * k + 1
    BY ONLY <1>0, <1>2, UeHere, p \in Nat, FieldAt(bits, p, x), Zenon
  <2>2. PICK l \in Nat : l = 2 * k + 1
    OBVIOUS
  <2>3. p + l = p + 2 * k + 1
    BY ONLY <2>2, p \in Nat, k \in 0 .. 30
  <2>4. p + 2 * k + 1 <= 8 * m
    BY ONLY <1>1, <2>1, <2>2, <2>3, Zenon
  <2>5. Writes(WriteUe(w, v), U, V, p + 2 * k + 1)
    BY ONLY <2>1, <2>4, UeWritten, Coded(bits, V, y, U, m), p \in Nat, w \in Writers, Writes(w, U, V, p), Zenon
  <2>6. v \in UeVals
    BY ONLY <2>1, Zenon DEF UeAt, UeLength
  <2>7. WriteUe(w, v) \in Writers
    BY ONLY <2>6, WriteUeType, w \in Writers, Zenon
  <2> QED BY ONLY <2>1, <2>2, <2>3, <2>5, <2>7, Zenon
<1>3. CASE IsU(x)
  <2>1. PICK n \in 0 .. 32, v \in Nat : n = x.f.n /\ v = x.v /\ n \in 0 .. 34
    BY <1>3 DEF IsU
  <2>2. FieldBits(x) = Binary(v, n) /\ Len(FieldBits(x)) = n
    BY ONLY <1>3, <2>1, UBits, Zenon
  <2>3. Written(w, x.f, x.v) = WriteBits(w, v, n)
    BY ONLY <1>3, <2>1, Zenon DEF IsU, Written
  <2>4. p + n <= 8 * m /\ p + n <= Len(bits)
    BY ONLY <1>0, <1>1, <2>2, Zenon
  <2>5. BinaryAt(bits, p, n, v)
    BY ONLY <2>2, FieldAt(bits, p, x), Zenon DEF FieldAt, BinaryAt
  <2>6. v <= Largest /\ (n < 31 => v < 2^n)
    BY ONLY <1>3, <2>1, Zenon DEF IsU
  <2>7. IsVal(V, p, p + n, v)
    BY ONLY <1>0, <2>4, <2>5, <2>6, BinaryVal, p \in Nat, n \in 0 .. 32, v \in Nat, Zenon
  <2>8. v = Val(V, p, p + n)
    BY ONLY <2>7, Zenon DEF IsVal
  <2>9. Writes(WriteBits(w, v, n), U, V, p + n)
    BY ONLY <2>4, <2>6, <2>8, BitsWritten, Coded(bits, V, y, U, m), p \in Nat, w \in Writers, Writes(w, U, V, p),
            n \in 0 .. 32, v \in Nat, Zenon
  <2>10. WriteBits(w, v, n) \in Writers
    BY ONLY <2>1, WriteBitsType, w \in Writers, v \in Nat, Zenon
  <2> QED BY ONLY <2>2, <2>3, <2>9, <2>10, Zenon
<1>4. CASE IsUe(x)
  <2>1. FieldBits(x) = UeBits(x.v) /\ Written(w, x.f, x.v) = WriteUe(w, x.v) /\ FitsUe(x.v)
    <3>1. "ue" # "u"
      OBVIOUS
    <3> QED BY ONLY <1>4, <3>1, Zenon DEF IsUe, FieldBits, Written
  <2> QED BY ONLY <1>2, <2>1, Zenon
<1>5. CASE IsSe(x)
  <2>1. FieldBits(x) = UeBits(CodeNum(x.v)) /\ Written(w, x.f, x.v) = WriteSe(w, x.v) /\ FitsUe(CodeNum(x.v))
    <3>1. "se" # "u" /\ "se" # "ue"
      OBVIOUS
    <3> QED BY ONLY <1>5, <3>1, Zenon DEF IsSe, FieldBits, Written
  <2>2. x.v \in SeVals
    <3>1. PICK k : UeLength(CodeNum(x.v), k)
      BY ONLY <2>1, UeLengthExists, Zenon
    <3>2. CodeNum(x.v) \in UeVals
      BY ONLY <3>1, Zenon DEF UeLength
    <3> QED BY ONLY <1>5, <3>2, Zenon DEF SeVals, IsSe
  <2>3. WriteSe(w, x.v) = WriteUe(w, CodeNum(x.v))
    BY ONLY <2>2, WriteSeAsUe, Zenon
  <2> QED BY ONLY <1>2, <2>1, <2>3, Zenon
<1> QED BY ONLY <1>3, <1>4, <1>5, FieldCases, x \in Fields, Zenon
-----------------------------------------------------------------------------
(* A unit's fields.                                                        *)

\* Behind q bits the stop bit, and zeros up to the end of its byte.
Stops(bits, q, m) ==
    /\ q + 1 <= 8 * m /\ 8 * m <= q + 8
    /\ bits[q + 1] = 1 /\ \A k \in q + 2 .. 8 * m : bits[k] = 0

\* Field i of fs ends behind pos[i] bits.
Placed(pos, bits, p, fs, m) ==
    /\ pos \in [0 .. Len(fs) -> Nat] /\ pos[0] = p
    /\ \A i \in 1 .. Len(fs) :
        FieldAt(bits, pos[i - 1], fs[i]) /\ pos[i] = pos[i - 1] + Len(FieldBits(fs[i]))
    /\ Stops(bits, pos[Len(fs)], m)

\* Behind p bits are the fields fs and then the stop bit.
Ahead(bits, p, fs, m) == fs \in Group /\ p \in Nat /\ \E pos : Placed(pos, bits, p, fs, m)

LEMMA FieldBitsType ==
    ASSUME NEW x \in Fields
    PROVE  FieldBits(x) \in Seq({0, 1})
<1>1. ASSUME NEW v, FitsUe(v) PROVE UeBits(v) \in Seq({0, 1})
  <2>1. PICK k : UeLength(v, k)
    BY ONLY <1>1, UeLengthExists, Zenon
  <2> QED BY ONLY <2>1, UeBitsParts, Zenon
<1>2. CASE IsU(x)
  BY ONLY <1>2, UBits, Zenon
<1>3. CASE IsUe(x)
  <2>1. "ue" # "u"
    OBVIOUS
  <2>2. FieldBits(x) = UeBits(x.v) /\ FitsUe(x.v)
    BY ONLY <1>3, <2>1, Zenon DEF IsUe, FieldBits
  <2> QED BY ONLY <1>1, <2>2, Zenon
<1>4. CASE IsSe(x)
  <2>1. "se" # "u" /\ "se" # "ue"
    OBVIOUS
  <2>2. FieldBits(x) = UeBits(CodeNum(x.v)) /\ FitsUe(CodeNum(x.v))
    BY ONLY <1>4, <2>1, Zenon DEF IsSe, FieldBits
  <2> QED BY ONLY <1>1, <2>2, Zenon
<1> QED BY ONLY <1>2, <1>3, <1>4, FieldCases, x \in Fields, Zenon

\* The zeros that fill the last byte.
LEMMA Padding ==
    ASSUME NEW n \in Nat, NEW z, z = (8 - (n % 8)) % 8
    PROVE  z \in 0 .. 7 /\ \E m \in Nat : n + z = 8 * m /\ (n + z) \div 8 = m
<1>1. PICK q \in Int, r \in 0 .. 7 : n = 8 * q + r /\ n % 8 = r
  <2>1. n \div 8 \in Int /\ (n % 8) \in 0 .. 7 /\ n = 8 * (n \div 8) + (n % 8)
    OBVIOUS
  <2> QED BY ONLY <2>1
<1>2. CASE r = 0
  BY <1>1, <1>2
<1>3. CASE r # 0
  <2>1. z = 8 - r
    BY <1>1, <1>3
  <2> QED BY <1>1, <2>1
<1> QED BY <1>2, <1>3

\* What RbspBits puts behind the fields' bits.
IsBody(bits, flat, m) ==
    /\ m \in Nat /\ bits \in Seq({0, 1}) /\ Len(bits) = 8 * m
    /\ flat \in Seq({0, 1}) /\ Stops(bits, Len(flat), m)
    /\ \A k \in 1 .. Len(flat) : bits[k] = flat[k]

LEMMA BodyExists ==
    ASSUME NEW flat \in Seq({0, 1}), NEW b, b = Append(flat, 1),
           NEW bits, bits = b \o Repeat((8 - (Len(b) % 8)) % 8, 0)
    PROVE  \E m \in Nat : IsBody(bits, flat, m) /\ Len(bits) \div 8 = m
<1>1. PICK l \in Nat : l = Len(flat)
  OBVIOUS
<1>2. b \in Seq({0, 1}) /\ Len(b) = l + 1 /\ b[l + 1] = 1 /\ \A k \in 1 .. l : b[k] = flat[k]
  BY <1>1
<1>3. PICK z : z = (8 - (Len(b) % 8)) % 8
  OBVIOUS
<1>4. Len(b) \in Nat
  BY <1>1, <1>2
<1>5. z \in 0 .. 7 /\ \E m \in Nat : Len(b) + z = 8 * m /\ (Len(b) + z) \div 8 = m
  BY ONLY <1>3, <1>4, Padding, Zenon
<1>6. PICK m \in Nat : Len(b) + z = 8 * m /\ (Len(b) + z) \div 8 = m
  BY ONLY <1>5, Zenon
<1>7. z \in Nat /\ 0 \in {0, 1}
  BY <1>5
<1>8. PICK c : c = Repeat(z, 0)
  OBVIOUS
<1>9. c \in Seq({0, 1}) /\ Len(c) = z /\ \A i \in 1 .. z : c[i] = 0
  BY ONLY <1>7, <1>8, RepeatType, Zenon
<1>10. bits = b \o c
  BY ONLY <1>3, <1>8, bits = b \o Repeat((8 - (Len(b) % 8)) % 8, 0), Zenon
<1>11. /\ bits \in Seq({0, 1}) /\ Len(bits) = 8 * m /\ Len(bits) \div 8 = m
       /\ \A k \in 1 .. l + 1 : bits[k] = b[k]
       /\ \A k \in 1 .. z : bits[l + 1 + k] = 0
  <2>1. IsConcat({0, 1}, bits, b, c)
    BY ONLY <1>2, <1>9, <1>10, ConcatAt, Zenon
  <2>2. /\ bits \in Seq({0, 1}) /\ Len(bits) = Len(b) + Len(c)
        /\ \A k \in 1 .. Len(b) : bits[k] = b[k]
        /\ \A k \in 1 .. Len(c) : bits[Len(b) + k] = c[k]
    BY ONLY <2>1, Zenon DEF IsConcat
  <2>3. Len(bits) = Len(b) + z
    BY ONLY <1>9, <2>2, Zenon
  <2>4. \A k \in 1 .. l + 1 : bits[k] = b[k]
    BY ONLY <1>2, <2>2, Zenon
  <2>5. \A k \in 1 .. z : bits[l + 1 + k] = 0
    BY ONLY <1>2, <1>9, <2>2, Zenon
  <2> QED BY ONLY <1>6, <2>2, <2>3, <2>4, <2>5, Zenon
<1>12. Stops(bits, l, m)
  <2>1. l + 1 <= 8 * m /\ 8 * m <= l + 8 /\ l + 1 + z = 8 * m
    BY ONLY <1>2, <1>5, <1>6, l \in Nat, m \in Nat
  <2>2. bits[l + 1] = 1
    BY ONLY <1>2, <1>11, l \in Nat
  <2>3. ASSUME NEW k \in l + 2 .. 8 * m PROVE bits[k] = 0
    <3>1. k - (l + 1) \in 1 .. z /\ l + 1 + (k - (l + 1)) = k
      BY ONLY <2>1, <1>7, l \in Nat, m \in Nat, k \in l + 2 .. 8 * m
    <3>2. PICK j \in 1 .. z : l + 1 + j = k
      BY ONLY <3>1, Zenon
    <3> QED BY ONLY <1>11, <3>2, Zenon
  <2> QED BY ONLY <2>1, <2>2, <2>3, Zenon DEF Stops
<1>13. \A k \in 1 .. l : bits[k] = flat[k]
  <2>1. \A k \in 1 .. l : k \in 1 .. l + 1
    BY ONLY l \in Nat
  <2> QED BY ONLY <1>2, <1>11, <2>1, Zenon
<1> QED BY ONLY <1>1, <1>11, <1>12, <1>13, flat \in Seq({0, 1}), m \in Nat, Zenon DEF IsBody

\* The fields' bits behind each other.
IsFlat(pos, flat, fs) ==
    /\ pos \in [0 .. Len(fs) -> Nat] /\ pos[0] = 0 /\ pos[Len(fs)] = Len(flat)
    /\ \A i \in 1 .. Len(fs) :
        /\ pos[i] = pos[i - 1] + Len(FieldBits(fs[i])) /\ pos[i] <= Len(flat)
        /\ \A k \in 1 .. Len(FieldBits(fs[i])) : flat[pos[i - 1] + k] = FieldBits(fs[i])[k]

LEMMA FlatPlaces ==
    ASSUME NEW fs \in Group,
           NEW flat, flat = FlattenSeq([i \in DOMAIN fs |-> FieldBits(fs[i])])
    PROVE  flat \in Seq({0, 1}) /\ \E pos : IsFlat(pos, flat, fs)
<1> DEFINE N == Len(fs)
           B == [i \in DOMAIN fs |-> FieldBits(fs[i])]
<1>1. N \in Nat /\ DOMAIN fs = 1 .. N /\ \A i \in 1 .. N : fs[i] \in Fields
  BY DEF Group
<1>2. \A i \in 1 .. N : FieldBits(fs[i]) \in Seq({0, 1})
  BY ONLY <1>1, FieldBitsType, Zenon
<1>3. B \in Seq(Seq({0, 1})) /\ Len(B) = N /\ \A i \in 1 .. N : B[i] = FieldBits(fs[i])
  <2>1. B = [i \in 1 .. N |-> FieldBits(fs[i])]
    BY ONLY <1>1, Zenon
  <2>2. PICK T \in [1 .. N -> Seq({0, 1})] : T = B
    BY ONLY <1>2, <2>1, Zenon
  <2>3. T \in Seq(Seq({0, 1})) /\ Len(T) = N
    BY ONLY <1>1, T \in [1 .. N -> Seq({0, 1})]
  <2>4. \A i \in 1 .. N : B[i] = FieldBits(fs[i])
    BY ONLY <2>1, Zenon
  <2> QED BY ONLY <2>2, <2>3, <2>4, Zenon
<1> HIDE DEF B
<1>4. flat = FlattenSeq(B)
  BY Zenon DEF B
<1>5. PICK t : FlatTails(t, {0, 1}, B)
  BY ONLY <1>3, FlattenTails, Zenon
<1> HIDE DEF N
<1>6. /\ \A i \in 0 .. N : t[i] \in Seq({0, 1})
      /\ t[0] = flat /\ t[N] = <<>> /\ flat \in Seq({0, 1})
      /\ \A i \in 1 .. N : t[i - 1] = B[i] \o t[i]
  <2>1. 0 \in 0 .. N
    BY ONLY <1>1
  <2> QED BY ONLY <1>3, <1>4, <1>5, <2>1, Zenon DEF FlatTails
<1>7. PICK l \in Nat : l = Len(flat)
  BY ONLY <1>6
<1> DEFINE Tailed(i, d) == d + Len(t[i]) = l /\ \A k \in 1 .. Len(t[i]) : flat[d + k] = t[i][k]
<1> DEFINE pos == [i \in 0 .. N |-> l - Len(t[i])]
<1>8. ASSUME NEW i \in 1 .. N, NEW d \in Nat, Tailed(i - 1, d)
      PROVE  /\ Tailed(i, d + Len(B[i])) /\ d + Len(B[i]) <= l
             /\ \A k \in 1 .. Len(B[i]) : flat[d + k] = B[i][k]
  <2>1. B[i] \in Seq({0, 1}) /\ t[i] \in Seq({0, 1}) /\ t[i - 1] = B[i] \o t[i]
    <3>1. i \in 0 .. N
      BY ONLY <1>1, i \in 1 .. N
    <3> QED BY ONLY <1>2, <1>3, <1>6, <3>1, i \in 1 .. N, Zenon
  <2>2. IsConcat({0, 1}, t[i - 1], B[i], t[i])
    BY ONLY <2>1, ConcatAt, Zenon
  <2>3. PICK a \in Nat, b \in Nat : a = Len(B[i]) /\ b = Len(t[i])
    BY ONLY <2>1
  <2>4. /\ Len(t[i - 1]) = a + b
        /\ \A k \in 1 .. a : t[i - 1][k] = B[i][k]
        /\ \A k \in 1 .. b : t[i - 1][a + k] = t[i][k]
    BY ONLY <2>2, <2>3, Zenon DEF IsConcat
  <2>5. d + (a + b) = l /\ \A k \in 1 .. a + b : flat[d + k] = t[i - 1][k]
    BY ONLY <1>8, <2>4, Zenon
  <2>6. (d + a) + b = l /\ d + a <= l
    BY ONLY <2>5, a \in Nat, b \in Nat, d \in Nat, l \in Nat
  <2>7. ASSUME NEW k \in 1 .. a PROVE flat[d + k] = B[i][k]
    <3>1. k \in 1 .. a + b
      BY ONLY k \in 1 .. a, a \in Nat, b \in Nat
    <3> QED BY ONLY <2>4, <2>5, <3>1, k \in 1 .. a, Zenon
  <2>8. ASSUME NEW k \in 1 .. b PROVE flat[(d + a) + k] = t[i][k]
    <3>1. a + k \in 1 .. a + b /\ d + (a + k) = (d + a) + k
      BY ONLY k \in 1 .. b, a \in Nat, b \in Nat, d \in Nat
    <3>2. PICK j \in 1 .. a + b : j = a + k /\ d + j = (d + a) + k
      BY ONLY <3>1, Zenon
    <3>3. flat[d + j] = t[i - 1][j]
      BY ONLY <2>5, <3>2, Zenon
    <3>4. t[i - 1][j] = t[i][k]
      BY ONLY <2>4, <3>2, k \in 1 .. b, Zenon
    <3> QED BY ONLY <3>2, <3>3, <3>4, Zenon
  <2> QED BY ONLY <2>3, <2>6, <2>7, <2>8, Zenon
<1> DEFINE T == {i \in 0 .. N : pos[i] \in Nat /\ Tailed(i, pos[i])}
<1>9. \A i \in 0 .. N : pos[i] = l - Len(t[i])
  OBVIOUS
<1>10. \A i \in 0 .. N : \A d \in Nat : Tailed(i, d) => pos[i] = d
  <2> SUFFICES ASSUME NEW i \in 0 .. N, NEW d \in Nat, Tailed(i, d) PROVE pos[i] = d
    OBVIOUS
  <2>1. Len(t[i]) \in Nat /\ d + Len(t[i]) = l
    BY <1>6
  <2>2. pos[i] = l - Len(t[i])
    BY ONLY <1>9, Zenon
  <2> QED BY ONLY <2>1, <2>2, d \in Nat, l \in Nat
<1>11. Tailed(0, 0)
  <2>1. t[0] = flat /\ 0 + Len(flat) = l /\ \A k \in 1 .. Len(flat) : 0 + k = k
    BY ONLY <1>6, <1>7
  <2> QED BY ONLY <2>1, Zenon
<1> HIDE DEF pos, Tailed
<1>12. 0 \in T
  <2>1. 0 \in 0 .. N /\ 0 \in Nat
    BY ONLY <1>1
  <2>2. pos[0] = 0
    BY ONLY <1>10, <1>11, <2>1, Zenon
  <2> QED BY ONLY <1>11, <2>1, <2>2, Zenon
<1>13. ASSUME NEW i \in 1 .. N, i - 1 \in T
       PROVE  /\ i \in T /\ pos[i] = pos[i - 1] + Len(FieldBits(fs[i])) /\ pos[i] <= l
              /\ \A k \in 1 .. Len(FieldBits(fs[i])) : flat[pos[i - 1] + k] = FieldBits(fs[i])[k]
  <2>1. PICK d \in Nat : d = pos[i - 1] /\ Tailed(i - 1, d)
    BY ONLY <1>13, Zenon
  <2>2. /\ Tailed(i, d + Len(B[i])) /\ d + Len(B[i]) <= l
        /\ \A k \in 1 .. Len(B[i]) : flat[d + k] = B[i][k]
    BY ONLY <1>8, <2>1, i \in 1 .. N, Zenon
  <2>3. d + Len(B[i]) \in Nat /\ i \in 0 .. N
    <3>1. B[i] \in Seq({0, 1})
      BY ONLY <1>2, <1>3, i \in 1 .. N, Zenon
    <3> QED BY ONLY <1>1, <3>1, d \in Nat, i \in 1 .. N
  <2>4. PICK e \in Nat : e = d + Len(B[i])
    BY ONLY <2>3, Zenon
  <2>5. pos[i] = e
    BY ONLY <1>10, <2>2, <2>3, <2>4, Zenon
  <2>6. B[i] = FieldBits(fs[i])
    BY ONLY <1>3, i \in 1 .. N, Zenon
  <2> QED BY ONLY <2>1, <2>2, <2>3, <2>4, <2>5, <2>6, Zenon
<1>14. \A i \in 0 .. N : i \in T
  <2>1. ASSUME NEW i \in 0 .. N, 0 < i, i - 1 \in T PROVE i \in T
    <3>1. i \in 1 .. N
      BY ONLY <2>1, <1>1, i \in 0 .. N
    <3> QED BY ONLY <1>13, <2>1, <3>1, Zenon
  <2>2. 0 \in Int /\ N \in Int /\ (0 <= N => 0 \in T)
    BY ONLY <1>1, <1>12
  <2> HIDE DEF T
  <2>3. 0 .. N \subseteq T
    BY ONLY <2>1, <2>2, IntervalInduction, Zenon
  <2> QED BY ONLY <2>3, Zenon
<1>15. IsFlat(pos, flat, fs)
  <2>1. \A i \in 0 .. N : pos[i] \in Nat
    BY ONLY <1>14, Zenon
  <2>2. pos \in [0 .. N -> Nat]
    BY ONLY <2>1, Zenon DEF pos
  <2>3. \A i \in 1 .. N : i - 1 \in 0 .. N
    BY ONLY <1>1
  <2>4. ASSUME NEW i \in 1 .. N
        PROVE  /\ pos[i] = pos[i - 1] + Len(FieldBits(fs[i])) /\ pos[i] <= l
               /\ \A k \in 1 .. Len(FieldBits(fs[i])) : flat[pos[i - 1] + k] = FieldBits(fs[i])[k]
    BY ONLY <1>13, <1>14, <2>3, i \in 1 .. N, Zenon
  <2>5. 0 \in Nat /\ 0 \in 0 .. N /\ N \in 0 .. N
    BY ONLY <1>1
  <2>6. pos[0] = 0
    BY ONLY <1>10, <1>11, <2>5, Zenon
  <2>7. pos[N] = l
    <3>1. Len(t[N]) = 0
      BY ONLY <1>6
    <3>2. pos[N] = l - Len(t[N])
      BY ONLY <1>9, <2>5, Zenon
    <3> QED BY ONLY <3>1, <3>2, l \in Nat
  <2> QED BY ONLY <1>7, <2>2, <2>4, <2>6, <2>7, Zenon DEF IsFlat, N
<1> QED BY ONLY <1>6, <1>15, Zenon

\* The unit of these fields.
CodedUnit(bits, V, y, U, m, header, fs) ==
    Coded(bits, V, y, U, m) /\ y[1] = header /\ U[m + 1] = Unit(header, fs) /\ Ahead(bits, 0, fs, m)

LEMMA UnitCoded ==
    ASSUME NEW fs \in Group, NEW header \in Byte, header > 3
    PROVE  \E bits, V, y, U, m : CodedUnit(bits, V, y, U, m, header, fs)
<1>1. PICK flat : flat = FlattenSeq([i \in DOMAIN fs |-> FieldBits(fs[i])])
  BY Zenon
<1>2. flat \in Seq({0, 1}) /\ \E pos : IsFlat(pos, flat, fs)
  BY ONLY <1>1, FlatPlaces, fs \in Group, Zenon
<1>3. PICK pos : IsFlat(pos, flat, fs)
  BY ONLY <1>2, Zenon
<1>4. PICK b : b = Append(flat, 1)
  BY Zenon
<1>5. PICK bits : bits = RbspBits(fs)
  BY Zenon
<1>6. bits = b \o Repeat((8 - (Len(b) % 8)) % 8, 0)
  BY ONLY <1>1, <1>4, <1>5, Zenon DEF RbspBits
<1>7. PICK m \in Nat : IsBody(bits, flat, m) /\ Len(bits) \div 8 = m
  BY ONLY <1>2, <1>4, <1>6, BodyExists, Zenon
<1>8. /\ bits \in Seq({0, 1}) /\ Len(bits) = 8 * m /\ Stops(bits, Len(flat), m)
      /\ \A k \in 1 .. Len(flat) : bits[k] = flat[k]
  BY ONLY <1>7, Zenon DEF IsBody
<1>9. PICK V : IsValue(V, bits)
  BY ONLY <1>8, ValueExists, Zenon
<1>10. PICK body : body = [i \in 1 .. m |-> ByteOf(bits, i)]
  BY Zenon
<1>11. Rbsp(fs) = body
  BY ONLY <1>5, <1>7, <1>10, Zenon DEF Rbsp
<1>12. ASSUME NEW i \in 1 .. m
       PROVE  body[i] = Val(V, 8 * (i - 1), 8 * i) /\ body[i] \in Byte
  <2>1. i \in Nat \ {0} /\ 8 * i <= Len(bits)
    BY ONLY <1>8, m \in Nat, i \in 1 .. m
  <2>2. ByteOf(bits, i) = Val(V, 8 * (i - 1), 8 * i) /\ ByteOf(bits, i) \in Byte
    BY ONLY <1>8, <1>9, <2>1, ByteOfVal, Zenon
  <2> QED BY ONLY <1>10, <2>2, i \in 1 .. m, Zenon
<1>13. body \in Bytes /\ Len(body) = m
  <2>1. body \in [1 .. m -> Byte]
    BY ONLY <1>10, <1>12, Zenon
  <2> QED BY ONLY <2>1, m \in Nat DEF Bytes
<1>14. PICK y : y = <<header>> \o body
  BY Zenon
<1>15. /\ y \in Bytes /\ Len(y) = m + 1 /\ y[1] = header
       /\ \A i \in 1 .. m : y[i + 1] = body[i]
  <2>1. <<header>> \in Seq(Byte) /\ Len(<<header>>) = 1 /\ <<header>>[1] = header
    BY ONLY header \in Byte
  <2>2. IsConcat(Byte, y, <<header>>, body)
    BY ONLY <1>13, <1>14, <2>1, ConcatAt, Zenon DEF Bytes
  <2>3. /\ y \in Bytes /\ Len(y) = 1 + m /\ (\A i \in 1 .. 1 : y[i] = <<header>>[i])
        /\ \A i \in 1 .. m : y[1 + i] = body[i]
    BY ONLY <1>13, <2>1, <2>2, Zenon DEF IsConcat, Bytes
  <2>4. 1 + m = m + 1 /\ 1 \in 1 .. 1 /\ \A i \in 1 .. m : 1 + i = i + 1
    BY ONLY m \in Nat
  <2> QED BY ONLY <2>1, <2>3, <2>4, Zenon
<1>16. PICK U : IsEscaping(U, y) /\ Escaped(y) = U[Len(y)]
  BY ONLY <1>15, EscapingExists, Zenon
<1>17. U[m + 1] = Unit(header, fs)
  BY ONLY <1>11, <1>14, <1>15, <1>16, Zenon DEF Unit
<1>18. Coded(bits, V, y, U, m)
  <2>1. \A i \in 1 .. m : y[i + 1] = Val(V, 8 * (i - 1), 8 * i)
    BY ONLY <1>12, <1>15, Zenon
  <2>2. y[1] > 3
    BY ONLY <1>15, header > 3, Zenon
  <2> QED BY ONLY <1>8, <1>9, <1>15, <1>16, <2>1, <2>2, m \in Nat, Zenon DEF Coded
<1>19. Placed(pos, bits, 0, fs, m)
  <2>1. /\ pos \in [0 .. Len(fs) -> Nat] /\ pos[0] = 0 /\ pos[Len(fs)] = Len(flat)
        /\ \A i \in 1 .. Len(fs) :
            /\ pos[i] = pos[i - 1] + Len(FieldBits(fs[i])) /\ pos[i] <= Len(flat)
            /\ \A k \in 1 .. Len(FieldBits(fs[i])) : flat[pos[i - 1] + k] = FieldBits(fs[i])[k]
    BY ONLY <1>3, Zenon DEF IsFlat
  <2>2. Stops(bits, pos[Len(fs)], m)
    BY ONLY <1>8, <2>1, Zenon
  <2>3. PICK l \in Nat : l = Len(flat) /\ l <= Len(bits)
    BY ONLY <1>2, <1>8, m \in Nat DEF Stops
  <2>4. ASSUME NEW i \in 1 .. Len(fs) PROVE FieldAt(bits, pos[i - 1], fs[i])
    <3>1. fs[i] \in Fields /\ i - 1 \in 0 .. Len(fs) /\ i \in 0 .. Len(fs)
      BY ONLY fs \in Group, i \in 1 .. Len(fs) DEF Group
    <3>2. FieldBits(fs[i]) \in Seq({0, 1})
      BY ONLY <3>1, FieldBitsType, Zenon
    <3>3. PICK d \in Nat, n \in Nat : d = pos[i - 1] /\ n = Len(FieldBits(fs[i]))
      <4>1. Len(FieldBits(fs[i])) \in Nat
        BY ONLY <3>2
      <4> QED BY ONLY <2>1, <3>1, <4>1, Zenon
    <3>4. /\ d + n <= l
          /\ \A k \in 1 .. n : flat[d + k] = FieldBits(fs[i])[k]
      BY ONLY <2>1, <2>3, <3>3, i \in 1 .. Len(fs), Zenon
    <3>5. d + n <= Len(bits)
      <4>1. Len(bits) \in Nat
        BY ONLY <1>8
      <4> QED BY ONLY <2>3, <3>4, <4>1, d \in Nat, n \in Nat, l \in Nat
    <3>6. ASSUME NEW k \in 1 .. n PROVE bits[d + k] = FieldBits(fs[i])[k]
      <4>1. d + k \in 1 .. l
        BY ONLY <3>4, k \in 1 .. n, d \in Nat, n \in Nat, l \in Nat
      <4> QED BY ONLY <1>8, <2>3, <3>4, <4>1, k \in 1 .. n, Zenon
    <3> QED BY ONLY <3>2, <3>3, <3>5, <3>6, Zenon DEF FieldAt
  <2> QED BY ONLY <2>1, <2>2, <2>4, Zenon DEF Placed
<1>20. Ahead(bits, 0, fs, m)
  <2>1. 0 \in Nat
    OBVIOUS
  <2> QED BY ONLY <1>19, <2>1, fs \in Group, Zenon DEF Ahead
<1> QED BY ONLY <1>15, <1>17, <1>18, <1>20, Zenon DEF CodedUnit

\* Behind the first field ahead are the others.
LEMMA AheadNext ==
    ASSUME NEW bits, NEW p, NEW m, NEW x \in Fields, NEW fs \in Group, Ahead(bits, p, <<x>> \o fs, m)
    PROVE  p \in Nat /\ FieldAt(bits, p, x) /\ Ahead(bits, p + Len(FieldBits(x)), fs, m)
<1>1. PICK gs : gs = <<x>> \o fs
  BY Zenon
<1>2. gs \in Group /\ Len(gs) = Len(fs) + 1 /\ gs[1] = x /\ Len(fs) \in Nat
      /\ \A i \in 1 .. Len(fs) : gs[i + 1] = fs[i]
  BY ONLY <1>1, x \in Fields, fs \in Group DEF Group
<1>3. PICK pos : Placed(pos, bits, p, gs, m)
  BY ONLY <1>1, Ahead(bits, p, <<x>> \o fs, m), Zenon DEF Ahead
<1>4. PICK n \in Nat : n = Len(fs) /\ Len(gs) = n + 1
  BY ONLY <1>2
<1>5. /\ pos \in [0 .. n + 1 -> Nat] /\ pos[0] = p /\ p \in Nat
      /\ \A i \in 1 .. n + 1 :
          FieldAt(bits, pos[i - 1], gs[i]) /\ pos[i] = pos[i - 1] + Len(FieldBits(gs[i]))
      /\ Stops(bits, pos[n + 1], m)
  BY ONLY <1>1, <1>3, <1>4, Ahead(bits, p, <<x>> \o fs, m), Zenon DEF Placed, Ahead
<1>6. FieldAt(bits, p, x) /\ pos[1] = p + Len(FieldBits(x))
  <2>1. 1 \in 1 .. n + 1 /\ 1 - 1 = 0
    BY ONLY n \in Nat
  <2>2. FieldAt(bits, pos[1 - 1], gs[1]) /\ pos[1] = pos[1 - 1] + Len(FieldBits(gs[1]))
    BY ONLY <1>5, <2>1, Zenon
  <2> QED BY ONLY <1>2, <1>5, <2>1, <2>2, Zenon
<1> DEFINE q == [i \in 0 .. n |-> pos[i + 1]]
<1>7. \A i \in 0 .. n : i + 1 \in 0 .. n + 1 /\ i + 1 \in 1 .. n + 1
  BY ONLY n \in Nat
<1>8. /\ q \in [0 .. n -> Nat]
      /\ \A i \in 0 .. n : q[i] = pos[i + 1]
  BY ONLY <1>5, <1>7, Zenon
<1> HIDE DEF q
<1>9. q[0] = pos[1] /\ q[n] = pos[n + 1]
  <2>1. 0 \in 0 .. n /\ n \in 0 .. n /\ 0 + 1 = 1
    BY ONLY n \in Nat
  <2>2. q[0] = pos[0 + 1]
    BY ONLY <1>8, <2>1, Zenon
  <2> QED BY ONLY <1>8, <2>1, <2>2, Zenon
<1>10. ASSUME NEW i \in 1 .. n
       PROVE  FieldAt(bits, q[i - 1], fs[i]) /\ q[i] = q[i - 1] + Len(FieldBits(fs[i]))
  <2>1. i - 1 \in 0 .. n /\ i \in 0 .. n /\ (i - 1) + 1 = i /\ (i + 1) - 1 = i /\ i + 1 \in 1 .. n + 1
    BY ONLY n \in Nat, i \in 1 .. n
  <2>2. q[i - 1] = pos[(i - 1) + 1] /\ q[i] = pos[i + 1]
    BY ONLY <1>8, <2>1, Zenon
  <2>3. PICK j \in 1 .. n + 1 : j = i + 1 /\ j - 1 = i
    BY ONLY <2>1, Zenon
  <2>4. FieldAt(bits, pos[i], gs[j]) /\ pos[j] = pos[i] + Len(FieldBits(gs[j]))
    BY ONLY <1>5, <2>3, Zenon
  <2>5. gs[j] = fs[i]
    BY ONLY <1>2, <1>4, <2>3, i \in 1 .. n, Zenon
  <2> QED BY ONLY <2>1, <2>2, <2>3, <2>4, <2>5, Zenon
<1>11. Placed(q, bits, pos[1], fs, m)
  BY ONLY <1>4, <1>5, <1>8, <1>9, <1>10, Zenon DEF Placed
<1>12. pos[1] \in Nat
  <2>1. 1 \in 0 .. n + 1
    BY ONLY n \in Nat
  <2> QED BY ONLY <1>5, <2>1, Zenon
<1> QED BY ONLY <1>5, <1>6, <1>11, <1>12, fs \in Group, Zenon DEF Ahead

-----------------------------------------------------------------------------
(* The two ends.                                                           *)

\* In front of the reader are these fields.
ReadsTo(r, fs) ==
    \E bits, V, y, U, m, p :
        /\ Coded(bits, V, y, U, m) /\ OverUnit(r.buffer, U, m)
        /\ Reads(r, r.buffer, U, p) /\ Ahead(bits, p, fs, m)

\* With these fields the writer makes the unit.
WritesTo(w, fs, unit) ==
    /\ w \in Writers
    /\ \E bits, V, y, U, m, p :
        /\ Coded(bits, V, y, U, m) /\ U[m + 1] = unit
        /\ Writes(w, U, V, p) /\ Ahead(bits, p, fs, m)

LEMMA ReaderParts ==
    ASSUME NEW r, NEW fs, ReadsTo(r, fs)
    PROVE  r.buffer \in Bytes /\ r \in Readers(r.buffer) /\ r.ok
BY Zenon DEF ReadsTo, Reads, OverUnit

LEMMA FieldRead ==
    ASSUME NEW x \in Fields, NEW fs \in Group, NEW r, ReadsTo(r, <<x>> \o fs)
    PROVE  /\ Read(r, x.f).val = x.v /\ ReadsTo(Read(r, x.f).r, fs)
           /\ Read(r, x.f).r.buffer = r.buffer
<1>1. PICK bits, V, y, U, m, p :
        /\ Coded(bits, V, y, U, m) /\ OverUnit(r.buffer, U, m)
        /\ Reads(r, r.buffer, U, p) /\ Ahead(bits, p, <<x>> \o fs, m)
  BY ONLY ReadsTo(r, <<x>> \o fs), Zenon DEF ReadsTo
<1>2. p \in Nat /\ FieldAt(bits, p, x) /\ Ahead(bits, p + Len(FieldBits(x)), fs, m)
  BY ONLY <1>1, AheadNext, x \in Fields, fs \in Group, Zenon
<1>3. PICK buf : buf = r.buffer
  BY Zenon
<1>4. ReadsOn(Read(r, x.f), buf, U, p + Len(FieldBits(x)), x.v)
  BY ONLY <1>1, <1>2, <1>3, FieldReads, x \in Fields, Zenon
<1>5. PICK z, q : z = Read(r, x.f) /\ q = p + Len(FieldBits(x))
  BY Zenon
<1>6. z.val = x.v /\ Reads(z.r, buf, U, q)
  BY ONLY <1>4, <1>5, Zenon DEF ReadsOn
<1>7. z.r.buffer = buf
  <2>1. PICK s : s = z.r
    BY Zenon
  <2>2. s \in Readers(buf)
    BY ONLY <1>6, <2>1, Zenon DEF Reads
  <2>3. s.buffer = buf
    BY ONLY <2>2 DEF Readers
  <2> QED BY ONLY <2>1, <2>3, Zenon
<1>8. ReadsTo(z.r, fs)
  BY ONLY <1>1, <1>2, <1>3, <1>5, <1>6, <1>7, Zenon DEF ReadsTo
<1> QED BY ONLY <1>3, <1>5, <1>6, <1>7, <1>8, Zenon

LEMMA FieldPut ==
    ASSUME NEW x \in Fields, NEW fs \in Group, NEW w, NEW unit, WritesTo(w, <<x>> \o fs, unit)
    PROVE  WritesTo(Written(w, x.f, x.v), fs, unit)
<1>1. PICK bits, V, y, U, m, p :
        /\ Coded(bits, V, y, U, m) /\ U[m + 1] = unit
        /\ Writes(w, U, V, p) /\ Ahead(bits, p, <<x>> \o fs, m)
  BY ONLY WritesTo(w, <<x>> \o fs, unit), Zenon DEF WritesTo
<1>2. p \in Nat /\ FieldAt(bits, p, x) /\ Ahead(bits, p + Len(FieldBits(x)), fs, m)
  BY ONLY <1>1, AheadNext, x \in Fields, fs \in Group, Zenon
<1>3. w \in Writers
  BY ONLY WritesTo(w, <<x>> \o fs, unit), Zenon DEF WritesTo
<1>4. Written(w, x.f, x.v) \in Writers /\ Writes(Written(w, x.f, x.v), U, V, p + Len(FieldBits(x)))
  BY ONLY <1>1, <1>2, <1>3, FieldWritten, x \in Fields, Zenon
<1> QED BY ONLY <1>1, <1>2, <1>4, Zenon DEF WritesTo

\* A cursor in front of the fields src, which makes the unit with the fields tgt.
At(c, src, tgt, unit) ==
    c \in Cursors(c.reader.buffer) /\ ReadsTo(c.reader, src) /\ WritesTo(c.writer, tgt, unit)

Kept(keep, group, tgt) == IF keep THEN group \o tgt ELSE tgt

LEMMA FieldDesc ==
    ASSUME NEW x \in Fields
    PROVE  x.f \in Descs /\ x.v \in Int
<1>1. x \in [f : {u(n) : n \in 1 .. 32} \cup {ue, se}, v : Int]
  BY Zenon DEF Fields
<1>2. x.f \in {u(n) : n \in 1 .. 32} \cup {ue, se} /\ x.v \in Int
  BY ONLY <1>1
<1>3. \A n \in 1 .. 32 : n \in 0 .. 32
  OBVIOUS
<1> QED BY ONLY <1>2, <1>3, Zenon DEF Descs

\* The cursor behind one field.
Passed(c, d, x, src, tgt, unit) ==
    At(d, src, tgt, unit) /\ d.vals = Append(c.vals, x.v) /\ d.reader.buffer = c.reader.buffer

LEMMA FieldTransferred ==
    ASSUME NEW x \in Fields, NEW src \in Group, NEW tgt \in Group, NEW unit, NEW keep \in BOOLEAN,
           NEW c, At(c, <<x>> \o src, Kept(keep, <<x>>, tgt), unit)
    PROVE  Passed(c, TransferField(c, x.f, keep), x, src, tgt, unit)
<1>1. PICK buf : buf = c.reader.buffer
  BY Zenon
<1>2. /\ c \in Cursors(buf) /\ ReadsTo(c.reader, <<x>> \o src)
      /\ WritesTo(c.writer, Kept(keep, <<x>>, tgt), unit)
  BY ONLY <1>1, At(c, <<x>> \o src, Kept(keep, <<x>>, tgt), unit), Zenon DEF At
<1>3. buf \in Bytes /\ c.reader.ok
  BY ONLY <1>1, <1>2, ReaderParts, Zenon
<1>4. PICK z : z = Read(c.reader, x.f)
  BY Zenon
<1>5. z.val = x.v /\ ReadsTo(z.r, src) /\ z.r.buffer = buf
  BY ONLY <1>1, <1>2, <1>4, FieldRead, x \in Fields, src \in Group, Zenon
<1>6. z.r.ok
  BY ONLY <1>5, ReaderParts, Zenon
<1>7. PICK w : w = IF keep THEN Written(c.writer, x.f, x.v) ELSE c.writer
  BY Zenon
<1>8. WritesTo(w, tgt, unit)
  <2>1. CASE keep
    <3>1. WritesTo(c.writer, <<x>> \o tgt, unit)
      BY ONLY <1>2, <2>1, Zenon DEF Kept
    <3>2. WritesTo(Written(c.writer, x.f, x.v), tgt, unit)
      BY ONLY <3>1, FieldPut, x \in Fields, tgt \in Group, Zenon
    <3> QED BY ONLY <1>7, <2>1, <3>2, Zenon
  <2>2. CASE ~keep
    BY ONLY <1>2, <1>7, <2>2, Zenon DEF Kept
  <2> QED BY ONLY <2>1, <2>2, Zenon
<1>9. PICK d : d = TransferField(c, x.f, keep)
  BY Zenon
<1>10. d = [reader |-> z.r, writer |-> w, vals |-> Append(c.vals, x.v)]
  <2>1. d = Moved(c, z, x.f, keep)
    BY ONLY <1>3, <1>4, <1>9, Zenon DEF TransferField
  <2>2. w = IF keep /\ z.r.ok THEN Written(c.writer, x.f, z.val) ELSE c.writer
    BY ONLY <1>5, <1>6, <1>7, Zenon
  <2>3. d = [reader |-> z.r, writer |-> w, vals |-> Append(c.vals, z.val)]
    BY ONLY <2>1, <2>2, Zenon DEF Moved
  <2> QED BY ONLY <1>5, <2>3, Zenon
<1>11. PICK s, vs : s = z.r /\ vs = Append(c.vals, x.v)
  BY Zenon
<1>12. d.reader = s /\ d.writer = w /\ d.vals = vs
  <2>1. d = [reader |-> s, writer |-> w, vals |-> vs]
    BY ONLY <1>10, <1>11, Zenon
  <2> QED BY ONLY <2>1
<1>13. d \in Cursors(buf)
  BY ONLY <1>2, <1>3, <1>9, TransferFieldType, FieldDesc, x \in Fields, keep \in BOOLEAN, Zenon
<1> QED BY ONLY <1>1, <1>5, <1>8, <1>9, <1>11, <1>12, <1>13, Zenon DEF Passed, At

Regroups(a, b, c) == (a \o b) \o c = a \o (b \o c)

LEMMA Regrouping ==
    ASSUME NEW S, NEW a \in Seq(S), NEW b \in Seq(S), NEW c \in Seq(S)
    PROVE  Regroups(a, b, c)
BY DEF Regroups

\* The elements of s behind the first i.
Past(s, i) == SubSeq(s, i + 1, Len(s))

IsNext(S, s, t, i, j) ==
    /\ Past(s, j) \o t = <<s[i]>> \o (Past(s, i) \o t)
    /\ s[i] \in S /\ Past(s, i) \o t \in Seq(S)

LEMMA PastNext ==
    ASSUME NEW S, NEW s \in Seq(S), NEW t \in Seq(S), NEW i \in 1 .. Len(s), NEW j, j = i - 1
    PROVE  IsNext(S, s, t, i, j)
<1>1. PICK n \in Nat : n = Len(s) /\ i \in 1 .. n
  OBVIOUS
<1>2. PICK a : a = Past(s, i)
  BY Zenon
<1>3. a = SubSeq(s, i + 1, n)
  BY ONLY <1>1, <1>2, Zenon DEF Past
<1>4. s[i] \in S /\ a \in Seq(S)
  BY ONLY <1>1, <1>3, s \in Seq(S)
<1>5. Past(s, j) = SubSeq(s, i, n)
  <2>1. j + 1 = i
    BY ONLY <1>1, j = i - 1
  <2> QED BY ONLY <1>1, <2>1, Zenon DEF Past
<1>6. SubSeq(s, i, n) = <<s[i]>> \o a
  <2>1. PICK h \in S : h = s[i]
    BY ONLY <1>4, Zenon
  <2> QED BY ONLY <1>1, <1>3, <2>1, s \in Seq(S)
<1>7. <<s[i]>> \in Seq(S)
  BY ONLY <1>4
<1>8. (<<s[i]>> \o a) \o t = <<s[i]>> \o (a \o t)
  <2>1. PICK b \in Seq(S) : b = <<s[i]>>
    BY ONLY <1>7, Zenon
  <2>2. (b \o a) \o t = b \o (a \o t)
    <3>1. Regroups(b, a, t)
      BY ONLY <1>4, b \in Seq(S), t \in Seq(S), Regrouping, Zenon
    <3> QED BY ONLY <3>1, Zenon DEF Regroups
  <2> QED BY ONLY <2>1, <2>2, Zenon
<1>9. a \o t \in Seq(S)
  BY ONLY <1>4, t \in Seq(S), ConcatType, Zenon
<1> QED BY ONLY <1>2, <1>4, <1>5, <1>6, <1>8, <1>9, Zenon DEF IsNext

\* The values of the first n fields of a group.
ValsAre(vals, group, n) ==
    vals \in Seq(Int) /\ Len(vals) = n /\ \A i \in 1 .. n : vals[i] = group[i].v

\* The cursor behind a group of fields.
Over(c, d, group, src, tgt, unit) ==
    At(d, src, tgt, unit) /\ ValsAre(d.vals, group, Len(group)) /\ d.reader.buffer = c.reader.buffer

LEMMA GroupTransferred ==
    ASSUME NEW g \in Group, NEW ds, ds \in Seq(Descs), Shape(g, ds),
           NEW src \in Group, NEW tgt \in Group, NEW unit,
           NEW keep \in BOOLEAN, NEW c, At(c, g \o src, Kept(keep, g, tgt), unit)
    PROVE  Over(c, Transfer(c, ds, keep), g, src, tgt, unit)
<1>1. PICK buf : buf = c.reader.buffer
  BY Zenon
<1>2. c \in Cursors(buf) /\ ReadsTo(c.reader, g \o src) /\ WritesTo(c.writer, Kept(keep, g, tgt), unit)
  BY ONLY <1>1, At(c, g \o src, Kept(keep, g, tgt), unit), Zenon DEF At
<1>3. buf \in Bytes
  BY ONLY <1>1, <1>2, ReaderParts, Zenon
<1>4. PICK h : Transfers(h, buf, c, ds, keep)
  BY ONLY <1>2, <1>3, TransferRounds, ds \in Seq(Descs), keep \in BOOLEAN, Zenon
<1>5. PICK n \in Nat : n = Len(g) /\ Len(ds) = n /\ (\A i \in 1 .. n : g[i] \in Fields /\ ds[i] = g[i].f)
  <2>1. PICK n \in Nat : n = Len(g) /\ DOMAIN g = 1 .. n /\ \A i \in 1 .. n : g[i] \in Fields
    BY ONLY g \in Group DEF Group
  <2>2. Len(ds) = n /\ \A i \in 1 .. n : g[i].f = ds[i]
    BY ONLY <2>1, Shape(g, ds) DEF Shape
  <2> QED BY ONLY <2>1, <2>2, Zenon
<1>6. /\ h \in [0 .. n -> Cursors(buf)] /\ h[0] = [c EXCEPT !.vals = <<>>]
      /\ \A i \in 1 .. n : h[i] = TransferField(h[i - 1], ds[i], keep)
      /\ Transfer(c, ds, keep) = h[n]
  BY ONLY <1>4, <1>5, Zenon DEF Transfers
<1> DEFINE Ok(i) == /\ At(h[i], Past(g, i) \o src, Kept(keep, Past(g, i), tgt), unit)
                    /\ ValsAre(h[i].vals, g, i) /\ h[i].reader.buffer = buf
           T == {i \in 0 .. n : Ok(i)}
<1>7. Past(g, 0) = g /\ Past(g, n) = <<>>
  <2>1. SubSeq(g, 0 + 1, Len(g)) = g /\ SubSeq(g, n + 1, n) = <<>>
    BY ONLY <1>5, n \in Nat, g \in Group DEF Group
  <2> QED BY ONLY <1>5, <2>1, Zenon DEF Past
<1>8. 0 \in T
  <2>1. PICK d : d = h[0]
    BY Zenon
  <2>2. d.reader = c.reader /\ d.writer = c.writer /\ d.vals = <<>> /\ d \in Cursors(buf)
    <3>1. 0 \in 0 .. n
      BY ONLY n \in Nat
    <3>2. d \in Cursors(buf)
      BY ONLY <1>6, <2>1, <3>1, Zenon
    <3>3. d = [c EXCEPT !.vals = <<>>]
      BY ONLY <1>6, <2>1, Zenon
    <3>4. d.reader = c.reader /\ d.writer = c.writer /\ d.vals = <<>>
      BY ONLY <1>2, <3>3 DEF Cursors
    <3> QED BY ONLY <3>2, <3>4, Zenon
  <2>3. At(d, g \o src, Kept(keep, g, tgt), unit)
    BY ONLY <1>1, <1>2, <2>2, Zenon DEF At
  <2>4. ValsAre(<<>>, g, 0)
    BY ONLY TRUE DEF ValsAre
  <2>5. 0 \in 0 .. n
    BY ONLY n \in Nat
  <2> QED BY ONLY <1>1, <1>7, <2>1, <2>2, <2>3, <2>4, <2>5, Zenon
<1>9. ASSUME NEW i \in 0 .. n, 0 < i, i - 1 \in T PROVE i \in T
  <2>1. i \in 1 .. n
    BY ONLY <1>9, n \in Nat
  <2>2. PICK j, e : j = i - 1 /\ e = h[j]
    BY Zenon
  <2>3. /\ At(e, Past(g, j) \o src, Kept(keep, Past(g, j), tgt), unit)
        /\ ValsAre(e.vals, g, j) /\ e.reader.buffer = buf
    BY ONLY <1>9, <2>2, Zenon
  <2>4. PICK x, rs, rt : x = g[i] /\ rs = Past(g, i) \o src /\ rt = Kept(keep, Past(g, i), tgt)
    BY Zenon
  <2>5. /\ \A t \in Group : Past(g, j) \o t = <<x>> \o (Past(g, i) \o t) /\ Past(g, i) \o t \in Group
        /\ x \in Fields
    <3>1. i \in 1 .. Len(g)
      BY ONLY <1>5, <2>1, Zenon
    <3>2. g \in Seq(Fields) /\ Group = Seq(Fields)
      BY ONLY g \in Group, Zenon DEF Group
    <3>3. ASSUME NEW t \in Seq(Fields)
          PROVE  IsNext(Fields, g, t, i, j)
      BY ONLY <2>2, <3>1, <3>2, PastNext, t \in Seq(Fields), Zenon
    <3> QED BY ONLY <2>4, <3>2, <3>3, src \in Group, Zenon DEF IsNext
  <2>6. rs \in Group /\ rt \in Group
    BY ONLY <2>4, <2>5, src \in Group, tgt \in Group, Zenon DEF Kept
  <2>7. Past(g, j) \o src = <<x>> \o rs /\ Kept(keep, Past(g, j), tgt) = Kept(keep, <<x>>, rt)
    BY ONLY <2>4, <2>5, src \in Group, tgt \in Group, Zenon DEF Kept
  <2>8. At(e, <<x>> \o rs, Kept(keep, <<x>>, rt), unit)
    BY ONLY <2>3, <2>7, Zenon
  <2>9. PICK d : d = TransferField(e, x.f, keep)
    BY Zenon
  <2>10. Passed(e, d, x, rs, rt, unit)
    BY ONLY <2>5, <2>6, <2>8, <2>9, FieldTransferred, keep \in BOOLEAN, Zenon
  <2>11. h[i] = d
    BY ONLY <1>5, <1>6, <2>1, <2>2, <2>4, <2>9, Zenon
  <2>12. At(d, rs, rt, unit) /\ d.vals = Append(e.vals, x.v) /\ d.reader.buffer = buf
    BY ONLY <2>3, <2>10, Zenon DEF Passed
  <2>13. ValsAre(d.vals, g, i)
    <3>1. PICK vs, us, v : vs = e.vals /\ us = d.vals /\ v = x.v
      BY Zenon
    <3>2. vs \in Seq(Int) /\ Len(vs) = j /\ (\A k \in 1 .. j : vs[k] = g[k].v)
      BY ONLY <2>3, <3>1, Zenon DEF ValsAre
    <3>3. v \in Int
      BY ONLY <2>5, <3>1, FieldDesc, Zenon
    <3>4. us = Append(vs, v)
      BY ONLY <2>12, <3>1, Zenon
    <3>5. us \in Seq(Int) /\ Len(us) = i /\ us[i] = v /\ (\A k \in 1 .. j : us[k] = vs[k])
      BY ONLY <2>1, <2>2, <3>2, <3>3, <3>4, n \in Nat
    <3>6. \A k \in 1 .. i : k = i \/ k \in 1 .. j
      BY ONLY <2>1, <2>2, n \in Nat
    <3>7. \A k \in 1 .. i : us[k] = g[k].v
      BY ONLY <2>4, <3>1, <3>2, <3>5, <3>6, Zenon
    <3> QED BY ONLY <3>1, <3>5, <3>7, Zenon DEF ValsAre
  <2> QED BY ONLY <2>4, <2>11, <2>12, <2>13, i \in 0 .. n, Zenon
<1> HIDE DEF T
<1>10. 0 \in Int /\ n \in Int /\ (0 <= n => 0 \in T)
  BY ONLY <1>8, n \in Nat
<1>11. 0 .. n \subseteq T
  BY ONLY <1>9, <1>10, IntervalInduction, Zenon
<1>12. n \in T
  <2>1. n \in 0 .. n
    BY ONLY n \in Nat
  <2> QED BY ONLY <1>11, <2>1, Zenon
<1>13. /\ At(h[n], Past(g, n) \o src, Kept(keep, Past(g, n), tgt), unit)
       /\ ValsAre(h[n].vals, g, n) /\ h[n].reader.buffer = buf
  BY ONLY <1>12, Zenon DEF T
<1>14. Past(g, n) \o src = src /\ Kept(keep, Past(g, n), tgt) = tgt
  <2>1. <<>> \o src = src /\ <<>> \o tgt = tgt
    BY ONLY src \in Group, tgt \in Group DEF Group
  <2> QED BY ONLY <1>7, <2>1, Zenon DEF Kept
<1> QED BY ONLY <1>1, <1>5, <1>6, <1>13, <1>14, Zenon DEF Over

LEMMA GroupCopied ==
    ASSUME NEW g \in Group, NEW ds, ds \in Seq(Descs), Shape(g, ds),
           NEW src \in Group, NEW tgt \in Group, NEW unit, NEW c, At(c, g \o src, g \o tgt, unit)
    PROVE  Over(c, Copy(c, ds), g, src, tgt, unit)
<1>1. PICK keep \in BOOLEAN : keep = TRUE
  OBVIOUS
<1>2. Kept(keep, g, tgt) = g \o tgt /\ Copy(c, ds) = Transfer(c, ds, keep)
  BY ONLY <1>1, Zenon DEF Kept, Copy
<1>3. At(c, g \o src, Kept(keep, g, tgt), unit)
  BY ONLY <1>2, At(c, g \o src, g \o tgt, unit), Zenon
<1>4. Over(c, Transfer(c, ds, keep), g, src, tgt, unit)
  BY ONLY <1>3, GroupTransferred, g \in Group, ds \in Seq(Descs), Shape(g, ds), src \in Group,
          tgt \in Group, keep \in BOOLEAN, Zenon
<1> QED BY ONLY <1>2, <1>4, Zenon

LEMMA GroupSkipped ==
    ASSUME NEW g \in Group, NEW ds, ds \in Seq(Descs), Shape(g, ds),
           NEW src \in Group, NEW tgt \in Group, NEW unit, NEW c, At(c, g \o src, tgt, unit)
    PROVE  Over(c, Skip(c, ds), g, src, tgt, unit)
<1>1. PICK keep \in BOOLEAN : keep = FALSE
  OBVIOUS
<1>2. Kept(keep, g, tgt) = tgt /\ Skip(c, ds) = Transfer(c, ds, keep)
  BY ONLY <1>1, Zenon DEF Kept, Skip
<1>3. At(c, g \o src, Kept(keep, g, tgt), unit)
  BY ONLY <1>2, At(c, g \o src, tgt, unit), Zenon
<1>4. Over(c, Transfer(c, ds, keep), g, src, tgt, unit)
  BY ONLY <1>3, GroupTransferred, g \in Group, ds \in Seq(Descs), Shape(g, ds), src \in Group,
          tgt \in Group, keep \in BOOLEAN, Zenon
<1> QED BY ONLY <1>2, <1>4, Zenon

\* The cursor c with more written.
PutBehind(c, d, src, tgt, unit) ==
    At(d, src, tgt, unit) /\ d.vals = c.vals /\ d.reader = c.reader

LEMMA PutAt ==
    ASSUME NEW x \in Fields, NEW src \in Group, NEW tgt \in Group, NEW unit,
           NEW c, At(c, src, <<x>> \o tgt, unit)
    PROVE  PutBehind(c, Put(c, x.f, x.v), src, tgt, unit)
<1>1. PICK d, w, buf : d = Put(c, x.f, x.v) /\ w = Written(c.writer, x.f, x.v) /\ buf = c.reader.buffer
  BY Zenon
<1>2. c \in Cursors(buf) /\ ReadsTo(c.reader, src) /\ WritesTo(c.writer, <<x>> \o tgt, unit)
  BY ONLY <1>1, At(c, src, <<x>> \o tgt, unit), Zenon DEF At
<1>3. WritesTo(w, tgt, unit)
  BY ONLY <1>1, <1>2, FieldPut, x \in Fields, tgt \in Group, Zenon
<1>4. d = [c EXCEPT !.writer = w]
  BY ONLY <1>1, Zenon DEF Put
<1>5. w \in Writers
  BY ONLY <1>3, Zenon DEF WritesTo
<1>6. d \in Cursors(buf) /\ d.writer = w /\ d.vals = c.vals /\ d.reader = c.reader
  BY ONLY <1>2, <1>4, <1>5 DEF Cursors
<1> QED BY ONLY <1>1, <1>2, <1>3, <1>6, Zenon DEF PutBehind, At

LEMMA FlagField ==
    ASSUME NEW b \in BOOLEAN
    PROVE  /\ Flag(b) \in Fields /\ Flag(b).f = u(1)
           /\ Flag(b).v # 0 <=> b
           /\ Flag(b).v = IF b THEN 1 ELSE 0
<1>1. PICK g \in Nat : g = Largest /\ 2^31 = g + 1
  BY LargestPower, Zenon
<1>2. 1 <= g
  BY ONLY <1>1, PowerTable, SMT DEF IsPower
<1>3. PICK v \in {0, 1} : v = IF b THEN 1 ELSE 0
  BY ONLY b \in BOOLEAN
<1>4. PICK x : x = [f |-> u(1), v |-> v]
  BY Zenon
<1>5. x = Flag(b) /\ x.f = u(1) /\ x.v = v
  <2>1. x = Flag(b)
    BY ONLY <1>3, <1>4, Zenon DEF Flag, F
  <2>2. x.f = u(1) /\ x.v = v
    BY ONLY <1>4
  <2> QED BY ONLY <2>1, <2>2, Zenon
<1>6. u(1).code = "u" /\ u(1).n = 1
  BY ONLY TRUE DEF u
<1>7. 2^1 = 2
  OBVIOUS
<1>8. x \in [f : {u(n) : n \in 1 .. 32} \cup {ue, se}, v : Int]
  <2>1. PICK d : d = u(1)
    BY Zenon
  <2>2. d \in {u(n) : n \in 1 .. 32}
    <3>1. 1 \in 1 .. 32
      OBVIOUS
    <3> QED BY ONLY <2>1, <3>1, Zenon
  <2>3. PICK D : D = {u(n) : n \in 1 .. 32} \cup {ue, se}
    BY Zenon
  <2>4. d \in D
    BY ONLY <2>2, <2>3, Zenon
  <2>5. x = [f |-> d, v |-> v]
    BY ONLY <1>4, <2>1, Zenon
  <2>6. x \in [f : D, v : Int]
    BY ONLY <2>4, <2>5, v \in {0, 1}
  <2> QED BY ONLY <2>3, <2>6, Zenon
<1>9. Fits(x)
  <2>1. v \in Nat /\ v <= g /\ v < 2
    BY ONLY <1>1, <1>2, v \in {0, 1}, g \in Nat
  <2> QED BY ONLY <1>1, <1>5, <1>6, <1>7, <2>1, Zenon DEF Fits
<1>10. x \in Fields
  BY ONLY <1>8, <1>9, Zenon DEF Fields
<1>11. (v # 0) <=> b
  BY ONLY <1>3, b \in BOOLEAN
<1> QED BY ONLY <1>3, <1>5, <1>10, <1>11, Zenon

LEMMA GroupParts ==
    ASSUME NEW a \in Group, NEW b \in Group
    PROVE  a \o b \in Group
BY DEF Group

LEMMA SingleGroup ==
    ASSUME NEW x \in Fields
    PROVE  <<x>> \in Group
BY DEF Group

\* The value that was read last.
LEMMA LastValue ==
    ASSUME NEW c, NEW d, NEW g \in Group, g # <<>>, NEW src, NEW tgt, NEW unit, Over(c, d, g, src, tgt, unit)
    PROVE  LastOf(d) = g[Len(g)].v
<1>1. PICK n \in Nat : n = Len(g) /\ n \in 1 .. n
  BY ONLY g \in Group, g # <<>> DEF Group
<1>2. Len(d.vals) = n /\ \A i \in 1 .. n : d.vals[i] = g[i].v
  BY ONLY <1>1, Over(c, d, g, src, tgt, unit), Zenon DEF Over, ValsAre
<1> QED BY ONLY <1>1, <1>2, Zenon DEF LastOf

\* The cursor behind one field, with its value v.
Behind1(d, v, src, tgt, unit) == At(d, src, tgt, unit) /\ LastOf(d) = v

LEMMA SingleShape ==
    ASSUME NEW x
    PROVE  Shape(<<x>>, <<x.f>>) /\ Len(<<x>>) = 1 /\ <<x>>[1] = x /\ <<x>> # <<>>
BY DEF Shape

LEMMA OneCopied ==
    ASSUME NEW x \in Fields, NEW f, f = x.f, NEW src \in Group, NEW tgt \in Group, NEW unit,
           NEW c, At(c, <<x>> \o src, <<x>> \o tgt, unit)
    PROVE  Behind1(Copy(c, <<f>>), x.v, src, tgt, unit)
<1>1. PICK g \in Group : g = <<x>>
  BY ONLY SingleGroup, x \in Fields, Zenon
<1>2. PICK ds \in Seq(Descs) : ds = <<f>>
  <2>1. f \in Descs
    BY ONLY f = x.f, FieldDesc, x \in Fields, Zenon
  <2>2. <<f>> \in Seq(Descs)
    BY ONLY <2>1
  <2> QED BY ONLY <2>2, Zenon
<1>3. Shape(g, ds) /\ g # <<>> /\ g[Len(g)] = x
  BY ONLY <1>1, <1>2, f = x.f, SingleShape, Zenon
<1>4. PICK d : d = Copy(c, ds)
  BY Zenon
<1>5. At(c, g \o src, g \o tgt, unit)
  BY ONLY <1>1, At(c, <<x>> \o src, <<x>> \o tgt, unit), Zenon
<1>6. Over(c, d, g, src, tgt, unit)
  BY ONLY <1>3, <1>4, <1>5, GroupCopied, g \in Group, ds \in Seq(Descs), src \in Group, tgt \in Group, Zenon
<1>7. LastOf(d) = g[Len(g)].v
  BY ONLY <1>3, <1>6, LastValue, g \in Group, Zenon
<1> QED BY ONLY <1>2, <1>3, <1>4, <1>6, <1>7, Zenon DEF Behind1, Over

LEMMA OneSkipped ==
    ASSUME NEW x \in Fields, NEW f, f = x.f, NEW src \in Group, NEW tgt \in Group, NEW unit,
           NEW c, At(c, <<x>> \o src, tgt, unit)
    PROVE  Behind1(Skip(c, <<f>>), x.v, src, tgt, unit)
<1>1. PICK g \in Group : g = <<x>>
  BY ONLY SingleGroup, x \in Fields, Zenon
<1>2. PICK ds \in Seq(Descs) : ds = <<f>>
  <2>1. f \in Descs
    BY ONLY f = x.f, FieldDesc, x \in Fields, Zenon
  <2>2. <<f>> \in Seq(Descs)
    BY ONLY <2>1
  <2> QED BY ONLY <2>2, Zenon
<1>3. Shape(g, ds) /\ g # <<>> /\ g[Len(g)] = x
  BY ONLY <1>1, <1>2, f = x.f, SingleShape, Zenon
<1>4. PICK d : d = Skip(c, ds)
  BY Zenon
<1>5. At(c, g \o src, tgt, unit)
  BY ONLY <1>1, At(c, <<x>> \o src, tgt, unit), Zenon
<1>6. Over(c, d, g, src, tgt, unit)
  BY ONLY <1>3, <1>4, <1>5, GroupSkipped, g \in Group, ds \in Seq(Descs), src \in Group, tgt \in Group, Zenon
<1>7. LastOf(d) = g[Len(g)].v
  BY ONLY <1>3, <1>6, LastValue, g \in Group, Zenon
<1> QED BY ONLY <1>2, <1>3, <1>4, <1>6, <1>7, Zenon DEF Behind1, Over

\* The cursor behind a flag.
BehindFlag(d, b, src, tgt, unit) ==
    At(d, src, tgt, unit) /\ (Present(d) <=> b) /\ (~b => LastOf(d) = 0)

LEMMA FlagCopied ==
    ASSUME NEW b \in BOOLEAN, NEW src \in Group, NEW tgt \in Group, NEW unit,
           NEW c, At(c, <<Flag(b)>> \o src, <<Flag(b)>> \o tgt, unit)
    PROVE  BehindFlag(Copy(c, <<u(1)>>), b, src, tgt, unit)
<1>1. PICK x \in Fields : x = Flag(b) /\ u(1) = x.f /\ (x.v # 0 <=> b) /\ x.v = IF b THEN 1 ELSE 0
  BY ONLY FlagField, b \in BOOLEAN, Zenon
<1>2. Behind1(Copy(c, <<u(1)>>), x.v, src, tgt, unit)
  BY ONLY <1>1, OneCopied, At(c, <<Flag(b)>> \o src, <<Flag(b)>> \o tgt, unit), src \in Group,
          tgt \in Group, Zenon
<1> QED BY ONLY <1>1, <1>2, Zenon DEF Behind1, BehindFlag, Present

LEMMA FlagSkipped ==
    ASSUME NEW b \in BOOLEAN, NEW src \in Group, NEW tgt \in Group, NEW unit,
           NEW c, At(c, <<Flag(b)>> \o src, tgt, unit)
    PROVE  BehindFlag(Skip(c, <<u(1)>>), b, src, tgt, unit)
<1>1. PICK x \in Fields : x = Flag(b) /\ u(1) = x.f /\ (x.v # 0 <=> b) /\ x.v = IF b THEN 1 ELSE 0
  BY ONLY FlagField, b \in BOOLEAN, Zenon
<1>2. Behind1(Skip(c, <<u(1)>>), x.v, src, tgt, unit)
  BY ONLY <1>1, OneSkipped, At(c, <<Flag(b)>> \o src, tgt, unit), src \in Group,
          tgt \in Group, Zenon
<1> QED BY ONLY <1>1, <1>2, Zenon DEF Behind1, BehindFlag, Present

LEMMA OptOf ==
    ASSUME NEW g \in Group, NEW rest \in Group
    PROVE  \E b \in BOOLEAN : /\ b = (g # <<>>) /\ g \o rest \in Group
                              /\ Opt(g) \o rest = <<Flag(b)>> \o (g \o rest)
                              /\ Opt(g) \in Group
<1>1. PICK b \in BOOLEAN : b = (g # <<>>)
  BY Zenon
<1>2. PICK a \in Group : a = <<Flag(b)>>
  BY ONLY FlagField, SingleGroup, b \in BOOLEAN, Zenon
<1>3. Opt(g) = a \o g
  BY ONLY <1>1, <1>2, Zenon DEF Opt
<1>4. Regroups(a, g, rest)
  <2>1. a \in Seq(Fields) /\ g \in Seq(Fields) /\ rest \in Seq(Fields)
    BY ONLY a \in Group, g \in Group, rest \in Group, Zenon DEF Group
  <2> QED BY ONLY <2>1, Regrouping, Zenon
<1>5. Opt(g) \o rest = a \o (g \o rest)
  BY ONLY <1>3, <1>4, Zenon DEF Regroups
<1>6. g \o rest \in Group /\ a \o g \in Group
  BY ONLY GroupParts, a \in Group, g \in Group, rest \in Group, Zenon
<1> QED BY ONLY <1>1, <1>2, <1>3, <1>5, <1>6, Zenon

\* The cursor behind a group and its flag.
BehindOpt(d, g, src, tgt, unit) ==
    /\ At(d, src, tgt, unit)
    /\ LastOf(d) = IF g = <<>> THEN 0 ELSE g[Len(g)].v

LEMMA OptCopied ==
    ASSUME NEW g \in Group, NEW ds, ds \in Seq(Descs), g = <<>> \/ Shape(g, ds),
           NEW src \in Group, NEW tgt \in Group, NEW unit,
           NEW c, At(c, Opt(g) \o src, Opt(g) \o tgt, unit)
    PROVE  BehindOpt(CopyIf(Copy(c, <<u(1)>>), ds), g, src, tgt, unit)
<1>1. PICK b \in BOOLEAN : /\ b = (g # <<>>) /\ g \o src \in Group
                           /\ Opt(g) \o src = <<Flag(b)>> \o (g \o src)
  BY ONLY OptOf, g \in Group, src \in Group, Zenon
<1>2. g \o tgt \in Group /\ Opt(g) \o tgt = <<Flag(b)>> \o (g \o tgt)
  <2>1. PICK a \in BOOLEAN : /\ a = (g # <<>>) /\ g \o tgt \in Group
                             /\ Opt(g) \o tgt = <<Flag(a)>> \o (g \o tgt)
    BY ONLY OptOf, g \in Group, tgt \in Group, Zenon
  <2>2. a = b
    BY ONLY <1>1, <2>1, Zenon
  <2> QED BY ONLY <2>1, <2>2, Zenon
<1>3. PICK d : d = Copy(c, <<u(1)>>)
  BY Zenon
<1>4. BehindFlag(d, b, g \o src, g \o tgt, unit)
  BY ONLY <1>1, <1>2, <1>3, FlagCopied, At(c, Opt(g) \o src, Opt(g) \o tgt, unit), b \in BOOLEAN, Zenon
<1>5. At(d, g \o src, g \o tgt, unit) /\ (Present(d) <=> b) /\ (~b => LastOf(d) = 0)
  BY ONLY <1>4, Zenon DEF BehindFlag
<1>6. CASE b
  <2>1. g # <<>> /\ Shape(g, ds) /\ CopyIf(d, ds) = Copy(d, ds)
    BY ONLY <1>1, <1>5, <1>6, g = <<>> \/ Shape(g, ds), Zenon DEF CopyIf
  <2>2. PICK e : e = Copy(d, ds)
    BY Zenon
  <2>3. Over(d, e, g, src, tgt, unit)
    BY ONLY <1>5, <2>1, <2>2, GroupCopied, g \in Group, ds \in Seq(Descs), src \in Group, tgt \in Group, Zenon
  <2>4. LastOf(e) = g[Len(g)].v
    BY ONLY <2>1, <2>3, LastValue, g \in Group, Zenon
  <2> QED BY ONLY <1>3, <2>1, <2>2, <2>3, <2>4, Zenon DEF BehindOpt, Over
<1>7. CASE ~b
  <2>1. g = <<>> /\ CopyIf(d, ds) = d
    BY ONLY <1>1, <1>5, <1>7, Zenon DEF CopyIf
  <2>2. g \o src = src /\ g \o tgt = tgt
    <3>1. <<>> \o src = src /\ <<>> \o tgt = tgt
      BY ONLY src \in Group, tgt \in Group DEF Group
    <3> QED BY ONLY <2>1, <3>1, Zenon
  <2> QED BY ONLY <1>3, <1>5, <1>7, <2>1, <2>2, Zenon DEF BehindOpt
<1> QED BY ONLY <1>6, <1>7, Zenon

-----------------------------------------------------------------------------
(* Several flags written as one number.                                    *)

LEMMA AheadBefore ==
    ASSUME NEW bits, NEW p \in Nat, NEW m, NEW x \in Fields, NEW fs \in Group, FieldAt(bits, p, x),
           Ahead(bits, p + Len(FieldBits(x)), fs, m)
    PROVE  Ahead(bits, p, <<x>> \o fs, m)
<1>1. PICK gs : gs = <<x>> \o fs
  BY Zenon
<1>2. gs \in Group /\ Len(gs) = Len(fs) + 1 /\ gs[1] = x /\ Len(fs) \in Nat
      /\ \A i \in 1 .. Len(fs) : gs[i + 1] = fs[i]
  BY ONLY <1>1, x \in Fields, fs \in Group DEF Group
<1>3. PICK q : q = p + Len(FieldBits(x))
  BY Zenon
<1>4. PICK pos : Placed(pos, bits, q, fs, m)
  BY ONLY <1>3, Ahead(bits, p + Len(FieldBits(x)), fs, m), Zenon DEF Ahead
<1>5. PICK n \in Nat : n = Len(fs) /\ Len(gs) = n + 1
  BY ONLY <1>2
<1>6. /\ pos \in [0 .. n -> Nat] /\ pos[0] = q
      /\ \A i \in 1 .. n :
          FieldAt(bits, pos[i - 1], fs[i]) /\ pos[i] = pos[i - 1] + Len(FieldBits(fs[i]))
      /\ Stops(bits, pos[n], m)
  BY ONLY <1>4, <1>5, Zenon DEF Placed
<1> DEFINE r == [i \in 0 .. n + 1 |-> IF i = 0 THEN p ELSE pos[i - 1]]
<1>7. r \in [0 .. n + 1 -> Nat]
  <2>1. \A i \in 0 .. n + 1 : i # 0 => i - 1 \in 0 .. n
    BY ONLY n \in Nat
  <2>2. \A i \in 0 .. n + 1 : (IF i = 0 THEN p ELSE pos[i - 1]) \in Nat
    BY ONLY <1>6, <2>1, p \in Nat, Zenon
  <2> QED BY ONLY <2>2, Zenon
<1>8. r[0] = p /\ \A i \in 0 .. n : r[i + 1] = pos[i]
  <2>1. 0 \in 0 .. n + 1 /\ \A i \in 0 .. n : i + 1 \in 0 .. n + 1 /\ i + 1 # 0 /\ (i + 1) - 1 = i
    BY ONLY n \in Nat
  <2>2. ASSUME NEW i \in 0 .. n PROVE r[i + 1] = pos[i]
    <3>1. PICK j \in 0 .. n + 1 : j = i + 1 /\ j # 0 /\ j - 1 = i
      BY ONLY <2>1, i \in 0 .. n, Zenon
    <3>2. r[j] = pos[j - 1]
      BY ONLY <3>1, Zenon
    <3> QED BY ONLY <3>1, <3>2, Zenon
  <2> QED BY ONLY <2>1, <2>2, Zenon
<1> HIDE DEF r
<1>9. ASSUME NEW i \in 1 .. n + 1
      PROVE  FieldAt(bits, r[i - 1], gs[i]) /\ r[i] = r[i - 1] + Len(FieldBits(gs[i]))
  <2>1. CASE i = 1
    <3>1. 0 \in 0 .. n /\ 0 + 1 = 1 /\ 1 - 1 = 0
      BY ONLY n \in Nat
    <3>2. r[0 + 1] = pos[0]
      BY ONLY <1>8, <3>1, Zenon
    <3>3. r[i - 1] = p /\ r[i] = q /\ gs[i] = x
      BY ONLY <1>2, <1>6, <1>8, <2>1, <3>1, <3>2, Zenon
    <3> QED BY ONLY <1>3, <3>3, FieldAt(bits, p, x), Zenon
  <2>2. CASE i # 1
    <3>1. PICK j \in 1 .. n : j + 1 = i /\ j = i - 1 /\ j \in 0 .. n /\ j - 1 \in 0 .. n /\ (j - 1) + 1 = j
      <4>1. i - 1 \in 1 .. n /\ (i - 1) + 1 = i /\ i - 1 \in 0 .. n /\ (i - 1) - 1 \in 0 .. n
            /\ ((i - 1) - 1) + 1 = i - 1
        BY ONLY <2>2, n \in Nat, i \in 1 .. n + 1
      <4> QED BY ONLY <4>1, Zenon
    <3>2. r[j + 1] = pos[j] /\ r[(j - 1) + 1] = pos[j - 1]
      BY ONLY <1>8, <3>1, Zenon
    <3>3. gs[j + 1] = fs[j]
      BY ONLY <1>2, <1>5, j \in 1 .. n, Zenon
    <3>4. FieldAt(bits, pos[j - 1], fs[j]) /\ pos[j] = pos[j - 1] + Len(FieldBits(fs[j]))
      BY ONLY <1>6, j \in 1 .. n, Zenon
    <3> QED BY ONLY <3>1, <3>2, <3>3, <3>4, Zenon
  <2> QED BY ONLY <2>1, <2>2, Zenon
<1>10. Stops(bits, r[n + 1], m)
  <2>1. n \in 0 .. n
    BY ONLY n \in Nat
  <2> QED BY ONLY <1>6, <1>8, <2>1, Zenon
<1>11. Placed(r, bits, p, gs, m)
  BY ONLY <1>5, <1>7, <1>8, <1>9, <1>10, Zenon DEF Placed
<1> QED BY ONLY <1>1, <1>2, <1>11, p \in Nat, Zenon DEF Ahead

ZeroField(n) == F(u(n), 0)

LEMMA ZeroFieldBits ==
    ASSUME NEW n \in 1 .. 32
    PROVE  /\ ZeroField(n) \in Fields
           /\ FieldBits(ZeroField(n)) \in Seq({0, 1}) /\ Len(FieldBits(ZeroField(n))) = n
           /\ \A k \in 1 .. n : FieldBits(ZeroField(n))[k] = 0
<1>1. PICK g \in Nat : g = Largest /\ 2^31 = g + 1
  BY LargestPower, Zenon
<1>2. PICK d : d = u(n)
  BY Zenon
<1>3. d.code = "u" /\ d.n = n
  BY ONLY <1>2 DEF u
<1>4. PICK x : x = [f |-> d, v |-> 0]
  BY Zenon
<1>5. x = ZeroField(n) /\ x.f = d /\ x.v = 0
  <2>1. x.f = d /\ x.v = 0
    BY ONLY <1>4
  <2> QED BY ONLY <1>2, <1>4, <2>1, Zenon DEF ZeroField, F
<1>6. x \in [f : {u(k) : k \in 1 .. 32} \cup {ue, se}, v : Int]
  <2>1. PICK D : D = {u(k) : k \in 1 .. 32} \cup {ue, se}
    BY Zenon
  <2>2. d \in D
    BY ONLY <1>2, <2>1, n \in 1 .. 32, Zenon
  <2>3. x \in [f : D, v : Int]
    BY ONLY <1>4, <2>2
  <2> QED BY ONLY <2>1, <2>3, Zenon
<1>7. n < 31 => 0 < 2^n
  <2>1. n \in 0 .. 34
    BY ONLY n \in 1 .. 32
  <2>2. PICK e : e = 2^n
    BY Zenon
  <2>3. e \in Nat \ {0}
    BY ONLY <2>1, <2>2, PowerPositive, Zenon
  <2>4. 0 < e
    BY ONLY <2>3
  <2> QED BY ONLY <2>2, <2>4, Zenon
<1>8. Fits(x)
  <2>1. 0 \in Nat /\ 0 <= g
    BY ONLY g \in Nat
  <2> QED BY ONLY <1>1, <1>3, <1>5, <1>7, <2>1, Zenon DEF Fits
<1>9. x \in Fields
  BY ONLY <1>6, <1>8, Zenon DEF Fields
<1>10. IsU(x)
  <2>1. 0 \in Nat /\ 0 <= g
    BY ONLY g \in Nat
  <2> QED BY ONLY <1>1, <1>2, <1>3, <1>5, <1>7, <2>1, n \in 1 .. 32, Zenon DEF IsU
<1>11. FieldBits(x) = Binary(0, n) /\ FieldBits(x) \in Seq({0, 1}) /\ Len(FieldBits(x)) = n
  BY ONLY <1>3, <1>5, <1>10, UBits, Zenon
<1>12. ASSUME NEW k \in 1 .. n PROVE Binary(0, n)[k] = 0
  <2>1. Binary(0, n)[k] = IF n - k > 30 THEN 0 ELSE (0 \div 2^(n - k)) % 2
    BY ONLY k \in 1 .. n, Zenon DEF Binary
  <2>2. PICK e \in 0 .. 31 : e = n - k
    BY ONLY n \in 1 .. 32, k \in 1 .. n
  <2>3. PICK h : h = 2^e
    BY Zenon
  <2>4. e \in 0 .. 34
    BY ONLY e \in 0 .. 31
  <2>5. h \in Nat \ {0}
    BY ONLY <2>3, <2>4, PowerPositive
  <2>6. (0 \div h) % 2 = 0
    BY ONLY <2>5
  <2> QED BY ONLY <2>1, <2>2, <2>3, <2>6, Zenon
<1> QED BY ONLY <1>5, <1>9, <1>11, <1>12, Zenon

\* A zero number and a flag behind it.
LEMMA ZerosMerged ==
    ASSUME NEW n \in 1 .. 31, NEW k, k = n + 1, NEW fs \in Group, NEW w, NEW unit,
           WritesTo(w, <<ZeroField(n)>> \o (<<ZeroField(1)>> \o fs), unit)
    PROVE  WritesTo(w, <<ZeroField(k)>> \o fs, unit)
<1>1. w \in Writers /\ \E bits, V, y, U, m, p :
        /\ Coded(bits, V, y, U, m) /\ U[m + 1] = unit
        /\ Writes(w, U, V, p) /\ Ahead(bits, p, <<ZeroField(n)>> \o (<<ZeroField(1)>> \o fs), m)
  BY ONLY WritesTo(w, <<ZeroField(n)>> \o (<<ZeroField(1)>> \o fs), unit), Zenon DEF WritesTo
<1>2. PICK bits, V, y, U, m, p :
        /\ Coded(bits, V, y, U, m) /\ U[m + 1] = unit
        /\ Writes(w, U, V, p) /\ Ahead(bits, p, <<ZeroField(n)>> \o (<<ZeroField(1)>> \o fs), m)
  BY ONLY <1>1, Zenon
<1>3. n \in 1 .. 32 /\ 1 \in 1 .. 32 /\ k \in 1 .. 32
  BY ONLY n \in 1 .. 31, k = n + 1
<1>4. PICK x, z, b : x = ZeroField(n) /\ z = ZeroField(1) /\ b = ZeroField(k)
  BY Zenon
<1>5. /\ x \in Fields /\ Len(FieldBits(x)) = n
      /\ \A i \in 1 .. n : FieldBits(x)[i] = 0
  BY ONLY <1>3, <1>4, ZeroFieldBits, Zenon
<1>6. /\ z \in Fields /\ Len(FieldBits(z)) = 1
      /\ \A i \in 1 .. 1 : FieldBits(z)[i] = 0
  BY ONLY <1>3, <1>4, ZeroFieldBits, Zenon
<1>7. /\ b \in Fields /\ FieldBits(b) \in Seq({0, 1}) /\ Len(FieldBits(b)) = k
      /\ \A i \in 1 .. k : FieldBits(b)[i] = 0
  BY ONLY <1>3, <1>4, ZeroFieldBits, Zenon
<1>8. PICK gs \in Group : gs = <<z>> \o fs
  <2>1. <<z>> \in Group
    BY ONLY <1>6, SingleGroup, Zenon
  <2> QED BY ONLY <2>1, GroupParts, fs \in Group, Zenon
<1>9. Ahead(bits, p, <<x>> \o gs, m)
  BY ONLY <1>2, <1>4, <1>8, Zenon
<1>10. p \in Nat /\ FieldAt(bits, p, x) /\ Ahead(bits, p + Len(FieldBits(x)), gs, m)
  BY ONLY <1>5, <1>9, AheadNext, gs \in Group, Zenon
<1>11. PICK q : q = p + n
  BY Zenon
<1>12. q \in Nat /\ FieldAt(bits, q, z) /\ Ahead(bits, q + Len(FieldBits(z)), fs, m)
  <2>1. Ahead(bits, q, <<z>> \o fs, m)
    BY ONLY <1>5, <1>8, <1>10, <1>11, Zenon
  <2> QED BY ONLY <1>6, <2>1, AheadNext, fs \in Group, Zenon
<1>13. p + k = q + 1
  BY ONLY <1>10, <1>11, n \in 1 .. 31, k = n + 1
<1>14. FieldAt(bits, p, b)
  <2>1. \A i \in 1 .. n : bits[p + i] = 0
    BY ONLY <1>5, <1>10, Zenon DEF FieldAt
  <2>2. bits[q + 1] = 0 /\ q + 1 <= Len(bits)
    <3>1. 1 \in 1 .. 1
      OBVIOUS
    <3> QED BY ONLY <1>6, <1>12, <3>1, Zenon DEF FieldAt
  <2>3. ASSUME NEW i \in 1 .. k PROVE bits[p + i] = 0
    <3>1. i \in 1 .. n \/ p + i = q + 1
      BY ONLY <1>10, <1>11, n \in 1 .. 31, k = n + 1, i \in 1 .. k
    <3> QED BY ONLY <2>1, <2>2, <3>1, Zenon
  <2> QED BY ONLY <1>7, <1>13, <2>2, <2>3, Zenon DEF FieldAt
<1>15. Ahead(bits, p, <<b>> \o fs, m)
  <2>1. Ahead(bits, p + Len(FieldBits(b)), fs, m)
    BY ONLY <1>6, <1>7, <1>12, <1>13, Zenon
  <2> QED BY ONLY <1>7, <1>10, <1>14, <2>1, AheadBefore, fs \in Group, Zenon
<1> QED BY ONLY <1>1, <1>2, <1>4, <1>15, Zenon DEF WritesTo

-----------------------------------------------------------------------------
(* Both ends of a unit.                                                    *)

\* The header byte is not escaped.
IsHeader(U, m, b) ==
    U[1] = <<b>> /\ b \in Byte /\ Len(U[m + 1]) >= 1 /\ U[m + 1][1] = b /\ U[m + 1] \in Bytes

LEMMA HeaderFirst ==
    ASSUME NEW bits, NEW V, NEW y, NEW U, NEW m, Coded(bits, V, y, U, m)
    PROVE  IsHeader(U, m, y[1])
<1>1. /\ m \in Nat /\ y \in Bytes /\ Len(y) = m + 1 /\ y[1] > 3 /\ IsEscaping(U, y)
  BY ONLY Coded(bits, V, y, U, m), Zenon DEF Coded
<1>2. U[0] = <<>> /\ \A i \in 1 .. Len(y) : U[i] = Behind(U[i - 1], y[i])
  BY ONLY <1>1, Zenon DEF IsEscaping
<1>3. 1 \in 1 .. Len(y) /\ 1 - 1 = 0
  BY ONLY <1>1
<1>4. U[1] = Behind(<<>>, y[1])
  <2>1. U[1] = Behind(U[1 - 1], y[1])
    BY ONLY <1>2, <1>3, Zenon
  <2> QED BY ONLY <1>2, <1>3, <2>1, Zenon
<1>5. y[1] \in Byte
  BY ONLY <1>1, <1>3 DEF Bytes
<1>6. PICK b \in Byte : b = y[1] /\ b > 3
  BY ONLY <1>1, <1>5, Zenon
<1>7. Behind(<<>>, b) = <<b>>
  <2>1. ~(b <= 3)
    BY ONLY <1>6, b \in Byte DEF Byte
  <2>2. Behind(<<>>, b) = (<<>> \o <<>>) \o <<b>>
    BY ONLY <2>1, Zenon DEF Behind
  <2>3. (<<>> \o <<>>) \o <<b>> = <<b>>
    BY ONLY b \in Byte
  <2> QED BY ONLY <2>2, <2>3, Zenon
<1>8. U[1] = <<b>>
  BY ONLY <1>4, <1>6, <1>7, Zenon
<1>9. 1 \in 0 .. Len(y) /\ m + 1 \in 1 .. Len(y)
  BY ONLY <1>1
<1>10. Before(U, 1, m + 1)
  BY ONLY <1>1, <1>9, EscapedPrefix, Zenon
<1>11. Len(U[1]) + ((m + 1) - 1) <= Len(U[m + 1]) /\ \A k \in 1 .. Len(U[1]) : U[m + 1][k] = U[1][k]
  BY ONLY <1>10, Zenon DEF Before
<1>12. U[m + 1] \in Bytes
  BY ONLY <1>10, Zenon DEF Before
<1>13. Len(U[1]) = 1 /\ U[1][1] = b
  BY ONLY <1>8
<1>14. Len(U[m + 1]) \in Nat
  BY ONLY <1>12 DEF Bytes
<1>15. Len(U[m + 1]) >= 1
  BY ONLY <1>1, <1>11, <1>13, <1>14
<1>16. 1 \in 1 .. 1
  OBVIOUS
<1>17. U[m + 1][1] = b
  BY ONLY <1>11, <1>13, <1>16, Zenon
<1> QED BY ONLY <1>6, <1>8, <1>12, <1>15, <1>17, Zenon DEF IsHeader

LEMMA HeaderBits ==
    ASSUME NEW b \in Byte
    PROVE  WriteBits(NewWriter, b, 8) = Flush([arr |-> <<>>, pending_byte |-> b, bit_offset |-> 8])
<1>1. NewWriter \in Writers /\ 8 \in 0 .. 34 /\ b \in Nat
  BY Started DEF Byte
<1>2. PICK w : w = NewWriter
  BY Zenon
<1>3. PICK g : WriteRounds(g, w, b, 8)
  BY ONLY <1>1, <1>2, WriteBitsRounds, Zenon
<1>4. /\ g[0] = [w |-> w, left |-> 8] /\ \A n \in Nat : g[n + 1] = WriteChunk(g[n], b)
      /\ WriteBits(w, b, 8) = g[(w.bit_offset + 8 + 7) \div 8].w
  BY ONLY <1>3, Zenon DEF WriteRounds
<1>5. w = [arr |-> <<>>, pending_byte |-> 0, bit_offset |-> 0]
  BY ONLY <1>2, Zenon DEF NewWriter
<1>6. w.bit_offset = 0 /\ w.pending_byte = 0 /\ w.arr = <<>>
  BY ONLY <1>5
<1>7. (0 + 8 + 7) \div 8 = 1 /\ 0 + 1 = 1 /\ 0 \in Nat
  OBVIOUS
<1>8. WriteBits(w, b, 8) = g[1].w /\ g[1] = WriteChunk(g[0], b)
  <2>1. g[0 + 1] = WriteChunk(g[0], b)
    BY ONLY <1>4, <1>7, Zenon
  <2> QED BY ONLY <1>4, <1>6, <1>7, <2>1, Zenon
<1>9. PICK s : s = [w |-> w, left |-> 8]
  BY Zenon
<1>10. s.w = w /\ s.left = 8
  BY ONLY <1>9
<1>11. Min({8 - w.bit_offset, s.left}) = 8
  <2>1. 8 - w.bit_offset = 8 /\ 8 \in Int
    BY ONLY <1>6
  <2>2. PICK a \in Int : a = 8
    OBVIOUS
  <2>3. Min({a, a}) \in {a, a}
    BY ONLY MinOfTwo, a \in Int, Zenon
  <2> QED BY ONLY <1>10, <2>1, <2>2, <2>3, Zenon
<1>12. WriteChunk(s, b) = PutBits(s, b, 8)
  <2>1. s.left # 0
    BY ONLY <1>10
  <2> QED BY ONLY <1>10, <1>11, <2>1, Zenon DEF WriteChunk
<1>13. (Shr(b, 8 - 8) % 2^8) * 2^(8 - 8) = b
  <2>1. 8 - 8 = 0 /\ 2^0 = 1 /\ 2^8 = 256 /\ ~(0 > 30)
    OBVIOUS
  <2>2. b \div 1 = b /\ (b % 256) * 1 = b
    BY ONLY b \in Byte DEF Byte
  <2>3. Shr(b, 0) = b
    BY ONLY <2>1, <2>2, Zenon DEF Shr
  <2> QED BY ONLY <2>1, <2>2, <2>3, Zenon
<1>14. PICK f : f = [w EXCEPT !.pending_byte = @ + (Shr(b, s.left - 8) % 2^8) * 2^(8 - (w.bit_offset + 8)),
                             !.bit_offset = w.bit_offset + 8]
  BY Zenon
<1>15. f = [arr |-> <<>>, pending_byte |-> b, bit_offset |-> 8]
  <2>1. w.bit_offset + 8 = 8 /\ s.left - 8 = 8 - 8
    BY ONLY <1>6, <1>10
  <2>2. PICK x : x = (Shr(b, 8 - 8) % 2^8) * 2^(8 - 8)
    BY Zenon
  <2>3. f = [w EXCEPT !.pending_byte = @ + x, !.bit_offset = 8]
    BY ONLY <1>14, <2>1, <2>2, Zenon
  <2>4. x = b
    BY ONLY <1>13, <2>2, Zenon
  <2>5. 0 + b = b
    BY ONLY b \in Byte DEF Byte
  <2>6. f = [[w EXCEPT !.pending_byte = b] EXCEPT !.bit_offset = 8]
    <3>1. w.pending_byte + x = b
      BY ONLY <1>6, <2>4, <2>5, Zenon
    <3> QED BY ONLY <2>3, <3>1, Zenon
  <2> QED BY ONLY <1>5, <2>6
<1>16. PutBits(s, b, 8) = [w |-> FlushFull(f), left |-> s.left - 8]
  BY ONLY <1>10, <1>14, Zenon DEF PutBits
<1>17. f.bit_offset = 8
  BY ONLY <1>15
<1>18. FlushFull(f) = Flush(f)
  BY ONLY <1>17, Zenon DEF FlushFull
<1>19. PICK h : h = Flush(f)
  BY Zenon
<1>20. g[1].w = h
  <2>1. g[1] = [w |-> h, left |-> s.left - 8]
    BY ONLY <1>4, <1>8, <1>9, <1>12, <1>16, <1>18, <1>19, Zenon
  <2> QED BY ONLY <2>1
<1> QED BY ONLY <1>2, <1>8, <1>15, <1>19, <1>20, Zenon

LEMMA HeaderWritten ==
    ASSUME NEW fs \in Group, NEW header \in Byte, header > 3
    PROVE  WritesTo(WriteBits(NewWriter, header, 8), fs, Unit(header, fs))
<1>1. PICK bits, V, y, U, m : CodedUnit(bits, V, y, U, m, header, fs)
  BY ONLY UnitCoded, fs \in Group, header \in Byte, header > 3, Zenon
<1>2. Coded(bits, V, y, U, m) /\ y[1] = header /\ U[m + 1] = Unit(header, fs) /\ Ahead(bits, 0, fs, m)
  BY ONLY <1>1, Zenon DEF CodedUnit
<1>3. U[1] = <<header>>
  <2>1. IsHeader(U, m, y[1])
    BY ONLY <1>2, HeaderFirst, Zenon
  <2> QED BY ONLY <1>2, <2>1, Zenon DEF IsHeader
<1>4. PICK a \in Bytes : a = <<>>
  BY ONLY Started, Zenon
<1>20. PICK o : o = 8
  BY Zenon
<1>5. PICK x : x = [arr |-> a, pending_byte |-> header, bit_offset |-> o]
  BY Zenon
<1>6. Flush(x) = [arr |-> Behind(a, header), pending_byte |-> 0, bit_offset |-> 0]
  BY ONLY <1>5, FlushBehind, a \in Bytes, Zenon
<1>7. Behind(a, header) = <<header>>
  <2>1. ~(header <= 3)
    BY ONLY header \in Byte, header > 3 DEF Byte
  <2>2. Behind(a, header) = (<<>> \o <<>>) \o <<header>>
    BY ONLY <1>4, <2>1, Zenon DEF Behind
  <2>3. (<<>> \o <<>>) \o <<header>> = <<header>>
    BY ONLY header \in Byte
  <2> QED BY ONLY <2>2, <2>3, Zenon
<1>8. PICK w : w = WriteBits(NewWriter, header, 8)
  BY Zenon
<1>9. w = [arr |-> U[1], pending_byte |-> 0, bit_offset |-> 0]
  BY ONLY <1>3, <1>4, <1>5, <1>6, <1>7, <1>8, <1>20, HeaderBits, header \in Byte, Zenon
<1>10. w \in Writers
  <2>1. NewWriter \in Writers /\ 8 \in 0 .. 34 /\ header \in Nat
    BY Started DEF Byte
  <2> QED BY ONLY <1>8, <2>1, WriteBitsType, Zenon
<1>11. Writes(w, U, V, 0)
  <2>1. bits \in Seq({0, 1}) /\ IsValue(V, bits)
    BY ONLY <1>2, Zenon DEF Coded
  <2>2. 0 \in 0 .. Len(bits)
    BY ONLY <2>1
  <2>3. Val(V, 0, 0) = 0
    BY ONLY <2>1, <2>2, ValSame, Zenon
  <2>4. 0 \div 8 = 0 /\ 0 % 8 = 0 /\ 0 + 1 = 1 /\ 8 * 0 = 0 /\ 8 - 0 = 8
    OBVIOUS
  <2>5. 0 * 2^8 = 0
    OBVIOUS
  <2>6. Val(V, 8 * 0, 0) * 2^(8 - 0) = 0
    BY ONLY <2>3, <2>4, <2>5, Zenon
  <2> QED BY ONLY <1>9, <2>4, <2>6, Zenon DEF Writes, WritesAt
<1> QED BY ONLY <1>2, <1>8, <1>10, <1>11, Zenon DEF WritesTo

LEMMA BodyRead ==
    ASSUME NEW fs \in Group, NEW header \in Byte, header > 3, NEW nalu \in Bytes,
           UpToZeros(nalu, Unit(header, fs))
    PROVE  ReadsTo(NewReader(Tail(nalu)), fs) /\ Head(nalu) = header /\ nalu # <<>>
<1>1. PICK bits, V, y, U, m : CodedUnit(bits, V, y, U, m, header, fs)
  BY ONLY UnitCoded, fs \in Group, header \in Byte, header > 3, Zenon
<1>2. Coded(bits, V, y, U, m) /\ y[1] = header /\ U[m + 1] = Unit(header, fs) /\ Ahead(bits, 0, fs, m)
  BY ONLY <1>1, Zenon DEF CodedUnit
<1>3. PICK x \in Bytes : x = U[m + 1] /\ Len(x) >= 1 /\ x[1] = header /\ U[1] = <<header>>
  <2>1. IsHeader(U, m, y[1])
    BY ONLY <1>2, HeaderFirst, Zenon
  <2> QED BY ONLY <1>2, <2>1, Zenon DEF IsHeader
<1>4. IsPrefix(x, nalu)
  BY ONLY <1>2, <1>3, UpToZeros(nalu, Unit(header, fs)), Zenon DEF UpToZeros
<1>5. PICK n \in Nat, l \in Nat : n = Len(x) /\ l = Len(nalu)
  BY ONLY x \in Bytes, nalu \in Bytes DEF Bytes
<1>6. n <= l /\ \A i \in 1 .. n : nalu[i] = x[i]
  <2>1. n <= l /\ SubSeq(x, 1, n) = SubSeq(nalu, 1, n)
    BY ONLY <1>4, <1>5, Zenon DEF IsPrefix
  <2>2. PICK t : t = SubSeq(nalu, 1, n)
    BY Zenon
  <2>3. \A i \in 1 .. n : t[i] = nalu[i]
    BY ONLY <2>1, <2>2, <1>5, nalu \in Bytes, n \in Nat, l \in Nat DEF Bytes
  <2>4. \A i \in 1 .. n : t[i] = x[i]
    BY ONLY <2>1, <2>2, <1>5, x \in Bytes, n \in Nat DEF Bytes
  <2> QED BY ONLY <2>1, <2>3, <2>4, Zenon
<1>7. PICK buf : buf = Tail(nalu)
  BY Zenon
<1>8. /\ buf \in Bytes /\ Len(buf) = l - 1 /\ (\A i \in 1 .. l - 1 : buf[i] = nalu[i + 1])
      /\ Head(nalu) = nalu[1] /\ nalu # <<>>
  <2>1. l >= 1
    BY ONLY <1>3, <1>5, <1>6, n \in Nat, l \in Nat
  <2> QED BY ONLY <1>5, <1>7, <2>1, nalu \in Bytes, l \in Nat DEF Bytes
<1>9. OverUnit(buf, U, m)
  <2>1. Len(buf) >= n - 1
    BY ONLY <1>6, <1>8, n \in Nat, l \in Nat
  <2>2. \A k \in 1 .. n - 1 : k \in 1 .. l - 1 /\ k + 1 \in 1 .. n
    BY ONLY <1>6, n \in Nat, l \in Nat
  <2>3. \A k \in 1 .. n - 1 : buf[k] = x[k + 1]
    BY ONLY <1>6, <1>8, <2>2, Zenon
  <2> QED BY ONLY <1>3, <1>5, <1>8, <2>1, <2>3, Zenon DEF OverUnit
<1>10. PICK r : r = NewReader(buf)
  BY Zenon
<1>11. r \in Readers(buf) /\ r.buffer = buf
  BY ONLY <1>8, <1>10, Started, Zenon
<1>12. r.byte_offset = 0 /\ r.bit_offset = 0 /\ r.ok
  BY ONLY <1>10 DEF NewReader
<1>13. Reads(r, buf, U, 0)
  <2>1. 0 \div 8 = 0 /\ 0 % 8 = 0 /\ 0 + 1 = 1
    OBVIOUS
  <2>2. Len(U[1]) - 1 = 0
    BY ONLY <1>3
  <2> QED BY ONLY <1>11, <1>12, <2>1, <2>2, Zenon DEF Reads
<1>14. Head(nalu) = header
  <2>1. 1 \in 1 .. n
    BY ONLY <1>3, <1>5, n \in Nat
  <2> QED BY ONLY <1>3, <1>6, <1>8, <2>1, Zenon
<1> QED BY ONLY <1>2, <1>7, <1>8, <1>9, <1>10, <1>11, <1>13, <1>14, Zenon DEF ReadsTo

\* What the stop bit leaves to flush.
EndsUnit(w, U, m) == FlushFinal(w).arr = U[m + 1]

LEMMA StopFlushed ==
    ASSUME NEW bits, NEW V, NEW y, NEW U, NEW m, Coded(bits, V, y, U, m),
           NEW p \in Nat, Stops(bits, p, m), NEW q, q = p + 1, NEW w, Writes(w, U, V, q)
    PROVE  EndsUnit(w, U, m)
<1>1. /\ m \in Nat /\ bits \in Seq({0, 1}) /\ Len(bits) = 8 * m /\ IsValue(V, bits)
      /\ y \in Bytes /\ Len(y) = m + 1 /\ IsEscaping(U, y)
      /\ \A i \in 1 .. m : y[i + 1] = Val(V, 8 * (i - 1), 8 * i)
  BY ONLY Coded(bits, V, y, U, m), Zenon DEF Coded
<1>2. q <= 8 * m /\ 8 * m <= q + 7 /\ (\A k \in q + 1 .. 8 * m : bits[k] = 0) /\ q \in Nat
  <2>1. p + 1 <= 8 * m /\ 8 * m <= p + 8 /\ \A k \in p + 2 .. 8 * m : bits[k] = 0
    BY ONLY Stops(bits, p, m), Zenon DEF Stops
  <2> QED BY ONLY <1>1, <2>1, q = p + 1, p \in Nat
<1>3. PICK d \in Nat, o \in 0 .. 7 : d = q \div 8 /\ o = q % 8 /\ q = 8 * d + o
  <2>1. q \div 8 \in Nat /\ (q % 8) \in 0 .. 7 /\ q = 8 * (q \div 8) + (q % 8)
    BY ONLY <1>2
  <2> QED BY ONLY <2>1, Zenon
<1>4. w = [arr |-> U[d + 1], pending_byte |-> Val(V, 8 * d, q) * 2^(8 - o), bit_offset |-> o]
  BY ONLY <1>3, Writes(w, U, V, q), Zenon DEF Writes, WritesAt
<1>5. PICK a, z : a = U[d + 1] /\ z = Val(V, 8 * d, q) * 2^(8 - o)
  BY Zenon
<1>6. w = [arr |-> a, pending_byte |-> z, bit_offset |-> o]
  BY ONLY <1>4, <1>5, Zenon
<1>7. w.arr = a /\ w.bit_offset = o
  BY ONLY <1>6
<1>8. CASE o = 0
  <2>1. d = m
    BY ONLY <1>1, <1>2, <1>3, <1>8
  <2>2. FlushFinal(w) = w
    <3>1. ~(0 > 0)
      OBVIOUS
    <3> QED BY ONLY <1>7, <1>8, <3>1, Zenon DEF FlushFinal
  <2> QED BY ONLY <1>5, <1>7, <2>1, <2>2, Zenon DEF EndsUnit
<1>9. CASE o # 0
  <2>1. d + 1 = m /\ m \in 1 .. m /\ o > 0 /\ 8 * m - q = 8 - o /\ 8 * (m - 1) = 8 * d /\ m - 1 = d
    BY ONLY <1>1, <1>2, <1>3, <1>9, o \in 0 .. 7
  <2>2. FlushFinal(w) = Flush(w)
    BY ONLY <1>7, <2>1, Zenon DEF FlushFinal
  <2>3. U \in [0 .. Len(y) -> Bytes] /\ \A i \in 1 .. Len(y) : U[i] = Behind(U[i - 1], y[i])
    BY ONLY <1>1, Zenon DEF IsEscaping
  <2>4. a \in Bytes
    <3>1. m \in 0 .. Len(y)
      BY ONLY <1>1
    <3> QED BY ONLY <1>5, <2>1, <2>3, <3>1, Zenon
  <2>5. Flush(w) = [arr |-> Behind(a, z), pending_byte |-> 0, bit_offset |-> 0]
    BY ONLY <1>6, <2>4, FlushBehind, Zenon
  <2>6. PICK l, s, b : l = 8 * m /\ s = 8 * d /\ b = Behind(a, z)
    BY Zenon
  <2>7. Val(V, s, l) = Val(V, s, q) * 2^(l - q) + Val(V, q, l)
    <3>1. s \in 0 .. Len(bits) /\ q \in s .. Len(bits) /\ l \in q .. Len(bits) /\ l - s <= 34
      BY ONLY <1>1, <1>2, <1>3, <2>1, <2>6, o \in 0 .. 7
    <3> QED BY ONLY <1>1, <3>1, ValJoin
  <2>8. Val(V, q, l) = 0
    <3>1. q \in 0 .. Len(bits) /\ l \in q .. Len(bits) /\ l - q <= 34
      BY ONLY <1>1, <1>2, <2>6
    <3>2. \A k \in q + 1 .. l : bits[k] = 0
      BY ONLY <1>2, <2>6, Zenon
    <3> QED BY ONLY <1>1, <3>1, <3>2, ZeroVal, Zenon
  <2>9. Val(V, s, l) = z
    <3>1. Val(V, s, q) \in Nat
      <4>1. s \in 0 .. Len(bits) /\ q \in s .. Len(bits) /\ q - s <= 34
        BY ONLY <1>1, <1>2, <1>3, <2>6, o \in 0 .. 7
      <4> QED BY ONLY <1>1, <4>1, ValRange, Zenon
    <3>2. 8 - o \in 0 .. 34
      BY ONLY o \in 0 .. 7
    <3>3. PICK e : e = 2^(8 - o)
      BY Zenon
    <3>4. e \in Nat
      BY ONLY <3>2, <3>3, PowerPositive, Zenon
    <3>5. PICK n \in Nat : n = Val(V, s, q)
      BY ONLY <3>1, Zenon
    <3>6. z = n * e /\ Val(V, s, l) = n * e + 0
      BY ONLY <1>5, <2>1, <2>6, <2>7, <2>8, <3>3, <3>5, Zenon
    <3>7. PICK t \in Nat : t = n * e
      BY ONLY <3>4, n \in Nat
    <3>8. t + 0 = t
      OBVIOUS
    <3> QED BY ONLY <3>6, <3>7, <3>8, Zenon
  <2>10. y[m + 1] = z
    BY ONLY <1>1, <2>1, <2>6, <2>9, Zenon
  <2>11. U[m + 1] = Behind(a, z)
    <3>1. m + 1 \in 1 .. Len(y) /\ (m + 1) - 1 = m
      BY ONLY <1>1
    <3>2. U[m + 1] = Behind(U[(m + 1) - 1], y[m + 1])
      BY ONLY <2>3, <3>1, Zenon
    <3> QED BY ONLY <1>5, <2>1, <2>10, <3>1, <3>2, Zenon
  <2>12. PICK x : x = [arr |-> b, pending_byte |-> 0, bit_offset |-> 0]
    BY Zenon
  <2>13. x.arr = b
    BY ONLY <2>12
  <2> QED BY ONLY <2>2, <2>5, <2>6, <2>11, <2>12, <2>13, Zenon DEF EndsUnit
<1> QED BY ONLY <1>8, <1>9, Zenon

LEMMA UnitFinished ==
    ASSUME NEW w, NEW unit, WritesTo(w, <<>>, unit)
    PROVE  FlushFinal(WriteBits(w, 1, 1)).arr = unit
<1>1. w \in Writers /\ \E bits, V, y, U, m, p :
        /\ Coded(bits, V, y, U, m) /\ U[m + 1] = unit
        /\ Writes(w, U, V, p) /\ Ahead(bits, p, <<>>, m)
  BY ONLY WritesTo(w, <<>>, unit), Zenon DEF WritesTo
<1>2. PICK bits, V, y, U, m, p :
        /\ Coded(bits, V, y, U, m) /\ U[m + 1] = unit
        /\ Writes(w, U, V, p) /\ Ahead(bits, p, <<>>, m)
  BY ONLY <1>1, Zenon
<1>3. p \in Nat /\ Stops(bits, p, m)
  <2>1. PICK pos : Placed(pos, bits, p, <<>>, m)
    BY ONLY <1>2, Zenon DEF Ahead
  <2>2. Len(<<>>) = 0
    OBVIOUS
  <2>3. p \in Nat
    BY ONLY <1>2, Zenon DEF Ahead
  <2> QED BY ONLY <2>1, <2>2, <2>3, Zenon DEF Placed
<1>4. m \in Nat /\ bits \in Seq({0, 1}) /\ Len(bits) = 8 * m /\ IsValue(V, bits)
  BY ONLY <1>2, Zenon DEF Coded
<1>5. bits[p + 1] = 1 /\ p + 1 <= 8 * m
  BY ONLY <1>3, Zenon DEF Stops
<1>6. PICK q : q = p + 1
  BY Zenon
<1>7. Val(V, p, q) = 1
  <2>1. p \in 0 .. Len(bits) /\ p \in 0 .. Len(bits) - 1 /\ p <= p /\ p - p <= 33
    BY ONLY <1>3, <1>4, <1>5
  <2>2. Val(V, p, p) = 0
    BY ONLY <1>4, <2>1, ValSame, Zenon
  <2>3. Val(V, p, p + 1) = 2 * Val(V, p, p) + bits[p + 1]
    BY ONLY <1>4, <2>1, ValNext
  <2>4. 2 * 0 + 1 = 1
    OBVIOUS
  <2> QED BY ONLY <1>5, <1>6, <2>2, <2>3, <2>4, Zenon
<1>8. PICK n \in Nat, c \in 0 .. 32 : n = 1 /\ c = 1
  <2>1. 1 \in Nat /\ 1 \in 0 .. 32
    OBVIOUS
  <2> QED BY ONLY <2>1, Zenon
<1>9. n <= Largest
  <2>1. PICK g \in Nat : g = Largest /\ 2^31 = g + 1
    BY LargestPower, Zenon
  <2>2. 1 <= g
    BY ONLY <2>1, PowerTable, SMT DEF IsPower
  <2> QED BY ONLY <1>8, <2>1, <2>2, Zenon
<1>10. n = Val(V, p, p + c) /\ p + c <= 8 * m /\ p + c = q
  BY ONLY <1>5, <1>6, <1>7, <1>8, Zenon
<1>11. Writes(WriteBits(w, n, c), U, V, p + c)
  BY ONLY <1>1, <1>2, <1>3, <1>9, <1>10, BitsWritten, n \in Nat, c \in 0 .. 32, Zenon
<1>12. PICK z : z = WriteBits(w, n, c)
  BY Zenon
<1>13. EndsUnit(z, U, m)
  BY ONLY <1>2, <1>3, <1>6, <1>10, <1>11, <1>12, StopFlushed, Zenon
<1> QED BY ONLY <1>2, <1>8, <1>12, <1>13, Zenon DEF EndsUnit

-----------------------------------------------------------------------------
(* Groups in two halves.                                                   *)

Halves(g, g1, g2, a, b) ==
    /\ g1 \in Group /\ g2 \in Group /\ g = g1 \o g2 /\ Shape(g1, a) /\ Shape(g2, b)
    /\ Len(g1) = Len(a) /\ Len(g2) = Len(b)
    /\ \A i \in 1 .. Len(a) : g1[i] = g[i]
    /\ \A i \in 1 .. Len(b) : g2[i] = g[Len(a) + i]

LEMMA GroupHalves ==
    ASSUME NEW g \in Group, NEW a, NEW b, a \in Seq(Descs), b \in Seq(Descs), Shape(g, a \o b)
    PROVE  \E g1, g2 : Halves(g, g1, g2, a, b)
<1>1. PICK l \in Nat, n \in Nat : l = Len(a) /\ n = Len(b)
  BY ONLY a \in Seq(Descs), b \in Seq(Descs)
<1>2. PICK ds : ds = a \o b
  BY Zenon
<1>3. IsConcat(Descs, ds, a, b)
  BY ONLY <1>2, ConcatAt, a \in Seq(Descs), b \in Seq(Descs), Zenon
<1>4. Len(ds) = l + n /\ (\A i \in 1 .. l : ds[i] = a[i]) /\ (\A i \in 1 .. n : ds[l + i] = b[i])
  BY ONLY <1>1, <1>3, Zenon DEF IsConcat
<1>5. /\ Len(g) = l + n /\ \A i \in 1 .. l + n : g[i] \in Fields
      /\ \A i \in 1 .. l + n : g[i].f = ds[i]
  <2>1. Len(g) = Len(ds) /\ \A i \in DOMAIN g : g[i].f = ds[i]
    BY ONLY <1>2, Shape(g, a \o b) DEF Shape
  <2>2. DOMAIN g = 1 .. Len(g) /\ \A i \in 1 .. Len(g) : g[i] \in Fields
    BY ONLY g \in Group DEF Group
  <2> QED BY ONLY <1>4, <2>1, <2>2, Zenon
<1>6. PICK g1, g2 : g1 = SubSeq(g, 1, l) /\ g2 = SubSeq(g, l + 1, l + n)
  BY Zenon
<1>7. /\ g1 \in Group /\ Len(g1) = l /\ DOMAIN g1 = 1 .. l /\ \A i \in 1 .. l : g1[i] = g[i]
  BY ONLY <1>5, <1>6, g \in Group, l \in Nat, n \in Nat DEF Group
<1>8. /\ g2 \in Group /\ Len(g2) = n /\ DOMAIN g2 = 1 .. n /\ \A i \in 1 .. n : g2[i] = g[l + i]
  <2>1. PICK j \in Nat, k \in Nat : j = l + 1 /\ k = l + n
    OBVIOUS
  <2>2. g2 = SubSeq(g, j, k) /\ j >= 1 /\ k <= Len(g) /\ j <= k + 1
    BY ONLY <1>5, <1>6, <2>1, l \in Nat, n \in Nat
  <2>3. IsPart(Fields, g2, g, j, k)
    BY ONLY <2>2, SubSeqAt, g \in Group, j \in Nat, k \in Nat, Zenon DEF Group
  <2>4. g2 \in Seq(Fields) /\ Len(g2) = k - j + 1 /\ \A i \in 1 .. Len(g2) : g2[i] = g[j + i - 1]
    BY ONLY <2>3, Zenon DEF IsPart
  <2>5. Len(g2) = n
    BY ONLY <2>1, <2>4, l \in Nat, n \in Nat
  <2>6. \A i \in 1 .. n : j + i - 1 = l + i
    BY ONLY <2>1, l \in Nat, n \in Nat
  <2>7. \A i \in 1 .. n : g2[i] = g[l + i]
    BY ONLY <2>4, <2>5, <2>6, Zenon
  <2>8. DOMAIN g2 = 1 .. n
    BY ONLY <2>4, <2>5
  <2> QED BY ONLY <2>4, <2>5, <2>7, <2>8, Zenon DEF Group
<1>9. g = g1 \o g2
  <2>1. PICK h : h = g1 \o g2
    BY Zenon
  <2>2. IsConcat(Fields, h, g1, g2)
    BY ONLY <1>7, <1>8, <2>1, ConcatAt, Zenon DEF Group
  <2>3. /\ h \in Seq(Fields) /\ Len(h) = l + n /\ (\A i \in 1 .. l : h[i] = g1[i])
        /\ \A i \in 1 .. n : h[l + i] = g2[i]
    BY ONLY <1>7, <1>8, <2>2, Zenon DEF IsConcat
  <2>4. ASSUME NEW i \in 1 .. l + n PROVE h[i] = g[i]
    <3>1. CASE i \in 1 .. l
      BY ONLY <1>7, <2>3, <3>1, Zenon
    <3>2. CASE i \notin 1 .. l
      <4>1. i - l \in 1 .. n /\ l + (i - l) = i
        BY ONLY <3>2, l \in Nat, n \in Nat, i \in 1 .. l + n
      <4>2. PICK k \in 1 .. n : l + k = i
        BY ONLY <4>1, Zenon
      <4> QED BY ONLY <1>8, <2>3, <4>2, Zenon
    <3> QED BY ONLY <3>1, <3>2, Zenon
  <2>5. h = g
    BY ONLY <1>5, <2>3, <2>4, g \in Group, l \in Nat, n \in Nat DEF Group
  <2> QED BY ONLY <2>1, <2>5, Zenon
<1>10. Shape(g1, a)
  <2>1. \A i \in 1 .. l : i \in 1 .. l + n
    BY ONLY l \in Nat, n \in Nat
  <2>2. \A i \in 1 .. l : g1[i].f = a[i]
    BY ONLY <1>4, <1>5, <1>7, <2>1, Zenon
  <2> QED BY ONLY <1>1, <1>7, <2>2 DEF Shape
<1>11. Shape(g2, b)
  <2>1. \A i \in 1 .. n : l + i \in 1 .. l + n
    BY ONLY l \in Nat, n \in Nat
  <2>2. \A i \in 1 .. n : g2[i].f = b[i]
    BY ONLY <1>4, <1>5, <1>8, <2>1, Zenon
  <2> QED BY ONLY <1>1, <1>8, <2>2 DEF Shape
<1>12. /\ Len(g1) = Len(a) /\ Len(g2) = Len(b)
       /\ \A i \in 1 .. Len(a) : g1[i] = g[i]
       /\ \A i \in 1 .. Len(b) : g2[i] = g[Len(a) + i]
  BY ONLY <1>1, <1>7, <1>8, Zenon
<1>13. g1 \in Group /\ g2 \in Group
  BY ONLY <1>7, <1>8, Zenon
<1> QED BY ONLY <1>9, <1>10, <1>11, <1>12, <1>13, Zenon DEF Halves

LEMMA GroupRegroups ==
    ASSUME NEW a \in Group, NEW b \in Group, NEW c \in Group
    PROVE  Regroups(a, b, c) /\ b \o c \in Group /\ a \o b \in Group /\ a \o (b \o c) \in Group
<1>1. a \in Seq(Fields) /\ b \in Seq(Fields) /\ c \in Seq(Fields)
  BY ONLY a \in Group, b \in Group, c \in Group, Zenon DEF Group
<1>2. Regroups(a, b, c)
  BY ONLY <1>1, Regrouping, Zenon
<1>3. b \o c \in Group /\ a \o b \in Group
  BY ONLY GroupParts, a \in Group, b \in Group, c \in Group, Zenon
<1> QED BY ONLY <1>2, <1>3, GroupParts, a \in Group, Zenon

\* The cursor behind the first half of a group.
Halfway(c, d, g, a, b, src, tgt, unit) ==
    \E g1, g2 : /\ Halves(g, g1, g2, a, b) /\ Over(c, d, g1, g2 \o src, g2 \o tgt, unit)
                /\ g2 \o src \in Group /\ g2 \o tgt \in Group

LEMMA HalfCopied ==
    ASSUME NEW g \in Group, NEW a, NEW b, a \in Seq(Descs), b \in Seq(Descs), Shape(g, a \o b),
           NEW src \in Group, NEW tgt \in Group, NEW unit, NEW c, At(c, g \o src, g \o tgt, unit)
    PROVE  Halfway(c, Copy(c, a), g, a, b, src, tgt, unit)
<1>1. PICK g1, g2 : Halves(g, g1, g2, a, b)
  BY ONLY GroupHalves, g \in Group, a \in Seq(Descs), b \in Seq(Descs), Shape(g, a \o b), Zenon
<1>2. g1 \in Group /\ g2 \in Group /\ g = g1 \o g2 /\ Shape(g1, a)
  BY ONLY <1>1, Zenon DEF Halves
<1>3. /\ Regroups(g1, g2, src) /\ g2 \o src \in Group
      /\ Regroups(g1, g2, tgt) /\ g2 \o tgt \in Group
  BY ONLY <1>2, GroupRegroups, src \in Group, tgt \in Group, Zenon
<1>4. At(c, g1 \o (g2 \o src), g1 \o (g2 \o tgt), unit)
  BY ONLY <1>2, <1>3, At(c, g \o src, g \o tgt, unit), Zenon DEF Regroups
<1>5. Over(c, Copy(c, a), g1, g2 \o src, g2 \o tgt, unit)
  BY ONLY <1>2, <1>3, <1>4, GroupCopied, a \in Seq(Descs), Zenon
<1> QED BY ONLY <1>1, <1>3, <1>5, Zenon DEF Halfway

\* The cursor behind the first half of a group that is left out.
HalfwayOut(c, d, g, a, b, src, tgt, unit) ==
    \E g1, g2 : /\ Halves(g, g1, g2, a, b) /\ Over(c, d, g1, g2 \o src, tgt, unit)
                /\ g2 \o src \in Group

LEMMA HalfSkipped ==
    ASSUME NEW g \in Group, NEW a, NEW b, a \in Seq(Descs), b \in Seq(Descs), Shape(g, a \o b),
           NEW src \in Group, NEW tgt \in Group, NEW unit, NEW c, At(c, g \o src, tgt, unit)
    PROVE  HalfwayOut(c, Skip(c, a), g, a, b, src, tgt, unit)
<1>1. PICK g1, g2 : Halves(g, g1, g2, a, b)
  BY ONLY GroupHalves, g \in Group, a \in Seq(Descs), b \in Seq(Descs), Shape(g, a \o b), Zenon
<1>2. g1 \in Group /\ g2 \in Group /\ g = g1 \o g2 /\ Shape(g1, a)
  BY ONLY <1>1, Zenon DEF Halves
<1>3. /\ Regroups(g1, g2, src) /\ g2 \o src \in Group
  BY ONLY <1>2, GroupRegroups, src \in Group, Zenon
<1>4. At(c, g1 \o (g2 \o src), tgt, unit)
  BY ONLY <1>2, <1>3, At(c, g \o src, tgt, unit), Zenon DEF Regroups
<1>5. Over(c, Skip(c, a), g1, g2 \o src, tgt, unit)
  BY ONLY <1>2, <1>3, <1>4, GroupSkipped, a \in Seq(Descs), tgt \in Group, Zenon
<1> QED BY ONLY <1>1, <1>3, <1>5, Zenon DEF HalfwayOut
=============================================================================
