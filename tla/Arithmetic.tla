------------------------------ MODULE Arithmetic ------------------------------
(***************************************************************************)
(* What the proofs need of numbers: arithmetic modulo m, for the counters   *)
(* of a frame or a packet whose width is fixed; induction, with a set in    *)
(* the place of the predicate; and functions defined by recursion.          *)
(***************************************************************************)
EXTENDS Integers, Sequences, WellFoundedInduction, TLAPS

\* x and y differ by a multiple of m.
Cong(x, y, m) == \E k \in Int : x = y + m * k

LEMMA SmallMultiple ==
    ASSUME NEW m \in Nat \ {0}, NEW k \in Int, NEW r \in Int,
           -m < r, r < m, m * k = r
    PROVE  k = 0
<1>1. CASE k >= 1
  <2>1. m * k >= m
    BY <1>1
  <2> QED BY <2>1
<1>2. CASE k <= -1
  <2>1. m * k <= -m
    BY <1>2
  <2> QED BY <2>1
<1> QED BY <1>1, <1>2

LEMMA DivMod ==
    ASSUME NEW m \in Nat \ {0}, NEW x \in Int
    PROVE  x \div m \in Int /\ (x % m) \in 0 .. m - 1 /\ x = m * (x \div m) + (x % m)
OBVIOUS

LEMMA ModRange == \A m \in Nat \ {0}, x \in Int : x % m \in 0 .. m - 1
BY DivMod

LEMMA Quotient ==
    \A m \in Nat \ {0}, x \in Int : \E q \in Int : (x % m) \in Int /\ x = m * q + (x % m)
<1> SUFFICES ASSUME NEW m \in Nat \ {0}, NEW x \in Int
             PROVE  \E q \in Int : (x % m) \in Int /\ x = m * q + (x % m)
  OBVIOUS
<1>1. x \div m \in Int /\ (x % m) \in Int /\ x = m * (x \div m) + (x % m)
  BY DivMod
<1> QED BY <1>1, Zenon

LEMMA Remainder ==
    ASSUME NEW m \in Nat \ {0}, NEW x \in Int, NEW q \in Int, NEW r \in 0 .. m - 1,
           x = m * q + r
    PROVE  x % m = r
<1> DEFINE k == q - x \div m
<1>1. m * k = (x % m) - r /\ k \in Int
  BY DivMod
<1>2. (x % m) - r \in Int /\ -m < (x % m) - r /\ (x % m) - r < m
  BY DivMod
<1> HIDE DEF k
<1>3. k = 0
  BY <1>1, <1>2, SmallMultiple
<1>4. m * k = 0
  BY <1>3
<1> QED BY <1>1, <1>4, DivMod

LEMMA CongMod ==
    ASSUME NEW m \in Nat \ {0}, NEW x \in Int, NEW y \in Int, Cong(x, y, m)
    PROVE  x % m = y % m
<1>1. PICK k \in Int : x = y + m * k
  BY DEF Cong
<1>2. y \div m + k \in Int /\ (y % m) \in 0 .. m - 1 /\ y = m * (y \div m) + (y % m)
  BY DivMod
<1>3. x = m * (y \div m + k) + (y % m)
  BY <1>1, <1>2
<1> QED BY <1>2, <1>3, Remainder

\* Reducing one term changes nothing.
LEMMA CongStep ==
    ASSUME NEW m \in Nat \ {0}, NEW s \in Int, NEW b \in Int, NEW d \in Int,
           Cong(s - b, d, m)
    PROVE  Cong(((s + 1) % m) - b, d + 1, m)
<1>1. PICK k \in Int : s - b = d + m * k
  BY DEF Cong
<1>2. s + 1 \in Int
  OBVIOUS
<1> DEFINE r == (s + 1) % m
<1>3. PICK q \in Int : r \in Int /\ s + 1 = m * q + r
  BY <1>2, Quotient, Zenon
<1> HIDE DEF r
<1>4. r - b = (d + 1) + m * (k - q) /\ k - q \in Int
  BY <1>1, <1>3
<1>5. Cong(r - b, d + 1, m)
  BY <1>4 DEF Cong
<1> QED BY <1>5 DEF r

LEMMA CongFirst ==
    ASSUME NEW m \in Nat \ {0}, NEW s \in Int
    PROVE  Cong(((s + 1) % m) - s, 1, m)
<1>1. PICK b \in Int, d \in Int : b = s /\ d = 0
  OBVIOUS
<1>2. s - b = d + m * 0
  BY <1>1
<1>3. Cong(s - b, d, m)
  BY <1>2 DEF Cong
<1>4. Cong(((s + 1) % m) - b, d + 1, m)
  BY <1>3, CongStep
<1>5. d + 1 = 1
  BY <1>1
<1> QED BY <1>1, <1>4, <1>5

LEMMA CongSame == \A m \in Nat \ {0}, x \in Int : Cong(x, x, m)
<1> SUFFICES ASSUME NEW m \in Nat \ {0}, NEW x \in Int PROVE Cong(x, x, m)
  OBVIOUS
<1>1. x = x + m * 0
  OBVIOUS
<1> QED BY <1>1 DEF Cong

\* A number cut to its width is no larger, and the same up to wrapping.
LEMMA CongCut ==
    ASSUME NEW m \in Nat \ {0}, NEW n \in Nat
    PROVE  n % m \in 0 .. n /\ Cong(n % m, n, m)
<1> DEFINE q == n \div m
           r == n % m
<1>1. q \in Int /\ r \in 0 .. m - 1 /\ n = m * q + r
  BY DivMod
<1> HIDE DEF q, r
<1>2. q >= 0
  <2>1. CASE q <= -1
    <3>1. m * q <= -m
      BY <1>1, <2>1
    <3> QED BY <1>1, <3>1
  <2> QED BY <1>1, <2>1
<1>3. m * q >= 0
  BY <1>1, <1>2
<1>4. r \in 0 .. n
  BY <1>1, <1>3
<1>5. r = n + m * (-q) /\ -q \in Int
  BY <1>1
<1>6. Cong(r, n, m)
  BY <1>5 DEF Cong
<1> QED BY <1>4, <1>6 DEF r
-----------------------------------------------------------------------------
(* Induction.                                                              *)

LEMMA LeastElement ==
    ASSUME NEW T \in SUBSET Nat, T # {}
    PROVE  \E n \in T : \A m \in T : n <= m
<1> DEFINE R == OpToRel(<, Nat)
<1>1. PICK n \in T : \A m \in T : ~(<<m, n>> \in R)
  BY NatLessThanWellFounded, WFMin
<1>2. \A m \in Nat : m < n => <<m, n>> \in R
  BY DEF OpToRel
<1>3. ASSUME NEW m \in T PROVE n <= m
  <2>1. ~(m < n)
    BY <1>1, <1>2
  <2> QED BY ONLY <2>1, m \in T, n \in T, T \in SUBSET Nat, SMT
<1> QED BY <1>3

\* Induction over the numbers in a set of those of which something holds.
LEMMA SetInduction ==
    ASSUME NEW T \in SUBSET Nat, 0 \in T, \A n \in T : n + 1 \in T
    PROVE  T = Nat
<1> SUFFICES ASSUME T # Nat PROVE FALSE
  OBVIOUS
<1>1. PICK n \in Nat \ T : \A m \in Nat \ T : n <= m
  BY LeastElement
<1>2. n - 1 \in Nat /\ n - 1 \notin Nat \ T
  BY <1>1
<1> QED BY <1>1, <1>2

\* Induction over an interval.
LEMMA IntervalInduction ==
    ASSUME NEW b \in Int, NEW m \in Int, NEW T, b <= m => b \in T,
           \A n \in b .. m : b < n /\ n - 1 \in T => n \in T
    PROVE  b .. m \subseteq T
<1> DEFINE U == {n \in Nat : b + n <= m => b + n \in T}
<1>1. 0 \in U
  OBVIOUS
<1>2. ASSUME NEW n \in U PROVE n + 1 \in U
  <2> SUFFICES ASSUME b + (n + 1) <= m PROVE b + (n + 1) \in T
    OBVIOUS
  <2>1. (b + (n + 1)) - 1 = b + n /\ b + n \in T /\ b + (n + 1) \in b .. m /\ b < b + (n + 1)
    OBVIOUS
  <2> QED BY <2>1
<1>3. U \in SUBSET Nat
  OBVIOUS
<1> HIDE DEF U
<1>4. U = Nat
  BY <1>1, <1>2, <1>3, SetInduction
<1>5. ASSUME NEW n \in b .. m PROVE n \in T
  <2>1. n - b \in Nat /\ b + (n - b) = n /\ n <= m
    OBVIOUS
  <2>2. n - b \in U
    BY <1>4, <2>1
  <2>3. b + (n - b) \in T
    BY <2>1, <2>2 DEF U
  <2> QED BY <2>1, <2>3
<1> QED BY <1>5

-----------------------------------------------------------------------------
(* Recursion: a function with f giving each value from the one before.     *)

Iterates(g, S, a, f, n) ==
    /\ g \in [0 .. n -> S]
    /\ g[0] = a
    /\ \A i \in 0 .. n - 1 : g[i + 1] = f[i][g[i]]

LEMMA IterationUnique ==
    ASSUME NEW S, NEW a, NEW f, NEW n \in Nat, NEW g, NEW m \in Nat, NEW h, n <= m,
           Iterates(g, S, a, f, n), Iterates(h, S, a, f, m)
    PROVE  \A i \in 0 .. n : g[i] = h[i]
<1> DEFINE T == {i \in Nat : i <= n => g[i] = h[i]}
<1>1. 0 \in T
  BY DEF Iterates
<1>2. ASSUME NEW i \in T PROVE i + 1 \in T
  BY DEF Iterates
<1>3. T \in SUBSET Nat
  OBVIOUS
<1> HIDE DEF T
<1>4. T = Nat
  BY <1>1, <1>2, <1>3, SetInduction
<1> QED BY <1>4 DEF T

LEMMA IterationExists ==
    ASSUME NEW S, NEW a \in S, NEW f \in [Nat -> [S -> S]]
    PROVE  \A n \in Nat : \E g : Iterates(g, S, a, f, n)
<1> DEFINE T == {n \in Nat : \E g : Iterates(g, S, a, f, n)}
<1>1. 0 \in T
  <2>1. Iterates([i \in 0 .. 0 |-> a], S, a, f, 0)
    BY DEF Iterates
  <2> QED BY <2>1
<1>2. ASSUME NEW n \in T PROVE n + 1 \in T
  <2>1. PICK g : Iterates(g, S, a, f, n)
    OBVIOUS
  <2> DEFINE h == [i \in 0 .. n + 1 |-> IF i = n + 1 THEN f[n][g[n]] ELSE g[i]]
  <2>2. f[n][g[n]] \in S
    BY <2>1 DEF Iterates
  <2>3. Iterates(h, S, a, f, n + 1)
    BY <2>1, <2>2 DEF Iterates
  <2> QED BY <2>3
<1>3. T \in SUBSET Nat
  OBVIOUS
<1> HIDE DEF T
<1>4. T = Nat
  BY <1>1, <1>2, <1>3, SetInduction
<1> QED BY <1>4 DEF T

\* Over all numbers.
Recurs(g, S, a, f) ==
    /\ g \in [Nat -> S]
    /\ g[0] = a
    /\ \A n \in Nat : g[n + 1] = f[n][g[n]]

LEMMA Recursion ==
    ASSUME NEW S, NEW a \in S, NEW f \in [Nat -> [S -> S]]
    PROVE  \E g : Recurs(g, S, a, f)
<1> DEFINE G(n) == CHOOSE g : Iterates(g, S, a, f, n)
           h == [n \in Nat |-> G(n)[n]]
<1>1. \A n \in Nat : Iterates(G(n), S, a, f, n)
  BY IterationExists
<1> HIDE DEF G
<1>2. h \in [Nat -> S]
  BY <1>1 DEF Iterates
<1>3. h[0] = a
  BY <1>1 DEF Iterates
<1>4. ASSUME NEW n \in Nat PROVE h[n + 1] = f[n][h[n]]
  <2>1. G(n)[n] = G(n + 1)[n]
    BY <1>1, IterationUnique
  <2>2. G(n + 1)[n + 1] = f[n][G(n + 1)[n]]
    BY <1>1 DEF Iterates
  <2> QED BY <2>1, <2>2
<1> HIDE DEF h
<1>5. Recurs(h, S, a, f)
  BY <1>2, <1>3, <1>4 DEF Recurs
<1> QED BY <1>5

\* The functions that definitions by recursion choose: their equation has a solution.
RecursOn(g, D, first, S, a, f) ==
    /\ g \in [D -> S]
    /\ g = [n \in D |-> IF n = first THEN a ELSE f[n - 1][g[n - 1]]]

LEMMA RecursiveOnNat ==
    ASSUME NEW S, NEW a \in S, NEW f \in [Nat -> [S -> S]]
    PROVE  \E g : RecursOn(g, Nat, 0, S, a, f)
<1>0. PICK g : Recurs(g, S, a, f)
  BY Recursion
<1>1. g \in [Nat -> S] /\ g[0] = a /\ \A n \in Nat : g[n + 1] = f[n][g[n]]
  BY <1>0 DEF Recurs
<1>2. ASSUME NEW n \in Nat, n # 0 PROVE g[n] = f[n - 1][g[n - 1]]
  <2>1. n - 1 \in Nat /\ (n - 1) + 1 = n
    BY <1>2
  <2> QED BY <1>1, <2>1
<1>3. g = [n \in Nat |-> IF n = 0 THEN a ELSE f[n - 1][g[n - 1]]]
  BY <1>1, <1>2
<1>4. RecursOn(g, Nat, 0, S, a, f)
  BY <1>1, <1>3 DEF RecursOn
<1> QED BY <1>4

LEMMA RecursiveUpTo ==
    ASSUME NEW S, NEW a \in S, NEW f \in [Nat -> [S -> S]], NEW m \in Nat
    PROVE  \E g : RecursOn(g, 0 .. m, 0, S, a, f)
<1>0. PICK g : RecursOn(g, Nat, 0, S, a, f)
  BY RecursiveOnNat
<1>1. g \in [Nat -> S] /\ g = [n \in Nat |-> IF n = 0 THEN a ELSE f[n - 1][g[n - 1]]]
  BY <1>0 DEF RecursOn
<1> DEFINE h == [n \in 0 .. m |-> g[n]]
<1>2. h \in [0 .. m -> S]
  BY <1>1
<1>3. \A n \in 0 .. m : h[n] = IF n = 0 THEN a ELSE f[n - 1][h[n - 1]]
  BY <1>1
<1>4. h = [n \in 0 .. m |-> IF n = 0 THEN a ELSE f[n - 1][h[n - 1]]]
  BY <1>2, <1>3
<1>5. RecursOn(h, 0 .. m, 0, S, a, f)
  BY <1>2, <1>4 DEF RecursOn
<1> QED BY <1>5

LEMMA RecursiveFromOne ==
    ASSUME NEW S, NEW a \in S, NEW f \in [Nat -> [S -> S]], NEW m \in Nat
    PROVE  \E g : RecursOn(g, 1 .. m, 1, S, a, f)
<1> DEFINE e == [n \in Nat |-> f[n + 1]]
<1>1. e \in [Nat -> [S -> S]]
  OBVIOUS
<1>0. PICK g : Recurs(g, S, a, e)
  <2> HIDE DEF e
  <2> QED BY <1>1, Recursion
<1>2. g \in [Nat -> S] /\ g[0] = a /\ \A n \in Nat : g[n + 1] = e[n][g[n]]
  BY <1>0 DEF Recurs
<1> DEFINE h == [n \in 1 .. m |-> g[n - 1]]
<1>3. h \in [1 .. m -> S]
  BY <1>2
<1>4. ASSUME NEW n \in 1 .. m, n # 1 PROVE h[n] = f[n - 1][h[n - 1]]
  <2>1. n - 2 \in Nat /\ (n - 2) + 1 = n - 1
    BY <1>4
  <2>2. g[n - 1] = e[n - 2][g[n - 2]]
    BY <1>2, <2>1
  <2>3. e[n - 2] = f[n - 1]
    BY <2>1
  <2>4. n - 1 \in 1 .. m /\ h[n - 1] = g[n - 2] /\ h[n] = g[n - 1]
    BY <1>4
  <2> QED BY <2>2, <2>3, <2>4
<1>5. 1 \in 1 .. m => h[1] = a
  BY <1>2
<1> HIDE DEF e
<1>6. h = [n \in 1 .. m |-> IF n = 1 THEN a ELSE f[n - 1][h[n - 1]]]
  BY <1>3, <1>4, <1>5
<1>7. RecursOn(h, 1 .. m, 1, S, a, f)
  BY <1>3, <1>6 DEF RecursOn
<1> QED BY <1>7

-----------------------------------------------------------------------------
(* Powers of two, as far as a word's bits go.                               *)

IsPower(k, e) ==
    /\ (k = 0 => e = 1) /\ (k = 1 => e = 2) /\ (k = 2 => e = 4) /\ (k = 3 => e = 8)
    /\ (k = 4 => e = 16) /\ (k = 5 => e = 32) /\ (k = 6 => e = 64) /\ (k = 7 => e = 128)
    /\ (k = 8 => e = 256) /\ (k = 9 => e = 512) /\ (k = 10 => e = 1024)
    /\ (k = 11 => e = 2048) /\ (k = 12 => e = 4096) /\ (k = 13 => e = 8192)
    /\ (k = 14 => e = 16384) /\ (k = 15 => e = 32768) /\ (k = 16 => e = 65536)
    /\ (k = 17 => e = 131072) /\ (k = 18 => e = 262144) /\ (k = 19 => e = 524288)
    /\ (k = 20 => e = 1048576) /\ (k = 21 => e = 2097152) /\ (k = 22 => e = 4194304)
    /\ (k = 23 => e = 8388608) /\ (k = 24 => e = 16777216) /\ (k = 25 => e = 33554432)
    /\ (k = 26 => e = 67108864) /\ (k = 27 => e = 134217728) /\ (k = 28 => e = 268435456)
    /\ (k = 29 => e = 536870912) /\ (k = 30 => e = 1073741824) /\ (k = 31 => e = 2147483648)
    /\ (k = 32 => e = 4294967296) /\ (k = 33 => e = 8589934592)
    /\ (k = 34 => e = 17179869184)

LEMMA PowerTable ==
    ASSUME NEW k \in Int
    PROVE  IsPower(k, 2^k)
<1>0. k = 0 => 2^k = 1
  OBVIOUS
<1>1. k = 1 => 2^k = 2
  OBVIOUS
<1>2. k = 2 => 2^k = 4
  OBVIOUS
<1>3. k = 3 => 2^k = 8
  OBVIOUS
<1>4. k = 4 => 2^k = 16
  OBVIOUS
<1>5. k = 5 => 2^k = 32
  OBVIOUS
<1>6. k = 6 => 2^k = 64
  OBVIOUS
<1>7. k = 7 => 2^k = 128
  OBVIOUS
<1>8. k = 8 => 2^k = 256
  OBVIOUS
<1>9. k = 9 => 2^k = 512
  OBVIOUS
<1>10. k = 10 => 2^k = 1024
  OBVIOUS
<1>11. k = 11 => 2^k = 2048
  OBVIOUS
<1>12. k = 12 => 2^k = 4096
  OBVIOUS
<1>13. k = 13 => 2^k = 8192
  OBVIOUS
<1>14. k = 14 => 2^k = 16384
  OBVIOUS
<1>15. k = 15 => 2^k = 32768
  OBVIOUS
<1>16. k = 16 => 2^k = 65536
  OBVIOUS
<1>17. k = 17 => 2^k = 131072
  OBVIOUS
<1>18. k = 18 => 2^k = 262144
  OBVIOUS
<1>19. k = 19 => 2^k = 524288
  OBVIOUS
<1>20. k = 20 => 2^k = 1048576
  OBVIOUS
<1>21. k = 21 => 2^k = 2097152
  OBVIOUS
<1>22. k = 22 => 2^k = 4194304
  OBVIOUS
<1>23. k = 23 => 2^k = 8388608
  OBVIOUS
<1>24. k = 24 => 2^k = 16777216
  OBVIOUS
<1>25. k = 25 => 2^k = 33554432
  OBVIOUS
<1>26. k = 26 => 2^k = 67108864
  OBVIOUS
<1>27. k = 27 => 2^k = 134217728
  OBVIOUS
<1>28. k = 28 => 2^k = 268435456
  OBVIOUS
<1>29. k = 29 => 2^k = 536870912
  OBVIOUS
<1>30. k = 30 => 2^k = 1073741824
  OBVIOUS
<1>31. k = 31 => 2^k = 2147483648
  OBVIOUS
<1>32. k = 32 => 2^k = 4294967296
  OBVIOUS
<1>33. k = 33 => 2^k = 8589934592
  OBVIOUS
<1>34. k = 34 => 2^k = 17179869184
  OBVIOUS
<1> QED BY ONLY <1>0, <1>1, <1>2, <1>3, <1>4, <1>5, <1>6, <1>7, <1>8, <1>9, <1>10, <1>11, <1>12, <1>13, <1>14, <1>15, <1>16, <1>17,
        <1>18, <1>19, <1>20, <1>21, <1>22, <1>23, <1>24, <1>25, <1>26, <1>27, <1>28, <1>29, <1>30, <1>31, <1>32, <1>33, <1>34, SMT DEF IsPower

LEMMA PowerStep ==
    ASSUME NEW k \in 0 .. 33
    PROVE  2^k \in Nat \ {0} /\ 2^(k + 1) = 2 * 2^k /\ 2^(k + 1) \in Nat \ {0}
<1>1. PICK e, d : e = 2^k /\ d = 2^(k + 1)
  BY Zenon
<1>2. k \in Int /\ k + 1 \in Int
  OBVIOUS
<1>3. IsPower(k, e) /\ IsPower(k + 1, d)
  BY ONLY <1>1, <1>2, PowerTable, Zenon
<1>4. e \in Nat \ {0} /\ d = 2 * e /\ d \in Nat \ {0}
  BY ONLY <1>3, k \in 0 .. 33, SMT DEF IsPower
<1> QED BY ONLY <1>1, <1>4, Zenon

LEMMA PowerZero == 2^0 = 1
OBVIOUS

LEMMA PowerPositive ==
    ASSUME NEW k \in 0 .. 34
    PROVE  2^k \in Nat \ {0}
<1>1. CASE k = 34
  <2>1. 33 \in 0 .. 33 /\ 33 + 1 = 34
    OBVIOUS
  <2>2. 2^(33 + 1) \in Nat \ {0}
    BY ONLY <2>1, PowerStep, Zenon
  <2> QED BY ONLY <1>1, <2>1, <2>2, Zenon
<1>2. CASE k # 34
  <2>1. k \in 0 .. 33
    BY <1>2
  <2> QED BY ONLY <2>1, PowerStep, Zenon
<1> QED BY <1>1, <1>2, Zenon

LEMMA PowerSum ==
    ASSUME NEW a \in Nat, NEW b \in Nat, a + b <= 34
    PROVE  2^(a + b) = 2^a * 2^b
<1> DEFINE T == {k \in 0 .. b : 2^(a + k) = 2^a * 2^k}
<1>1. 0 \in T
  <2>1. a \in 0 .. 34 /\ a + 0 = a
    OBVIOUS
  <2>2. PICK e \in Nat \ {0} : e = 2^a
    BY ONLY <2>1, PowerPositive, Zenon
  <2>3. 2^(a + 0) = e
    BY ONLY <2>1, <2>2, Zenon
  <2>4. e = e * 2^0
    BY ONLY e \in Nat \ {0}, PowerZero, SMT
  <2>5. 2^(a + 0) = 2^a * 2^0
    BY ONLY <2>2, <2>3, <2>4, Zenon
  <2> QED BY <2>5
<1>2. ASSUME NEW k \in 0 .. b, 0 < k, k - 1 \in T PROVE k \in T
  <2>1. PICK j \in 0 .. b : j = k - 1
    BY <1>2
  <2>2. /\ j \in 0 .. 33 /\ a + j \in 0 .. 33 /\ a \in 0 .. 34
        /\ j + 1 = k /\ (a + j) + 1 = a + k
    BY <1>2, <2>1
  <2>3. 2^(a + j) = 2^a * 2^j
    BY <1>2, <2>1
  <2>4. 2^j \in Nat \ {0} /\ 2^(j + 1) = 2 * 2^j
    BY ONLY <2>2, PowerStep, Zenon
  <2>5. 2^(a + j) \in Nat \ {0} /\ 2^((a + j) + 1) = 2 * 2^(a + j)
    BY ONLY <2>2, PowerStep, Zenon
  <2>6. 2^k = 2 * 2^j /\ 2^(a + k) = 2 * 2^(a + j)
    BY ONLY <2>2, <2>4, <2>5, Zenon
  <2>7. 2^a \in Nat \ {0}
    BY ONLY <2>2, PowerPositive, Zenon
  <2>8. PICK x \in Nat \ {0}, y \in Nat \ {0} : x = 2^a /\ y = 2^j
    BY ONLY <2>4, <2>7, Zenon
  <2>9. 2 * (x * y) = x * (2 * y)
    OBVIOUS
  <2>10. 2^(a + k) = 2^a * 2^k
    BY ONLY <2>3, <2>6, <2>8, <2>9, Zenon
  <2> QED BY <2>10
<1> HIDE DEF T
<1>3. 0 \in Int /\ b \in Int /\ (0 <= b => 0 \in T)
  BY <1>1
<1>4. \A k \in 0 .. b : 0 < k /\ k - 1 \in T => k \in T
  BY <1>2, Zenon
<1>5. 0 .. b \subseteq T
  BY ONLY <1>3, <1>4, IntervalInduction, Zenon
<1>6. b \in 0 .. b
  OBVIOUS
<1> QED BY <1>5, <1>6 DEF T
================================================================================
