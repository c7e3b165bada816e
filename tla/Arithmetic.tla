----------------------------- MODULE Arithmetic -----------------------------
(* Lemmas about remainders, induction and sums that the proofs of several    *)
(* components need.                                                          *)
EXTENDS Integers, Sums, SequenceTheorems, WellFoundedInduction, TLAPS

LEMMA ModType ==
    ASSUME NEW a \in Int, NEW m \in Nat \ {0}
    PROVE  a % m \in 0 .. m - 1
OBVIOUS

LEMMA QuotRem ==
    ASSUME NEW a \in Int, NEW m \in Nat \ {0}
    PROVE  a \div m \in Int /\ a % m \in 0 .. m - 1 /\ a = m * (a \div m) + (a % m)
  OBVIOUS

(* Two remainders that differ by a multiple of the modulus are equal.        *)
LEMMA NoMultiple ==
    ASSUME NEW m \in Nat \ {0}, NEW q \in Int, NEW r \in 0 .. m - 1, NEW e \in 0 .. m - 1,
           r - e = m * q
    PROVE  q = 0
<1>1. CASE q >= 1
  <2>1. m * q >= m
    BY <1>1
  <2> QED
    BY <2>1
<1>2. CASE q <= -1
  <2>1. m * q <= -m
    BY <1>2
  <2> QED
    BY <2>1
<1> QED
  BY <1>1, <1>2

LEMMA ModUnique ==
    ASSUME NEW a \in Int, NEW m \in Nat \ {0}, NEW q \in Int, NEW r \in 0 .. m - 1,
           a = m * q + r
    PROVE  a % m = r
<1> DEFINE d == a \div m
           e == a % m
<1>1. d \in Int /\ e \in 0 .. m - 1 /\ a = m * d + e
  BY QuotRem
<1> HIDE DEF d, e
<1>2. r - e = m * (d - q)
  BY <1>1
<1>3. d - q = 0
  BY <1>1, <1>2, NoMultiple
<1>4. r = e
  BY <1>1, <1>2, <1>3
<1> QED
  BY <1>4 DEF e

LEMMA ModSame ==
    ASSUME NEW m \in Nat \ {0}, NEW a \in Int, NEW b \in Int, NEW k \in Int, b = a + m * k
    PROVE  b % m = a % m
<1> DEFINE d == a \div m
           e == a % m
<1>1. d \in Int /\ e \in 0 .. m - 1 /\ a = m * d + e
  BY QuotRem
<1> HIDE DEF d, e
<1>2. b = m * (d + k) + e
  BY <1>1
<1>3. b % m = e
  BY <1>1, <1>2, ModUnique
<1> QED
  BY <1>3 DEF e

(* A remainder may be taken early.                                           *)
LEMMA ModOfMod ==
    ASSUME NEW a \in Int, NEW b \in Int, NEW m \in Nat \ {0}
    PROVE  /\ ((a % m) + b) % m = (a + b) % m
           /\ (b - (a % m)) % m = (b - a) % m
<1> DEFINE d == a \div m
           e == a % m
<1>1. d \in Int /\ e \in Int /\ a = m * d + e
  BY QuotRem
<1> HIDE DEF d, e
<1>2. e + b = (a + b) + m * (-d)
  BY <1>1
<1>3. b - e = (b - a) + m * d
  BY <1>1
<1>4. e + b \in Int /\ a + b \in Int /\ -d \in Int /\ b - e \in Int /\ b - a \in Int
  BY <1>1
<1>5. (e + b) % m = (a + b) % m
  BY <1>2, <1>4, ModSame, ZenonT(30)
<1>6. (b - e) % m = (b - a) % m
  BY <1>1, <1>4, <1>3, ModSame, ZenonT(30)
<1> QED
  BY <1>5, <1>6 DEF e

LEMMA ModDiff ==
    ASSUME NEW x \in Int, NEW y \in Int, NEW m \in Nat \ {0}
    PROVE  ((y % m) - (x % m)) % m = (y - x) % m
<1> DEFINE r == y % m
<1>1. r \in Int /\ -x \in Int
  BY ModType
<1>2. (r + (-x)) % m = (y + (-x)) % m
  BY <1>1, ModOfMod, ZenonT(30)
<1> HIDE DEF r
<1>3. (r - (x % m)) % m = (r - x) % m
  BY <1>1, ModOfMod, ZenonT(30)
<1>4. r + (-x) = r - x /\ y + (-x) = y - x
  BY <1>1
<1>5. (r - (x % m)) % m = (y - x) % m
  BY <1>2, <1>3, <1>4
<1> QED
  BY <1>5 DEF r

(* The low bits of the low bits.                                             *)
LEMMA ModNested ==
    ASSUME NEW a \in Int, NEW m \in Nat \ {0}, NEW big \in Nat \ {0}, big % m = 0
    PROVE  (a % big) % m = a % m
<1> DEFINE d == a \div big
           e == a % big
           k == big \div m
<1>1. d \in Int /\ e \in Int /\ a = big * d + e
  BY QuotRem
<1>2. k \in Int /\ big = m * k
  BY QuotRem
<1> HIDE DEF d, e, k
<1>3. e = a + m * (-(k * d)) /\ -(k * d) \in Int
  BY <1>1, <1>2
<1>4. e % m = a % m
  BY <1>1, <1>3, ModSame, ZenonT(30)
<1> QED
  BY <1>4 DEF e

LEMMA ModSmall ==
    ASSUME NEW m \in Nat \ {0}, NEW a \in Int
    PROVE  /\ a \in 0 .. m - 1 => a % m = a
           /\ a \in m .. 2 * m - 1 => a % m = a - m
           /\ a \in -m .. -1 => a % m = a + m
           /\ a >= 0 => a % m <= a
<1>1. a \in 0 .. m - 1 => a % m = a
  <2>1. a = m * 0 + a
    OBVIOUS
  <2> QED
    BY <2>1, ModUnique
<1>2. ASSUME a \in m .. 2 * m - 1 PROVE a % m = a - m
  <2>1. a = m * 1 + (a - m) /\ a - m \in 0 .. m - 1
    BY <1>2
  <2> QED
    BY <2>1, ModUnique
<1>3. ASSUME a \in -m .. -1 PROVE a % m = a + m
  <2>1. a = m * (-1) + (a + m) /\ a + m \in 0 .. m - 1
    BY <1>3
  <2> QED
    BY <2>1, ModUnique
<1>4. a >= 0 => a % m <= a
  <2>1. a >= m => a % m <= a
    BY ModType
  <2> QED
    BY <1>1, <2>1
<1> QED
  BY <1>1, <1>2, <1>3, <1>4

LEMMA ModFits ==
    ASSUME NEW m \in Nat \ {0}, NEW a \in 0 .. m - 1
    PROVE  a % m = a
  BY ModSmall

(***************************************************************************)
(* Induction over a set of naturals: the library's induction theorems      *)
(* take the property as an operator, which no prover here can instantiate; *)
(* a set of numbers is an ordinary value.                                  *)
(***************************************************************************)
LEMMA LeastNat ==
    ASSUME NEW T \in SUBSET Nat, T # {}
    PROVE  \E x \in T : \A y \in T : x <= y
<1>1. PICK x \in T : \A y \in T : ~(<<y, x>> \in OpToRel(<, Nat))
  BY NatLessThanWellFounded, WFMin, ZenonT(30)
<1>2. \A y \in T : ~(y < x)
  BY <1>1, ZenonT(30) DEF OpToRel
<1> QED
  BY <1>2

LEMMA SetInduction ==
    ASSUME NEW S, 0 \in S, \A n \in Nat : n \in S => n + 1 \in S
    PROVE  Nat \subseteq S
<1>1. SUFFICES ASSUME Nat \ S # {} PROVE FALSE
  OBVIOUS
<1>2. PICK x \in Nat \ S : \A y \in Nat \ S : x <= y
  BY <1>1, LeastNat, ZenonT(30)
<1>3. x # 0 /\ x - 1 \in Nat
  BY <1>2
<1>4. x - 1 \in S
  BY <1>2, <1>3
<1> QED
  BY <1>2, <1>3, <1>4

(***************************************************************************)
(* Sums.                                                                   *)
(***************************************************************************)
(* g is the function of the partial sums of s.                               *)
PartialSums(g, s) ==
    /\ g \in [0 .. Len(s) -> Int] /\ g[0] = 0
    /\ \A i \in 1 .. Len(s) : g[i] = g[i - 1] + s[i]

LEMMA PartialSumsExist ==
    ASSUME NEW s \in Seq(Int)
    PROVE  \E g : PartialSums(g, s)
<1> DEFINE P(n, g) == /\ g \in [0 .. n -> Int] /\ g[0] = 0
                      /\ \A i \in 1 .. n : g[i] = g[i - 1] + s[i]
           Q(n) == \E g : P(n, g)
           S == {n \in Nat : n <= Len(s) => Q(n)}
<1>0. Len(s) \in Nat /\ \A i \in 1 .. Len(s) : s[i] \in Int
  OBVIOUS
<1>1. 0 \in S
  <2>1. P(0, [i \in 0 .. 0 |-> 0])
    OBVIOUS
  <2> QED
    BY <2>1, ZenonT(30)
<1>2. ASSUME NEW n \in Nat, n \in S PROVE n + 1 \in S
  <2> SUFFICES ASSUME n + 1 <= Len(s) PROVE Q(n + 1)
    <3> HIDE DEF Q
    <3> QED
      OBVIOUS
  <2>0. Q(n)
    <3> HIDE DEF Q
    <3> QED
      BY <1>0, <1>2
  <2>1. PICK g : P(n, g)
    BY <2>0, ZenonT(30)
  <2> DEFINE h == [i \in 0 .. n + 1 |-> IF i <= n THEN g[i] ELSE g[n] + s[n + 1]]
  <2>2. s[n + 1] \in Int
    BY <1>0
  <2>3. P(n + 1, h)
    BY <2>1, <2>2, SMTT(30)
  <2> QED
    BY <2>3, ZenonT(30)
<1> HIDE DEF S
<1>3. Nat \subseteq S
  BY <1>1, <1>2, SetInduction, ZenonT(30)
<1>4. Len(s) \in S
  BY <1>0, <1>3
<1> QED
  BY <1>4 DEF S, PartialSums

LEMMA PartialSumsUnique ==
    ASSUME NEW s, Len(s) \in Nat, NEW g, NEW h, PartialSums(g, s), PartialSums(h, s)
    PROVE  g = h
<1> DEFINE S == {n \in Nat : n <= Len(s) => g[n] = h[n]}
<1>1. 0 \in S
  BY DEF PartialSums
<1>2. ASSUME NEW n \in Nat, n \in S PROVE n + 1 \in S
  <2> SUFFICES ASSUME n + 1 <= Len(s) PROVE g[n + 1] = h[n + 1]
    OBVIOUS
  <2>1. n + 1 \in 1 .. Len(s) /\ (n + 1) - 1 = n /\ g[n] = h[n]
    BY <1>2
  <2> QED
    BY <2>1 DEF PartialSums
<1> HIDE DEF S
<1>3. Nat \subseteq S
  BY <1>1, <1>2, SetInduction
<1>4. \A n \in 0 .. Len(s) : g[n] = h[n]
  BY <1>3 DEF S
<1> QED
  BY <1>4 DEF PartialSums

LEMMA TotalIs ==
    ASSUME NEW s \in Seq(Int), NEW g, PartialSums(g, s)
    PROVE  Total(s) = g[Len(s)]
<1> DEFINE R(x) == x = [i \in 0 .. Len(s) |-> IF i = 0 THEN 0 ELSE x[i - 1] + s[i]]
           sum == CHOOSE x : R(x)
<1>0. Len(s) \in Nat /\ \A i \in 1 .. Len(s) : s[i] \in Int
  OBVIOUS
<1>1. Total(s) = sum[Len(s)]
  BY DEF Total
<1>2. R(g)
  BY <1>0 DEF PartialSums
<1>3. R(sum)
  BY <1>2, ZenonT(30)
<1> HIDE DEF sum
<1>4. PartialSums(sum, s)
  <2> DEFINE S == {n \in Nat : n <= Len(s) => sum[n] \in Int}
  <2>1. 0 \in S
    BY <1>0, <1>3
  <2>2. ASSUME NEW n \in Nat, n \in S PROVE n + 1 \in S
    <3> SUFFICES ASSUME n + 1 <= Len(s) PROVE sum[n + 1] \in Int
      OBVIOUS
    <3>1. sum[n] \in Int /\ s[n + 1] \in Int /\ sum[n + 1] = sum[n] + s[n + 1]
      BY <1>0, <1>3, <2>2
    <3> QED
      BY <3>1
  <2> HIDE DEF S
  <2>3. Nat \subseteq S
    BY <2>1, <2>2, SetInduction, ZenonT(30)
  <2>4. \A n \in 0 .. Len(s) : sum[n] \in Int
    BY <1>0, <2>3 DEF S
  <2>5. sum[0] = 0 /\ \A i \in 1 .. Len(s) : sum[i] = sum[i - 1] + s[i]
    BY <1>0, <1>3, SMTT(30)
  <2>6. sum = [i \in 0 .. Len(s) |-> sum[i]]
    BY <1>3
  <2> HIDE DEF R
  <2>7. sum \in [0 .. Len(s) -> Int]
    BY <2>4, <2>6
  <2> QED
    BY <2>5, <2>7 DEF PartialSums
<1> HIDE DEF R
<1>5. sum = g
  BY <1>0, <1>4, PartialSumsUnique
<1> QED
  BY <1>1, <1>5

LEMMA TotalType ==
    ASSUME NEW s \in Seq(Int)
    PROVE  Total(s) \in Int
<1>1. PICK g : PartialSums(g, s)
  BY PartialSumsExist
<1>2. Len(s) \in 0 .. Len(s)
  OBVIOUS
<1> QED
  BY <1>1, <1>2, TotalIs, ZenonT(30) DEF PartialSums

LEMMA TotalZero ==
    ASSUME NEW s \in Seq(Int), \A i \in 1 .. Len(s) : s[i] = 0
    PROVE  Total(s) = 0
<1> DEFINE g == [i \in 0 .. Len(s) |-> 0]
<1>1. Len(s) \in Nat
  OBVIOUS
<1>2. PartialSums(g, s)
  BY <1>1 DEF PartialSums
<1>3. g[Len(s)] = 0
  BY <1>1
<1> QED
  BY <1>2, <1>3, TotalIs

LEMMA TotalAppend ==
    ASSUME NEW s \in Seq(Int), NEW x \in Int
    PROVE  Total(Append(s, x)) = Total(s) + x
<1>1. PICK g : PartialSums(g, s)
  BY PartialSumsExist
<1> DEFINE n == Len(s)
           a == Append(s, x)
           h == [i \in 0 .. n + 1 |-> IF i <= n THEN g[i] ELSE g[n] + x]
<1>2. /\ n \in Nat /\ a \in Seq(Int) /\ Len(a) = n + 1 /\ a[n + 1] = x
      /\ \A i \in 1 .. n : a[i] = s[i]
  BY AppendProperties
<1>3. g \in [0 .. n -> Int] /\ g[0] = 0 /\ \A i \in 1 .. n : g[i] = g[i - 1] + s[i]
  BY <1>1 DEF PartialSums
<1> HIDE DEF a, n
<1>4. PartialSums(h, a)
  <2>1. h \in [0 .. n + 1 -> Int] /\ h[0] = 0
    BY <1>2, <1>3
  <2>2. ASSUME NEW i \in 1 .. n + 1 PROVE h[i] = h[i - 1] + a[i]
    <3>1. h[i - 1] = g[i - 1]
      BY <1>2
    <3>2. CASE i = n + 1
      BY <1>2, <3>1, <3>2
    <3>3. CASE i # n + 1
      <4>1. i \in 1 .. n
        BY <1>2, <3>3
      <4>2. h[i] = g[i]
        BY <4>1
      <4> QED
        BY <1>2, <1>3, <3>1, <4>1, <4>2 DEF n
    <3> QED
      BY <3>2, <3>3
  <2> HIDE DEF h
  <2> QED
    BY <1>2, <2>1, <2>2 DEF PartialSums
<1>5. h[n + 1] = g[n] + x
  BY <1>2
<1>6. Total(a) = g[n] + x
  BY <1>2, <1>4, <1>5, TotalIs
<1>7. Total(s) = g[n]
  BY <1>1, TotalIs DEF n
<1> QED
  BY <1>6, <1>7 DEF a

LEMMA TotalTail ==
    ASSUME NEW s \in Seq(Int), s # <<>>
    PROVE  Total(s) = Head(s) + Total(Tail(s))
<1>1. PICK g : PartialSums(g, s)
  BY PartialSumsExist
<1> DEFINE n == Len(s)
           t == Tail(s)
           h == [i \in 0 .. n - 1 |-> g[i + 1] - g[1]]
<1>2. /\ n \in Nat \ {0} /\ t \in Seq(Int) /\ Len(t) = n - 1 /\ Head(s) = s[1]
      /\ \A i \in 1 .. n - 1 : t[i] = s[i + 1]
  BY HeadTailProperties, EmptySeq
<1>3. \A i \in 1 .. n : s[i] \in Int
  OBVIOUS
<1>4. g \in [0 .. n -> Int] /\ g[0] = 0 /\ \A i \in 1 .. n : g[i] = g[i - 1] + s[i]
  BY <1>1 DEF PartialSums
<1> HIDE DEF n, t
<1>5. h \in [0 .. n - 1 -> Int] /\ h[0] = 0
  BY <1>2, <1>4
<1>6. ASSUME NEW i \in 1 .. n - 1 PROVE h[i] = h[i - 1] + t[i]
  <2>1. /\ i \in 0 .. n - 1 /\ i - 1 \in 0 .. n - 1 /\ i + 1 \in 1 .. n /\ (i - 1) + 1 = i
        /\ (i + 1) - 1 = i /\ i \in 0 .. n /\ 1 \in 0 .. n /\ i + 1 \in 0 .. n
    BY <1>2
  <2>2. h[i] = g[i + 1] - g[1] /\ h[i - 1] = g[i] - g[1] /\ t[i] = s[i + 1]
    BY <1>2, <2>1
  <2>3. g[i + 1] = g[i] + s[i + 1] /\ s[i + 1] \in Int /\ g[i] \in Int /\ g[1] \in Int
    BY <1>3, <1>4, <2>1, ZenonT(30) DEF n
  <2> QED
    BY <2>2, <2>3
<1> HIDE DEF h
<1>7. PartialSums(h, t)
  BY <1>2, <1>5, <1>6 DEF PartialSums
<1>8. Total(t) = h[n - 1]
  BY <1>2, <1>7, TotalIs
<1>9. h[n - 1] = g[n] - g[1] /\ g[1] = s[1] /\ g[n] \in Int /\ s[1] \in Int
  <2>1. n - 1 \in 0 .. n - 1 /\ (n - 1) + 1 = n /\ 1 \in 1 .. n /\ n \in 0 .. n
    BY <1>2
  <2>2. h[n - 1] = g[n] - g[1]
    BY <2>1 DEF h
  <2> QED
    BY <1>3, <1>4, <2>1, <2>2 DEF n
<1>10. Total(s) = g[n]
  BY <1>1, TotalIs DEF n
<1> QED
  BY <1>2, <1>8, <1>9, <1>10 DEF t

LEMMA TotalNat ==
    ASSUME NEW s \in Seq(Nat)
    PROVE  Total(s) \in Nat
<1>0. s \in Seq(Int) /\ Len(s) \in Nat /\ \A i \in 1 .. Len(s) : s[i] \in Nat
  OBVIOUS
<1>1. PICK g : PartialSums(g, s)
  BY <1>0, PartialSumsExist
<1> DEFINE S == {n \in Nat : n <= Len(s) => g[n] \in Nat}
<1>2. 0 \in S
  BY <1>1 DEF PartialSums
<1>3. ASSUME NEW n \in Nat, n \in S PROVE n + 1 \in S
  <2> SUFFICES ASSUME n + 1 <= Len(s) PROVE g[n + 1] \in Nat
    OBVIOUS
  <2>1. n + 1 \in 1 .. Len(s) /\ (n + 1) - 1 = n /\ g[n] \in Nat
    BY <1>0, <1>3
  <2> QED
    BY <1>0, <1>1, <2>1, SMTT(60) DEF PartialSums
<1> HIDE DEF S
<1>4. Nat \subseteq S
  BY <1>2, <1>3, SetInduction, ZenonT(30)
<1>5. g[Len(s)] \in Nat
  BY <1>0, <1>4 DEF S
<1> QED
  BY <1>0, <1>1, <1>5, TotalIs

LEMMA TotalEmpty == Total(<<>>) = 0
<1>1. <<>> \in Seq(Int) /\ Len(<<>>) = 0
  OBVIOUS
<1>2. \A i \in 1 .. 0 : <<>>[i] = 0
  OBVIOUS
<1> QED
  BY <1>1, <1>2, TotalZero, ZenonT(30)
=============================================================================
