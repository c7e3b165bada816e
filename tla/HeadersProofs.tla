--------------------------- MODULE HeadersProofs ----------------------------
(***************************************************************************)
(* The header functions, for all headers and payloads.                     *)
(*                                                                         *)
(* First the end of csum, for every sum of 16-bit words that fits in 32    *)
(* bits: the code adds the carries back twice and cuts the result to 16    *)
(* bits; a sum of 32 bits may carry again on the first addition, and the   *)
(* second one is then enough because the result cannot carry a third time. *)
(* Then csum itself: the host adds words in its own byte order and a       *)
(* receiver in the other one.  Last the chain of the functions, whose      *)
(* invariant HInv says what every byte of the headers is at every stage.   *)
(***************************************************************************)
EXTENDS Headers, Arithmetic, TLAPS

LEMMA DivMod ==
    ASSUME NEW s \in Nat
    PROVE  /\ s \div 65536 \in Nat
           /\ s % 65536 \in Nat /\ s % 65536 < 65536
           /\ s = 65536 * (s \div 65536) + (s % 65536)
  OBVIOUS

(* The second addition: one carry at most, which becomes one.                *)
LEMMA FoldedOf ==
    ASSUME NEW q \in Nat, NEW r \in Nat, q < 65536, r < 65536, q + r < 131071
    PROVE  ((q + r) + ((q + r) \div 65536)) % 65536
              = IF q + r < 65536 THEN q + r ELSE q + r - 65535
  OBVIOUS

(* The two folding lines of csum (testing_utils.cpp) compute the ones'       *)
(* complement sum: the result fits in 16 bits, is congruent to the sum       *)
(* modulo 65535 and is zero only if every word was.                          *)
THEOREM FoldCorrect ==
    ASSUME NEW s \in Nat, s < 65536 * 65536
    PROVE  /\ Folded(s) \in Nat /\ Folded(s) < 65536
           /\ \E k \in Nat : s = Folded(s) + 65535 * k
           /\ s > 0 => Folded(s) > 0
<1> DEFINE q == s \div 65536
           r == s % 65536
<1>1. q \in Nat /\ r \in Nat /\ r < 65536 /\ s = 65536 * q + r
  BY DivMod
<1>2. Folded(s) = ((q + r) + ((q + r) \div 65536)) % 65536
  BY DEF Folded
<1> HIDE DEF q, r
<1>3. q < 65536
  BY <1>1
<1>4. Folded(s) = IF q + r < 65536 THEN q + r ELSE q + r - 65535
  BY <1>1, <1>2, <1>3, FoldedOf
<1>5. CASE q + r < 65536
  <2>1. q \in Nat /\ Folded(s) = q + r /\ s = (q + r) + 65535 * q
    BY <1>1, <1>4, <1>5
  <2>2. \E k \in Nat : s = Folded(s) + 65535 * k
    BY <2>1
  <2>3. Folded(s) \in Nat /\ Folded(s) < 65536 /\ (s > 0 => Folded(s) > 0)
    BY <1>1, <1>5, <2>1
  <2> QED
    BY <2>2, <2>3
<1>6. CASE ~(q + r < 65536)
  <2>1. Folded(s) = q + r - 65535 /\ s = (q + r - 65535) + 65535 * (q + 1)
    BY <1>1, <1>4, <1>6
  <2>2. \E k \in Nat : s = Folded(s) + 65535 * k
    <3>1. q + 1 \in Nat
      BY <1>1
    <3> QED
      BY <2>1, <3>1
  <2>3. Folded(s) \in Nat /\ Folded(s) < 65536 /\ Folded(s) > 0
    BY <1>1, <1>3, <1>6, <2>1
  <2> QED
    BY <2>2, <2>3
<1> QED
  BY <1>5, <1>6

(* The same with the bound and the two parts of the result named.            *)
Fits32(s) == s < 65536 * 65536
Fits16(x) == x < 65536
Congruent(s, f, k) == s = f + 65535 * k

LEMMA FoldParts ==
    ASSUME NEW s \in Nat, Fits32(s)
    PROVE  Folded(s) \in Nat /\ Fits16(Folded(s)) /\ \E k \in Nat : Congruent(s, Folded(s), k)
<1>1. s < 65536 * 65536
  BY DEF Fits32
<1>2. Folded(s) \in Nat /\ Folded(s) < 65536 /\ \E k \in Nat : s = Folded(s) + 65535 * k
  BY <1>1, FoldCorrect
<1> QED
  BY <1>2 DEF Fits16, Congruent

(***************************************************************************)
(* Bytes.                                                                  *)
(***************************************************************************)
LEMMA BytesSeq ==
    ASSUME NEW n \in Nat, NEW s \in Bytes(n)
    PROVE  /\ s \in Seq(Byte) /\ Len(s) = n
           /\ \A i \in 1 .. n : s[i] \in Byte
BY DEF Bytes

LEMMA SeqBytes ==
    ASSUME NEW n \in Nat, NEW s \in Seq(Byte), Len(s) = n
    PROVE  s \in Bytes(n)
BY DEF Bytes

LEMMA BytesEqual ==
    ASSUME NEW n \in Nat, NEW s \in Bytes(n), NEW t \in Bytes(n), \A i \in 1 .. n : s[i] = t[i]
    PROVE  s = t
BY DEF Bytes

LEMMA FunSeq ==
    ASSUME NEW n \in Nat, NEW s \in [1 .. n -> Int]
    PROVE  s \in Seq(Int) /\ Len(s) = n
  OBVIOUS

LEMMA RevBytes ==
    ASSUME NEW n \in Nat, NEW s \in Bytes(n)
    PROVE  Rev(s) \in Bytes(n) /\ \A i \in 1 .. n : Rev(s)[i] = s[n + 1 - i]
<1>1. Len(s) = n
  BY BytesSeq
<1>2. \A i \in 1 .. n : n + 1 - i \in 1 .. n
  OBVIOUS
<1> QED
  BY <1>1, <1>2 DEF Rev, Bytes

LEMMA PartBytes ==
    ASSUME NEW m \in Nat, NEW s \in Bytes(m), NEW f \in Nat, NEW n \in Nat, f + n <= m
    PROVE  Part(s, f, n) \in Bytes(n) /\ \A i \in 1 .. n : Part(s, f, n)[i] = s[f + i]
<1>1. s \in Seq(Byte) /\ Len(s) = m
  BY BytesSeq
<1> DEFINE p == SubSeq(s, f + 1, f + n)
           q == [i \in 1 .. n |-> s[f + i]]
<1>2. p = q
  BY <1>1
<1>3. \A i \in 1 .. n : f + i \in 1 .. m
  OBVIOUS
<1>4. q \in Bytes(n)
  BY <1>3 DEF Bytes
<1> QED
  BY <1>2, <1>4, ZenonT(30) DEF Part

IsPut(d, m, s, f, n, b) ==
    d \in Bytes(m) /\ \A i \in 1 .. m : d[i] = IF f < i /\ i <= f + n THEN b[i - f] ELSE s[i]

LEMMA PutIs ==
    ASSUME NEW m \in Nat, NEW s \in Bytes(m), NEW f \in Nat, NEW n \in Nat, NEW b \in Bytes(n)
    PROVE  IsPut(Put(s, f, b), m, s, f, n, b)
<1>1. Len(s) = m /\ Len(b) = n
  BY BytesSeq
<1>2. \A i \in 1 .. m : i - f \in 1 .. n <=> f < i /\ i <= f + n
  OBVIOUS
<1> QED
  BY <1>1, <1>2 DEF Put, Bytes, IsPut

LEMMA PutBytes ==
    ASSUME NEW m \in Nat, NEW s \in Bytes(m), NEW f \in Nat, NEW n \in Nat, NEW b \in Bytes(n)
    PROVE  /\ Put(s, f, b) \in Bytes(m)
           /\ \A i \in 1 .. m : Put(s, f, b)[i] = IF f < i /\ i <= f + n THEN b[i - f] ELSE s[i]
<1> DEFINE d == Put(s, f, b)
<1>1. IsPut(d, m, s, f, n, b)
  BY PutIs
<1> HIDE DEF d
<1>2. d \in Bytes(m) /\ \A i \in 1 .. m : d[i] = IF f < i /\ i <= f + n THEN b[i - f] ELSE s[i]
  BY <1>1 DEF IsPut
<1> QED
  BY <1>2 DEF d

LEMMA CatBytes ==
    ASSUME NEW m \in Nat, NEW n \in Nat, NEW a \in Bytes(m), NEW b \in Bytes(n)
    PROVE  /\ a \o b \in Bytes(m + n)
           /\ \A i \in 1 .. m + n : (a \o b)[i] = IF i <= m THEN a[i] ELSE b[i - m]
<1>1. a \in Seq(Byte) /\ Len(a) = m /\ b \in Seq(Byte) /\ Len(b) = n
  BY BytesSeq
<1>2. /\ a \o b \in Seq(Byte) /\ Len(a \o b) = m + n
      /\ \A i \in 1 .. m + n : (a \o b)[i] = IF i <= m THEN a[i] ELSE b[i - m]
  BY <1>1, ConcatProperties, ZenonT(30)
<1> DEFINE c == a \o b
           k == m + n
<1>3. k \in Nat /\ c \in Seq(Byte) /\ Len(c) = k
  BY <1>2
<1> HIDE DEF c, k
<1>4. c \in Bytes(k)
  BY <1>3, SeqBytes
<1> QED
  BY <1>2, <1>4 DEF c, k

LEMMA SwapBytes ==
    ASSUME NEW m \in Nat, NEW s \in Bytes(m), NEW f \in Nat, NEW n \in Nat, f + n <= m
    PROVE  /\ Swap(s, f, n) \in Bytes(m)
           /\ \A i \in 1 .. m :
                 Swap(s, f, n)[i] = IF f < i /\ i <= f + n THEN s[f + (f + n + 1 - i)] ELSE s[i]
<1> DEFINE p == Part(s, f, n)
           q == Rev(p)
           w == Put(s, f, q)
<1>1. p \in Bytes(n) /\ \A i \in 1 .. n : p[i] = s[f + i]
  BY PartBytes
<1>2. q \in Bytes(n) /\ \A i \in 1 .. n : q[i] = p[n + 1 - i]
  BY <1>1, RevBytes
<1>3. w \in Bytes(m) /\ \A i \in 1 .. m : w[i] = IF f < i /\ i <= f + n THEN q[i - f] ELSE s[i]
  <2>1. IsPut(w, m, s, f, n, q)
    BY <1>2, PutIs, ZenonT(30)
  <2> HIDE DEF p, q, w
  <2> QED
    BY <2>1, ZenonT(30) DEF IsPut
<1>4. Swap(s, f, n) = w
  BY DEF Swap
<1> HIDE DEF p, q, w
<1>5. ASSUME NEW i \in 1 .. m, f < i, i <= f + n PROVE q[i - f] = s[f + (f + n + 1 - i)]
  <2>1. i - f \in 1 .. n /\ n + 1 - (i - f) \in 1 .. n /\ f + (n + 1 - (i - f)) = f + (f + n + 1 - i)
    BY <1>5
  <2>2. q[i - f] = p[n + 1 - (i - f)]
    BY <1>2, <2>1
  <2>3. p[n + 1 - (i - f)] = s[f + (n + 1 - (i - f))]
    BY <1>1, <2>1
  <2> QED
    BY <2>1, <2>2, <2>3
<1> QED
  BY <1>3, <1>4, <1>5

(* What these operators return, named.                                       *)
IsPart(d, s, f, n) == d \in Bytes(n) /\ \A i \in 1 .. n : d[i] = s[f + i]
IsCat(d, m, n, a, b) ==
    d \in Bytes(m + n) /\ \A i \in 1 .. m + n : d[i] = IF i <= m THEN a[i] ELSE b[i - m]
IsSwap(d, m, s, f, n) ==
    /\ d \in Bytes(m)
    /\ \A i \in 1 .. m : d[i] = IF f < i /\ i <= f + n THEN s[f + (f + n + 1 - i)] ELSE s[i]

LEMMA PartIs ==
    ASSUME NEW m \in Nat, NEW s \in Bytes(m), NEW f \in Nat, NEW n \in Nat, f + n <= m
    PROVE  IsPart(Part(s, f, n), s, f, n)
BY PartBytes DEF IsPart

LEMMA CatIs ==
    ASSUME NEW m \in Nat, NEW n \in Nat, NEW a \in Bytes(m), NEW b \in Bytes(n)
    PROVE  IsCat(a \o b, m, n, a, b)
BY CatBytes, ZenonT(30) DEF IsCat

LEMMA SwapIs ==
    ASSUME NEW m \in Nat, NEW s \in Bytes(m), NEW f \in Nat, NEW n \in Nat, f + n <= m
    PROVE  IsSwap(Swap(s, f, n), m, s, f, n)
BY SwapBytes DEF IsSwap

Assoc(a, b, c) == a \o b \o c = a \o (b \o c)

LEMMA CatAssoc ==
    ASSUME NEW l \in Nat, NEW m \in Nat, NEW n \in Nat,
           NEW a \in Bytes(l), NEW b \in Bytes(m), NEW c \in Bytes(n)
    PROVE  Assoc(a, b, c)
<1>1. a \in Seq(Byte) /\ b \in Seq(Byte) /\ c \in Seq(Byte)
  BY BytesSeq
<1> QED
  BY <1>1, SMTT(30) DEF Assoc

LEMMA DivMod256 ==
    ASSUME NEW x \in Nat, x < 65536
    PROVE  /\ x % 256 \in Byte /\ x \div 256 \in Byte
           /\ x = (x % 256) + 256 * (x \div 256)
BY DEF Byte

LEMMA LE16Bytes ==
    ASSUME NEW x \in Nat, x < 65536
    PROVE  /\ LE16(x) \in Bytes(2) /\ BE16(x) \in Bytes(2)
           /\ LE16(x)[1] = x % 256 /\ LE16(x)[2] = x \div 256
           /\ BE16(x)[1] = x \div 256 /\ BE16(x)[2] = x % 256
<1> DEFINE lo == x % 256
           hi == x \div 256
<1>1. lo \in Byte /\ hi \in Byte
  BY DivMod256
<1> HIDE DEF lo, hi
<1>2. <<lo, hi>> \in Bytes(2) /\ <<hi, lo>> \in Bytes(2)
  BY <1>1 DEF Bytes
<1> QED
  BY <1>2 DEF LE16, BE16, lo, hi

(***************************************************************************)
(* Sums of bytes in the two byte orders.                                   *)
(***************************************************************************)
LEMMA Parity ==
    ASSUME NEW i \in Nat
    PROVE  /\ i % 2 = 1 \/ i % 2 = 0
           /\ (i + 1) % 2 = 1 <=> i % 2 = 0
  OBVIOUS

Even(i) == i % 2 = 0

(* The bytes at odd and at even places of b.                                 *)
Odds(b, n) == [i \in 1 .. n |-> IF i % 2 = 1 THEN b[i] ELSE 0]
Evens(b, n) == [i \in 1 .. n |-> IF i % 2 = 1 THEN 0 ELSE b[i]]

LEMMA ByteBound ==
    ASSUME NEW n \in Nat, NEW s \in Bytes(n)
    PROVE  Total(s) \in Nat /\ Total(s) <= 255 * n
<1>1. s \in Seq(Nat) /\ s \in Seq(Int) /\ Len(s) = n /\ \A i \in 1 .. n : s[i] \in Nat /\ s[i] < 256
  <2>1. \A i \in 1 .. n : s[i] \in Nat /\ s[i] < 256
    BY BytesSeq, ZenonT(30) DEF Byte
  <2>2. s = [i \in 1 .. n |-> s[i]]
    BY DEF Bytes
  <2>3. s \in [1 .. n -> Nat] /\ s \in [1 .. n -> Int]
    BY <2>1, <2>2
  <2>4. Len(s) = n
    BY BytesSeq
  <2> QED
    BY <2>1, <2>3, <2>4
<1>2. PICK g : PartialSums(g, s)
  BY <1>1, PartialSumsExist
<1>3. g \in [0 .. n -> Int] /\ g[0] = 0 /\ \A i \in 1 .. n : g[i] = g[i - 1] + s[i]
  BY <1>1, <1>2 DEF PartialSums
<1> DEFINE S == {k \in Nat : k <= n => g[k] <= 255 * k}
<1>4. 0 \in S
  BY <1>3
<1>5. ASSUME NEW k \in Nat, k \in S PROVE k + 1 \in S
  <2> SUFFICES ASSUME k + 1 <= n PROVE g[k + 1] <= 255 * (k + 1)
    OBVIOUS
  <2>1. k + 1 \in 1 .. n /\ (k + 1) - 1 = k /\ k \in 0 .. n
    OBVIOUS
  <2>2. g[k + 1] = g[k] + s[k + 1] /\ g[k] \in Int /\ s[k + 1] \in Nat /\ s[k + 1] < 256
    BY <1>1, <1>3, <2>1
  <2>3. g[k] <= 255 * k
    BY <1>5
  <2> QED
    BY <2>2, <2>3
<1> HIDE DEF S
<1>6. Nat \subseteq S
  BY <1>4, <1>5, SetInduction
<1>7. g[n] <= 255 * n
  BY <1>6 DEF S
<1>8. Total(s) = g[n]
  BY <1>1, <1>2, TotalIs
<1>9. Total(s) \in Nat
  BY <1>1, TotalNat
<1> QED
  BY <1>7, <1>8, <1>9

(* The sum that csum forms of the words in memory and the one a receiver     *)
(* forms of the words in network byte order, from the same two sums.         *)
LEMMA Halves ==
    ASSUME NEW n \in Nat, NEW b \in Bytes(n)
    PROVE  \E o \in Nat, e \in Nat : /\ WordSum(b) = o + 256 * e
                                     /\ NetSum(b) = 256 * o + e
                                     /\ o <= 255 * n /\ e <= 255 * n
<1> DEFINE O == Odds(b, n)
           E == Evens(b, n)
<1>1. Len(b) = n /\ \A i \in 1 .. n : b[i] \in Byte
  BY BytesSeq
<1>2. O \in Bytes(n) /\ E \in Bytes(n)
  BY <1>1 DEF Odds, Evens, Bytes, Byte
<1>3. /\ \A i \in 1 .. n : O[i] = IF i % 2 = 1 THEN b[i] ELSE 0
      /\ \A i \in 1 .. n : E[i] = IF i % 2 = 1 THEN 0 ELSE b[i]
  BY DEF Odds, Evens
<1> HIDE DEF O, E
<1>4. \A i \in 1 .. n : b[i] \in Int
  BY <1>1 DEF Byte
<1>5. /\ O \in Seq(Int) /\ Len(O) = n /\ E \in Seq(Int) /\ Len(E) = n
  <2>1. \A i \in 1 .. n : O[i] \in Int /\ E[i] \in Int
    <3>1. \A i \in 1 .. n : O[i] \in Byte /\ E[i] \in Byte
      BY <1>2, BytesSeq
    <3> QED
      BY <3>1 DEF Byte
  <2>2. O = [i \in 1 .. n |-> O[i]] /\ E = [i \in 1 .. n |-> E[i]]
    BY <1>2 DEF Bytes
  <2>3. O \in [1 .. n -> Int] /\ E \in [1 .. n -> Int]
    BY <2>1, <2>2
  <2>4. Len(O) = n /\ Len(E) = n
    BY <1>2, BytesSeq
  <2> QED
    BY <2>3, <2>4
<1>6. PICK p : PartialSums(p, O)
  BY <1>5, PartialSumsExist
<1>7. PICK q : PartialSums(q, E)
  BY <1>5, PartialSumsExist
<1>8. /\ p \in [0 .. n -> Int] /\ p[0] = 0 /\ \A i \in 1 .. n : p[i] = p[i - 1] + O[i]
      /\ q \in [0 .. n -> Int] /\ q[0] = 0 /\ \A i \in 1 .. n : q[i] = q[i - 1] + E[i]
  BY <1>5, <1>6, <1>7 DEF PartialSums
<1>9. Total(O) = p[n] /\ Total(E) = q[n]
  BY <1>5, <1>6, <1>7, TotalIs
<1>10. /\ p[n] \in Nat /\ p[n] <= 255 * n
       /\ q[n] \in Nat /\ q[n] <= 255 * n
  BY <1>2, <1>9, ByteBound
<1>11. ASSUME NEW i \in 1 .. n
       PROVE  /\ i \in 0 .. n /\ i - 1 \in 0 .. n /\ i - 1 \in Nat /\ (i - 1) + 1 = i
              /\ p[i] \in Int /\ q[i] \in Int /\ p[i - 1] \in Int /\ q[i - 1] \in Int
              /\ i % 2 = 1 \/ i % 2 = 0
              /\ i % 2 = 1 <=> (i - 1) % 2 = 0
              /\ i % 2 = 1 => p[i] = p[i - 1] + b[i] /\ q[i] = q[i - 1]
              /\ i % 2 = 0 => p[i] = p[i - 1] /\ q[i] = q[i - 1] + b[i]
  <2>1. i \in 0 .. n /\ i - 1 \in 0 .. n /\ i - 1 \in Nat /\ (i - 1) + 1 = i /\ i \in Nat
    OBVIOUS
  <2>2. i % 2 = 1 \/ i % 2 = 0
    BY <2>1, Parity
  <2>3. ((i - 1) + 1) % 2 = 1 <=> (i - 1) % 2 = 0
    BY <2>1, Parity
  <2>4. p[i] \in Int /\ q[i] \in Int /\ p[i - 1] \in Int /\ q[i - 1] \in Int
    BY <1>8, <2>1
  <2>5. p[i] = p[i - 1] + O[i] /\ q[i] = q[i - 1] + E[i]
    BY <1>8
  <2>6. i % 2 = 1 => O[i] = b[i] /\ E[i] = 0
    BY <1>3
  <2>7. i % 2 = 0 => O[i] = 0 /\ E[i] = b[i]
    BY <1>3
  <2> QED
    BY <2>1, <2>2, <2>3, <2>4, <2>5, <2>6, <2>7
<1>12. WordSum(b) = p[n] + 256 * q[n]
  <2> DEFINE W == Words(b)
             over(i) == IF i % 2 = 1 /\ i < n THEN 256 * b[i + 1] ELSE 0
             g == [i \in 0 .. n |-> p[i] + 256 * q[i] + over(i)]
  <2>1. \A i \in 0 .. n : over(i) \in Int
    <3> TAKE i \in 0 .. n
    <3>1. i < n => i + 1 \in 1 .. n
      OBVIOUS
    <3> QED
      BY <1>4, <3>1
  <2>2. /\ Len(W) = n
        /\ \A i \in 1 .. n : W[i] = IF i % 2 = 1 THEN b[i] + over(i) ELSE 0
    <3>1. W = [i \in 1 .. n |-> IF i % 2 = 1 THEN Word(b, i) ELSE 0]
      BY <1>1 DEF Words
    <3>2. \A i \in 1 .. n : i % 2 = 1 => Word(b, i) = b[i] + over(i)
      BY <1>1, <1>4 DEF Word
    <3> HIDE DEF W, over
    <3> QED
      BY <3>1, <3>2
  <2>3. W \in Seq(Int)
    <3>1. \A i \in 1 .. n : W[i] \in Int
      <4> HIDE DEF over, W
      <4> QED
        BY <1>4, <2>1, <2>2
    <3>2. W = [i \in 1 .. n |-> W[i]]
      BY <1>1 DEF Words
    <3> HIDE DEF W
    <3> QED
      BY <3>1, <3>2
  <2>4. over(0) = 0 /\ over(n) = 0
    OBVIOUS
  <2>5. ASSUME NEW i \in 1 .. n PROVE i % 2 = 1 => over(i - 1) = 0
    BY <1>11
  <2>6. ASSUME NEW i \in 1 .. n, i % 2 = 0 PROVE over(i - 1) = 256 * b[i] /\ over(i) = 0
    <3>1. (i - 1) % 2 = 1 /\ i - 1 < n /\ (i - 1) + 1 = i
      BY <1>11, <2>6, Parity
    <3> QED
      BY <2>6, <3>1
  <2> HIDE DEF over, W
  <2>7. g \in [0 .. n -> Int] /\ g[0] = 0
    BY <1>8, <2>1, <2>4
  <2>8. ASSUME NEW i \in 1 .. n PROVE g[i] = g[i - 1] + W[i]
    <3>1. g[i] = p[i] + 256 * q[i] + over(i) /\ g[i - 1] = p[i - 1] + 256 * q[i - 1] + over(i - 1)
      BY <1>11
    <3> HIDE DEF g
    <3>2. over(i) \in Int /\ over(i - 1) \in Int /\ b[i] \in Int
      BY <1>4, <1>11, <2>1
    <3>3. CASE i % 2 = 1
      <4>1. over(i - 1) = 0 /\ W[i] = b[i] + over(i) /\ p[i] = p[i - 1] + b[i] /\ q[i] = q[i - 1]
        BY <1>11, <2>2, <2>5, <3>3
      <4> QED
        BY <1>11, <3>1, <3>2, <4>1
    <3>4. CASE i % 2 = 0
      <4>1. /\ over(i - 1) = 256 * b[i] /\ over(i) = 0 /\ W[i] = 0
            /\ p[i] = p[i - 1] /\ q[i] = q[i - 1] + b[i]
        BY <1>11, <2>2, <2>6, <3>4
      <4> QED
        BY <1>11, <3>1, <3>2, <4>1
    <3> QED
      BY <1>11, <3>3, <3>4
  <2>9. g[n] = p[n] + 256 * q[n]
    BY <1>10, <2>4
  <2> HIDE DEF g
  <2>10. PartialSums(g, W)
    BY <2>2, <2>7, <2>8 DEF PartialSums
  <2>11. Total(W) = g[n]
    BY <2>2, <2>3, <2>10, TotalIs
  <2> QED
    BY <2>9, <2>11 DEF WordSum, W
<1>13. NetSum(b) = 256 * p[n] + q[n]
  <2> DEFINE N == NetBytes(b)
             g == [i \in 0 .. n |-> 256 * p[i] + q[i]]
  <2>1. N = [i \in 1 .. n |-> IF i % 2 = 1 THEN 256 * b[i] ELSE b[i]]
    BY <1>1 DEF NetBytes
  <2>2. N \in Seq(Int) /\ Len(N) = n
    BY <1>4, <2>1
  <2>3. \A i \in 1 .. n : N[i] = IF i % 2 = 1 THEN 256 * b[i] ELSE b[i]
    BY <2>1
  <2> HIDE DEF N
  <2>4. g \in [0 .. n -> Int] /\ g[0] = 0
    BY <1>8
  <2>5. ASSUME NEW i \in 1 .. n PROVE g[i] = g[i - 1] + N[i]
    <3>1. g[i] = 256 * p[i] + q[i] /\ g[i - 1] = 256 * p[i - 1] + q[i - 1] /\ b[i] \in Int
      BY <1>4, <1>11
    <3> HIDE DEF g
    <3>2. CASE i % 2 = 1
      <4>1. N[i] = 256 * b[i] /\ p[i] = p[i - 1] + b[i] /\ q[i] = q[i - 1]
        BY <1>11, <2>3, <3>2
      <4> QED
        BY <1>11, <3>1, <4>1
    <3>3. CASE i % 2 = 0
      <4>1. N[i] = b[i] /\ p[i] = p[i - 1] /\ q[i] = q[i - 1] + b[i]
        BY <1>11, <2>3, <3>3
      <4> QED
        BY <1>11, <3>1, <4>1
    <3> QED
      BY <1>11, <3>2, <3>3
  <2>6. g[n] = 256 * p[n] + q[n]
    OBVIOUS
  <2> HIDE DEF g
  <2>7. PartialSums(g, N)
    BY <2>2, <2>4, <2>5 DEF PartialSums
  <2> QED
    BY <2>2, <2>6, <2>7, TotalIs DEF NetSum, N
<1> QED
  BY <1>10, <1>12, <1>13, ZenonT(30)

(* Two sequences of numbers that differ in two neighbouring places.          *)
LEMMA TotalTwo ==
    ASSUME NEW n \in Nat, NEW s \in [1 .. n -> Int], NEW t \in [1 .. n -> Int], NEW j \in Nat,
           j + 2 <= n, s[j + 1] = 0, s[j + 2] = 0,
           \A i \in 1 .. n : i # j + 1 /\ i # j + 2 => t[i] = s[i]
    PROVE  Total(t) = Total(s) + t[j + 1] + t[j + 2]
<1>1. s \in Seq(Int) /\ Len(s) = n /\ t \in Seq(Int) /\ Len(t) = n
  BY FunSeq
<1>2. PICK g : PartialSums(g, s)
  BY <1>1, PartialSumsExist
<1>3. g \in [0 .. n -> Int] /\ g[0] = 0 /\ \A i \in 1 .. n : g[i] = g[i - 1] + s[i]
  BY <1>1, <1>2 DEF PartialSums
<1> DEFINE y == t[j + 1]
           z == t[j + 2]
           a(i) == IF i < j + 1 THEN 0 ELSE IF i < j + 2 THEN y ELSE y + z
           h == [i \in 0 .. n |-> g[i] + a(i)]
<1>4. y \in Int /\ z \in Int
  <2>1. j + 1 \in 1 .. n /\ j + 2 \in 1 .. n
    OBVIOUS
  <2> QED
    BY <2>1
<1> HIDE DEF y, z
<1>10. a(0) = 0 /\ a(n) = y + z /\ \A i \in 0 .. n : a(i) \in Int
  BY <1>4
<1>11. \A i \in 1 .. n : a(i) = a(i - 1) + (IF i = j + 1 THEN y ELSE IF i = j + 2 THEN z ELSE 0)
  BY <1>4
<1> HIDE DEF a
<1>5. h \in [0 .. n -> Int] /\ h[0] = 0
  <2>1. \A i \in 0 .. n : g[i] + a(i) \in Int
    BY <1>3, <1>10
  <2>2. 0 \in 0 .. n
    OBVIOUS
  <2>3. h[0] = g[0] + a(0)
    BY <2>2
  <2> QED
    BY <1>3, <1>10, <2>1, <2>3
<1>6. ASSUME NEW i \in 1 .. n PROVE h[i] = h[i - 1] + t[i]
  <2>1. i \in 0 .. n /\ i - 1 \in 0 .. n
    OBVIOUS
  <2>2. g[i] \in Int /\ g[i - 1] \in Int /\ s[i] \in Int /\ g[i] = g[i - 1] + s[i]
    BY <1>3, <2>1, ZenonT(30)
  <2>3. /\ h[i] = g[i] + a(i) /\ h[i - 1] = g[i - 1] + a(i - 1)
        /\ a(i - 1) \in Int
    BY <1>10, <2>1, SMTT(30)
  <2>7. a(i) = a(i - 1) + (IF i = j + 1 THEN y ELSE IF i = j + 2 THEN z ELSE 0)
    BY <1>11
  <2>8. t[i] = s[i] + (IF i = j + 1 THEN y ELSE IF i = j + 2 THEN z ELSE 0)
    <3>1. CASE i = j + 1
      BY <1>4, <3>1 DEF y
    <3>2. CASE i = j + 2
      BY <1>4, <3>2 DEF z
    <3>3. CASE i # j + 1 /\ i # j + 2
      <4>1. t[i] = s[i]
        BY <3>3
      <4> QED
        BY <2>2, <3>3, <4>1
    <3> QED
      BY <3>1, <3>2, <3>3
  <2> HIDE DEF h
  <2> DEFINE v == IF i = j + 1 THEN y ELSE IF i = j + 2 THEN z ELSE 0
             gi == g[i - 1]
             ai == a(i - 1)
             si == s[i]
  <2>9. v \in Int
    BY <1>4
  <2> HIDE DEF v, gi, ai, si
  <2>10. gi \in Int /\ ai \in Int /\ si \in Int /\ h[i] = (gi + si) + (ai + v)
    BY <2>2, <2>3, <2>7 DEF v, gi, ai, si
  <2>11. h[i - 1] = gi + ai /\ t[i] = si + v
    BY <2>3, <2>8 DEF v, gi, ai, si
  <2> QED
    BY <2>9, <2>10, <2>11
<1>7. h[n] = g[n] + y + z
  <2>1. n \in 0 .. n
    OBVIOUS
  <2>2. h[n] = g[n] + a(n) /\ g[n] \in Int
    BY <1>3, <2>1
  <2> QED
    BY <1>4, <1>10, <2>2, SMTT(30)
<1> HIDE DEF h
<1>8. PartialSums(h, t)
  BY <1>1, <1>5, <1>6 DEF PartialSums
<1>9. Total(t) = h[n] /\ Total(s) = g[n]
  BY <1>1, <1>2, <1>8, TotalIs
<1> QED
  BY <1>7, <1>9 DEF y, z

LEMMA NetBytesType ==
    ASSUME NEW n \in Nat, NEW b \in Bytes(n)
    PROVE  /\ NetBytes(b) \in [1 .. n -> Int]
           /\ \A i \in 1 .. n : NetBytes(b)[i] = IF i % 2 = 1 THEN 256 * b[i] ELSE b[i]
<1>1. Len(b) = n /\ \A i \in 1 .. n : b[i] \in Byte
  BY BytesSeq
<1>2. \A i \in 1 .. n : b[i] \in Int
  BY <1>1 DEF Byte
<1> QED
  BY <1>1, <1>2 DEF NetBytes

(* What two bytes put into a field of zeros at an even offset add to the     *)
(* receiver's sum.                                                           *)
LEMMA NetPut ==
    ASSUME NEW n \in Nat, NEW b \in Bytes(n), NEW c \in Nat, Even(c), c + 2 <= n,
           b[c + 1] = 0, b[c + 2] = 0, NEW x \in Bytes(2)
    PROVE  NetSum(Put(b, c, x)) = NetSum(b) + 256 * x[1] + x[2]
<1> DEFINE d == Put(b, c, x)
           N == NetBytes(b)
           M == NetBytes(d)
<1>1. /\ d \in Bytes(n)
      /\ \A i \in 1 .. n : d[i] = IF c < i /\ i <= c + 2 THEN x[i - c] ELSE b[i]
  BY PutBytes
<1>4. (c + 1) % 2 = 1 /\ (c + 2) % 2 = 0
  <2>1. (c + 1) % 2 = 1
    BY Parity DEF Even
  <2>2. c + 1 \in Nat /\ c + 2 \in Nat /\ (c + 1) + 1 = c + 2
    OBVIOUS
  <2>3. ((c + 1) + 1) % 2 = 1 <=> (c + 1) % 2 = 0
    BY <2>2, Parity
  <2>4. (c + 2) % 2 = 1 \/ (c + 2) % 2 = 0
    BY <2>2, Parity
  <2> QED
    BY <2>1, <2>2, <2>3, <2>4
<1> HIDE DEF d
<1>5. /\ N \in [1 .. n -> Int] /\ M \in [1 .. n -> Int]
      /\ \A i \in 1 .. n : N[i] = IF i % 2 = 1 THEN 256 * b[i] ELSE b[i]
      /\ \A i \in 1 .. n : M[i] = IF i % 2 = 1 THEN 256 * d[i] ELSE d[i]
  BY <1>1, NetBytesType, ZenonT(30)
<1> HIDE DEF N, M
<1>6. c + 1 \in 1 .. n /\ c + 2 \in 1 .. n /\ (c + 1) - c = 1 /\ (c + 2) - c = 2
  OBVIOUS
<1>7. d[c + 1] = x[1] /\ d[c + 2] = x[2]
  BY <1>1, <1>6
<1>8. M[c + 1] = 256 * x[1] /\ M[c + 2] = x[2]
  BY <1>4, <1>5, <1>6, <1>7, SMTT(30)
<1>9. N[c + 1] = 0 /\ N[c + 2] = 0
  BY <1>4, <1>5, <1>6, SMTT(30)
<1>10. ASSUME NEW i \in 1 .. n, i # c + 1, i # c + 2 PROVE M[i] = N[i]
  <2>1. ~(c < i /\ i <= c + 2)
    BY <1>10
  <2>2. d[i] = b[i]
    BY <1>1, <2>1
  <2> QED
    BY <1>5, <2>2, ZenonT(30)
<1>11. Total(M) = Total(N) + M[c + 1] + M[c + 2]
  BY <1>5, <1>9, <1>10, TotalTwo, ZenonT(30)
<1> QED
  BY <1>8, <1>11 DEF NetSum, M, N, d

Opposite(o, e, lo, hi, f, k) ==
    Congruent(o + 256 * e, f, k) /\ Congruent(lo + 256 * hi + f, 0, 1)

Divides(o, e, lo, hi) ==
    /\ 256 * o + e + 256 * lo + hi > 0
    /\ (256 * o + e + 256 * lo + hi) % 65535 = 0

(* A number and its complement, each in two parts: the parts in the other    *)
(* order are a multiple of 65535.                                            *)
LEMMA Complement ==
    ASSUME NEW o \in Nat, NEW e \in Nat, NEW f \in Nat, NEW k \in Nat, NEW lo \in Nat, NEW hi \in Nat,
           Opposite(o, e, lo, hi, f, k)
    PROVE  Divides(o, e, lo, hi)
<1> DEFINE s == 256 * o + e + 256 * lo + hi
           j == 256 * (k + 1) - e - hi
<1>1. s \in Nat /\ j \in Int /\ s = 65535 * j
  BY DEF Opposite, Congruent
<1>2. s > 0
  BY DEF Opposite, Congruent
<1> HIDE DEF s, j
<1>3. s % 65535 = 0
  BY <1>1
<1> QED
  BY <1>2, <1>3 DEF s, Divides

Short(n) == n <= 65536

(* The checksum of a message of n bytes does not overflow.                   *)
LEMMA SumFits ==
    ASSUME NEW n \in Nat, Short(n), NEW o \in Nat, NEW e \in Nat, o <= 255 * n, e <= 255 * n
    PROVE  o + 256 * e \in Nat /\ Fits32(o + 256 * e)
  BY DEF Fits32, Short

LEMMA Complemented ==
    ASSUME NEW f \in Nat, Fits16(f)
    PROVE  /\ 65535 - f \in Nat /\ Fits16(65535 - f)
           /\ \A lo, hi \in Nat : 65535 - f = lo + 256 * hi => Congruent(lo + 256 * hi + f, 0, 1)
  BY DEF Fits16, Congruent

LEMMA LE16Parts ==
    ASSUME NEW x \in Nat, Fits16(x)
    PROVE  LE16(x) \in Bytes(2) /\ LE16(x)[1] \in Nat /\ LE16(x)[2] \in Nat
           /\ x = LE16(x)[1] + 256 * LE16(x)[2]
<1>1. x < 65536
  BY DEF Fits16
<1>2. LE16(x) \in Bytes(2) /\ LE16(x)[1] = x % 256 /\ LE16(x)[2] = x \div 256
  BY <1>1, LE16Bytes
<1>3. x % 256 \in Byte /\ x \div 256 \in Byte /\ x = (x % 256) + 256 * (x \div 256)
  BY <1>1, DivMod256
<1>4. x % 256 \in Nat /\ x \div 256 \in Nat
  BY <1>3 DEF Byte
<1> QED
  BY <1>2, <1>3, <1>4

LEMMA CsumParts ==
    ASSUME NEW n \in Nat, Short(n), NEW b \in Bytes(n)
    PROVE  /\ csum(b) \in Bytes(2)
           /\ NetSum(b) + 256 * csum(b)[1] + csum(b)[2] > 0
           /\ (NetSum(b) + 256 * csum(b)[1] + csum(b)[2]) % 65535 = 0
<1>1. PICK o \in Nat, e \in Nat : /\ WordSum(b) = o + 256 * e
                                  /\ NetSum(b) = 256 * o + e
                                  /\ o <= 255 * n /\ e <= 255 * n
  BY Halves
<1> DEFINE w == o + 256 * e
           f == Folded(w)
           x == 65535 - f
<1>2. w \in Nat /\ Fits32(w)
  BY <1>1, SumFits, ZenonT(30)
<1>3. csum(b) = LE16(x)
  BY <1>1 DEF csum
<1> HIDE DEF w
<1>4. f \in Nat /\ Fits16(f) /\ \E k \in Nat : Congruent(w, f, k)
  BY <1>2, FoldParts
<1>5. PICK k \in Nat : Congruent(w, f, k)
  BY <1>4
<1> HIDE DEF f
<1>6. /\ x \in Nat /\ Fits16(x)
      /\ \A lo, hi \in Nat : x = lo + 256 * hi => Congruent(lo + 256 * hi + f, 0, 1)
  BY <1>4, Complemented
<1> HIDE DEF x
<1> DEFINE lo == LE16(x)[1]
           hi == LE16(x)[2]
<1>7. LE16(x) \in Bytes(2) /\ lo \in Nat /\ hi \in Nat /\ x = lo + 256 * hi
  BY <1>6, LE16Parts
<1> HIDE DEF lo, hi
<1>8. Congruent(lo + 256 * hi + f, 0, 1) /\ Congruent(o + 256 * e, f, k)
  BY <1>5, <1>6, <1>7 DEF w
<1>9. Opposite(o, e, lo, hi, f, k)
  BY <1>8 DEF Opposite
<1>10. Divides(o, e, lo, hi)
  BY <1>4, <1>7, <1>9, Complement, ZenonT(30)
<1>11. NetSum(b) + 256 * csum(b)[1] + csum(b)[2] = 256 * o + e + 256 * lo + hi
  BY <1>1, <1>3 DEF lo, hi
<1> QED
  BY <1>3, <1>7, <1>10, <1>11 DEF Divides

(* For every message of up to 2^16 bytes with a checksum field of zeros at   *)
(* an even offset, a receiver accepts the message with the checksum that     *)
(* csum computes on a little-endian host.                                    *)
THEOREM CsumVerifies ==
    ASSUME NEW n \in Nat, Short(n), NEW b \in Bytes(n), NEW c \in Nat, Even(c), c + 2 <= n,
           b[c + 1] = 0, b[c + 2] = 0
    PROVE  csum(b) \in Bytes(2) /\ Verifies(Put(b, c, csum(b)))
<1>1. /\ csum(b) \in Bytes(2)
      /\ NetSum(b) + 256 * csum(b)[1] + csum(b)[2] > 0
      /\ (NetSum(b) + 256 * csum(b)[1] + csum(b)[2]) % 65535 = 0
  BY CsumParts
<1>2. NetSum(Put(b, c, csum(b))) = NetSum(b) + 256 * csum(b)[1] + csum(b)[2]
  BY <1>1, NetPut
<1>3. NetSum(Put(b, c, csum(b))) > 0 /\ NetSum(Put(b, c, csum(b))) % 65535 = 0
  BY <1>1, <1>2
<1> QED
  BY <1>1, <1>3 DEF Verifies

(***************************************************************************)
(* The checksum functions on whole headers.                                *)
(***************************************************************************)
LEMMA TwoBytes ==
    ASSUME NEW x \in Byte, NEW y \in Byte
    PROVE  <<x, y>> \in Bytes(2) /\ <<x, y>>[1] = x /\ <<x, y>>[2] = y
BY DEF Bytes

LEMMA PseudoHeader ==
    ASSUME NEW src \in Bytes(4), NEW dst \in Bytes(4), NEW n \in Nat, Fits16(n)
    PROVE  TCPChecksumHeader(src, dst, n) \in Bytes(12)
<1> DEFINE p == <<0, IPPROTO_TCP>>
           q == BE16(n)
<1>1. p \in Bytes(2)
  <2>1. 0 \in Byte /\ IPPROTO_TCP \in Byte
    BY DEF Byte, IPPROTO_TCP
  <2> QED
    BY <2>1, TwoBytes
<1>2. q \in Bytes(2)
  BY LE16Bytes DEF Fits16
<1> HIDE DEF p, q
<1> DEFINE a == src \o dst
           b == a \o p
<1>3. a \in Bytes(8)
  <2>1. a \in Bytes(4 + 4)
    BY CatBytes
  <2> QED
    BY <2>1
<1> HIDE DEF a
<1>4. b \in Bytes(10)
  <2>1. b \in Bytes(8 + 2)
    BY <1>1, <1>3, CatBytes
  <2> QED
    BY <2>1
<1> HIDE DEF b
<1>5. b \o q \in Bytes(12)
  <2>1. b \o q \in Bytes(10 + 2)
    BY <1>2, <1>4, CatBytes
  <2> QED
    BY <2>1
<1> QED
  BY <1>5 DEF TCPChecksumHeader, a, b, p, q

(* A checksum for the bytes p and h together, put into h.                    *)
LEMMA ChecksumAfter ==
    ASSUME NEW l \in Nat, NEW m \in Nat, NEW p \in Bytes(l), NEW h \in Bytes(m), Short(l + m),
           NEW c \in Nat, Even(l + c), c + 2 <= m, h[c + 1] = 0, h[c + 2] = 0
    PROVE  /\ csum(p \o h) \in Bytes(2)
           /\ Put(h, c, csum(p \o h)) \in Bytes(m)
           /\ Verifies(p \o Put(h, c, csum(p \o h)))
<1> DEFINE b == p \o h
           x == csum(b)
           d == Put(b, l + c, x)
           g == Put(h, c, x)
           e == p \o g
           k == l + m
<1>1. b \in Bytes(k) /\ \A i \in 1 .. k : b[i] = IF i <= l THEN p[i] ELSE h[i - l]
  BY CatBytes, ZenonT(30)
<1>2. k \in Nat /\ l + c \in Nat /\ (l + c) + 2 <= k
  OBVIOUS
<1>3. b[(l + c) + 1] = 0 /\ b[(l + c) + 2] = 0
  <2>1. /\ (l + c) + 1 \in 1 .. k /\ ((l + c) + 1) - l = c + 1 /\ ~((l + c) + 1 <= l)
        /\ (l + c) + 2 \in 1 .. k /\ ((l + c) + 2) - l = c + 2 /\ ~((l + c) + 2 <= l)
    OBVIOUS
  <2> HIDE DEF b, k
  <2> QED
    BY <1>1, <2>1
<1> HIDE DEF b
<1>4. x \in Bytes(2) /\ Verifies(d)
  <2>1. Short(k)
    OBVIOUS
  <2> HIDE DEF k
  <2> QED
    BY <1>1, <1>2, <1>3, <2>1, CsumVerifies
<1> HIDE DEF x
<1>5. /\ d \in Bytes(k)
      /\ \A i \in 1 .. k : d[i] = IF l + c < i /\ i <= l + c + 2 THEN x[i - (l + c)] ELSE b[i]
  <2> HIDE DEF k
  <2> QED
    BY <1>1, <1>2, <1>4, PutBytes
<1>6. g \in Bytes(m) /\ \A i \in 1 .. m : g[i] = IF c < i /\ i <= c + 2 THEN x[i - c] ELSE h[i]
  <2>1. IsPut(g, m, h, c, 2, x)
    BY <1>4, PutIs
  <2> HIDE DEF g
  <2> QED
    BY <2>1 DEF IsPut
<1> HIDE DEF d, g
<1>7. e \in Bytes(k) /\ \A i \in 1 .. k : e[i] = IF i <= l THEN p[i] ELSE g[i - l]
  BY <1>6, CatBytes, ZenonT(30)
<1> HIDE DEF e
<1>8. ASSUME NEW i \in 1 .. k PROVE d[i] = e[i]
  <2>1. CASE i <= l
    <3>1. ~(l + c < i /\ i <= l + c + 2)
      BY <2>1
    <3> QED
      BY <1>1, <1>5, <1>7, <2>1, <3>1
  <2>2. CASE ~(i <= l)
    <3>1. i - l \in 1 .. m /\ (i - l) - c = i - (l + c)
      BY <2>2
    <3>2. l + c < i /\ i <= l + c + 2 <=> c < i - l /\ i - l <= c + 2
      OBVIOUS
    <3>3. e[i] = g[i - l] /\ b[i] = h[i - l]
      BY <1>1, <1>7, <2>2
    <3> QED
      BY <1>5, <1>6, <3>1, <3>2, <3>3
  <2> QED
    BY <2>1, <2>2
<1>9. d = e
  <2> HIDE DEF k
  <2> QED
    BY <1>2, <1>5, <1>7, <1>8, BytesEqual
<1> QED
  BY <1>4, <1>6, <1>9, ZenonT(30) DEF b, x, d, e, g

(* t is h with other bytes at c and c + 1.                                   *)
KeepsRest(t, h, c) ==
    t \in Bytes(20) /\ \A i \in 1 .. 20 : i # c /\ i # c + 1 => t[i] = h[i]

AddedTcp(h, p, n, src, dst) == Part(add_tcp_checksum(h \o p, n, src, dst), 0, 20)

(* add_tcp_checksum, for every segment without options and every payload     *)
(* that a segment can carry: whatever the field held before, a receiver      *)
(* accepts the segment.  The rest of the segment is left alone.              *)
THEOREM AddTcpChecksum ==
    ASSUME NEW h \in Bytes(20), h[13] \div 16 = 5, NEW m \in Nat, NEW p \in Bytes(m),
           NEW n \in Nat, n <= m, Fits16(20 + n), Short(12 + (20 + n)),
           NEW src \in Bytes(4), NEW dst \in Bytes(4)
    PROVE  /\ KeepsRest(AddedTcp(h, p, n, src, dst), h, 17)
           /\ Verifies(TCPChecksumHeader(src, dst, 20 + n) \o AddedTcp(h, p, n, src, dst) \o Part(p, 0, n))
<1> DEFINE seg == h \o p
           len == 20 + n
           w == Part(seg, 0, len)
           z == Put(w, 16, <<0, 0>>)
           q == TCPChecksumHeader(src, dst, len)
           x == csum(q \o z)
           r == Put(seg, 16, x)
           t == Part(r, 0, 20)
           u == Part(p, 0, n)
           M == 20 + m
<1>0. len \in Nat /\ M \in Nat /\ 20 \in Nat /\ 12 \in Nat /\ 16 \in Nat /\ 2 \in Nat
  OBVIOUS
<1>1. seg \in Bytes(M) /\ \A i \in 1 .. M : seg[i] = IF i <= 20 THEN h[i] ELSE p[i - 20]
  BY CatBytes, ZenonT(30)
<1>2. TcpLen(seg, n) = len
  <2>1. 13 \in 1 .. M /\ 13 <= 20
    OBVIOUS
  <2> HIDE DEF seg, M
  <2>2. seg[13] = h[13]
    BY <1>1, <2>1
  <2> QED
    BY <2>2 DEF TcpLen
<1>3. add_tcp_checksum(seg, n, src, dst) = r
  <2> HIDE DEF seg
  <2> QED
    BY <1>2 DEF add_tcp_checksum
<1> HIDE DEF seg
<1>4. w \in Bytes(len) /\ \A i \in 1 .. len : w[i] = seg[0 + i]
  <2>1. 0 + len <= M
    OBVIOUS
  <2> HIDE DEF len, M
  <2> QED
    BY <1>0, <1>1, <2>1, PartBytes, SMTT(30)
<1> HIDE DEF w
<1>5. <<0, 0>> \in Bytes(2) /\ <<0, 0>>[1] = 0 /\ <<0, 0>>[2] = 0
  <2>1. 0 \in Byte
    BY DEF Byte
  <2> QED
    BY <2>1, TwoBytes
<1>6. z \in Bytes(len) /\ \A i \in 1 .. len :
                              z[i] = IF 16 < i /\ i <= 16 + 2 THEN <<0, 0>>[i - 16] ELSE w[i]
  <2> DEFINE zz == <<0, 0>>
  <2>1. zz \in Bytes(2)
    BY <1>5
  <2> HIDE DEF len, zz
  <2>2. /\ Put(w, 16, zz) \in Bytes(len)
        /\ \A i \in 1 .. len : Put(w, 16, zz)[i] = IF 16 < i /\ i <= 16 + 2 THEN zz[i - 16] ELSE w[i]
    BY <1>0, <1>4, <2>1, PutBytes, SMTT(30)
  <2> QED
    BY <2>2 DEF zz
<1> HIDE DEF z
<1>7. z[17] = 0 /\ z[18] = 0
  <2>1. 17 \in 1 .. len /\ 18 \in 1 .. len /\ 17 - 16 = 1 /\ 18 - 16 = 2
    OBVIOUS
  <2> QED
    BY <1>5, <1>6, <2>1
<1>8. q \in Bytes(12)
  <2> HIDE DEF len
  <2>1. Fits16(len)
    BY DEF len
  <2> QED
    BY <1>0, <2>1, PseudoHeader
<1> HIDE DEF q
<1>9. x \in Bytes(2) /\ Put(z, 16, x) \in Bytes(len) /\ Verifies(q \o Put(z, 16, x))
  <2>1. Short(12 + len) /\ Even(12 + 16) /\ 16 + 2 <= len
    BY DEF Even
  <2>2. z[16 + 1] = 0 /\ z[16 + 2] = 0
    BY <1>7
  <2> HIDE DEF len
  <2> QED
    BY <1>0, <1>6, <1>8, <2>1, <2>2, ChecksumAfter
<1> HIDE DEF x
<1>10. r \in Bytes(M) /\ \A i \in 1 .. M : r[i] = IF 16 < i /\ i <= 16 + 2 THEN x[i - 16] ELSE seg[i]
  <2> HIDE DEF M
  <2> QED
    BY <1>0, <1>1, <1>9, PutBytes, SMTT(30)
<1> HIDE DEF r
<1>11. t \in Bytes(20) /\ \A i \in 1 .. 20 : t[i] = r[0 + i]
  <2>1. 0 + 20 <= M
    OBVIOUS
  <2> HIDE DEF M
  <2>2. IsPart(t, r, 0, 20)
    BY <1>0, <1>10, <2>1, PartIs
  <2> HIDE DEF t
  <2> QED
    BY <2>2 DEF IsPart
<1> HIDE DEF t
<1>12. u \in Bytes(n) /\ \A i \in 1 .. n : u[i] = p[0 + i]
  <2>1. 0 + n <= m
    OBVIOUS
  <2> QED
    BY <2>1, PartBytes, SMTT(30)
<1> HIDE DEF u
<1> DEFINE y == Put(z, 16, x)
           v == t \o u
<1>13. y \in Bytes(len) /\ \A i \in 1 .. len : y[i] = IF 16 < i /\ i <= 16 + 2 THEN x[i - 16] ELSE z[i]
  <2> HIDE DEF len
  <2> QED
    BY <1>0, <1>6, <1>9, PutBytes, SMTT(30)
<1> HIDE DEF y
<1>14. v \in Bytes(len) /\ \A i \in 1 .. len : v[i] = IF i <= 20 THEN t[i] ELSE u[i - 20]
  BY <1>11, <1>12, CatBytes, ZenonT(30)
<1>15. q \o t \o u = q \o v
  <2>1. Assoc(q, t, u)
    BY <1>0, <1>8, <1>11, <1>12, CatAssoc
  <2> QED
    BY <2>1, ZenonT(30) DEF Assoc
<1> HIDE DEF v
<1>16. ASSUME NEW i \in 1 .. len PROVE y[i] = v[i]
  <2>1. i \in 1 .. M /\ i \in Nat /\ 0 + i = i
    OBVIOUS
  <2>2. CASE i <= 20
    <3>1. v[i] = r[i] /\ i \in 1 .. 20
      BY <1>11, <1>14, <2>1, <2>2
    <3>2. CASE 16 < i /\ i <= 16 + 2
      BY <1>10, <1>13, <2>1, <3>1, <3>2
    <3>3. CASE ~(16 < i /\ i <= 16 + 2)
      BY <1>4, <1>6, <1>10, <1>13, <2>1, <3>1, <3>3
    <3> QED
      BY <3>2, <3>3
  <2>3. CASE ~(i <= 20)
    <3>1. i - 20 \in 1 .. n /\ 0 + (i - 20) = i - 20
      BY <2>3
    <3>2. v[i] = p[i - 20]
      BY <1>12, <1>14, <2>3, <3>1
    <3>3. ~(16 < i /\ i <= 16 + 2)
      BY <2>3
    <3>4. y[i] = seg[i]
      BY <1>4, <1>6, <1>13, <2>1, <3>3
    <3> QED
      BY <1>1, <2>1, <2>3, <3>2, <3>4
  <2> QED
    BY <2>2, <2>3
<1>17. y = v
  <2> HIDE DEF len
  <2> QED
    BY <1>0, <1>13, <1>14, <1>16, BytesEqual
<1>18. Verifies(q \o t \o u)
  BY <1>9, <1>15, <1>17 DEF y
<1>19. ASSUME NEW i \in 1 .. 20, i # 17, i # 18 PROVE t[i] = h[i]
  <2>1. i \in 1 .. M /\ 0 + i = i /\ ~(16 < i /\ i <= 16 + 2)
    BY <1>19
  <2> QED
    BY <1>1, <1>10, <1>11, <2>1
<1>20. t = AddedTcp(h, p, n, src, dst)
  BY <1>3 DEF t, seg, AddedTcp
<1>21. q = TCPChecksumHeader(src, dst, 20 + n) /\ u = Part(p, 0, n)
  BY DEF q, u
<1> QED
  <2>1. KeepsRest(t, h, 17)
    BY <1>11, <1>19 DEF KeepsRest
  <2> QED
    BY <1>18, <1>20, <1>21, <2>1

(* add_ip_checksum on a header whose checksum field is 0: a receiver that    *)
(* adds up the bytes the header says it has accepts it.  The rest of the     *)
(* header is left alone.                                                     *)
THEOREM AddIpChecksum ==
    ASSUME NEW h \in Bytes(20), h[11] = 0, h[12] = 0, IpLen(h) \in 12 .. 20, Even(IpLen(h))
    PROVE  LET t == add_ip_checksum(h)
           IN  /\ t \in Bytes(20) /\ \A i \in 1 .. 20 : i # 11 /\ i # 12 => t[i] = h[i]
               /\ IpLen(t) = IpLen(h) /\ Verifies(Part(t, 0, IpLen(t)))
<1> DEFINE len == IpLen(h)
           w == Part(h, 0, len)
           x == csum(w)
           t == Put(h, 10, x)
           u == Part(t, 0, len)
           y == Put(w, 10, x)
<1>0. len \in Nat /\ 12 <= len /\ len <= 20 /\ 20 \in Nat /\ 10 \in Nat /\ 2 \in Nat /\ 0 \in Nat
  OBVIOUS
<1>1. add_ip_checksum(h) = t
  BY DEF add_ip_checksum
<1> HIDE DEF len
<1>2. w \in Bytes(len) /\ \A i \in 1 .. len : w[i] = h[0 + i]
  <2>1. IsPart(w, h, 0, len)
    BY <1>0, PartIs
  <2> HIDE DEF w
  <2> QED
    BY <2>1 DEF IsPart
<1> HIDE DEF w
<1>3. w[10 + 1] = 0 /\ w[10 + 2] = 0
  BY <1>0, <1>2
<1>4. x \in Bytes(2) /\ Verifies(y)
  <2>1. Short(len) /\ Even(10) /\ 10 + 2 <= len
    BY <1>0 DEF Short, Even
  <2> QED
    BY <1>0, <1>2, <1>3, <2>1, CsumVerifies
<1> HIDE DEF x
<1>5. t \in Bytes(20) /\ \A i \in 1 .. 20 : t[i] = IF 10 < i /\ i <= 10 + 2 THEN x[i - 10] ELSE h[i]
  <2>1. IsPut(t, 20, h, 10, 2, x)
    BY <1>0, <1>4, PutIs
  <2> HIDE DEF t
  <2> QED
    BY <2>1 DEF IsPut
<1>6. y \in Bytes(len) /\ \A i \in 1 .. len : y[i] = IF 10 < i /\ i <= 10 + 2 THEN x[i - 10] ELSE w[i]
  <2>1. IsPut(y, len, w, 10, 2, x)
    BY <1>0, <1>2, <1>4, PutIs
  <2> HIDE DEF y
  <2> QED
    BY <2>1 DEF IsPut
<1> HIDE DEF t, y
<1>7. u \in Bytes(len) /\ \A i \in 1 .. len : u[i] = t[0 + i]
  <2>1. IsPart(u, t, 0, len)
    BY <1>0, <1>5, PartIs
  <2> HIDE DEF u
  <2> QED
    BY <2>1 DEF IsPart
<1> HIDE DEF u
<1>8. ASSUME NEW i \in 1 .. len PROVE u[i] = y[i]
  <2>1. i \in 1 .. 20 /\ 0 + i = i
    BY <1>0
  <2> QED
    BY <1>2, <1>5, <1>6, <1>7, <2>1
<1>9. u = y
  BY <1>0, <1>6, <1>7, <1>8, BytesEqual
<1>10. IpLen(t) = IpLen(h)
  <2>1. t[1] = h[1]
    BY <1>5
  <2> QED
    BY <2>1 DEF IpLen
<1>11. ASSUME NEW i \in 1 .. 20, i # 11, i # 12 PROVE t[i] = h[i]
  BY <1>5, <1>11
<1>12. Verifies(Part(t, 0, IpLen(t)))
  BY <1>4, <1>9, <1>10 DEF u, len
<1> QED
  BY <1>1, <1>5, <1>10, <1>11, <1>12

(***************************************************************************)
(* What the conversions do, byte by byte.                                  *)
(***************************************************************************)
LEMMA Part2 ==
    ASSUME NEW m \in Nat, NEW s \in Bytes(m), NEW f \in Nat, f + 2 <= m
    PROVE  /\ Part(s, f, 2) \in Bytes(2)
           /\ Part(s, f, 2)[1] = s[f + 1] /\ Part(s, f, 2)[2] = s[f + 2]
<1> DEFINE p == Part(s, f, 2)
<1>1. IsPart(p, s, f, 2)
  BY PartIs
<1> HIDE DEF p
<1>2. p \in Bytes(2) /\ p[1] = s[f + 1] /\ p[2] = s[f + 2]
  BY <1>1 DEF IsPart
<1> QED
  BY <1>2 DEF p

LEMMA Part4 ==
    ASSUME NEW m \in Nat, NEW s \in Bytes(m), NEW f \in Nat, f + 4 <= m
    PROVE  /\ Part(s, f, 4) \in Bytes(4)
           /\ Part(s, f, 4)[1] = s[f + 1] /\ Part(s, f, 4)[2] = s[f + 2]
           /\ Part(s, f, 4)[3] = s[f + 3] /\ Part(s, f, 4)[4] = s[f + 4]
<1> DEFINE p == Part(s, f, 4)
<1>1. IsPart(p, s, f, 4)
  BY PartIs
<1> HIDE DEF p
<1>2. p \in Bytes(4) /\ p[1] = s[f + 1] /\ p[2] = s[f + 2] /\ p[3] = s[f + 3] /\ p[4] = s[f + 4]
  BY <1>1 DEF IsPart
<1> QED
  BY <1>2 DEF p

LEMMA Rev2 ==
    ASSUME NEW s \in Bytes(2)
    PROVE  Rev(s) \in Bytes(2) /\ Rev(s)[1] = s[2] /\ Rev(s)[2] = s[1]
<1>1. Rev(s) \in Bytes(2) /\ \A i \in 1 .. 2 : Rev(s)[i] = s[2 + 1 - i]
  BY RevBytes
<1> QED
  BY <1>1

LEMMA Rev4 ==
    ASSUME NEW s \in Bytes(4)
    PROVE  /\ Rev(s) \in Bytes(4) /\ Rev(s)[1] = s[4] /\ Rev(s)[2] = s[3]
           /\ Rev(s)[3] = s[2] /\ Rev(s)[4] = s[1]
<1>1. Rev(s) \in Bytes(4) /\ \A i \in 1 .. 4 : Rev(s)[i] = s[4 + 1 - i]
  BY RevBytes
<1> QED
  BY <1>1

LEMMA RevPart2 ==
    ASSUME NEW m \in Nat, NEW s \in Bytes(m), NEW f \in Nat, f + 2 <= m
    PROVE  /\ Rev(Part(s, f, 2)) \in Bytes(2)
           /\ Rev(Part(s, f, 2))[1] = s[f + 2] /\ Rev(Part(s, f, 2))[2] = s[f + 1]
BY Part2, Rev2

LEMMA RevPart4 ==
    ASSUME NEW m \in Nat, NEW s \in Bytes(m), NEW f \in Nat, f + 4 <= m
    PROVE  /\ Rev(Part(s, f, 4)) \in Bytes(4)
           /\ Rev(Part(s, f, 4))[1] = s[f + 4] /\ Rev(Part(s, f, 4))[2] = s[f + 3]
           /\ Rev(Part(s, f, 4))[3] = s[f + 2] /\ Rev(Part(s, f, 4))[4] = s[f + 1]
BY Part4, Rev4

IsStructTcp(h, v) ==
    /\ h \in Bytes(20)
    /\ h[1] = v[19] /\ h[2] = v[20] /\ h[3] = v[17] /\ h[4] = v[18]
    /\ h[5] = v[13] /\ h[6] = v[14] /\ h[7] = v[15] /\ h[8] = v[16]
    /\ h[9] = v[9] /\ h[10] = v[10] /\ h[11] = v[11] /\ h[12] = v[12]
    /\ h[13] = v[8] /\ h[14] = v[7] /\ h[15] = v[5] /\ h[16] = v[6]
    /\ h[17] = v[4] /\ h[18] = v[3] /\ h[19] = v[1] /\ h[20] = v[2]

LEMMA StructTcp ==
    ASSUME NEW v \in Bytes(20)
    PROVE  IsStructTcp(bitvec_to_tcp_header(v), v)
<1> DEFINE p1 == Part(v, 18, 2)
           p2 == Part(v, 16, 2)
           p3 == Part(v, 12, 4)
           p4 == Part(v, 8, 4)
           p5 == <<v[8], v[7]>>
           p6 == Part(v, 4, 2)
           p7 == Rev(Part(v, 2, 2))
           p8 == Part(v, 0, 2)
           a2 == p1 \o p2
           a3 == a2 \o p3
           a4 == a3 \o p4
           a5 == a4 \o p5
           a6 == a5 \o p6
           a7 == a6 \o p7
           a8 == a7 \o p8
<1>1. p1 \in Bytes(2) /\ p1[1] = v[19] /\ p1[2] = v[20]
  BY Part2
<1>2. p2 \in Bytes(2) /\ p2[1] = v[17] /\ p2[2] = v[18]
  BY Part2
<1>3. p3 \in Bytes(4) /\ p3[1] = v[13] /\ p3[2] = v[14] /\ p3[3] = v[15] /\ p3[4] = v[16]
  BY Part4
<1>4. p4 \in Bytes(4) /\ p4[1] = v[9] /\ p4[2] = v[10] /\ p4[3] = v[11] /\ p4[4] = v[12]
  BY Part4
<1>5. p5 \in Bytes(2) /\ p5[1] = v[8] /\ p5[2] = v[7]
  BY BytesSeq, TwoBytes
<1>6. p6 \in Bytes(2) /\ p6[1] = v[5] /\ p6[2] = v[6]
  BY Part2
<1>7. p7 \in Bytes(2) /\ p7[1] = v[4] /\ p7[2] = v[3]
  BY RevPart2
<1>8. p8 \in Bytes(2) /\ p8[1] = v[1] /\ p8[2] = v[2]
  BY Part2
<1> HIDE DEF p1, p2, p3, p4, p5, p6, p7, p8
<1>9. /\ a2 \in Bytes(4)
      /\ a2[1] = v[19] /\ a2[2] = v[20] /\ a2[3] = v[17] /\ a2[4] = v[18]
  <2>1. IsCat(a2, 2, 2, p1, p2)
    BY <1>1, <1>2, CatIs
  <2> HIDE DEF a2
  <2>2. a2 \in Bytes(4) /\ \A i \in 1 .. 4 : a2[i] = IF i <= 2 THEN p1[i] ELSE p2[i - 2]
    BY <2>1 DEF IsCat
  <2> QED
    BY <1>1, <1>2, <2>2, SMTT(30)
<1> HIDE DEF a2
<1>10. /\ a3 \in Bytes(8)
       /\ a3[1] = v[19] /\ a3[2] = v[20] /\ a3[3] = v[17] /\ a3[4] = v[18]
       /\ a3[5] = v[13] /\ a3[6] = v[14] /\ a3[7] = v[15] /\ a3[8] = v[16]
  <2>1. IsCat(a3, 4, 4, a2, p3)
    BY <1>9, <1>3, CatIs
  <2> HIDE DEF a3
  <2>2. a3 \in Bytes(8) /\ \A i \in 1 .. 8 : a3[i] = IF i <= 4 THEN a2[i] ELSE p3[i - 4]
    BY <2>1 DEF IsCat
  <2> QED
    BY <1>9, <1>3, <2>2, SMTT(30)
<1> HIDE DEF a3
<1>11. /\ a4 \in Bytes(12)
       /\ a4[1] = v[19] /\ a4[2] = v[20] /\ a4[3] = v[17] /\ a4[4] = v[18]
       /\ a4[5] = v[13] /\ a4[6] = v[14] /\ a4[7] = v[15] /\ a4[8] = v[16]
       /\ a4[9] = v[9] /\ a4[10] = v[10] /\ a4[11] = v[11] /\ a4[12] = v[12]
  <2>1. IsCat(a4, 8, 4, a3, p4)
    BY <1>10, <1>4, CatIs
  <2> HIDE DEF a4
  <2>2. a4 \in Bytes(12) /\ \A i \in 1 .. 12 : a4[i] = IF i <= 8 THEN a3[i] ELSE p4[i - 8]
    BY <2>1 DEF IsCat
  <2> QED
    BY <1>10, <1>4, <2>2, SMTT(30)
<1> HIDE DEF a4
<1>12. /\ a5 \in Bytes(14)
       /\ a5[1] = v[19] /\ a5[2] = v[20] /\ a5[3] = v[17] /\ a5[4] = v[18]
       /\ a5[5] = v[13] /\ a5[6] = v[14] /\ a5[7] = v[15] /\ a5[8] = v[16]
       /\ a5[9] = v[9] /\ a5[10] = v[10] /\ a5[11] = v[11] /\ a5[12] = v[12]
       /\ a5[13] = v[8] /\ a5[14] = v[7]
  <2>1. IsCat(a5, 12, 2, a4, p5)
    BY <1>11, <1>5, CatIs
  <2> HIDE DEF a5
  <2>2. a5 \in Bytes(14) /\ \A i \in 1 .. 14 : a5[i] = IF i <= 12 THEN a4[i] ELSE p5[i - 12]
    BY <2>1 DEF IsCat
  <2> QED
    BY <1>11, <1>5, <2>2, SMTT(30)
<1> HIDE DEF a5
<1>13. /\ a6 \in Bytes(16)
       /\ a6[1] = v[19] /\ a6[2] = v[20] /\ a6[3] = v[17] /\ a6[4] = v[18]
       /\ a6[5] = v[13] /\ a6[6] = v[14] /\ a6[7] = v[15] /\ a6[8] = v[16]
       /\ a6[9] = v[9] /\ a6[10] = v[10] /\ a6[11] = v[11] /\ a6[12] = v[12]
       /\ a6[13] = v[8] /\ a6[14] = v[7] /\ a6[15] = v[5] /\ a6[16] = v[6]
  <2>1. IsCat(a6, 14, 2, a5, p6)
    BY <1>12, <1>6, CatIs
  <2> HIDE DEF a6
  <2>2. a6 \in Bytes(16) /\ \A i \in 1 .. 16 : a6[i] = IF i <= 14 THEN a5[i] ELSE p6[i - 14]
    BY <2>1 DEF IsCat
  <2> QED
    BY <1>12, <1>6, <2>2, SMTT(30)
<1> HIDE DEF a6
<1>14. /\ a7 \in Bytes(18)
       /\ a7[1] = v[19] /\ a7[2] = v[20] /\ a7[3] = v[17] /\ a7[4] = v[18]
       /\ a7[5] = v[13] /\ a7[6] = v[14] /\ a7[7] = v[15] /\ a7[8] = v[16]
       /\ a7[9] = v[9] /\ a7[10] = v[10] /\ a7[11] = v[11] /\ a7[12] = v[12]
       /\ a7[13] = v[8] /\ a7[14] = v[7] /\ a7[15] = v[5] /\ a7[16] = v[6]
       /\ a7[17] = v[4] /\ a7[18] = v[3]
  <2>1. IsCat(a7, 16, 2, a6, p7)
    BY <1>13, <1>7, CatIs
  <2> HIDE DEF a7
  <2>2. a7 \in Bytes(18) /\ \A i \in 1 .. 18 : a7[i] = IF i <= 16 THEN a6[i] ELSE p7[i - 16]
    BY <2>1 DEF IsCat
  <2> QED
    BY <1>13, <1>7, <2>2, SMTT(30)
<1> HIDE DEF a7
<1>15. /\ a8 \in Bytes(20)
       /\ a8[1] = v[19] /\ a8[2] = v[20] /\ a8[3] = v[17] /\ a8[4] = v[18]
       /\ a8[5] = v[13] /\ a8[6] = v[14] /\ a8[7] = v[15] /\ a8[8] = v[16]
       /\ a8[9] = v[9] /\ a8[10] = v[10] /\ a8[11] = v[11] /\ a8[12] = v[12]
       /\ a8[13] = v[8] /\ a8[14] = v[7] /\ a8[15] = v[5] /\ a8[16] = v[6]
       /\ a8[17] = v[4] /\ a8[18] = v[3] /\ a8[19] = v[1] /\ a8[20] = v[2]
  <2>1. IsCat(a8, 18, 2, a7, p8)
    BY <1>14, <1>8, CatIs
  <2> HIDE DEF a8
  <2>2. a8 \in Bytes(20) /\ \A i \in 1 .. 20 : a8[i] = IF i <= 18 THEN a7[i] ELSE p8[i - 18]
    BY <2>1 DEF IsCat
  <2> QED
    BY <1>14, <1>8, <2>2, SMTT(30)
<1> HIDE DEF a8
<1>16. bitvec_to_tcp_header(v) = a8
  BY DEF bitvec_to_tcp_header, a2, a3, a4, a5, a6, a7, a8, p1, p2, p3, p4, p5, p6, p7, p8
<1> QED
  BY <1>15, <1>16 DEF IsStructTcp

IsBuf(h, v) ==
    /\ h \in Bytes(8)
    /\ h[1] = v[8] /\ h[2] = v[7] /\ h[3] = v[6] /\ h[4] = v[5]
    /\ h[5] = v[4] /\ h[6] = v[3] /\ h[7] = v[2] /\ h[8] = v[1]

LEMMA BufOf ==
    ASSUME NEW v \in Bytes(8)
    PROVE  IsBuf(data_swizzle_64_bitvec_to_c_buf(v), v)
<1> DEFINE p1 == Rev(Part(v, 4, 4))
           p2 == Rev(Part(v, 0, 4))
           a2 == p1 \o p2
<1>1. p1 \in Bytes(4) /\ p1[1] = v[8] /\ p1[2] = v[7] /\ p1[3] = v[6] /\ p1[4] = v[5]
  BY RevPart4
<1>2. p2 \in Bytes(4) /\ p2[1] = v[4] /\ p2[2] = v[3] /\ p2[3] = v[2] /\ p2[4] = v[1]
  BY RevPart4
<1> HIDE DEF p1, p2
<1>3. /\ a2 \in Bytes(8)
      /\ a2[1] = v[8] /\ a2[2] = v[7] /\ a2[3] = v[6] /\ a2[4] = v[5]
      /\ a2[5] = v[4] /\ a2[6] = v[3] /\ a2[7] = v[2] /\ a2[8] = v[1]
  <2>1. IsCat(a2, 4, 4, p1, p2)
    BY <1>1, <1>2, CatIs
  <2> HIDE DEF a2
  <2>2. a2 \in Bytes(8) /\ \A i \in 1 .. 8 : a2[i] = IF i <= 4 THEN p1[i] ELSE p2[i - 4]
    BY <2>1 DEF IsCat
  <2> QED
    BY <1>1, <1>2, <2>2, SMTT(30)
<1> HIDE DEF a2
<1>4. data_swizzle_64_bitvec_to_c_buf(v) = a2
  BY DEF data_swizzle_64_bitvec_to_c_buf, a2, p1, p2
<1> QED
  BY <1>3, <1>4 DEF IsBuf

IsVecTcp(v, h) ==
    /\ v \in Bytes(20)
    /\ v[1] = h[19] /\ v[2] = h[20] /\ v[3] = h[17] /\ v[4] = h[18]
    /\ v[5] = h[15] /\ v[6] = h[16] /\ v[7] = h[14] /\ v[8] = h[13]
    /\ v[9] = h[9] /\ v[10] = h[10] /\ v[11] = h[11] /\ v[12] = h[12]
    /\ v[13] = h[5] /\ v[14] = h[6] /\ v[15] = h[7] /\ v[16] = h[8]
    /\ v[17] = h[3] /\ v[18] = h[4] /\ v[19] = h[1] /\ v[20] = h[2]

LEMMA VecTcp ==
    ASSUME NEW h \in Bytes(20)
    PROVE  IsVecTcp(tcp_header_to_bitvec(h), h)
<1> DEFINE p1 == Part(h, 18, 2)
           p2 == Part(h, 16, 2)
           p3 == Part(h, 14, 2)
           p4 == <<h[14], h[13]>>
           p5 == Part(h, 8, 4)
           p6 == Part(h, 4, 4)
           p7 == Part(h, 2, 2)
           p8 == Part(h, 0, 2)
           a2 == p1 \o p2
           a3 == a2 \o p3
           a4 == a3 \o p4
           a5 == a4 \o p5
           a6 == a5 \o p6
           a7 == a6 \o p7
           a8 == a7 \o p8
<1>1. p1 \in Bytes(2) /\ p1[1] = h[19] /\ p1[2] = h[20]
  BY Part2
<1>2. p2 \in Bytes(2) /\ p2[1] = h[17] /\ p2[2] = h[18]
  BY Part2
<1>3. p3 \in Bytes(2) /\ p3[1] = h[15] /\ p3[2] = h[16]
  BY Part2
<1>4. p4 \in Bytes(2) /\ p4[1] = h[14] /\ p4[2] = h[13]
  BY BytesSeq, TwoBytes
<1>5. p5 \in Bytes(4) /\ p5[1] = h[9] /\ p5[2] = h[10] /\ p5[3] = h[11] /\ p5[4] = h[12]
  BY Part4
<1>6. p6 \in Bytes(4) /\ p6[1] = h[5] /\ p6[2] = h[6] /\ p6[3] = h[7] /\ p6[4] = h[8]
  BY Part4
<1>7. p7 \in Bytes(2) /\ p7[1] = h[3] /\ p7[2] = h[4]
  BY Part2, SMTT(30)
<1>8. p8 \in Bytes(2) /\ p8[1] = h[1] /\ p8[2] = h[2]
  BY Part2
<1> HIDE DEF p1, p2, p3, p4, p5, p6, p7, p8
<1>9. /\ a2 \in Bytes(4)
      /\ a2[1] = h[19] /\ a2[2] = h[20] /\ a2[3] = h[17] /\ a2[4] = h[18]
  <2>1. IsCat(a2, 2, 2, p1, p2)
    BY <1>1, <1>2, CatIs
  <2> HIDE DEF a2
  <2>2. a2 \in Bytes(4) /\ \A i \in 1 .. 4 : a2[i] = IF i <= 2 THEN p1[i] ELSE p2[i - 2]
    BY <2>1 DEF IsCat
  <2> QED
    BY <1>1, <1>2, <2>2, SMTT(30)
<1> HIDE DEF a2
<1>10. /\ a3 \in Bytes(6)
       /\ a3[1] = h[19] /\ a3[2] = h[20] /\ a3[3] = h[17] /\ a3[4] = h[18]
       /\ a3[5] = h[15] /\ a3[6] = h[16]
  <2>1. IsCat(a3, 4, 2, a2, p3)
    BY <1>9, <1>3, CatIs
  <2> HIDE DEF a3
  <2>2. a3 \in Bytes(6) /\ \A i \in 1 .. 6 : a3[i] = IF i <= 4 THEN a2[i] ELSE p3[i - 4]
    BY <2>1 DEF IsCat
  <2> QED
    BY <1>9, <1>3, <2>2, SMTT(30)
<1> HIDE DEF a3
<1>11. /\ a4 \in Bytes(8)
       /\ a4[1] = h[19] /\ a4[2] = h[20] /\ a4[3] = h[17] /\ a4[4] = h[18]
       /\ a4[5] = h[15] /\ a4[6] = h[16] /\ a4[7] = h[14] /\ a4[8] = h[13]
  <2>1. IsCat(a4, 6, 2, a3, p4)
    BY <1>10, <1>4, CatIs
  <2> HIDE DEF a4
  <2>2. a4 \in Bytes(8) /\ \A i \in 1 .. 8 : a4[i] = IF i <= 6 THEN a3[i] ELSE p4[i - 6]
    BY <2>1 DEF IsCat
  <2> QED
    BY <1>10, <1>4, <2>2, SMTT(30)
<1> HIDE DEF a4
<1>12. /\ a5 \in Bytes(12)
       /\ a5[1] = h[19] /\ a5[2] = h[20] /\ a5[3] = h[17] /\ a5[4] = h[18]
       /\ a5[5] = h[15] /\ a5[6] = h[16] /\ a5[7] = h[14] /\ a5[8] = h[13]
       /\ a5[9] = h[9] /\ a5[10] = h[10] /\ a5[11] = h[11] /\ a5[12] = h[12]
  <2>1. IsCat(a5, 8, 4, a4, p5)
    BY <1>11, <1>5, CatIs
  <2> HIDE DEF a5
  <2>2. a5 \in Bytes(12) /\ \A i \in 1 .. 12 : a5[i] = IF i <= 8 THEN a4[i] ELSE p5[i - 8]
    BY <2>1 DEF IsCat
  <2> QED
    BY <1>11, <1>5, <2>2, SMTT(30)
<1> HIDE DEF a5
<1>13. /\ a6 \in Bytes(16)
       /\ a6[1] = h[19] /\ a6[2] = h[20] /\ a6[3] = h[17] /\ a6[4] = h[18]
       /\ a6[5] = h[15] /\ a6[6] = h[16] /\ a6[7] = h[14] /\ a6[8] = h[13]
       /\ a6[9] = h[9] /\ a6[10] = h[10] /\ a6[11] = h[11] /\ a6[12] = h[12]
       /\ a6[13] = h[5] /\ a6[14] = h[6] /\ a6[15] = h[7] /\ a6[16] = h[8]
  <2>1. IsCat(a6, 12, 4, a5, p6)
    BY <1>12, <1>6, CatIs
  <2> HIDE DEF a6
  <2>2. a6 \in Bytes(16) /\ \A i \in 1 .. 16 : a6[i] = IF i <= 12 THEN a5[i] ELSE p6[i - 12]
    BY <2>1 DEF IsCat
  <2> QED
    BY <1>12, <1>6, <2>2, SMTT(30)
<1> HIDE DEF a6
<1>14. /\ a7 \in Bytes(18)
       /\ a7[1] = h[19] /\ a7[2] = h[20] /\ a7[3] = h[17] /\ a7[4] = h[18]
       /\ a7[5] = h[15] /\ a7[6] = h[16] /\ a7[7] = h[14] /\ a7[8] = h[13]
       /\ a7[9] = h[9] /\ a7[10] = h[10] /\ a7[11] = h[11] /\ a7[12] = h[12]
       /\ a7[13] = h[5] /\ a7[14] = h[6] /\ a7[15] = h[7] /\ a7[16] = h[8]
       /\ a7[17] = h[3] /\ a7[18] = h[4]
  <2>1. IsCat(a7, 16, 2, a6, p7)
    BY <1>13, <1>7, CatIs
  <2> HIDE DEF a7
  <2>2. a7 \in Bytes(18) /\ \A i \in 1 .. 18 : a7[i] = IF i <= 16 THEN a6[i] ELSE p7[i - 16]
    BY <2>1 DEF IsCat
  <2> QED
    BY <1>13, <1>7, <2>2, SMTT(30)
<1> HIDE DEF a7
<1>15. /\ a8 \in Bytes(20)
       /\ a8[1] = h[19] /\ a8[2] = h[20] /\ a8[3] = h[17] /\ a8[4] = h[18]
       /\ a8[5] = h[15] /\ a8[6] = h[16] /\ a8[7] = h[14] /\ a8[8] = h[13]
       /\ a8[9] = h[9] /\ a8[10] = h[10] /\ a8[11] = h[11] /\ a8[12] = h[12]
       /\ a8[13] = h[5] /\ a8[14] = h[6] /\ a8[15] = h[7] /\ a8[16] = h[8]
       /\ a8[17] = h[3] /\ a8[18] = h[4] /\ a8[19] = h[1] /\ a8[20] = h[2]
  <2>1. IsCat(a8, 18, 2, a7, p8)
    BY <1>14, <1>8, CatIs
  <2> HIDE DEF a8
  <2>2. a8 \in Bytes(20) /\ \A i \in 1 .. 20 : a8[i] = IF i <= 18 THEN a7[i] ELSE p8[i - 18]
    BY <2>1 DEF IsCat
  <2> QED
    BY <1>14, <1>8, <2>2, SMTT(30)
<1> HIDE DEF a8
<1>16. tcp_header_to_bitvec(h) = a8
  BY DEF tcp_header_to_bitvec, a2, a3, a4, a5, a6, a7, a8, p1, p2, p3, p4, p5, p6, p7, p8
<1> QED
  BY <1>15, <1>16 DEF IsVecTcp

(* The two halves of a byte exchanged, as struct iphdr has them.             *)
Nibbles(x) == 16 * (x % 16) + (x \div 16)

LEMMA NibblesSwap ==
    ASSUME NEW x \in Byte
    PROVE  Nibbles(x) \in Byte /\ Nibbles(x) % 16 = x \div 16
<1> DEFINE q == x \div 16
           r == x % 16
<1>1. x \in Nat /\ x < 256
  BY DEF Byte
<1>2. q \in Nat /\ r \in Nat /\ r < 16 /\ x = 16 * q + r
  BY <1>1
<1>3. q < 16
  <2> HIDE DEF q, r
  <2> QED
    BY <1>1, <1>2
<1>4. Nibbles(x) = 16 * r + q
  BY DEF Nibbles
<1> HIDE DEF q, r
<1>5. Nibbles(x) \in Nat /\ Nibbles(x) < 256
  BY <1>2, <1>3, <1>4
<1>6. (16 * r + q) % 16 = q
  BY <1>2, <1>3
<1> QED
  BY <1>4, <1>5, <1>6 DEF Byte, q

IsStructIp(h, v) ==
    /\ h \in Bytes(20)
    /\ h[1] = Nibbles(v[20]) /\ h[2] = v[19] /\ h[3] = v[17] /\ h[4] = v[18]
    /\ h[5] = v[15] /\ h[6] = v[16] /\ h[7] = v[13] /\ h[8] = v[14]
    /\ h[9] = v[12] /\ h[10] = v[11] /\ h[11] = v[9] /\ h[12] = v[10]
    /\ h[13] = v[8] /\ h[14] = v[7] /\ h[15] = v[6] /\ h[16] = v[5]
    /\ h[17] = v[4] /\ h[18] = v[3] /\ h[19] = v[2] /\ h[20] = v[1]

LEMMA StructIp ==
    ASSUME NEW v \in Bytes(20)
    PROVE  IsStructIp(bitvec_to_ip_header(v), v)
<1> DEFINE p1 == <<Nibbles(v[20]), v[19]>>
           p2 == Part(v, 16, 2)
           p3 == Part(v, 14, 2)
           p4 == Part(v, 12, 2)
           p5 == <<v[12], v[11]>>
           p6 == Part(v, 8, 2)
           p7 == Rev(Part(v, 4, 4))
           p8 == Rev(Part(v, 0, 4))
           a2 == p1 \o p2
           a3 == a2 \o p3
           a4 == a3 \o p4
           a5 == a4 \o p5
           a6 == a5 \o p6
           a7 == a6 \o p7
           a8 == a7 \o p8
<1>1. p1 \in Bytes(2) /\ p1[1] = Nibbles(v[20]) /\ p1[2] = v[19]
  BY BytesSeq, NibblesSwap, TwoBytes
<1>2. p2 \in Bytes(2) /\ p2[1] = v[17] /\ p2[2] = v[18]
  BY Part2
<1>3. p3 \in Bytes(2) /\ p3[1] = v[15] /\ p3[2] = v[16]
  BY Part2
<1>4. p4 \in Bytes(2) /\ p4[1] = v[13] /\ p4[2] = v[14]
  BY Part2
<1>5. p5 \in Bytes(2) /\ p5[1] = v[12] /\ p5[2] = v[11]
  BY BytesSeq, TwoBytes
<1>6. p6 \in Bytes(2) /\ p6[1] = v[9] /\ p6[2] = v[10]
  BY Part2
<1>7. p7 \in Bytes(4) /\ p7[1] = v[8] /\ p7[2] = v[7] /\ p7[3] = v[6] /\ p7[4] = v[5]
  BY RevPart4
<1>8. p8 \in Bytes(4) /\ p8[1] = v[4] /\ p8[2] = v[3] /\ p8[3] = v[2] /\ p8[4] = v[1]
  BY RevPart4
<1> HIDE DEF p1, p2, p3, p4, p5, p6, p7, p8
<1>9. /\ a2 \in Bytes(4)
      /\ a2[1] = Nibbles(v[20]) /\ a2[2] = v[19] /\ a2[3] = v[17] /\ a2[4] = v[18]
  <2>1. IsCat(a2, 2, 2, p1, p2)
    BY <1>1, <1>2, CatIs
  <2> HIDE DEF a2
  <2>2. a2 \in Bytes(4) /\ \A i \in 1 .. 4 : a2[i] = IF i <= 2 THEN p1[i] ELSE p2[i - 2]
    BY <2>1 DEF IsCat
  <2> QED
    BY <1>1, <1>2, <2>2, SMTT(30)
<1> HIDE DEF a2
<1>10. /\ a3 \in Bytes(6)
       /\ a3[1] = Nibbles(v[20]) /\ a3[2] = v[19] /\ a3[3] = v[17] /\ a3[4] = v[18]
       /\ a3[5] = v[15] /\ a3[6] = v[16]
  <2>1. IsCat(a3, 4, 2, a2, p3)
    BY <1>9, <1>3, CatIs
  <2> HIDE DEF a3
  <2>2. a3 \in Bytes(6) /\ \A i \in 1 .. 6 : a3[i] = IF i <= 4 THEN a2[i] ELSE p3[i - 4]
    BY <2>1 DEF IsCat
  <2> QED
    BY <1>9, <1>3, <2>2, SMTT(30)
<1> HIDE DEF a3
<1>11. /\ a4 \in Bytes(8)
       /\ a4[1] = Nibbles(v[20]) /\ a4[2] = v[19] /\ a4[3] = v[17] /\ a4[4] = v[18]
       /\ a4[5] = v[15] /\ a4[6] = v[16] /\ a4[7] = v[13] /\ a4[8] = v[14]
  <2>1. IsCat(a4, 6, 2, a3, p4)
    BY <1>10, <1>4, CatIs, SMTT(30)
  <2> HIDE DEF a4
  <2>2. a4 \in Bytes(8) /\ \A i \in 1 .. 8 : a4[i] = IF i <= 6 THEN a3[i] ELSE p4[i - 6]
    BY <2>1 DEF IsCat
  <2> QED
    BY <1>10, <1>4, <2>2, SMTT(30)
<1> HIDE DEF a4
<1>12. /\ a5 \in Bytes(10)
       /\ a5[1] = Nibbles(v[20]) /\ a5[2] = v[19] /\ a5[3] = v[17] /\ a5[4] = v[18]
       /\ a5[5] = v[15] /\ a5[6] = v[16] /\ a5[7] = v[13] /\ a5[8] = v[14]
       /\ a5[9] = v[12] /\ a5[10] = v[11]
  <2>1. IsCat(a5, 8, 2, a4, p5)
    BY <1>11, <1>5, CatIs
  <2> HIDE DEF a5
  <2>2. a5 \in Bytes(10) /\ \A i \in 1 .. 10 : a5[i] = IF i <= 8 THEN a4[i] ELSE p5[i - 8]
    BY <2>1 DEF IsCat
  <2> QED
    BY <1>11, <1>5, <2>2, SMTT(30)
<1> HIDE DEF a5
<1>13. /\ a6 \in Bytes(12)
       /\ a6[1] = Nibbles(v[20]) /\ a6[2] = v[19] /\ a6[3] = v[17] /\ a6[4] = v[18]
       /\ a6[5] = v[15] /\ a6[6] = v[16] /\ a6[7] = v[13] /\ a6[8] = v[14]
       /\ a6[9] = v[12] /\ a6[10] = v[11] /\ a6[11] = v[9] /\ a6[12] = v[10]
  <2>1. IsCat(a6, 10, 2, a5, p6)
    BY <1>12, <1>6, CatIs
  <2> HIDE DEF a6
  <2>2. a6 \in Bytes(12) /\ \A i \in 1 .. 12 : a6[i] = IF i <= 10 THEN a5[i] ELSE p6[i - 10]
    BY <2>1 DEF IsCat
  <2> QED
    BY <1>12, <1>6, <2>2, SMTT(30)
<1> HIDE DEF a6
<1>14. /\ a7 \in Bytes(16)
       /\ a7[1] = Nibbles(v[20]) /\ a7[2] = v[19] /\ a7[3] = v[17] /\ a7[4] = v[18]
       /\ a7[5] = v[15] /\ a7[6] = v[16] /\ a7[7] = v[13] /\ a7[8] = v[14]
       /\ a7[9] = v[12] /\ a7[10] = v[11] /\ a7[11] = v[9] /\ a7[12] = v[10]
       /\ a7[13] = v[8] /\ a7[14] = v[7] /\ a7[15] = v[6] /\ a7[16] = v[5]
  <2>1. IsCat(a7, 12, 4, a6, p7)
    BY <1>13, <1>7, CatIs, SMTT(30)
  <2> HIDE DEF a7
  <2>2. a7 \in Bytes(16) /\ \A i \in 1 .. 16 : a7[i] = IF i <= 12 THEN a6[i] ELSE p7[i - 12]
    BY <2>1 DEF IsCat
  <2> QED
    BY <1>13, <1>7, <2>2, SMTT(30)
<1> HIDE DEF a7
<1>15. /\ a8 \in Bytes(20)
       /\ a8[1] = Nibbles(v[20]) /\ a8[2] = v[19] /\ a8[3] = v[17] /\ a8[4] = v[18]
       /\ a8[5] = v[15] /\ a8[6] = v[16] /\ a8[7] = v[13] /\ a8[8] = v[14]
       /\ a8[9] = v[12] /\ a8[10] = v[11] /\ a8[11] = v[9] /\ a8[12] = v[10]
       /\ a8[13] = v[8] /\ a8[14] = v[7] /\ a8[15] = v[6] /\ a8[16] = v[5]
       /\ a8[17] = v[4] /\ a8[18] = v[3] /\ a8[19] = v[2] /\ a8[20] = v[1]
  <2>1. IsCat(a8, 16, 4, a7, p8)
    BY <1>14, <1>8, CatIs, SMTT(30)
  <2> HIDE DEF a8
  <2>2. a8 \in Bytes(20) /\ \A i \in 1 .. 20 : a8[i] = IF i <= 16 THEN a7[i] ELSE p8[i - 16]
    BY <2>1 DEF IsCat
  <2> QED
    BY <1>14, <1>8, <2>2, SMTT(30)
<1> HIDE DEF a8
<1>16. bitvec_to_ip_header(v) = a8
  BY DEF bitvec_to_ip_header, Nibbles, a2, a3, a4, a5, a6, a7, a8, p1, p2, p3, p4, p5, p6, p7, p8
<1> QED
  BY <1>15, <1>16 DEF IsStructIp

IsWireTcp(w, h) ==
    /\ w \in Bytes(20)
    /\ w[1] = h[2] /\ w[2] = h[1] /\ w[3] = h[4] /\ w[4] = h[3]
    /\ w[5] = h[8] /\ w[6] = h[7] /\ w[7] = h[6] /\ w[8] = h[5]
    /\ w[9] = h[12] /\ w[10] = h[11] /\ w[11] = h[10] /\ w[12] = h[9]
    /\ w[13] = h[13] /\ w[14] = h[14] /\ w[15] = Window \div 256 /\ w[16] = Window % 256
    /\ w[17] = h[17] /\ w[18] = h[18] /\ w[19] = h[19] /\ w[20] = h[20]

LEMMA WireTcp ==
    ASSUME NEW h \in Bytes(20)
    PROVE  IsWireTcp(convert_tcp_header_to_external(h), h)
<1> DEFINE a1 == Swap(h, 0, 2)
           a2 == Swap(a1, 2, 2)
           a3 == Swap(a2, 4, 4)
           a4 == Swap(a3, 8, 4)
           x == BE16(Window)
           a5 == Put(a4, 14, x)
<1>0. x \in Bytes(2) /\ x[1] = Window \div 256 /\ x[2] = Window % 256
  BY LE16Bytes DEF Window
<1> HIDE DEF x
<1>1. /\ a1 \in Bytes(20)
      /\ a1[1] = h[2] /\ a1[2] = h[1] /\ a1[3] = h[3] /\ a1[4] = h[4]
      /\ a1[5] = h[5] /\ a1[6] = h[6] /\ a1[7] = h[7] /\ a1[8] = h[8]
      /\ a1[9] = h[9] /\ a1[10] = h[10] /\ a1[11] = h[11] /\ a1[12] = h[12]
      /\ a1[13] = h[13] /\ a1[14] = h[14] /\ a1[15] = h[15] /\ a1[16] = h[16]
      /\ a1[17] = h[17] /\ a1[18] = h[18] /\ a1[19] = h[19] /\ a1[20] = h[20]
  <2>1. IsSwap(a1, 20, h, 0, 2)
    BY SwapIs
  <2> HIDE DEF a1
  <2>2. a1 \in Bytes(20) /\ \A i \in 1 .. 20 : a1[i] = IF 0 < i /\ i <= 0 + 2 THEN h[0 + (0 + 2 + 1 - i)] ELSE h[i]
    BY <2>1 DEF IsSwap
  <2> QED
    BY <2>2, SMTT(30)
<1> HIDE DEF a1
<1>2. /\ a2 \in Bytes(20)
      /\ a2[1] = h[2] /\ a2[2] = h[1] /\ a2[3] = h[4] /\ a2[4] = h[3]
      /\ a2[5] = h[5] /\ a2[6] = h[6] /\ a2[7] = h[7] /\ a2[8] = h[8]
      /\ a2[9] = h[9] /\ a2[10] = h[10] /\ a2[11] = h[11] /\ a2[12] = h[12]
      /\ a2[13] = h[13] /\ a2[14] = h[14] /\ a2[15] = h[15] /\ a2[16] = h[16]
      /\ a2[17] = h[17] /\ a2[18] = h[18] /\ a2[19] = h[19] /\ a2[20] = h[20]
  <2>1. IsSwap(a2, 20, a1, 2, 2)
    BY <1>1, SwapIs
  <2> HIDE DEF a2
  <2>2. a2 \in Bytes(20) /\ \A i \in 1 .. 20 : a2[i] = IF 2 < i /\ i <= 2 + 2 THEN a1[2 + (2 + 2 + 1 - i)] ELSE a1[i]
    BY <2>1, SMTT(30) DEF IsSwap
  <2> QED
    BY <1>1, <2>2, SMTT(30)
<1> HIDE DEF a2
<1>3. /\ a3 \in Bytes(20)
      /\ a3[1] = h[2] /\ a3[2] = h[1] /\ a3[3] = h[4] /\ a3[4] = h[3]
      /\ a3[5] = h[8] /\ a3[6] = h[7] /\ a3[7] = h[6] /\ a3[8] = h[5]
      /\ a3[9] = h[9] /\ a3[10] = h[10] /\ a3[11] = h[11] /\ a3[12] = h[12]
      /\ a3[13] = h[13] /\ a3[14] = h[14] /\ a3[15] = h[15] /\ a3[16] = h[16]
      /\ a3[17] = h[17] /\ a3[18] = h[18] /\ a3[19] = h[19] /\ a3[20] = h[20]
  <2>1. IsSwap(a3, 20, a2, 4, 4)
    BY <1>2, SwapIs
  <2> HIDE DEF a3
  <2>2. a3 \in Bytes(20) /\ \A i \in 1 .. 20 : a3[i] = IF 4 < i /\ i <= 4 + 4 THEN a2[4 + (4 + 4 + 1 - i)] ELSE a2[i]
    BY <2>1 DEF IsSwap
  <2> QED
    BY <1>2, <2>2, SMTT(30)
<1> HIDE DEF a3
<1>4. /\ a4 \in Bytes(20)
      /\ a4[1] = h[2] /\ a4[2] = h[1] /\ a4[3] = h[4] /\ a4[4] = h[3]
      /\ a4[5] = h[8] /\ a4[6] = h[7] /\ a4[7] = h[6] /\ a4[8] = h[5]
      /\ a4[9] = h[12] /\ a4[10] = h[11] /\ a4[11] = h[10] /\ a4[12] = h[9]
      /\ a4[13] = h[13] /\ a4[14] = h[14] /\ a4[15] = h[15] /\ a4[16] = h[16]
      /\ a4[17] = h[17] /\ a4[18] = h[18] /\ a4[19] = h[19] /\ a4[20] = h[20]
  <2>1. IsSwap(a4, 20, a3, 8, 4)
    BY <1>3, SwapIs
  <2> HIDE DEF a4
  <2>2. a4 \in Bytes(20) /\ \A i \in 1 .. 20 : a4[i] = IF 8 < i /\ i <= 8 + 4 THEN a3[8 + (8 + 4 + 1 - i)] ELSE a3[i]
    BY <2>1 DEF IsSwap
  <2> QED
    BY <1>3, <2>2, SMTT(30)
<1> HIDE DEF a4
<1>5. /\ a5 \in Bytes(20)
      /\ a5[1] = h[2] /\ a5[2] = h[1] /\ a5[3] = h[4] /\ a5[4] = h[3]
      /\ a5[5] = h[8] /\ a5[6] = h[7] /\ a5[7] = h[6] /\ a5[8] = h[5]
      /\ a5[9] = h[12] /\ a5[10] = h[11] /\ a5[11] = h[10] /\ a5[12] = h[9]
      /\ a5[13] = h[13] /\ a5[14] = h[14] /\ a5[15] = Window \div 256 /\ a5[16] = Window % 256
      /\ a5[17] = h[17] /\ a5[18] = h[18] /\ a5[19] = h[19] /\ a5[20] = h[20]
  <2>1. IsPut(a5, 20, a4, 14, 2, x)
    BY <1>0, <1>4, PutIs
  <2> HIDE DEF a5
  <2>2. a5 \in Bytes(20) /\ \A i \in 1 .. 20 : a5[i] = IF 14 < i /\ i <= 14 + 2 THEN x[i - 14] ELSE a4[i]
    BY <2>1 DEF IsPut
  <2> QED
    BY <1>0, <1>4, <2>2, SMTT(30)
<1> HIDE DEF a5
<1>6. convert_tcp_header_to_external(h) = a5
  BY DEF convert_tcp_header_to_external, a1, a2, a3, a4, a5, x
<1> QED
  BY <1>5, <1>6 DEF IsWireTcp

IsWireIp(w, h) ==
    /\ w \in Bytes(20)
    /\ w[1] = h[1] /\ w[2] = h[2] /\ w[3] = h[4] /\ w[4] = h[3]
    /\ w[5] = h[5] /\ w[6] = h[6] /\ w[7] = h[7] /\ w[8] = h[8]
    /\ w[9] = h[9] /\ w[10] = h[10] /\ w[11] = h[11] /\ w[12] = h[12]
    /\ w[13] = h[13] /\ w[14] = h[14] /\ w[15] = h[15] /\ w[16] = h[16]
    /\ w[17] = h[17] /\ w[18] = h[18] /\ w[19] = h[19] /\ w[20] = h[20]

LEMMA WireIp ==
    ASSUME NEW h \in Bytes(20)
    PROVE  IsWireIp(convert_ip_header_to_external(h), h)
<1> DEFINE a1 == Swap(h, 2, 2)
<1>1. /\ a1 \in Bytes(20)
      /\ a1[1] = h[1] /\ a1[2] = h[2] /\ a1[3] = h[4] /\ a1[4] = h[3]
      /\ a1[5] = h[5] /\ a1[6] = h[6] /\ a1[7] = h[7] /\ a1[8] = h[8]
      /\ a1[9] = h[9] /\ a1[10] = h[10] /\ a1[11] = h[11] /\ a1[12] = h[12]
      /\ a1[13] = h[13] /\ a1[14] = h[14] /\ a1[15] = h[15] /\ a1[16] = h[16]
      /\ a1[17] = h[17] /\ a1[18] = h[18] /\ a1[19] = h[19] /\ a1[20] = h[20]
  <2>1. IsSwap(a1, 20, h, 2, 2)
    BY SwapIs
  <2> HIDE DEF a1
  <2>2. a1 \in Bytes(20) /\ \A i \in 1 .. 20 : a1[i] = IF 2 < i /\ i <= 2 + 2 THEN h[2 + (2 + 2 + 1 - i)] ELSE h[i]
    BY <2>1 DEF IsSwap
  <2> QED
    BY <2>2, SMTT(30)
<1> HIDE DEF a1
<1>2. convert_ip_header_to_external(h) = a1
  BY DEF convert_ip_header_to_external, a1
<1> QED
  BY <1>1, <1>2 DEF IsWireIp

LEMMA OneByte ==
    <<5 * 16>> \in Bytes(1) /\ <<5 * 16>>[1] = 5 * 16
<1>1. 5 * 16 \in Byte
  BY DEF Byte
<1> QED
  BY <1>1 DEF Bytes

IsPeerTcp(h, w) ==
    /\ h \in Bytes(20)
    /\ h[1] = w[2] /\ h[2] = w[1] /\ h[3] = w[4] /\ h[4] = w[3]
    /\ h[5] = w[8] /\ h[6] = w[7] /\ h[7] = w[6] /\ h[8] = w[5]
    /\ h[9] = w[12] /\ h[10] = w[11] /\ h[11] = w[10] /\ h[12] = w[9]
    /\ h[13] = 5 * 16 /\ h[14] = w[14] /\ h[15] = w[16] /\ h[16] = w[15]
    /\ h[17] = w[17] /\ h[18] = w[18] /\ h[19] = w[19] /\ h[20] = w[20]

LEMMA PeerTcp ==
    ASSUME NEW w \in Bytes(20)
    PROVE  IsPeerTcp(convert_external_to_tcp_header(w), w)
<1> DEFINE a1 == Swap(w, 8, 4)
           a2 == Swap(a1, 4, 4)
           a3 == Swap(a2, 0, 2)
           a4 == Swap(a3, 2, 2)
           a5 == Swap(a4, 14, 2)
           x == <<5 * 16>>
           a6 == Put(a5, 12, x)
<1>0. x \in Bytes(1) /\ x[1] = 5 * 16
  BY OneByte
<1> HIDE DEF x
<1>1. /\ a1 \in Bytes(20)
      /\ a1[1] = w[1] /\ a1[2] = w[2] /\ a1[3] = w[3] /\ a1[4] = w[4]
      /\ a1[5] = w[5] /\ a1[6] = w[6] /\ a1[7] = w[7] /\ a1[8] = w[8]
      /\ a1[9] = w[12] /\ a1[10] = w[11] /\ a1[11] = w[10] /\ a1[12] = w[9]
      /\ a1[13] = w[13] /\ a1[14] = w[14] /\ a1[15] = w[15] /\ a1[16] = w[16]
      /\ a1[17] = w[17] /\ a1[18] = w[18] /\ a1[19] = w[19] /\ a1[20] = w[20]
  <2>1. IsSwap(a1, 20, w, 8, 4)
    BY SwapIs
  <2> HIDE DEF a1
  <2>2. a1 \in Bytes(20) /\ \A i \in 1 .. 20 : a1[i] = IF 8 < i /\ i <= 8 + 4 THEN w[8 + (8 + 4 + 1 - i)] ELSE w[i]
    BY <2>1 DEF IsSwap
  <2> QED
    BY <2>2, SMTT(30)
<1> HIDE DEF a1
<1>2. /\ a2 \in Bytes(20)
      /\ a2[1] = w[1] /\ a2[2] = w[2] /\ a2[3] = w[3] /\ a2[4] = w[4]
      /\ a2[5] = w[8] /\ a2[6] = w[7] /\ a2[7] = w[6] /\ a2[8] = w[5]
      /\ a2[9] = w[12] /\ a2[10] = w[11] /\ a2[11] = w[10] /\ a2[12] = w[9]
      /\ a2[13] = w[13] /\ a2[14] = w[14] /\ a2[15] = w[15] /\ a2[16] = w[16]
      /\ a2[17] = w[17] /\ a2[18] = w[18] /\ a2[19] = w[19] /\ a2[20] = w[20]
  <2>1. IsSwap(a2, 20, a1, 4, 4)
    BY <1>1, SwapIs
  <2> HIDE DEF a2
  <2>2. a2 \in Bytes(20) /\ \A i \in 1 .. 20 : a2[i] = IF 4 < i /\ i <= 4 + 4 THEN a1[4 + (4 + 4 + 1 - i)] ELSE a1[i]
    BY <2>1 DEF IsSwap
  <2> QED
    BY <1>1, <2>2, SMTT(30)
<1> HIDE DEF a2
<1>3. /\ a3 \in Bytes(20)
      /\ a3[1] = w[2] /\ a3[2] = w[1] /\ a3[3] = w[3] /\ a3[4] = w[4]
      /\ a3[5] = w[8] /\ a3[6] = w[7] /\ a3[7] = w[6] /\ a3[8] = w[5]
      /\ a3[9] = w[12] /\ a3[10] = w[11] /\ a3[11] = w[10] /\ a3[12] = w[9]
      /\ a3[13] = w[13] /\ a3[14] = w[14] /\ a3[15] = w[15] /\ a3[16] = w[16]
      /\ a3[17] = w[17] /\ a3[18] = w[18] /\ a3[19] = w[19] /\ a3[20] = w[20]
  <2>1. IsSwap(a3, 20, a2, 0, 2)
    BY <1>2, SwapIs
  <2> HIDE DEF a3
  <2>2. a3 \in Bytes(20) /\ \A i \in 1 .. 20 : a3[i] = IF 0 < i /\ i <= 0 + 2 THEN a2[0 + (0 + 2 + 1 - i)] ELSE a2[i]
    BY <2>1 DEF IsSwap
  <2> QED
    BY <1>2, <2>2, SMTT(30)
<1> HIDE DEF a3
<1>4. /\ a4 \in Bytes(20)
      /\ a4[1] = w[2] /\ a4[2] = w[1] /\ a4[3] = w[4] /\ a4[4] = w[3]
      /\ a4[5] = w[8] /\ a4[6] = w[7] /\ a4[7] = w[6] /\ a4[8] = w[5]
      /\ a4[9] = w[12] /\ a4[10] = w[11] /\ a4[11] = w[10] /\ a4[12] = w[9]
      /\ a4[13] = w[13] /\ a4[14] = w[14] /\ a4[15] = w[15] /\ a4[16] = w[16]
      /\ a4[17] = w[17] /\ a4[18] = w[18] /\ a4[19] = w[19] /\ a4[20] = w[20]
  <2>1. IsSwap(a4, 20, a3, 2, 2)
    BY <1>3, SwapIs
  <2> HIDE DEF a4
  <2>2. a4 \in Bytes(20) /\ \A i \in 1 .. 20 : a4[i] = IF 2 < i /\ i <= 2 + 2 THEN a3[2 + (2 + 2 + 1 - i)] ELSE a3[i]
    BY <2>1 DEF IsSwap
  <2> QED
    BY <1>3, <2>2, SMTT(30)
<1> HIDE DEF a4
<1>5. /\ a5 \in Bytes(20)
      /\ a5[1] = w[2] /\ a5[2] = w[1] /\ a5[3] = w[4] /\ a5[4] = w[3]
      /\ a5[5] = w[8] /\ a5[6] = w[7] /\ a5[7] = w[6] /\ a5[8] = w[5]
      /\ a5[9] = w[12] /\ a5[10] = w[11] /\ a5[11] = w[10] /\ a5[12] = w[9]
      /\ a5[13] = w[13] /\ a5[14] = w[14] /\ a5[15] = w[16] /\ a5[16] = w[15]
      /\ a5[17] = w[17] /\ a5[18] = w[18] /\ a5[19] = w[19] /\ a5[20] = w[20]
  <2>1. IsSwap(a5, 20, a4, 14, 2)
    BY <1>4, SwapIs
  <2> HIDE DEF a5
  <2>2. a5 \in Bytes(20) /\ \A i \in 1 .. 20 : a5[i] = IF 14 < i /\ i <= 14 + 2 THEN a4[14 + (14 + 2 + 1 - i)] ELSE a4[i]
    BY <2>1 DEF IsSwap
  <2> QED
    BY <1>4, <2>2, SMTT(30)
<1> HIDE DEF a5
<1>6. /\ a6 \in Bytes(20)
      /\ a6[1] = w[2] /\ a6[2] = w[1] /\ a6[3] = w[4] /\ a6[4] = w[3]
      /\ a6[5] = w[8] /\ a6[6] = w[7] /\ a6[7] = w[6] /\ a6[8] = w[5]
      /\ a6[9] = w[12] /\ a6[10] = w[11] /\ a6[11] = w[10] /\ a6[12] = w[9]
      /\ a6[13] = 5 * 16 /\ a6[14] = w[14] /\ a6[15] = w[16] /\ a6[16] = w[15]
      /\ a6[17] = w[17] /\ a6[18] = w[18] /\ a6[19] = w[19] /\ a6[20] = w[20]
  <2>1. IsPut(a6, 20, a5, 12, 1, x)
    BY <1>0, <1>5, PutIs
  <2> HIDE DEF a6
  <2>2. a6 \in Bytes(20) /\ \A i \in 1 .. 20 : a6[i] = IF 12 < i /\ i <= 12 + 1 THEN x[i - 12] ELSE a5[i]
    BY <2>1 DEF IsPut
  <2> QED
    BY <1>0, <1>5, <2>2, SMTT(30)
<1> HIDE DEF a6
<1>7. convert_external_to_tcp_header(w) = a6
  BY DEF convert_external_to_tcp_header, a1, a2, a3, a4, a5, a6, x
<1> QED
  BY <1>6, <1>7 DEF IsPeerTcp

LEMMA FourBytes ==
    ASSUME NEW w \in Byte, NEW x \in Byte, NEW y \in Byte, NEW z \in Byte
    PROVE  /\ <<w, x, y, z>> \in Bytes(4)
           /\ <<w, x, y, z>>[1] = w /\ <<w, x, y, z>>[2] = x
           /\ <<w, x, y, z>>[3] = y /\ <<w, x, y, z>>[4] = z
BY DEF Bytes

LEMMA SmallBytes == 0 \in Byte /\ 5 * 16 \in Byte /\ 4 * 16 + 5 \in Byte /\ 255 \in Byte /\ IPPROTO_TCP \in Byte
BY DEF Byte, IPPROTO_TCP

(* The headers that fill_tcp_header and fill_ip_header put together before   *)
(* the checksum.                                                             *)
FillHeader(seq, ack, fl, sport, dport) ==
    Rev(sport) \o Rev(dport) \o Rev(seq) \o Rev(ack) \o <<5 * 16, fl>> \o BE16(Window) \o <<0, 0, 0, 0>>

FillIp(n) == <<4 * 16 + 5, 0>> \o BE16(40 + n) \o <<0, 0, 0, 0>> \o <<255, IPPROTO_TCP, 0, 0>>

IsFillHeader(h, seq, ack, fl, sport, dport) ==
    /\ h \in Bytes(20)
    /\ h[1] = sport[2] /\ h[2] = sport[1] /\ h[3] = dport[2] /\ h[4] = dport[1]
    /\ h[5] = seq[4] /\ h[6] = seq[3] /\ h[7] = seq[2] /\ h[8] = seq[1]
    /\ h[9] = ack[4] /\ h[10] = ack[3] /\ h[11] = ack[2] /\ h[12] = ack[1]
    /\ h[13] = 5 * 16 /\ h[14] = fl /\ h[15] = Window \div 256 /\ h[16] = Window % 256
    /\ h[17] = 0 /\ h[18] = 0 /\ h[19] = 0 /\ h[20] = 0

LEMMA FillHeaderBytes ==
    ASSUME NEW seq \in Bytes(4), NEW ack \in Bytes(4), NEW fl \in Byte,
           NEW sport \in Bytes(2), NEW dport \in Bytes(2)
    PROVE  IsFillHeader(FillHeader(seq, ack, fl, sport, dport), seq, ack, fl, sport, dport)
<1> DEFINE p1 == Rev(sport)
           p2 == Rev(dport)
           p3 == Rev(seq)
           p4 == Rev(ack)
           p5 == <<5 * 16, fl>>
           p6 == BE16(Window)
           p7 == <<0, 0, 0, 0>>
           a2 == p1 \o p2
           a3 == a2 \o p3
           a4 == a3 \o p4
           a5 == a4 \o p5
           a6 == a5 \o p6
           a7 == a6 \o p7
<1>1. p1 \in Bytes(2) /\ p1[1] = sport[2] /\ p1[2] = sport[1]
  BY Rev2
<1>2. p2 \in Bytes(2) /\ p2[1] = dport[2] /\ p2[2] = dport[1]
  BY Rev2
<1>3. p3 \in Bytes(4) /\ p3[1] = seq[4] /\ p3[2] = seq[3] /\ p3[3] = seq[2] /\ p3[4] = seq[1]
  BY Rev4
<1>4. p4 \in Bytes(4) /\ p4[1] = ack[4] /\ p4[2] = ack[3] /\ p4[3] = ack[2] /\ p4[4] = ack[1]
  BY Rev4
<1>5. p5 \in Bytes(2) /\ p5[1] = 5 * 16 /\ p5[2] = fl
  BY SmallBytes, TwoBytes
<1>6. p6 \in Bytes(2) /\ p6[1] = Window \div 256 /\ p6[2] = Window % 256
  BY LE16Bytes DEF Window
<1>7. p7 \in Bytes(4) /\ p7[1] = 0 /\ p7[2] = 0 /\ p7[3] = 0 /\ p7[4] = 0
  BY SmallBytes, FourBytes
<1> HIDE DEF p1, p2, p3, p4, p5, p6, p7
<1>8. /\ a2 \in Bytes(4)
      /\ a2[1] = sport[2] /\ a2[2] = sport[1] /\ a2[3] = dport[2] /\ a2[4] = dport[1]
  <2>1. IsCat(a2, 2, 2, p1, p2)
    BY <1>1, <1>2, CatIs
  <2> HIDE DEF a2
  <2>2. a2 \in Bytes(4) /\ \A i \in 1 .. 4 : a2[i] = IF i <= 2 THEN p1[i] ELSE p2[i - 2]
    BY <2>1 DEF IsCat
  <2> QED
    BY <1>1, <1>2, <2>2, SMTT(30)
<1> HIDE DEF a2
<1>9. /\ a3 \in Bytes(8)
      /\ a3[1] = sport[2] /\ a3[2] = sport[1] /\ a3[3] = dport[2] /\ a3[4] = dport[1]
      /\ a3[5] = seq[4] /\ a3[6] = seq[3] /\ a3[7] = seq[2] /\ a3[8] = seq[1]
  <2>1. IsCat(a3, 4, 4, a2, p3)
    BY <1>8, <1>3, CatIs
  <2> HIDE DEF a3
  <2>2. a3 \in Bytes(8) /\ \A i \in 1 .. 8 : a3[i] = IF i <= 4 THEN a2[i] ELSE p3[i - 4]
    BY <2>1 DEF IsCat
  <2> QED
    BY <1>8, <1>3, <2>2, SMTT(30)
<1> HIDE DEF a3
<1>10. /\ a4 \in Bytes(12)
       /\ a4[1] = sport[2] /\ a4[2] = sport[1] /\ a4[3] = dport[2] /\ a4[4] = dport[1]
       /\ a4[5] = seq[4] /\ a4[6] = seq[3] /\ a4[7] = seq[2] /\ a4[8] = seq[1]
       /\ a4[9] = ack[4] /\ a4[10] = ack[3] /\ a4[11] = ack[2] /\ a4[12] = ack[1]
  <2>1. IsCat(a4, 8, 4, a3, p4)
    BY <1>9, <1>4, CatIs
  <2> HIDE DEF a4
  <2>2. a4 \in Bytes(12) /\ \A i \in 1 .. 12 : a4[i] = IF i <= 8 THEN a3[i] ELSE p4[i - 8]
    BY <2>1 DEF IsCat
  <2> QED
    BY <1>9, <1>4, <2>2, SMTT(30)
<1> HIDE DEF a4
<1>11. /\ a5 \in Bytes(14)
       /\ a5[1] = sport[2] /\ a5[2] = sport[1] /\ a5[3] = dport[2] /\ a5[4] = dport[1]
       /\ a5[5] = seq[4] /\ a5[6] = seq[3] /\ a5[7] = seq[2] /\ a5[8] = seq[1]
       /\ a5[9] = ack[4] /\ a5[10] = ack[3] /\ a5[11] = ack[2] /\ a5[12] = ack[1]
       /\ a5[13] = 5 * 16 /\ a5[14] = fl
  <2>1. IsCat(a5, 12, 2, a4, p5)
    BY <1>10, <1>5, CatIs, SMTT(30)
  <2> HIDE DEF a5
  <2>2. a5 \in Bytes(14) /\ \A i \in 1 .. 14 : a5[i] = IF i <= 12 THEN a4[i] ELSE p5[i - 12]
    BY <2>1 DEF IsCat
  <2> QED
    BY <1>10, <1>5, <2>2, SMTT(30)
<1> HIDE DEF a5
<1>12. /\ a6 \in Bytes(16)
       /\ a6[1] = sport[2] /\ a6[2] = sport[1] /\ a6[3] = dport[2] /\ a6[4] = dport[1]
       /\ a6[5] = seq[4] /\ a6[6] = seq[3] /\ a6[7] = seq[2] /\ a6[8] = seq[1]
       /\ a6[9] = ack[4] /\ a6[10] = ack[3] /\ a6[11] = ack[2] /\ a6[12] = ack[1]
       /\ a6[13] = 5 * 16 /\ a6[14] = fl /\ a6[15] = Window \div 256 /\ a6[16] = Window % 256
  <2>1. IsCat(a6, 14, 2, a5, p6)
    BY <1>11, <1>6, CatIs
  <2> HIDE DEF a6
  <2>2. a6 \in Bytes(16) /\ \A i \in 1 .. 16 : a6[i] = IF i <= 14 THEN a5[i] ELSE p6[i - 14]
    BY <2>1, SMTT(30) DEF IsCat
  <2> QED
    BY <1>11, <1>6, <2>2, SMTT(30)
<1> HIDE DEF a6
<1>13. /\ a7 \in Bytes(20)
       /\ a7[1] = sport[2] /\ a7[2] = sport[1] /\ a7[3] = dport[2] /\ a7[4] = dport[1]
       /\ a7[5] = seq[4] /\ a7[6] = seq[3] /\ a7[7] = seq[2] /\ a7[8] = seq[1]
       /\ a7[9] = ack[4] /\ a7[10] = ack[3] /\ a7[11] = ack[2] /\ a7[12] = ack[1]
       /\ a7[13] = 5 * 16 /\ a7[14] = fl /\ a7[15] = Window \div 256 /\ a7[16] = Window % 256
       /\ a7[17] = 0 /\ a7[18] = 0 /\ a7[19] = 0 /\ a7[20] = 0
  <2>1. IsCat(a7, 16, 4, a6, p7)
    BY <1>12, <1>7, CatIs
  <2> HIDE DEF a7
  <2>2. a7 \in Bytes(20) /\ \A i \in 1 .. 20 : a7[i] = IF i <= 16 THEN a6[i] ELSE p7[i - 16]
    BY <2>1 DEF IsCat
  <2> QED
    BY <1>12, <1>7, <2>2, SMTT(30)
<1> HIDE DEF a7
<1>14. FillHeader(seq, ack, fl, sport, dport) = a7
  BY DEF FillHeader, a2, a3, a4, a5, a6, a7, p1, p2, p3, p4, p5, p6, p7
<1> QED
  BY <1>13, <1>14 DEF IsFillHeader

IsFillIp(h, n) ==
    /\ h \in Bytes(12)
    /\ h[1] = 4 * 16 + 5 /\ h[2] = 0 /\ h[3] = (40 + n) \div 256 /\ h[4] = (40 + n) % 256
    /\ h[5] = 0 /\ h[6] = 0 /\ h[7] = 0 /\ h[8] = 0
    /\ h[9] = 255 /\ h[10] = IPPROTO_TCP /\ h[11] = 0 /\ h[12] = 0

LEMMA FillIpBytes ==
    ASSUME NEW n \in Nat, Fits16(40 + n)
    PROVE  IsFillIp(FillIp(n), n)
<1> DEFINE p1 == <<4 * 16 + 5, 0>>
           p2 == BE16(40 + n)
           p3 == <<0, 0, 0, 0>>
           p4 == <<255, IPPROTO_TCP, 0, 0>>
           a2 == p1 \o p2
           a3 == a2 \o p3
           a4 == a3 \o p4
<1>1. p1 \in Bytes(2) /\ p1[1] = 4 * 16 + 5 /\ p1[2] = 0
  BY SmallBytes, TwoBytes
<1>2. p2 \in Bytes(2) /\ p2[1] = (40 + n) \div 256 /\ p2[2] = (40 + n) % 256
  BY LE16Bytes DEF Fits16
<1>3. p3 \in Bytes(4) /\ p3[1] = 0 /\ p3[2] = 0 /\ p3[3] = 0 /\ p3[4] = 0
  BY SmallBytes, FourBytes
<1>4. p4 \in Bytes(4) /\ p4[1] = 255 /\ p4[2] = IPPROTO_TCP /\ p4[3] = 0 /\ p4[4] = 0
  BY SmallBytes, FourBytes
<1> HIDE DEF p1, p2, p3, p4
<1>5. /\ a2 \in Bytes(4)
      /\ a2[1] = 4 * 16 + 5 /\ a2[2] = 0 /\ a2[3] = (40 + n) \div 256 /\ a2[4] = (40 + n) % 256
  <2>1. IsCat(a2, 2, 2, p1, p2)
    BY <1>1, <1>2, CatIs
  <2> HIDE DEF a2
  <2>2. a2 \in Bytes(4) /\ \A i \in 1 .. 4 : a2[i] = IF i <= 2 THEN p1[i] ELSE p2[i - 2]
    BY <2>1 DEF IsCat
  <2> QED
    BY <1>1, <1>2, <2>2, SMTT(30)
<1> HIDE DEF a2
<1>6. /\ a3 \in Bytes(8)
      /\ a3[1] = 4 * 16 + 5 /\ a3[2] = 0 /\ a3[3] = (40 + n) \div 256 /\ a3[4] = (40 + n) % 256
      /\ a3[5] = 0 /\ a3[6] = 0 /\ a3[7] = 0 /\ a3[8] = 0
  <2>1. IsCat(a3, 4, 4, a2, p3)
    BY <1>5, <1>3, CatIs
  <2> HIDE DEF a3
  <2>2. a3 \in Bytes(8) /\ \A i \in 1 .. 8 : a3[i] = IF i <= 4 THEN a2[i] ELSE p3[i - 4]
    BY <2>1 DEF IsCat
  <2> QED
    BY <1>5, <1>3, <2>2, SMTT(30)
<1> HIDE DEF a3
<1>7. /\ a4 \in Bytes(12)
      /\ a4[1] = 4 * 16 + 5 /\ a4[2] = 0 /\ a4[3] = (40 + n) \div 256 /\ a4[4] = (40 + n) % 256
      /\ a4[5] = 0 /\ a4[6] = 0 /\ a4[7] = 0 /\ a4[8] = 0
      /\ a4[9] = 255 /\ a4[10] = IPPROTO_TCP /\ a4[11] = 0 /\ a4[12] = 0
  <2>1. IsCat(a4, 8, 4, a3, p4)
    BY <1>6, <1>4, CatIs
  <2> HIDE DEF a4
  <2>2. a4 \in Bytes(12) /\ \A i \in 1 .. 12 : a4[i] = IF i <= 8 THEN a3[i] ELSE p4[i - 8]
    BY <2>1 DEF IsCat
  <2> QED
    BY <1>6, <1>4, <2>2, SMTT(30)
<1> HIDE DEF a4
<1>8. FillIp(n) = a4
  BY DEF FillIp, a2, a3, a4, p1, p2, p3, p4
<1> QED
  BY <1>7, <1>8 DEF IsFillIp

FilledTcp(seq, ack, fl, sport, dport, src, dst) ==
    LET h == FillHeader(seq, ack, fl, sport, dport)
    IN  Put(h, 16, csum(TCPChecksumHeader(src, dst, 20) \o h))

(* fill_tcp_header: a receiver accepts the segment.                          *)
THEOREM FillTcpChecksum ==
    ASSUME NEW seq \in Bytes(4), NEW ack \in Bytes(4), NEW fl \in Byte,
           NEW sport \in Bytes(2), NEW dport \in Bytes(2), NEW src \in Bytes(4), NEW dst \in Bytes(4)
    PROVE  /\ KeepsRest(FilledTcp(seq, ack, fl, sport, dport, src, dst),
                         FillHeader(seq, ack, fl, sport, dport), 17)
           /\ Verifies(TCPChecksumHeader(src, dst, 20)
                          \o FilledTcp(seq, ack, fl, sport, dport, src, dst))
<1> DEFINE h == FillHeader(seq, ack, fl, sport, dport)
           q == TCPChecksumHeader(src, dst, 20)
           x == csum(q \o h)
           t == Put(h, 16, x)
<1>1. h \in Bytes(20) /\ h[16 + 1] = 0 /\ h[16 + 2] = 0
  <2>1. IsFillHeader(h, seq, ack, fl, sport, dport)
    BY FillHeaderBytes
  <2> HIDE DEF h
  <2> QED
    BY <2>1 DEF IsFillHeader
<1>2. q \in Bytes(12)
  <2>1. Fits16(20)
    BY DEF Fits16
  <2> QED
    BY <2>1, PseudoHeader
<1>3. Short(12 + 20) /\ Even(12 + 16) /\ 16 + 2 <= 20
  BY DEF Short, Even
<1> HIDE DEF h, q
<1>4. x \in Bytes(2) /\ Verifies(q \o t)
  BY <1>1, <1>2, <1>3, ChecksumAfter
<1> HIDE DEF x
<1>5. t \in Bytes(20) /\ \A i \in 1 .. 20 : t[i] = IF 16 < i /\ i <= 16 + 2 THEN x[i - 16] ELSE h[i]
  <2>1. IsPut(t, 20, h, 16, 2, x)
    BY <1>1, <1>4, PutIs
  <2> HIDE DEF t
  <2> QED
    BY <2>1 DEF IsPut
<1> HIDE DEF t
<1>6. ASSUME NEW i \in 1 .. 20, i # 17, i # 18 PROVE t[i] = h[i]
  BY <1>5, <1>6
<1>7. KeepsRest(t, h, 17)
  BY <1>5, <1>6 DEF KeepsRest
<1>8. t = FilledTcp(seq, ack, fl, sport, dport, src, dst)
  BY DEF FilledTcp, t, x, q, h
<1> QED
  BY <1>4, <1>7, <1>8, SMTT(30) DEF q, h

(* fill_ip_header: whatever the memory held, a receiver accepts the header,  *)
(* and the addresses are still there.                                        *)
THEOREM FillIpChecksum ==
    ASSUME NEW g \in Bytes(20), NEW n \in Nat, Fits16(40 + n)
    PROVE  LET t == fill_ip_header(g, n)
           IN  /\ t \in Bytes(20) /\ \A i \in 13 .. 20 : t[i] = g[i]
               /\ IpLen(t) = 20 /\ Verifies(Part(t, 0, IpLen(t)))
<1> DEFINE f == FillIp(n)
           h == Put(g, 0, f)
           t == add_ip_checksum(h)
<1>1. f \in Bytes(12) /\ f[1] = 4 * 16 + 5 /\ f[11] = 0 /\ f[12] = 0
  <2>1. IsFillIp(f, n)
    BY FillIpBytes
  <2> HIDE DEF f
  <2> QED
    BY <2>1 DEF IsFillIp
<1>2. fill_ip_header(g, n) = t
  BY DEF fill_ip_header, FillIp
<1> HIDE DEF f
<1>3. h \in Bytes(20) /\ \A i \in 1 .. 20 : h[i] = IF 0 < i /\ i <= 0 + 12 THEN f[i - 0] ELSE g[i]
  <2>1. IsPut(h, 20, g, 0, 12, f)
    BY <1>1, PutIs
  <2> HIDE DEF h
  <2> QED
    BY <2>1 DEF IsPut
<1> HIDE DEF h
<1>4. h[1] = 69 /\ h[11] = 0 /\ h[12] = 0 /\ \A i \in 13 .. 20 : h[i] = g[i]
  BY <1>1, <1>3
<1>5. IpLen(h) = 20 /\ IpLen(h) \in 12 .. 20 /\ Even(IpLen(h))
  BY <1>4 DEF IpLen, Even
<1>6. /\ t \in Bytes(20) /\ \A i \in 1 .. 20 : i # 11 /\ i # 12 => t[i] = h[i]
      /\ IpLen(t) = IpLen(h) /\ Verifies(Part(t, 0, IpLen(t)))
  BY <1>3, <1>4, <1>5, AddIpChecksum
<1> HIDE DEF t
<1>7. \A i \in 13 .. 20 : t[i] = g[i]
  BY <1>4, <1>6
<1> QED
  BY <1>2, <1>5, <1>6, <1>7, SMTT(30)

(***************************************************************************)
(* The chain.  What the headers are at every stage, byte by byte, in terms *)
(* of the vectors that came from the hardware.                             *)
(***************************************************************************)
OnWire(t, v) ==
    /\ t \in Bytes(20)
    /\ t[1] = v[20] /\ t[2] = v[19] /\ t[3] = v[18] /\ t[4] = v[17]
    /\ t[5] = v[16] /\ t[6] = v[15] /\ t[7] = v[14] /\ t[8] = v[13]
    /\ t[9] = v[12] /\ t[10] = v[11] /\ t[11] = v[10] /\ t[12] = v[9]
    /\ t[13] = v[8] /\ t[14] = v[7] /\ t[15] = Window \div 256 /\ t[16] = Window % 256
    /\ t[17] = v[4] /\ t[18] = v[3] /\ t[19] = v[1] /\ t[20] = v[2]

IpOnWire(t, v) ==
    /\ t \in Bytes(20)
    /\ t[1] = Nibbles(v[20]) /\ t[3] = v[18] /\ t[4] = v[17] /\ t[11] = v[9] /\ t[12] = v[10]
    /\ t[13] = v[8] /\ t[14] = v[7] /\ t[15] = v[6] /\ t[16] = v[5]
    /\ t[17] = v[4] /\ t[18] = v[3] /\ t[19] = v[2] /\ t[20] = v[1]

(* With a checksum; fill_tcp_header keeps the ports only.                    *)
Summed(t, v, f) ==
    /\ t \in Bytes(20)
    /\ t[1] = v[20] /\ t[2] = v[19] /\ t[3] = v[18] /\ t[4] = v[17]
    /\ t[15] = Window \div 256 /\ t[16] = Window % 256
    /\ ~f => /\ t[5] = v[16] /\ t[6] = v[15] /\ t[7] = v[14] /\ t[8] = v[13]
             /\ t[9] = v[12] /\ t[10] = v[11] /\ t[11] = v[10] /\ t[12] = v[9]
             /\ t[14] = v[7] /\ t[19] = v[1] /\ t[20] = v[2]

AtPeer(h, v, f) ==
    /\ h \in Bytes(20)
    /\ h[1] = v[19] /\ h[2] = v[20] /\ h[3] = v[17] /\ h[4] = v[18]
    /\ h[13] = 5 * 16 /\ h[15] = Window % 256 /\ h[16] = Window \div 256
    /\ ~f => /\ h[5] = v[13] /\ h[6] = v[14] /\ h[7] = v[15] /\ h[8] = v[16]
             /\ h[9] = v[9] /\ h[10] = v[10] /\ h[11] = v[11] /\ h[12] = v[12]
             /\ h[14] = v[7] /\ h[19] = v[1] /\ h[20] = v[2]

LEMMA ToWireTcp ==
    ASSUME NEW v \in Bytes(20), NEW h, IsStructTcp(h, v)
    PROVE  OnWire(convert_tcp_header_to_external(h), v)
<1> DEFINE w == convert_tcp_header_to_external(h)
<1>1. IsWireTcp(w, h)
  <2>1. h \in Bytes(20)
    BY SMTT(30) DEF IsStructTcp
  <2> QED
    BY <2>1, WireTcp, SMTT(30)
<1> HIDE DEF w
<1>2. OnWire(w, v)
  BY <1>1, SMTT(30) DEF IsWireTcp, IsStructTcp, OnWire
<1> QED
  BY <1>2 DEF w

LEMMA ToWireIp ==
    ASSUME NEW v \in Bytes(20), NEW h, IsStructIp(h, v)
    PROVE  IpOnWire(convert_ip_header_to_external(h), v)
<1> DEFINE w == convert_ip_header_to_external(h)
<1>1. IsWireIp(w, h)
  <2>1. h \in Bytes(20)
    BY SMTT(30) DEF IsStructIp
  <2> QED
    BY <2>1, WireIp
<1> HIDE DEF w
<1>2. IpOnWire(w, v)
  BY <1>1, SMTT(30) DEF IsWireIp, IsStructIp, IpOnWire
<1> QED
  BY <1>2 DEF w

LEMMA ToPeer ==
    ASSUME NEW v \in Bytes(20), NEW f \in BOOLEAN, NEW t, Summed(t, v, f)
    PROVE  AtPeer(convert_external_to_tcp_header(t), v, f)
<1> DEFINE h == convert_external_to_tcp_header(t)
<1>1. IsPeerTcp(h, t)
  <2>1. t \in Bytes(20)
    BY DEF Summed
  <2> QED
    BY <2>1, PeerTcp, SMTT(30)
<1> HIDE DEF h
<1>2. AtPeer(h, v, f)
  BY <1>1, SMTT(30) DEF IsPeerTcp, Summed, AtPeer
<1> QED
  BY <1>2 DEF h

Agree(s, t, f, n) == \A i \in f + 1 .. f + n : s[i] = t[i]

LEMMA PartEqual ==
    ASSUME NEW m \in Nat, NEW k \in Nat, NEW s \in Bytes(m), NEW t \in Bytes(k),
           NEW f \in Nat, NEW n \in Nat, f + n <= m, f + n <= k,
           Agree(s, t, f, n)
    PROVE  Part(s, f, n) = Part(t, f, n)
<1> DEFINE p == Part(s, f, n)
           q == Part(t, f, n)
<1>1. IsPart(p, s, f, n) /\ IsPart(q, t, f, n)
  BY PartIs
<1> HIDE DEF p, q
<1>2. p \in Bytes(n) /\ q \in Bytes(n)
  BY <1>1 DEF IsPart
<1>3. ASSUME NEW i \in 1 .. n PROVE p[i] = q[i]
  <2>1. p[i] = s[f + i] /\ q[i] = t[f + i]
    BY <1>1 DEF IsPart
  <2>2. f + i \in f + 1 .. f + n
    OBVIOUS
  <2> QED
    BY <2>1, <2>2 DEF Agree
<1>4. p = q
  BY <1>2, <1>3, BytesEqual, SMTT(30)
<1> QED
  BY <1>4 DEF p, q

LEMMA Rev20 ==
    ASSUME NEW v \in Bytes(20)
    PROVE  /\ Rev(v) \in Bytes(20)
           /\ \A i \in 1 .. 20 : Rev(v)[i] = v[21 - i]
<1>1. Rev(v) \in Bytes(20) /\ \A i \in 1 .. 20 : Rev(v)[i] = v[20 + 1 - i]
  BY RevBytes
<1> QED
  BY <1>1

(* Two bytes in memory.                                                      *)
LEMMA PairEqual ==
    ASSUME NEW x \in Bytes(2), NEW y \in Bytes(2), x[1] = y[1], x[2] = y[2]
    PROVE  x = y
<1>1. \A i \in 1 .. 2 : x[i] = y[i]
  OBVIOUS
<1> QED
  BY <1>1, BytesEqual

LEMMA WireOrderTcp ==
    ASSUME NEW v \in Bytes(20), NEW t, OnWire(t, v)
    PROVE  /\ Part(t, 0, 14) = Part(Rev(v), 0, 14)
           /\ Part(t, 14, 2) = BE16(Window)
           /\ Part(t, 16, 2) = Part(Rev(v), 16, 2)
<1> DEFINE r == Rev(v)
<1>1. r \in Bytes(20) /\ \A i \in 1 .. 20 : r[i] = v[21 - i]
  BY Rev20
<1> HIDE DEF r
<1>2. t \in Bytes(20)
  BY DEF OnWire
<1>3. Agree(t, r, 0, 14)
  <2> SUFFICES ASSUME NEW i \in 1 .. 14 PROVE t[i] = r[i]
    BY DEF Agree
  <2>1. /\ r[1] = v[20] /\ r[2] = v[19] /\ r[3] = v[18] /\ r[4] = v[17] /\ r[5] = v[16]
        /\ r[6] = v[15] /\ r[7] = v[14] /\ r[8] = v[13] /\ r[9] = v[12] /\ r[10] = v[11]
        /\ r[11] = v[10] /\ r[12] = v[9] /\ r[13] = v[8] /\ r[14] = v[7]
    BY <1>1
  <2>2. \/ i = 1 \/ i = 2 \/ i = 3 \/ i = 4 \/ i = 5 \/ i = 6 \/ i = 7
        \/ i = 8 \/ i = 9 \/ i = 10 \/ i = 11 \/ i = 12 \/ i = 13 \/ i = 14
    OBVIOUS
  <2> QED
    BY <2>1, <2>2, SMTT(30) DEF OnWire
<1>4. Agree(t, r, 16, 2)
  <2> SUFFICES ASSUME NEW i \in 17 .. 18 PROVE t[i] = r[i]
    BY DEF Agree
  <2>1. r[17] = v[4] /\ r[18] = v[3]
    BY <1>1
  <2>2. i = 17 \/ i = 18
    OBVIOUS
  <2> QED
    BY <2>1, <2>2 DEF OnWire
<1>5. Part(t, 0, 14) = Part(r, 0, 14)
  BY <1>1, <1>2, <1>3, PartEqual, SMTT(30)
<1>6. Part(t, 16, 2) = Part(r, 16, 2)
  BY <1>1, <1>2, <1>4, PartEqual
<1>7. Part(t, 14, 2) = BE16(Window)
  <2>1. Part(t, 14, 2) \in Bytes(2) /\ Part(t, 14, 2)[1] = t[15] /\ Part(t, 14, 2)[2] = t[16]
    BY <1>2, Part2
  <2>2. /\ BE16(Window) \in Bytes(2)
        /\ BE16(Window)[1] = Window \div 256 /\ BE16(Window)[2] = Window % 256
    BY LE16Bytes DEF Window
  <2>3. t[15] = Window \div 256 /\ t[16] = Window % 256
    BY DEF OnWire
  <2> DEFINE p == Part(t, 14, 2)
             q == BE16(Window)
  <2>4. p \in Bytes(2) /\ q \in Bytes(2) /\ p[1] = q[1] /\ p[2] = q[2]
    BY <2>1, <2>2, <2>3
  <2> HIDE DEF p, q
  <2>5. p = q
    BY <2>4, PairEqual
  <2> QED
    BY <2>5 DEF p, q
<1> QED
  BY <1>5, <1>6, <1>7, SMTT(30) DEF r

LEMMA WireOrderIp ==
    ASSUME NEW v \in Bytes(20), NEW t, IpOnWire(t, v)
    PROVE  Part(t, 2, 2) = Part(Rev(v), 2, 2) /\ Part(t, 12, 8) = Part(Rev(v), 12, 8)
<1> DEFINE r == Rev(v)
<1>1. r \in Bytes(20) /\ \A i \in 1 .. 20 : r[i] = v[21 - i]
  BY Rev20
<1> HIDE DEF r
<1>2. t \in Bytes(20)
  BY DEF IpOnWire
<1>3. /\ r[3] = v[18] /\ r[4] = v[17] /\ r[13] = v[8] /\ r[14] = v[7] /\ r[15] = v[6]
      /\ r[16] = v[5] /\ r[17] = v[4] /\ r[18] = v[3] /\ r[19] = v[2] /\ r[20] = v[1]
  BY <1>1
<1>4. Agree(t, r, 2, 2)
  <2> SUFFICES ASSUME NEW i \in 3 .. 4 PROVE t[i] = r[i]
    BY DEF Agree
  <2>1. i = 3 \/ i = 4
    OBVIOUS
  <2> QED
    BY <1>3, <2>1 DEF IpOnWire
<1>5. Agree(t, r, 12, 8)
  <2> SUFFICES ASSUME NEW i \in 13 .. 20 PROVE t[i] = r[i]
    BY DEF Agree
  <2>1. i = 13 \/ i = 14 \/ i = 15 \/ i = 16 \/ i = 17 \/ i = 18 \/ i = 19 \/ i = 20
    OBVIOUS
  <2> QED
    BY <1>3, <2>1 DEF IpOnWire
<1>6. Part(t, 2, 2) = Part(r, 2, 2)
  BY <1>1, <1>2, <1>4, PartEqual, SMTT(30)
<1>7. Part(t, 12, 8) = Part(r, 12, 8)
  BY <1>1, <1>2, <1>5, PartEqual, SMTT(30)
<1> QED
  BY <1>6, <1>7, SMTT(30) DEF r

LEMMA VecBack ==
    ASSUME NEW v \in Bytes(20), v[8] = 5 * 16, NEW f \in BOOLEAN, NEW h, AtPeer(h, v, f)
    PROVE  LET w == tcp_header_to_bitvec(h)
           IN  /\ Part(w, 16, 4) = Part(v, 16, 4)
               /\ ~f => Part(w, 6, 10) = Part(v, 6, 10) /\ Part(w, 0, 2) = Part(v, 0, 2)
               /\ Part(w, 4, 2) = LE16(Window)
<1> DEFINE w == tcp_header_to_bitvec(h)
<1>1. IsVecTcp(w, h)
  <2>1. h \in Bytes(20)
    BY DEF AtPeer
  <2> QED
    BY <2>1, VecTcp
<1> HIDE DEF w
<1>2. /\ w \in Bytes(20)
      /\ w[17] = v[17] /\ w[18] = v[18] /\ w[19] = v[19] /\ w[20] = v[20]
      /\ w[5] = Window % 256 /\ w[6] = Window \div 256
  BY <1>1, SMTT(30) DEF IsVecTcp, AtPeer
<1>3. ASSUME ~f
      PROVE  /\ w[7] = v[7] /\ w[8] = v[8] /\ w[9] = v[9] /\ w[10] = v[10] /\ w[11] = v[11]
             /\ w[12] = v[12] /\ w[13] = v[13] /\ w[14] = v[14] /\ w[15] = v[15] /\ w[16] = v[16]
             /\ w[1] = v[1] /\ w[2] = v[2]
  BY <1>1, <1>3 DEF IsVecTcp, AtPeer
<1>4. Part(w, 16, 4) = Part(v, 16, 4)
  <2>1. Agree(w, v, 16, 4)
    <3> SUFFICES ASSUME NEW i \in 17 .. 20 PROVE w[i] = v[i]
      BY DEF Agree
    <3>1. i = 17 \/ i = 18 \/ i = 19 \/ i = 20
      OBVIOUS
    <3> QED
      BY <1>2, <3>1
  <2> QED
    BY <1>2, <2>1, PartEqual
<1>5. ASSUME ~f PROVE Part(w, 6, 10) = Part(v, 6, 10)
  <2>1. Agree(w, v, 6, 10)
    <3> SUFFICES ASSUME NEW i \in 7 .. 16 PROVE w[i] = v[i]
      BY DEF Agree
    <3>1. \/ i = 7 \/ i = 8 \/ i = 9 \/ i = 10 \/ i = 11
          \/ i = 12 \/ i = 13 \/ i = 14 \/ i = 15 \/ i = 16
      OBVIOUS
    <3> QED
      BY <1>3, <1>5, <3>1
  <2> QED
    BY <1>2, <2>1, PartEqual, SMTT(30)
<1>6. ASSUME ~f PROVE Part(w, 0, 2) = Part(v, 0, 2)
  <2>1. Agree(w, v, 0, 2)
    <3> SUFFICES ASSUME NEW i \in 1 .. 2 PROVE w[i] = v[i]
      BY DEF Agree
    <3>1. i = 1 \/ i = 2
      OBVIOUS
    <3> QED
      BY <1>3, <1>6, <3>1, SMTT(30)
  <2> QED
    BY <1>2, <2>1, PartEqual
<1>7. Part(w, 4, 2) = LE16(Window)
  <2> DEFINE p == Part(w, 4, 2)
             q == LE16(Window)
  <2>1. p \in Bytes(2) /\ p[1] = w[5] /\ p[2] = w[6]
    BY <1>2, Part2
  <2>2. q \in Bytes(2) /\ q[1] = Window % 256 /\ q[2] = Window \div 256
    BY LE16Bytes DEF Window
  <2> HIDE DEF p, q
  <2>3. p = q
    BY <1>2, <2>1, <2>2, PairEqual
  <2> QED
    BY <2>3 DEF p, q
<1> QED
  BY <1>4, <1>5, <1>6, <1>7, SMTT(30) DEF w

LEMMA DataBack ==
    ASSUME NEW v \in Bytes(8), NEW b, IsBuf(b, v)
    PROVE  data_swizzle_64_c_buf_to_dpi_longint(b) = v
<1> DEFINE d == [i \in 1 .. 8 |-> b[9 - i]]
<1>1. \A i \in 1 .. 8 : b[9 - i] = v[i]
  <2> SUFFICES ASSUME NEW i \in 1 .. 8 PROVE b[9 - i] = v[i]
    OBVIOUS
  <2>1. i = 1 \/ i = 2 \/ i = 3 \/ i = 4 \/ i = 5 \/ i = 6 \/ i = 7 \/ i = 8
    OBVIOUS
  <2> QED
    BY <2>1 DEF IsBuf
<1>2. d \in Bytes(8) /\ \A i \in 1 .. 8 : d[i] = v[i]
  BY <1>1 DEF Bytes
<1> HIDE DEF d
<1>3. d = v
  BY <1>2, BytesEqual
<1> QED
  BY <1>3 DEF d, data_swizzle_64_c_buf_to_dpi_longint

(* Whatever the field held, add_ip_checksum changes nothing else.            *)
LEMMA AddIpKeeps ==
    ASSUME NEW h \in Bytes(20), IpLen(h) \in 12 .. 20
    PROVE  LET t == add_ip_checksum(h)
           IN  t \in Bytes(20) /\ \A i \in 1 .. 20 : i # 11 /\ i # 12 => t[i] = h[i]
<1> DEFINE len == IpLen(h)
           w == Part(h, 0, len)
           x == csum(w)
           t == Put(h, 10, x)
<1>0. len \in Nat /\ 0 + len <= 20 /\ 20 \in Nat /\ 10 \in Nat /\ 2 \in Nat /\ 0 \in Nat
  OBVIOUS
<1>1. add_ip_checksum(h) = t
  BY DEF add_ip_checksum
<1> HIDE DEF len
<1>2. w \in Bytes(len)
  <2>1. IsPart(w, h, 0, len)
    BY <1>0, PartIs, SMTT(30)
  <2> HIDE DEF w
  <2> QED
    BY <2>1 DEF IsPart
<1> HIDE DEF w
<1>3. x \in Bytes(2)
  <2>1. Short(len)
    BY <1>0 DEF Short
  <2> QED
    BY <1>0, <1>2, <2>1, CsumParts, SMTT(30)
<1> HIDE DEF x
<1>4. t \in Bytes(20) /\ \A i \in 1 .. 20 : t[i] = IF 10 < i /\ i <= 10 + 2 THEN x[i - 10] ELSE h[i]
  <2>1. IsPut(t, 20, h, 10, 2, x)
    BY <1>0, <1>3, PutIs, SMTT(30)
  <2> HIDE DEF t
  <2> QED
    BY <2>1 DEF IsPut
<1> HIDE DEF t
<1>5. ASSUME NEW i \in 1 .. 20, i # 11, i # 12 PROVE t[i] = h[i]
  BY <1>4, <1>5
<1> QED
  BY <1>1, <1>4, <1>5

(* The length that a header from the hardware states on the wire: the halves *)
(* of its first byte are exchanged, so it is the version.                    *)
LEMMA WireIpLen ==
    ASSUME NEW v \in Bytes(20), v[20] \div 16 = 4, NEW t, IpOnWire(t, v)
    PROVE  IpLen(t) = 16 /\ IpLen(t) \in 12 .. 20 /\ Even(IpLen(t))
<1>1. v[20] \in Byte
  BY BytesSeq
<1>2. Nibbles(v[20]) % 16 = 4
  BY <1>1, NibblesSwap, SMTT(30)
<1>3. t[1] = Nibbles(v[20])
  BY DEF IpOnWire
<1>4. IpLen(t) = 16
  BY <1>2, <1>3, SMTT(30) DEF IpLen
<1> QED
  BY <1>4 DEF Even

(* The addresses are read from a header that has the same ones.              *)
LEMMA SameAddresses ==
    ASSUME NEW g \in Bytes(20), NEW h \in Bytes(20), \A i \in 13 .. 20 : h[i] = g[i]
    PROVE  /\ Part(h, 12, 4) = Part(g, 12, 4) /\ Part(h, 16, 4) = Part(g, 16, 4)
           /\ Part(g, 12, 4) \in Bytes(4) /\ Part(g, 16, 4) \in Bytes(4)
<1>1. Agree(h, g, 12, 4) /\ Agree(h, g, 16, 4)
  BY DEF Agree
<1>2. Part(h, 12, 4) = Part(g, 12, 4)
  BY <1>1, PartEqual, SMTT(30)
<1>3. Part(h, 16, 4) = Part(g, 16, 4)
  BY <1>1, PartEqual, SMTT(30)
<1> QED
  BY <1>2, <1>3, Part4, SMTT(30)

LEMMA NoPayload ==
    ASSUME NEW m \in Nat, NEW p \in Bytes(m), NEW k \in Nat, NEW s \in Bytes(k)
    PROVE  s \o Part(p, 0, 0) = s
<1> DEFINE u == Part(p, 0, 0)
<1>1. u \in Bytes(0)
  BY PartBytes
<1> HIDE DEF u
<1>2. u = <<>>
  BY <1>1 DEF Bytes
<1>3. s \in Seq(Byte)
  BY BytesSeq
<1>4. s \o <<>> = s
  BY <1>3
<1> QED
  BY <1>2, <1>4, ZenonT(30) DEF u

LEMMA FillSums ==
    ASSUME NEW v \in Bytes(20), NEW u \in Bytes(20), NEW t, OnWire(t, v), NEW g, IpOnWire(g, u),
           NEW a \in Fills, NEW p \in Bytes(8)
    PROVE  LET y == fill_tcp_header(a, Rev(Part(t, 0, 2)), Rev(Part(t, 2, 2)), Part(g, 12, 4), Part(g, 16, 4))
               z == fill_ip_header(g, 0)
           IN  /\ Summed(y, v, TRUE)
               /\ Verifies(TCPChecksumHeader(Part(z, 12, 4), Part(z, 16, 4), 20) \o y \o Part(p, 0, 0))
               /\ Verifies(Part(z, 0, IpLen(z)))
<1> DEFINE sport == Rev(Part(t, 0, 2))
           dport == Rev(Part(t, 2, 2))
           fl == 2 * a.syn + 16 * a.ackf
           src == Part(g, 12, 4)
           dst == Part(g, 16, 4)
           h == FillHeader(a.seq, a.ack, fl, sport, dport)
           q == TCPChecksumHeader(src, dst, 20)
           y == FilledTcp(a.seq, a.ack, fl, sport, dport, src, dst)
           z == fill_ip_header(g, 0)
<1>1. t \in Bytes(20) /\ g \in Bytes(20)
  BY DEF OnWire, IpOnWire
<1>2. sport \in Bytes(2) /\ sport[1] = t[2] /\ sport[2] = t[1]
  BY <1>1, RevPart2
<1>3. dport \in Bytes(2) /\ dport[1] = t[4] /\ dport[2] = t[3]
  BY <1>1, RevPart2
<1>4. a.seq \in Bytes(4) /\ a.ack \in Bytes(4) /\ fl \in Byte
  <2>1. a.seq \in Bytes(4) /\ a.ack \in Bytes(4) /\ a.syn \in 0 .. 1 /\ a.ackf \in 0 .. 1
    BY HeadersAssumption
  <2>2. (a.syn = 0 \/ a.syn = 1) /\ (a.ackf = 0 \/ a.ackf = 1)
    BY <2>1
  <2>3. fl \in Nat /\ fl < 256
    BY <2>2
  <2> QED
    BY <2>1, <2>3, SMTT(30) DEF Byte
<1>5. fill_tcp_header(a, sport, dport, src, dst) = y
  BY DEF fill_tcp_header, FilledTcp, FillHeader
<1>6. /\ z \in Bytes(20) /\ \A i \in 13 .. 20 : z[i] = g[i]
      /\ Verifies(Part(z, 0, IpLen(z)))
  <2>1. Fits16(40 + 0)
    BY DEF Fits16
  <2> QED
    BY <1>1, <2>1, FillIpChecksum, SMTT(30)
<1> HIDE DEF z
<1>7. Part(z, 12, 4) = src /\ Part(z, 16, 4) = dst /\ src \in Bytes(4) /\ dst \in Bytes(4)
  BY <1>1, <1>6, SameAddresses, SMTT(30)
<1> HIDE DEF src, dst, sport, dport, fl
<1>8. IsFillHeader(h, a.seq, a.ack, fl, sport, dport)
  BY <1>2, <1>3, <1>4, FillHeaderBytes, SMTT(30)
<1>9. /\ y \in Bytes(20) /\ \A i \in 1 .. 20 : i # 17 /\ i # 18 => y[i] = h[i]
      /\ Verifies(q \o y)
  <2>1. KeepsRest(y, h, 17) /\ Verifies(q \o y)
    BY <1>2, <1>3, <1>4, <1>7, FillTcpChecksum, SMTT(30)
  <2> HIDE DEF y, h
  <2> QED
    BY <2>1, SMTT(30) DEF KeepsRest
<1>10. q \o y \in Bytes(12 + 20)
  <2>1. Fits16(20)
    BY DEF Fits16
  <2>2. q \in Bytes(12)
    BY <1>7, <2>1, PseudoHeader, SMTT(30)
  <2> HIDE DEF q, y
  <2> QED
    BY <1>9, <2>2, CatBytes, SMTT(30)
<1> HIDE DEF y, h
<1>11. Summed(y, v, TRUE)
  <2>1. y[1] = h[1] /\ y[2] = h[2] /\ y[3] = h[3] /\ y[4] = h[4] /\ y[15] = h[15] /\ y[16] = h[16]
    BY <1>9, SMTT(30)
  <2>2. /\ h[1] = sport[2] /\ h[2] = sport[1] /\ h[3] = dport[2] /\ h[4] = dport[1]
        /\ h[15] = Window \div 256 /\ h[16] = Window % 256
    BY <1>8, SMTT(30) DEF IsFillHeader
  <2>3. t[1] = v[20] /\ t[2] = v[19] /\ t[3] = v[18] /\ t[4] = v[17]
    BY DEF OnWire
  <2> QED
    BY <1>2, <1>3, <1>9, <2>1, <2>2, <2>3, SMTT(30) DEF Summed
<1>12. (q \o y) \o Part(p, 0, 0) = q \o y
  <2> DEFINE s == q \o y
  <2>1. s \in Bytes(32)
    BY <1>10
  <2> HIDE DEF s
  <2>2. s \o Part(p, 0, 0) = s
    BY <2>1, NoPayload, ZenonT(30)
  <2> QED
    BY <2>2 DEF s
<1>13. q = TCPChecksumHeader(Part(z, 12, 4), Part(z, 16, 4), 20)
  BY <1>7
<1> HIDE DEF q
<1>14. Verifies(TCPChecksumHeader(Part(z, 12, 4), Part(z, 16, 4), 20) \o y \o Part(p, 0, 0))
  BY <1>9, <1>12, <1>13, ZenonT(30)
<1>15. y = fill_tcp_header(a, Rev(Part(t, 0, 2)), Rev(Part(t, 2, 2)), Part(g, 12, 4), Part(g, 16, 4))
  BY <1>5 DEF sport, dport, src, dst
<1> QED
  BY <1>6, <1>11, <1>14, <1>15, ZenonT(30) DEF z

LEMMA AddSums ==
    ASSUME NEW v \in Bytes(20), v[8] = 5 * 16, NEW u \in Bytes(20), u[20] \div 16 = 4,
           NEW t, OnWire(t, v), NEW g, IpOnWire(g, u), NEW p \in Bytes(8), NEW n \in 0 .. 8
    PROVE  LET y == Part(add_tcp_checksum(t \o p, n, Part(g, 12, 4), Part(g, 16, 4)), 0, 20)
               z == add_ip_checksum(g)
           IN  /\ Summed(y, v, FALSE)
               /\ Verifies(TCPChecksumHeader(Part(z, 12, 4), Part(z, 16, 4), 20 + n) \o y \o Part(p, 0, n))
               /\ Part(u, 8, 2) = <<0, 0>> => Verifies(Part(z, 0, IpLen(z)))
<1> DEFINE src == Part(g, 12, 4)
           dst == Part(g, 16, 4)
           y == AddedTcp(t, p, n, src, dst)
           z == add_ip_checksum(g)
<1>1. t \in Bytes(20) /\ g \in Bytes(20)
  BY DEF OnWire, IpOnWire
<1>2. IpLen(g) \in 12 .. 20 /\ Even(IpLen(g))
  BY WireIpLen
<1>3. z \in Bytes(20) /\ \A i \in 1 .. 20 : i # 11 /\ i # 12 => z[i] = g[i]
  BY <1>1, <1>2, AddIpKeeps
<1>4. ASSUME Part(u, 8, 2) = <<0, 0>> PROVE Verifies(Part(z, 0, IpLen(z)))
  <2>1. u[9] = 0 /\ u[10] = 0
    <3>1. Part(u, 8, 2)[1] = u[9] /\ Part(u, 8, 2)[2] = u[10]
      BY Part2, SMTT(30)
    <3> QED
      BY <1>4, <3>1, SMTT(30)
  <2>2. g[11] = 0 /\ g[12] = 0
    BY <2>1, SMTT(30) DEF IpOnWire
  <2> QED
    BY <1>1, <1>2, <2>2, AddIpChecksum, SMTT(30)
<1> HIDE DEF z
<1>5. Part(z, 12, 4) = src /\ Part(z, 16, 4) = dst /\ src \in Bytes(4) /\ dst \in Bytes(4)
  <2>1. \A i \in 13 .. 20 : z[i] = g[i]
    BY <1>3
  <2> QED
    BY <1>1, <1>3, <2>1, SameAddresses, SMTT(30)
<1> HIDE DEF src, dst
<1>6. t[13] \div 16 = 5
  <2>1. t[13] = 80
    BY DEF OnWire
  <2> QED
    BY <2>1, SMTT(30)
<1>7. n \in Nat /\ n <= 8 /\ Fits16(20 + n) /\ Short(12 + (20 + n))
  BY DEF Fits16, Short
<1>8. /\ y \in Bytes(20) /\ \A i \in 1 .. 20 : i # 17 /\ i # 18 => y[i] = t[i]
      /\ Verifies(TCPChecksumHeader(src, dst, 20 + n) \o y \o Part(p, 0, n))
  <2>1. /\ KeepsRest(y, t, 17)
        /\ Verifies(TCPChecksumHeader(src, dst, 20 + n) \o y \o Part(p, 0, n))
    BY <1>1, <1>5, <1>6, <1>7, AddTcpChecksum, SMTT(30)
  <2> HIDE DEF y
  <2> QED
    BY <2>1, SMTT(30) DEF KeepsRest
<1> HIDE DEF y
<1>9. Summed(y, v, FALSE)
  <2>1. /\ y[1] = t[1] /\ y[2] = t[2] /\ y[3] = t[3] /\ y[4] = t[4] /\ y[5] = t[5] /\ y[6] = t[6]
        /\ y[7] = t[7] /\ y[8] = t[8] /\ y[9] = t[9] /\ y[10] = t[10] /\ y[11] = t[11]
        /\ y[12] = t[12] /\ y[14] = t[14] /\ y[15] = t[15] /\ y[16] = t[16]
        /\ y[19] = t[19] /\ y[20] = t[20]
    BY <1>8
  <2> QED
    BY <1>8, <2>1, SMTT(30) DEF OnWire, Summed
<1>10. Verifies(TCPChecksumHeader(Part(z, 12, 4), Part(z, 16, 4), 20 + n) \o y \o Part(p, 0, n))
  BY <1>5, <1>8, SMTT(30)
<1> QED
  BY <1>4, <1>9, <1>10, ZenonT(30) DEF y, z, src, dst, AddedTcp

HInv ==
    /\ hw \in Vectors /\ filled \in BOOLEAN
    /\ stage \in {"hw", "struct", "wire"} => ~filled
    /\ stage = "struct" => IsStructTcp(tcp, hw.tcp) /\ IsStructIp(ip, hw.ip)
    /\ stage = "wire" => OnWire(tcp, hw.tcp) /\ IpOnWire(ip, hw.ip)
    /\ stage = "summed" => Summed(tcp, hw.tcp, filled)
    /\ stage = "peer" => AtPeer(tcp, hw.tcp, filled)
    /\ stage # "hw" => IsBuf(payload, hw.data)
    /\ TcpChecksumValid /\ IpChecksumValid /\ WireOrder /\ RoundTrip

LEMMA VectorBytes ==
    ASSUME hw \in Vectors
    PROVE  /\ hw.tcp \in Bytes(20) /\ hw.tcp[8] = 5 * 16
           /\ hw.ip \in Bytes(20) /\ hw.ip[20] \div 16 = 4
           /\ hw.data \in Bytes(8) /\ hw.len \in 0 .. 8
BY HeadersAssumption, SMTT(30)

LEMMA InitHInv == Init => HInv
BY ZenonT(30) DEF Init, HInv, TcpChecksumValid, IpChecksumValid, WireOrder, RoundTrip

LEMMA FromHwHInv == HInv /\ FromHw => HInv'
<1> SUFFICES ASSUME HInv, FromHw PROVE HInv'
  OBVIOUS
<1>1. stage' = "struct" /\ hw' = hw /\ hw \in Vectors /\ filled' = FALSE
  BY DEF HInv, FromHw
<1>2. IsStructTcp(tcp', hw.tcp) /\ IsStructIp(ip', hw.ip) /\ IsBuf(payload', hw.data)
  <2>1. tcp' = bitvec_to_tcp_header(hw.tcp) /\ ip' = bitvec_to_ip_header(hw.ip)
    BY DEF FromHw
  <2>2. payload' = data_swizzle_64_bitvec_to_c_buf(hw.data)
    BY DEF FromHw
  <2>3. hw.tcp \in Bytes(20) /\ hw.ip \in Bytes(20) /\ hw.data \in Bytes(8)
    BY <1>1, VectorBytes
  <2>4. IsStructTcp(bitvec_to_tcp_header(hw.tcp), hw.tcp)
    BY <2>3, StructTcp
  <2>5. IsStructIp(bitvec_to_ip_header(hw.ip), hw.ip)
    BY <2>3, StructIp
  <2>6. IsBuf(data_swizzle_64_bitvec_to_c_buf(hw.data), hw.data)
    BY <2>3, BufOf
  <2> QED
    BY <2>1, <2>2, <2>4, <2>5, <2>6, SMTT(30)
<1>3. IsStructTcp(tcp', hw'.tcp) /\ IsStructIp(ip', hw'.ip) /\ IsBuf(payload', hw'.data)
  BY <1>1, <1>2, SMTT(30)
<1> QED
  BY <1>1, <1>3, ZenonT(30) DEF HInv, TcpChecksumValid, IpChecksumValid, WireOrder, RoundTrip

LEMMA ToWireHInv == HInv /\ ToWire => HInv'
<1> SUFFICES ASSUME HInv, ToWire PROVE HInv'
  OBVIOUS
<1>1. /\ stage' = "wire" /\ hw' = hw /\ hw \in Vectors /\ filled' = FALSE
      /\ payload' = payload /\ IsBuf(payload, hw.data)
  BY DEF HInv, ToWire
<1>2. hw.tcp \in Bytes(20) /\ hw.ip \in Bytes(20)
  BY <1>1, VectorBytes
<1>3. OnWire(tcp', hw.tcp)
  <2>1. IsStructTcp(tcp, hw.tcp) /\ tcp' = convert_tcp_header_to_external(tcp)
    BY SMTT(30) DEF HInv, ToWire
  <2>2. OnWire(convert_tcp_header_to_external(tcp), hw.tcp)
    BY <1>2, <2>1, ToWireTcp, SMTT(30)
  <2> QED
    BY <2>1, <2>2
<1>4. IpOnWire(ip', hw.ip)
  <2>1. IsStructIp(ip, hw.ip) /\ ip' = convert_ip_header_to_external(ip)
    BY DEF HInv, ToWire
  <2>2. IpOnWire(convert_ip_header_to_external(ip), hw.ip)
    BY <1>2, <2>1, ToWireIp, SMTT(30)
  <2> QED
    BY <2>1, <2>2, SMTT(30)
<1>5. /\ Part(tcp', 0, 14) = Part(Rev(hw.tcp), 0, 14)
      /\ Part(tcp', 14, 2) = BE16(Window)
      /\ Part(tcp', 16, 2) = Part(Rev(hw.tcp), 16, 2)
  BY <1>2, <1>3, WireOrderTcp, SMTT(30)
<1>6. Part(ip', 2, 2) = Part(Rev(hw.ip), 2, 2) /\ Part(ip', 12, 8) = Part(Rev(hw.ip), 12, 8)
  BY <1>2, <1>4, WireOrderIp, SMTT(30)
<1>7. WireOrder'
  BY <1>1, <1>5, <1>6, SMTT(30) DEF WireOrder
<1> QED
  BY <1>1, <1>3, <1>4, <1>7, ZenonT(30) DEF HInv, TcpChecksumValid, IpChecksumValid, RoundTrip

LEMMA BufBytes ==
    ASSUME NEW b, NEW v, IsBuf(b, v)
    PROVE  b \in Bytes(8)
BY SMTT(30) DEF IsBuf

LEMMA FillHInv == ASSUME NEW a \in Fills PROVE HInv /\ Fill(a) => HInv'
<1> SUFFICES ASSUME HInv, Fill(a) PROVE HInv'
  OBVIOUS
<1>1. /\ stage' = "summed" /\ hw' = hw /\ hw \in Vectors /\ filled' = TRUE
      /\ payload' = payload /\ IsBuf(payload, hw.data)
      /\ OnWire(tcp, hw.tcp) /\ IpOnWire(ip, hw.ip)
  BY SMTT(30) DEF HInv, Fill
<1>2. hw.tcp \in Bytes(20) /\ hw.ip \in Bytes(20) /\ payload \in Bytes(8)
  BY <1>1, VectorBytes, BufBytes, SMTT(30)
<1>3. /\ ip' = fill_ip_header(ip, 0)
      /\ tcp' = fill_tcp_header(a, Rev(Part(tcp, 0, 2)), Rev(Part(tcp, 2, 2)), Part(ip, 12, 4), Part(ip, 16, 4))
  BY SMTT(30) DEF Fill, Src, Dst
<1>4. /\ Summed(tcp', hw.tcp, TRUE)
      /\ Verifies(TCPChecksumHeader(Part(ip', 12, 4), Part(ip', 16, 4), 20) \o tcp' \o Part(payload, 0, 0))
      /\ Verifies(Part(ip', 0, IpLen(ip')))
  BY <1>1, <1>2, <1>3, FillSums, ZenonT(30)
<1>5. TcpChecksumValid'
  <2>1. (IF filled' THEN 0 ELSE hw'.len) = 0 /\ 20 + 0 = 20
    BY <1>1
  <2> QED
    BY <1>1, <1>4, <2>1, SMTT(30) DEF TcpChecksumValid, Src, Dst
<1>6. IpChecksumValid'
  BY <1>4, SMTT(30) DEF IpChecksumValid
<1> QED
  BY <1>1, <1>4, <1>5, <1>6, ZenonT(30) DEF HInv, WireOrder, RoundTrip

LEMMA AddHInv == HInv /\ AddChecksums => HInv'
<1> SUFFICES ASSUME HInv, AddChecksums PROVE HInv'
  OBVIOUS
<1>1. /\ stage' = "summed" /\ hw' = hw /\ hw \in Vectors /\ filled' = FALSE
      /\ payload' = payload /\ IsBuf(payload, hw.data)
      /\ OnWire(tcp, hw.tcp) /\ IpOnWire(ip, hw.ip)
  BY SMTT(30) DEF HInv, AddChecksums
<1>2. /\ hw.tcp \in Bytes(20) /\ hw.tcp[8] = 5 * 16 /\ hw.ip \in Bytes(20) /\ hw.ip[20] \div 16 = 4
      /\ payload \in Bytes(8) /\ hw.len \in 0 .. 8
  BY <1>1, VectorBytes, BufBytes, ZenonT(30)
<1>3. /\ ip' = add_ip_checksum(ip)
      /\ tcp' = Part(add_tcp_checksum(tcp \o payload, hw.len, Part(ip, 12, 4), Part(ip, 16, 4)), 0, 20)
  BY SMTT(30) DEF AddChecksums, Src, Dst
<1>4. /\ Summed(tcp', hw.tcp, FALSE)
      /\ Verifies(TCPChecksumHeader(Part(ip', 12, 4), Part(ip', 16, 4), 20 + hw.len) \o tcp'
                     \o Part(payload, 0, hw.len))
      /\ Part(hw.ip, 8, 2) = <<0, 0>> => Verifies(Part(ip', 0, IpLen(ip')))
  BY <1>1, <1>2, <1>3, AddSums, ZenonT(60)
<1>5. TcpChecksumValid'
  <2>1. (IF filled' THEN 0 ELSE hw'.len) = hw.len
    BY <1>1
  <2> QED
    BY <1>1, <1>4, <2>1 DEF TcpChecksumValid, Src, Dst
<1>6. IpChecksumValid'
  BY <1>1, <1>4 DEF IpChecksumValid
<1> QED
  BY <1>1, <1>4, <1>5, <1>6, ZenonT(30) DEF HInv, WireOrder, RoundTrip

LEMMA ToStructHInv == HInv /\ ToStruct => HInv'
<1> SUFFICES ASSUME HInv, ToStruct PROVE HInv'
  OBVIOUS
<1>1. /\ stage' = "peer" /\ hw' = hw /\ hw \in Vectors /\ filled' = filled /\ filled \in BOOLEAN
      /\ payload' = payload /\ IsBuf(payload, hw.data) /\ Summed(tcp, hw.tcp, filled)
      /\ tcp' = convert_external_to_tcp_header(tcp)
  BY SMTT(30) DEF HInv, ToStruct
<1>2. hw.tcp \in Bytes(20)
  BY <1>1, VectorBytes, SMTT(30)
<1>3. AtPeer(tcp', hw.tcp, filled)
  BY <1>1, <1>2, ToPeer, SMTT(30)
<1> QED
  BY <1>1, <1>3, ZenonT(30) DEF HInv, TcpChecksumValid, IpChecksumValid, WireOrder, RoundTrip

LEMMA ToHwHInv == HInv /\ ToHw => HInv'
<1> SUFFICES ASSUME HInv, ToHw PROVE HInv'
  OBVIOUS
<1>1. /\ stage' = "back" /\ hw' = hw /\ hw \in Vectors /\ filled' = filled /\ filled \in BOOLEAN
      /\ payload' = payload /\ IsBuf(payload, hw.data) /\ AtPeer(tcp, hw.tcp, filled)
      /\ vec' = tcp_header_to_bitvec(tcp)
      /\ data' = data_swizzle_64_c_buf_to_dpi_longint(payload)
  BY SMTT(30) DEF HInv, ToHw
<1>2. hw.tcp \in Bytes(20) /\ hw.tcp[8] = 5 * 16 /\ hw.data \in Bytes(8)
  BY <1>1, VectorBytes, ZenonT(30)
<1>3. data' = hw.data
  BY <1>1, <1>2, DataBack, SMTT(30)
<1>4. /\ Part(vec', 16, 4) = Part(hw.tcp, 16, 4)
      /\ ~filled => Part(vec', 6, 10) = Part(hw.tcp, 6, 10) /\ Part(vec', 0, 2) = Part(hw.tcp, 0, 2)
      /\ Part(vec', 4, 2) = LE16(Window)
  BY <1>1, <1>2, VecBack, SMTT(30)
<1>5. RoundTrip'
  BY <1>1, <1>3, <1>4 DEF RoundTrip
<1> QED
  BY <1>1, <1>5, ZenonT(30) DEF HInv, TcpChecksumValid, IpChecksumValid, WireOrder

LEMMA HeadersInvariant == Spec => []HInv
<1>1. HInv /\ [Next]_vars => HInv'
  <2> SUFFICES ASSUME HInv, [Next]_vars PROVE HInv'
    OBVIOUS
  <2>1. CASE Next
    BY <2>1, FromHwHInv, ToWireHInv, FillHInv, AddHInv, ToStructHInv, ToHwHInv, SMTT(30) DEF Next
  <2>2. CASE UNCHANGED vars
    BY <2>2, ZenonT(30) DEF vars, HInv, TcpChecksumValid, IpChecksumValid, WireOrder, RoundTrip, Src, Dst
  <2> QED
    BY <2>1, <2>2
<1> QED
  BY InitHInv, <1>1, PTL DEF Spec

(* Whatever the hardware sends and whatever the arguments of                 *)
(* fill_tcp_header, a receiver accepts every segment with the checksum that  *)
(* add_tcp_checksum or fill_tcp_header wrote.                                *)
THEOREM TcpChecksumsVerify == Spec => []TcpChecksumValid
<1>1. HInv => TcpChecksumValid
  BY SMTT(30) DEF HInv
<1> QED
  BY HeadersInvariant, <1>1, PTL

(* The same for the IP header: always after fill_ip_header, and after        *)
(* add_ip_checksum when the field was 0.                                     *)
THEOREM IpChecksumsVerify == Spec => []IpChecksumValid
<1>1. HInv => IpChecksumValid
  BY SMTT(30) DEF HInv
<1> QED
  BY HeadersInvariant, <1>1, PTL

(* The conversions put every field in its place on the wire, in network byte *)
(* order, for every header vector.                                           *)
THEOREM WireIsInOrder == Spec => []WireOrder
<1>1. HInv => WireOrder
  BY SMTT(30) DEF HInv
<1> QED
  BY HeadersInvariant, <1>1, PTL

(* Every header and payload survives the way to the wire and back.           *)
THEOREM SegmentsComeBack == Spec => []RoundTrip
<1>1. HInv => RoundTrip
  BY DEF HInv
<1> QED
  BY HeadersInvariant, <1>1, PTL
=============================================================================
