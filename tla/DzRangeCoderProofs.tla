-------------------------- MODULE DzRangeCoderProofs --------------------------
(***************************************************************************)
(* What holds of the range coder for bytes, words, models and streams of   *)
(* any size: the models stay sound; what the encoder sends, the decoder    *)
(* reads, from the same intervals; and it ends where the stream does.      *)
(*                                                                         *)
(* Models: the nodes of the tree hold the sums over the symbols between    *)
(* an index and the index without its lowest bit.                          *)
(*                                                                         *)
(* Coders: the encoder goes through intervals, its places.  Each turn      *)
(* narrows the words that the decoder may yet see at every place before;   *)
(* the terminator, whatever follows it, is a word of the last one, so the  *)
(* input has a word of each, and there the decoder can but follow.         *)
(***************************************************************************)
EXTENDS DzRangeCoder, Sums

-----------------------------------------------------------------------------
(* Numbers *)

\* A larger factor does not make a smaller product.
LEMMA TimesLeq ==
  ASSUME NEW a \in Nat, NEW b \in Nat, NEW c \in Nat, a <= b
  PROVE  a * c <= b * c /\ c * a <= c * b
<1>1. PICK d \in Nat : b = a + d
  <2>1. b - a \in Nat /\ b = a + (b - a)
    OBVIOUS
  <2>2. QED
    BY <2>1
<1>2. b * c = a * c + d * c /\ d * c \in Nat /\ a * c \in Nat
  BY <1>1
<1>3. c * a = a * c /\ c * b = b * c
  OBVIOUS
<1>4. QED
  BY <1>2, <1>3

\* A larger product has a larger factor.
LEMMA TimesLess ==
  ASSUME NEW a \in Nat, NEW b \in Nat, NEW c \in Nat, a * c < b * c
  PROVE  a < b
<1>1. CASE b <= a
  BY <1>1, TimesLeq
<1>2. QED
  BY <1>1

\* One more multiple.
LEMMA TimesNext ==
  ASSUME NEW a \in Nat, NEW b \in Nat, NEW c \in Nat, a < b
  PROVE  a * c + c <= b * c
<1>1. (a + 1) * c = a * c + c
  OBVIOUS
<1>2. QED
  BY <1>1, TimesLeq

\* q is the quotient of x and m, and r what remains.
Splits(x, m, q, r) == q \in Nat /\ r \in 0 .. m - 1 /\ x = q * m + r

\* What a quotient and a remainder are.
LEMMA Split ==
  ASSUME NEW x \in Nat, NEW m \in Nat \ {0}
  PROVE  Splits(x, m, x \div m, x % m)
<1>1. PICK q : q = x \div m
  OBVIOUS
<1>2. PICK r : r = x % m
  OBVIOUS
<1>3. q \in Int /\ r \in Int /\ x = q * m + r /\ r >= 0 /\ r < m
  BY <1>1, <1>2
<1>4. q >= 0
  <2>1. ASSUME q < 0 PROVE FALSE
    <3>1. q + 1 <= 0 /\ (q + 1) * m = q * m + m
      BY <1>3, <2>1
    <3>2. PICK d \in Nat : d = -(q + 1)
      BY <1>3, <3>1
    <3>3. d * m \in Nat /\ d * m = -((q + 1) * m)
      BY <1>3, <3>2
    <3>4. QED
      BY <1>3, <3>1, <3>3
  <2>2. QED
    BY <1>3, <2>1
<1>5. q \in Nat /\ r \in 0 .. m - 1
  BY <1>3, <1>4
<1>6. Splits(x, m, q, r)
  BY <1>3, <1>5, Zenon DEF Splits
<1>7. QED
  BY <1>1, <1>2, <1>6, Zenon

\* There is one of each.
LEMMA SplitIs ==
  ASSUME NEW m \in Nat \ {0}, NEW q \in Nat, NEW r \in 0 .. m - 1, NEW x, x = q * m + r
  PROVE  x \div m = q /\ x % m = r
<1>1. x \in Nat
  BY TimesLeq
<1>2. PICK p : p = x \div m
  OBVIOUS
<1>3. PICK s : s = x % m
  OBVIOUS
<1>4. p \in Nat /\ s \in 0 .. m - 1 /\ x = p * m + s
  BY <1>1, <1>2, <1>3, Split, Zenon DEF Splits
<1>5. PICK pm : pm = p * m
  OBVIOUS
<1>6. PICK qm : qm = q * m
  OBVIOUS
<1>7. pm \in Nat /\ qm \in Nat /\ pm + s = qm + r
  BY <1>4, <1>5, <1>6
<1>8. p = q
  <2>1. ASSUME p < q PROVE FALSE
    <3>1. pm + m <= qm
      BY <1>4, <1>5, <1>6, <2>1, TimesNext
    <3>2. QED
      BY <1>4, <1>7, <3>1
  <2>2. ASSUME q < p PROVE FALSE
    <3>1. qm + m <= pm
      BY <1>4, <1>5, <1>6, <2>2, TimesNext
    <3>2. QED
      BY <1>4, <1>7, <3>1
  <2>3. QED
    BY <1>4, <2>1, <2>2
<1>9. s = r
  BY <1>4, <1>5, <1>6, <1>7, <1>8
<1>10. QED
  BY <1>2, <1>3, <1>8, <1>9

\* The same of a split.
LEMMA SplitOf ==
  ASSUME NEW x, NEW m \in Nat \ {0}, NEW q, NEW r, Splits(x, m, q, r)
  PROVE  x \div m = q /\ x % m = r
BY SplitIs, Zenon DEF Splits

\* What is below the divisor.
LEMMA SmallRemainder ==
  ASSUME NEW m \in Nat \ {0}, NEW x \in 0 .. m - 1 PROVE x % m = x /\ x \div m = 0
<1>1. x = 0 * m + x /\ 0 \in Nat
  OBVIOUS
<1>2. QED
  BY <1>1, SplitIs

\* The multiple itself leaves nothing.
LEMMA WholeRemainder ==
  ASSUME NEW m \in Nat \ {0} PROVE m % m = 0
<1>1. m = 1 * m + 0 /\ 1 \in Nat /\ 0 \in 0 .. m - 1
  OBVIOUS
<1>2. QED
  BY <1>1, SplitIs

\* A larger number has no smaller quotient.
LEMMA QuotientLeq ==
  ASSUME NEW x \in Nat, NEW y \in Nat, x <= y, NEW m \in Nat \ {0}
  PROVE  x \div m <= y \div m
<1>1. PICK p : p = x \div m
  OBVIOUS
<1>2. PICK q : q = y \div m
  OBVIOUS
<1>3. PICK r : r = x % m
  OBVIOUS
<1>4. PICK s : s = y % m
  OBVIOUS
<1>5. p \in Nat /\ r \in 0 .. m - 1 /\ x = p * m + r
  BY <1>1, <1>3, Split, Zenon DEF Splits
<1>6. q \in Nat /\ s \in 0 .. m - 1 /\ y = q * m + s
  BY <1>2, <1>4, Split, Zenon DEF Splits
<1>7. PICK pm : pm = p * m
  OBVIOUS
<1>8. PICK qm : qm = q * m
  OBVIOUS
<1>9. pm \in Nat /\ qm \in Nat /\ x = pm + r /\ y = qm + s
  BY <1>5, <1>6, <1>7, <1>8
<1>10. ASSUME q < p PROVE FALSE
  <2>1. qm + m <= pm
    BY <1>5, <1>6, <1>7, <1>8, <1>10, TimesNext
  <2>2. QED
    BY <1>5, <1>6, <1>9, <2>1
<1>11. QED
  BY <1>1, <1>2, <1>5, <1>6, <1>10

\* Dividing twice.
LEMMA QuotientTwice ==
  ASSUME NEW x \in Nat, NEW m \in Nat \ {0}, NEW n \in Nat \ {0}
  PROVE  x \div (m * n) = (x \div m) \div n
<1>1. PICK q : q = x \div m
  OBVIOUS
<1>2. PICK r : r = x % m
  OBVIOUS
<1>3. q \in Nat /\ r \in 0 .. m - 1 /\ x = q * m + r
  BY <1>1, <1>2, Split, Zenon DEF Splits
<1>4. PICK s : s = q \div n
  OBVIOUS
<1>5. PICK t : t = q % n
  OBVIOUS
<1>6. s \in Nat /\ t \in 0 .. n - 1 /\ q = s * n + t
  BY <1>3, <1>4, <1>5, Split, Zenon DEF Splits
<1>7. PICK k : k = m * n
  OBVIOUS
<1>8. k \in Nat \ {0}
  <2>1. n <= m * n
    <3>1. 1 <= m /\ 1 * n = n
      OBVIOUS
    <3>2. 1 * n <= m * n
      BY <3>1, TimesLeq
    <3>3. QED
      BY <3>1, <3>2
  <2>2. QED
    BY <1>7, <2>1
<1>9. PICK tm : tm = t * m
  OBVIOUS
<1>10. tm \in Nat /\ tm + m <= k
  <2>1. t * m + m <= n * m
    BY <1>6, TimesNext
  <2>2. n * m = m * n
    OBVIOUS
  <2>3. QED
    BY <1>6, <1>7, <1>9, <2>1, <2>2
<1>11. x = s * k + (tm + r)
  <2>1. (s * n + t) * m = s * (m * n) + t * m
    BY <1>6
  <2>2. PICK z : z = s * k
    OBVIOUS
  <2>3. q * m = z + tm
    BY <1>6, <1>7, <1>9, <2>1, <2>2
  <2>4. z \in Nat
    BY <1>6, <1>8, <2>2
  <2>5. QED
    BY <1>3, <1>10, <2>2, <2>3, <2>4
<1>12. tm + r \in 0 .. k - 1
  BY <1>3, <1>8, <1>10
<1>13. x \div k = s
  BY <1>6, <1>8, <1>11, <1>12, SplitIs
<1>14. QED
  BY <1>1, <1>4, <1>7, <1>13

-----------------------------------------------------------------------------
(* Multiples and powers of two *)

Multiple(x, m) == x % m = 0

\* A multiple is so many times the number.
LEMMA MultipleIs ==
  ASSUME NEW x \in Nat, NEW m \in Nat \ {0}
  PROVE  Multiple(x, m) <=> \E k \in Nat : x = k * m
<1>1. ASSUME Multiple(x, m) PROVE \E k \in Nat : x = k * m
  <2>1. PICK q : q = x \div m
    OBVIOUS
  <2>2. Splits(x, m, q, 0)
    BY <1>1, <2>1, Split, Zenon DEF Multiple
  <2>3. q \in Nat /\ x = q * m + 0
    BY <2>2, Zenon DEF Splits
  <2>4. q * m \in Nat
    BY <2>3
  <2>5. x = q * m
    BY <2>3, <2>4
  <2>6. QED
    BY <2>3, <2>5
<1>2. ASSUME NEW k \in Nat, x = k * m PROVE Multiple(x, m)
  <2>1. x = k * m + 0 /\ 0 \in 0 .. m - 1
    BY <1>2
  <2>2. QED
    BY <2>1, SplitIs, Zenon DEF Multiple
<1>3. QED
  BY <1>1, <1>2

\* Two multiples are as far apart as the number.
LEMMA MultiplesApart ==
  ASSUME NEW x \in Nat, NEW y \in Nat, NEW m \in Nat \ {0}, Multiple(x, m), Multiple(y, m), x < y
  PROVE  x + m <= y
<1>1. PICK j \in Nat : x = j * m
  BY MultipleIs
<1>2. PICK k \in Nat : y = k * m
  BY MultipleIs
<1>3. j < k
  BY <1>1, <1>2, TimesLess
<1>4. QED
  BY <1>1, <1>2, <1>3, TimesNext

\* Multiples of multiples.
LEMMA MultipleThrough ==
  ASSUME NEW x \in Nat, NEW y \in Nat \ {0}, NEW m \in Nat \ {0}, Multiple(x, y), Multiple(y, m)
  PROVE  Multiple(x, m)
<1>1. PICK j \in Nat : x = j * y
  BY MultipleIs
<1>2. PICK k \in Nat : y = k * m
  BY MultipleIs
<1>3. x = (j * k) * m /\ j * k \in Nat
  BY <1>1, <1>2
<1>4. QED
  BY <1>3, MultipleIs

\* Sums and differences of multiples.
LEMMA MultiplesAdd ==
  ASSUME NEW x \in Nat, NEW y \in Nat, NEW m \in Nat \ {0}, Multiple(y, m)
  PROVE  Multiple(x + y, m) <=> Multiple(x, m)
<1>1. PICK k \in Nat : y = k * m
  BY MultipleIs
<1>2. ASSUME Multiple(x, m) PROVE Multiple(x + y, m)
  <2>1. PICK j \in Nat : x = j * m
    BY <1>2, MultipleIs
  <2>2. x + y = (j + k) * m /\ j + k \in Nat /\ x + y \in Nat
    BY <1>1, <2>1
  <2>3. QED
    BY <2>2, MultipleIs
<1>3. ASSUME Multiple(x + y, m) PROVE Multiple(x, m)
  <2>0. x + y \in Nat
    OBVIOUS
  <2>1. PICK j \in Nat : x + y = j * m
    BY <1>3, <2>0, MultipleIs
  <2>2. k <= j
    <3>1. ASSUME j < k PROVE FALSE
      <4>1. j * m + m <= k * m
        BY <3>1, TimesNext
      <4>2. QED
        BY <1>1, <2>1, <4>1
    <3>2. QED
      BY <3>1
  <2>3. PICK d \in Nat : j = k + d
    <3>1. j - k \in Nat /\ j = k + (j - k)
      BY <2>2
    <3>2. QED
      BY <3>1
  <2>4. j * m = k * m + d * m
    BY <2>3
  <2>5. k * m \in Nat /\ d * m \in Nat
    OBVIOUS
  <2>6. x = d * m
    BY <1>1, <2>1, <2>4, <2>5
  <2>7. QED
    BY <2>6, MultipleIs
<1>4. QED
  BY <1>2, <1>3

\* A number is its own multiple, and twice a number is one.
LEMMA MultipleItself ==
  ASSUME NEW m \in Nat \ {0}
  PROVE  Multiple(m, m) /\ Multiple(0, m) /\ Multiple(2 * m, m)
<1>1. m = 1 * m /\ 0 = 0 * m /\ m \in Nat /\ 2 * m \in Nat
  OBVIOUS
<1>2. QED
  BY <1>1, MultipleIs

\* A multiple of a number is even times the number, or odd times.
LEMMA EvenOrOdd ==
  ASSUME NEW x \in Nat, NEW m \in Nat \ {0}, Multiple(x, m), ~Multiple(x, 2 * m)
  PROVE  m <= x /\ Multiple(x - m, 2 * m) /\ Multiple(x + m, 2 * m)
<1>1. PICK k \in Nat : x = k * m
  BY MultipleIs
<1>2. PICK h : h = k \div 2
  OBVIOUS
<1>3. h \in Nat /\ (k = 2 * h \/ k = 2 * h + 1)
  BY <1>2
<1>4. PICK w : w = h * (2 * m)
  OBVIOUS
<1>5. 2 * m \in Nat \ {0} /\ w \in Nat
  BY <1>3, <1>4
<1>6. (2 * h) * m = w
  BY <1>3, <1>4
<1>7. k # 2 * h
  <2>1. ASSUME k = 2 * h PROVE FALSE
    <3>1. x = h * (2 * m)
      BY <1>1, <1>4, <1>6, <2>1
    <3>2. QED
      BY <1>3, <1>5, <3>1, MultipleIs
  <2>2. QED
    BY <2>1
<1>8. x = w + m
  <2>1. (2 * h + 1) * m = (2 * h) * m + m
    BY <1>3
  <2>2. QED
    BY <1>1, <1>3, <1>6, <1>7, <2>1
<1>9. x + m = w + 2 * m /\ w + 2 * m = (h + 1) * (2 * m)
  BY <1>3, <1>4, <1>8
<1>10. x - m = w /\ x - m \in Nat /\ x + m \in Nat /\ h + 1 \in Nat
  BY <1>3, <1>5, <1>8
<1>11. Multiple(x - m, 2 * m)
  BY <1>3, <1>4, <1>5, <1>10, MultipleIs
<1>12. Multiple(x + m, 2 * m)
  BY <1>5, <1>9, <1>10, MultipleIs
<1>13. QED
  BY <1>5, <1>8, <1>11, <1>12

\* A bit of an index.
Power(p) == p \in Nat \ {0} /\ \A d \in 2 .. p : p % d = 0 => d % 2 = 0

\* The bits up to a number.
LEMMA PowersAre ==
  ASSUME NEW n \in Nat, NEW p
  PROVE  p \in PowersOfTwo(n) <=> Power(p) /\ p <= n
BY DEF PowersOfTwo, Power

\* One is the lowest bit.
LEMMA OneIsPower == Power(1)
BY DEF Power

\* The next bit, and the one before.
LEMMA TwicePower ==
  ASSUME NEW p \in Nat \ {0}
  PROVE  Power(2 * p) <=> Power(p)
<1>1. ASSUME Power(p) PROVE Power(2 * p)
  <2>1. SUFFICES ASSUME NEW d \in 2 .. 2 * p, (2 * p) % d = 0, d % 2 # 0 PROVE FALSE
    BY DEF Power
  <2>2. d \in Nat \ {0} /\ 2 * p \in Nat /\ 2 <= d
    OBVIOUS
  <2>3. PICK e \in Nat : 2 * p = e * d
    BY <2>1, <2>2, MultipleIs DEF Multiple
  <2>4. PICK h : h = d \div 2
    OBVIOUS
  <2>5. h \in Nat /\ d = 2 * h + 1
    BY <2>1, <2>2, <2>4
  <2>6. PICK f \in Nat : e = 2 * f
    <3>1. PICK f : f = e \div 2
      OBVIOUS
    <3>2. f \in Nat /\ (e = 2 * f \/ e = 2 * f + 1)
      BY <3>1
    <3>3. ASSUME e = 2 * f + 1 PROVE FALSE
      <4>1. PICK a : a = e * h
        OBVIOUS
      <4>2. a \in Nat
        BY <2>5, <4>1
      <4>3. e * d = 2 * a + e
        BY <2>5, <4>1
      <4>4. 2 * p = 2 * a + (2 * f + 1)
        BY <2>3, <3>3, <4>3
      <4>5. QED
        BY <3>2, <4>2, <4>4
    <3>4. QED
      BY <3>2, <3>3
  <2>7. PICK b : b = f * d
    OBVIOUS
  <2>8. b \in Nat /\ e * d = 2 * b
    BY <2>2, <2>6, <2>7
  <2>9. p = f * d
    BY <2>3, <2>7, <2>8
  <2>10. p % d = 0
    BY <2>2, <2>9, MultipleIs DEF Multiple
  <2>11. d <= p
    <3>1. f # 0
      BY <2>2, <2>9
    <3>2. 1 * d <= f * d
      BY <2>2, <3>1, TimesLeq
    <3>3. QED
      BY <2>2, <2>9, <3>2
  <2>12. QED
    BY <1>1, <2>1, <2>2, <2>10, <2>11 DEF Power
<1>2. ASSUME Power(2 * p) PROVE Power(p)
  <2>1. SUFFICES ASSUME NEW d \in 2 .. p, p % d = 0 PROVE d % 2 = 0
    BY DEF Power
  <2>2. d \in Nat \ {0} /\ 2 * p \in Nat \ {0} /\ d \in 2 .. 2 * p
    OBVIOUS
  <2>3. Multiple(2 * p, d)
    BY <2>1, <2>2, MultipleItself, MultipleThrough DEF Multiple
  <2>4. QED
    BY <1>2, <2>2, <2>3 DEF Power, Multiple
<1>3. QED
  BY <1>1, <1>2

\* Every bit but the lowest has one before it.
LEMMA HalfPower ==
  ASSUME NEW p, Power(p), p # 1
  PROVE  \E h \in Nat \ {0} : p = 2 * h /\ Power(h)
<1>1. p \in Nat \ {0} /\ p \in 2 .. p
  BY DEF Power
<1>2. p % p = 0
  BY <1>1, WholeRemainder
<1>3. p % 2 = 0
  BY <1>1, <1>2 DEF Power
<1>4. PICK h : h = p \div 2
  OBVIOUS
<1>5. h \in Nat \ {0} /\ p = 2 * h
  BY <1>1, <1>3, <1>4
<1>6. QED
  BY <1>5, TwicePower

\* A higher bit is a multiple of twice a lower one.
LEMMA PowersAbove ==
  ASSUME NEW p, Power(p), NEW q, Power(q), p < q
  PROVE  Multiple(q, 2 * p)
<1> DEFINE Good(k) == \A a, b \in 1 .. k : Power(a) /\ Power(b) /\ a < b => Multiple(b, 2 * a)
           G == {k \in Nat : Good(k)}
<1>1. 0 \in G
  OBVIOUS
<1>2. ASSUME NEW k \in Nat, k \in G PROVE k + 1 \in G
  <2>1. SUFFICES ASSUME NEW a \in 1 .. k + 1, NEW b \in 1 .. k + 1, Power(a), Power(b), a < b
                 PROVE  Multiple(b, 2 * a)
    OBVIOUS
  <2>2. \A c, d \in 1 .. k : Power(c) /\ Power(d) /\ c < d => Multiple(d, 2 * c)
    BY <1>2
  <2> HIDE DEF G
  <2>3. a \in Nat \ {0} /\ b \in Nat \ {0} /\ b # 1
    BY <2>1
  <2>4. PICK h \in Nat \ {0} : b = 2 * h /\ Power(h)
    BY <2>1, <2>3, HalfPower
  <2>5. CASE a = h
    BY <2>3, <2>4, <2>5, MultipleItself
  <2>6. CASE a < h
    <3>1. a \in 1 .. k /\ h \in 1 .. k
      BY <2>1, <2>3, <2>4, <2>6
    <3>2. Multiple(h, 2 * a)
      BY <2>1, <2>2, <2>4, <2>6, <3>1
    <3>3. b \in Nat /\ 2 * a \in Nat \ {0} /\ Multiple(b, h)
      BY <2>3, <2>4, MultipleItself
    <3>4. QED
      BY <2>4, <3>2, <3>3, MultipleThrough
  <2>7. CASE h < a
    <3>1. a # 1
      BY <2>4, <2>7
    <3>2. PICK c \in Nat \ {0} : a = 2 * c /\ Power(c)
      BY <2>1, <3>1, HalfPower
    <3>3. c < h /\ c \in 1 .. k /\ h \in 1 .. k
      BY <2>1, <2>3, <2>4, <3>2
    <3>4. Multiple(h, a)
      BY <2>2, <2>4, <3>2, <3>3
    <3>5. Multiple(0, a) /\ 0 < h /\ 0 \in Nat
      BY <2>3, <2>4, MultipleItself
    <3>6. 0 + a <= h
      BY <2>3, <2>4, <3>4, <3>5, MultiplesApart
    <3>7. QED
      BY <2>3, <2>7, <3>6
  <2>8. QED
    BY <2>3, <2>4, <2>5, <2>6, <2>7
<1>3. Nat \subseteq G
  <2> HIDE DEF G
  <2>1. QED
    BY <1>1, <1>2, NaturalSteps
<1>4. p \in 1 .. q /\ q \in 1 .. q /\ q \in Nat
  BY DEF Power
<1>5. QED
  BY <1>3, <1>4

-----------------------------------------------------------------------------
(* The nodes of the tree *)

\* The lowest bit of an index divides it, and twice the bit does not.
LEMMA LowBitIs ==
  ASSUME NEW i \in Nat \ {0}
  PROVE  /\ Power(LowBit(i)) /\ LowBit(i) \in Nat \ {0} /\ LowBit(i) <= i
         /\ Multiple(i, LowBit(i)) /\ ~Multiple(i, 2 * LowBit(i))
         /\ \A q : Power(q) /\ Multiple(i, q) => q <= LowBit(i)
<1> DEFINE S == {p \in PowersOfTwo(i) : i % p = 0}
<1>1. \A p : p \in S <=> Power(p) /\ p <= i /\ Multiple(i, p)
  BY PowersAre DEF Multiple
<1>2. S \subseteq Nat /\ IsFiniteSet(S)
  <2>1. S \subseteq 1 .. i
    BY DEF PowersOfTwo
  <2>2. IsFiniteSet(1 .. i)
    BY FS_Interval
  <2>3. QED
    BY <2>1, <2>2, FS_Subset
<1>3. 1 \in S
  <2>1. i = i * 1
    OBVIOUS
  <2>2. Multiple(i, 1)
    BY <2>1, MultipleIs
  <2>3. QED
    BY <1>1, <2>2, OneIsPower
<1>4. LowBit(i) = Max(S)
  BY DEF LowBit
<1> HIDE DEF S
<1>5. LowBit(i) \in S /\ \A q \in S : q <= LowBit(i)
  BY <1>2, <1>3, <1>4, GreatestNatural
<1>6. PICK p : p = LowBit(i)
  OBVIOUS
<1>7. Power(p) /\ p <= i /\ Multiple(i, p) /\ p \in Nat \ {0}
  BY <1>1, <1>5, <1>6 DEF Power
<1>8. ASSUME NEW q, Power(q), Multiple(i, q) PROVE q <= p
  <2>1. q \in Nat \ {0}
    BY <1>8 DEF Power
  <2>2. Multiple(0, q) /\ 0 < i /\ 0 \in Nat /\ i \in Nat
    BY <2>1, MultipleItself
  <2>3. 0 + q <= i
    BY <1>8, <2>1, <2>2, MultiplesApart
  <2>4. q <= i
    BY <2>1, <2>3
  <2>5. QED
    BY <1>1, <1>5, <1>6, <1>8, <2>4, Zenon
<1>9. ~Multiple(i, 2 * p)
  <2>1. Power(2 * p) /\ p < 2 * p
    BY <1>7, TwicePower
  <2>2. Multiple(i, 2 * p) => 2 * p <= p
    BY <1>8, <2>1
  <2>3. QED
    BY <1>7, <2>1, <2>2
<1>10. QED
  BY <1>6, <1>7, <1>8, <1>9, Zenon

\* The next node of a bit, from one that is a multiple of twice the bit, has it lowest.
LEMMA LowBitNext ==
  ASSUME NEW a \in Nat, NEW p, Power(p), Multiple(a, 2 * p)
  PROVE  LowBit(a + p) = p
<1>1. p \in Nat \ {0} /\ 2 * p \in Nat \ {0} /\ a + p \in Nat \ {0}
  BY DEF Power
<1>2. PICK i \in Nat \ {0} : i = a + p
  BY <1>1
<1>3. PICK q : q = LowBit(i)
  OBVIOUS
<1>4. /\ Power(q) /\ q \in Nat \ {0} /\ Multiple(i, q)
      /\ \A d : Power(d) /\ Multiple(i, d) => d <= q
  BY <1>2, <1>3, LowBitIs
<1>5. Multiple(a, p) /\ Multiple(p, p)
  <2>1. Multiple(2 * p, p) /\ Multiple(p, p)
    BY <1>1, MultipleItself
  <2>2. Multiple(a, p)
    BY <1>1, <2>1, MultipleThrough
  <2>3. QED
    BY <2>1, <2>2
<1>6. Multiple(i, p)
  BY <1>1, <1>2, <1>5, MultiplesAdd
<1>7. p <= q
  BY <1>4, <1>6
<1>8. ASSUME p < q PROVE FALSE
  <2>1. Multiple(q, 2 * p)
    BY <1>4, <1>8, PowersAbove
  <2>2. Multiple(i, 2 * p)
    BY <1>1, <1>2, <1>4, <2>1, MultipleThrough
  <2>3. a < i /\ i < a + 2 * p
    BY <1>1, <1>2
  <2>4. a + 2 * p <= i
    BY <1>1, <1>2, <2>2, <2>3, MultiplesApart
  <2>5. QED
    BY <1>1, <1>2, <2>3, <2>4
<1>9. QED
  BY <1>1, <1>2, <1>3, <1>4, <1>7, <1>8

\* Node i holds the symbols from i - LowBit(i) on, before i: symbol j - 1 is among them.
Covers(i, j) == i - LowBit(i) < j /\ j <= i

\* A node that holds the symbol of another holds the one the climb goes to.
LEMMA ClimbsInside ==
  ASSUME NEW i \in Nat \ {0}, NEW j \in Nat \ {0}, Covers(i, j), i # j
  PROVE  Covers(i, j + LowBit(j))
<1>1. PICK p : p = LowBit(i)
  OBVIOUS
<1>2. PICK q : q = LowBit(j)
  OBVIOUS
<1>3. /\ Power(p) /\ p \in Nat \ {0} /\ p <= i /\ Multiple(i, p) /\ ~Multiple(i, 2 * p)
  BY <1>1, LowBitIs
<1>4. /\ Power(q) /\ q \in Nat \ {0} /\ q <= j /\ Multiple(j, q)
  BY <1>2, LowBitIs
<1>5. i - p < j /\ j < i
  BY <1>1 DEF Covers
<1>6. q < p
  <2>1. ASSUME p <= q PROVE FALSE
    <3>1. Multiple(q, p)
      <4>1. CASE p = q
        BY <1>3, <4>1, MultipleItself
      <4>2. CASE p < q
        <5>1. Multiple(q, 2 * p) /\ 2 * p \in Nat \ {0} /\ Multiple(2 * p, p)
          BY <1>3, <1>4, <4>2, PowersAbove, MultipleItself
        <5>2. QED
          BY <1>3, <1>4, <5>1, MultipleThrough
      <4>3. QED
        BY <1>3, <1>4, <2>1, <4>1, <4>2
    <3>2. Multiple(j, p)
      BY <1>3, <1>4, <3>1, MultipleThrough
    <3>3. j + p <= i
      BY <1>3, <1>5, <3>2, MultiplesApart
    <3>4. QED
      BY <1>3, <1>5, <3>3
  <2>2. QED
    BY <1>3, <1>4, <2>1
<1>7. Multiple(p, q)
  <2>1. Multiple(p, 2 * q) /\ 2 * q \in Nat \ {0} /\ Multiple(2 * q, q)
    BY <1>3, <1>4, <1>6, PowersAbove, MultipleItself
  <2>2. QED
    BY <1>3, <1>4, <2>1, MultipleThrough
<1>8. Multiple(i, q)
  BY <1>3, <1>4, <1>7, MultipleThrough
<1>9. j + q <= i
  BY <1>4, <1>5, <1>8, MultiplesApart
<1>10. QED
  BY <1>1, <1>2, <1>3, <1>4, <1>5, <1>9 DEF Covers

\* A node the climb comes to holds the symbol it began with.
LEMMA ClimbsFromInside ==
  ASSUME NEW i \in Nat \ {0}, NEW j \in Nat \ {0}, Covers(i, j + LowBit(j))
  PROVE  Covers(i, j) /\ i # j
<1>1. PICK p : p = LowBit(i)
  OBVIOUS
<1>2. PICK q : q = LowBit(j)
  OBVIOUS
<1>3. /\ Power(p) /\ p \in Nat \ {0} /\ p <= i /\ Multiple(i, p) /\ ~Multiple(i, 2 * p)
  BY <1>1, LowBitIs
<1>4. /\ Power(q) /\ q \in Nat \ {0} /\ q <= j /\ Multiple(j, q) /\ ~Multiple(j, 2 * q)
  BY <1>2, LowBitIs
<1>5. i - p < j + q /\ j + q <= i
  BY <1>1, <1>2 DEF Covers
<1>6. PICK b \in Nat : b = i - p
  BY <1>3
<1>7. Multiple(b, 2 * p) /\ Multiple(j + q, 2 * q) /\ Multiple(b, p)
  <2>1. Multiple(i - p, 2 * p)
    BY <1>3, EvenOrOdd
  <2>2. Multiple(j + q, 2 * q)
    BY <1>4, EvenOrOdd
  <2>3. Multiple(2 * p, p) /\ 2 * p \in Nat \ {0}
    BY <1>3, MultipleItself
  <2>4. Multiple(b, 2 * p)
    BY <1>6, <2>1
  <2>5. Multiple(b, p)
    BY <1>3, <2>3, <2>4, MultipleThrough
  <2>6. QED
    BY <2>2, <2>4, <2>5
<1>8. b < j
  <2>1. SUFFICES ASSUME j <= b PROVE FALSE
    BY <1>6
  <2>2. CASE q <= p
    <3>1. Multiple(p, q)
      <4>1. CASE p = q
        BY <1>3, <4>1, MultipleItself
      <4>2. CASE q < p
        <5>1. Multiple(p, 2 * q) /\ 2 * q \in Nat \ {0} /\ Multiple(2 * q, q)
          BY <1>3, <1>4, <4>2, PowersAbove, MultipleItself
        <5>2. QED
          BY <1>3, <1>4, <5>1, MultipleThrough
      <4>3. QED
        BY <1>3, <1>4, <2>2, <4>1, <4>2
    <3>2. Multiple(b, q)
      BY <1>3, <1>4, <1>6, <1>7, <3>1, MultipleThrough
    <3>3. CASE j < b
      <4>1. j + q <= b
        BY <1>4, <1>6, <3>2, <3>3, MultiplesApart
      <4>2. QED
        BY <1>3, <1>4, <1>5, <1>6, <4>1
    <3>4. CASE j = b
      <4>1. Power(2 * p) /\ Multiple(j, 2 * p)
        BY <1>3, <1>7, <3>4, TwicePower
      <4>2. 2 * p <= q
        BY <1>2, <4>1, LowBitIs
      <4>3. QED
        BY <1>3, <1>4, <2>2, <4>2
    <3>5. QED
      BY <1>6, <2>1, <3>3, <3>4
  <2>3. CASE p < q
    <3>1. Multiple(q, 2 * p) /\ 2 * p \in Nat \ {0} /\ 2 * q \in Nat \ {0} /\ j + q \in Nat
      BY <1>3, <1>4, <2>3, PowersAbove
    <3>2. PICK k \in Nat \ {0} : k = j + q
      BY <1>4
    <3>3. Multiple(k, q)
      <4>1. Multiple(2 * q, q)
        BY <1>4, MultipleItself
      <4>2. QED
        BY <1>4, <1>7, <3>1, <3>2, <4>1, MultipleThrough
    <3>4. Multiple(k, 2 * p)
      BY <1>3, <1>4, <3>1, <3>2, <3>3, MultipleThrough
    <3>5. b < k /\ k <= i /\ i = b + p
      BY <1>3, <1>5, <1>6, <3>2
    <3>6. b + 2 * p <= k
      BY <1>3, <1>6, <1>7, <3>1, <3>4, <3>5, MultiplesApart
    <3>7. QED
      BY <1>3, <1>6, <3>5, <3>6
  <2>4. QED
    BY <1>3, <1>4, <2>2, <2>3
<1>9. QED
  BY <1>1, <1>3, <1>4, <1>5, <1>6, <1>8 DEF Covers

-----------------------------------------------------------------------------
(* Sums of frequencies, and what the nodes of the tree hold *)

\* below[k] is the sum of the frequencies of the first k symbols.
RunningSums(below, f, n) ==
  /\ below \in [0 .. n -> Nat] /\ below[0] = 0
  /\ \A k \in 0 .. n - 1 : below[k + 1] = below[k] + f[k]

\* A sum of frequencies as the model writes it.
LEMMA SumOfPrefix ==
  ASSUME NEW n \in Nat, NEW f \in [0 .. n - 1 -> Nat], NEW k \in 0 .. n
  PROVE  /\ SumOf([r \in 0 .. k - 1 |-> f[r]]) = SumOver(f, 0 .. k - 1)
         /\ SumOver(f, 0 .. k - 1) \in Nat
<1> DEFINE g == [r \in 0 .. k - 1 |-> f[r]]
<1>1. SumOf(g) = SumOver(g, DOMAIN g)
  BY DEF SumOf, SumOver
<1>2. DOMAIN g = 0 .. k - 1 /\ \A x \in 0 .. k - 1 : g[x] = f[x]
  OBVIOUS
<1>3. \A x \in 0 .. k - 1 : g[x] \in Nat /\ f[x] \in Nat /\ f[x] = g[x]
  BY <1>2
<1>4. IsFiniteSet(0 .. k - 1)
  BY FS_Interval
<1> HIDE DEF g
<1>5. SumOver(g, 0 .. k - 1) = SumOver(f, 0 .. k - 1)
  BY <1>3, <1>4, SumCongruence
<1>6. SumOver(f, 0 .. k - 1) \in Nat
  BY <1>3, <1>4, SumStep
<1>7. QED
  BY <1>1, <1>2, <1>5, <1>6 DEF g

\* The sums of frequencies are such a function.
LEMMA RunningSumsAre ==
  ASSUME NEW n \in Nat, NEW f \in [0 .. n - 1 -> Nat]
  PROVE  \E below : /\ RunningSums(below, f, n) /\ below[n] = SumOf(f)
                    /\ \A k \in 0 .. n : below[k] = SumOf([r \in 0 .. k - 1 |-> f[r]])
<1>1. PICK below : below = [k \in 0 .. n |-> SumOver(f, 0 .. k - 1)]
  OBVIOUS
<1>2. \A k \in 0 .. n : below[k] = SumOver(f, 0 .. k - 1)
  BY <1>1
<1>3. below \in [0 .. n -> Nat]
  BY <1>1, SumOfPrefix
<1>4. below[0] = 0
  <2>1. 0 \in 0 .. n /\ 0 .. 0 - 1 = {} /\ IsFiniteSet({}) /\ \A x \in {} : f[x] \in Nat
    BY FS_EmptySet
  <2>2. SumOver(f, {}) = 0
    BY <2>1, SumStep
  <2>3. QED
    BY <1>2, <2>1, <2>2
<1>5. ASSUME NEW k \in 0 .. n - 1 PROVE below[k + 1] = below[k] + f[k]
  <2>1. k \in 0 .. n /\ k + 1 \in 0 .. n /\ 0 .. (k + 1) - 1 = (0 .. k - 1) \cup {k}
    OBVIOUS
  <2>2. IsFiniteSet(0 .. k - 1) /\ k \notin 0 .. k - 1
    BY FS_Interval
  <2>3. \A x \in (0 .. k - 1) \cup {k} : f[x] \in Nat
    OBVIOUS
  <2>4. SumOver(f, (0 .. k - 1) \cup {k}) = SumOver(f, 0 .. k - 1) + f[k]
    BY <2>2, <2>3, SumWith
  <2>5. below[k + 1] = SumOver(f, 0 .. (k + 1) - 1) /\ below[k] = SumOver(f, 0 .. k - 1)
    BY <1>2, <2>1, Zenon
  <2>6. QED
    BY <2>1, <2>4, <2>5, Zenon
<1>6. RunningSums(below, f, n)
  BY <1>3, <1>4, <1>5, Zenon DEF RunningSums
<1>7. below[n] = SumOf(f)
  <2>1. SumOf(f) = SumOver(f, DOMAIN f)
    BY DEF SumOf, SumOver
  <2>2. DOMAIN f = 0 .. n - 1 /\ n \in 0 .. n
    OBVIOUS
  <2>3. QED
    BY <1>2, <2>1, <2>2, Zenon
<1>8. \A k \in 0 .. n : below[k] = SumOf([r \in 0 .. k - 1 |-> f[r]])
  BY <1>2, SumOfPrefix, Zenon
<1>9. QED
  BY <1>6, <1>7, <1>8, Zenon

\* The sums do not fall.
LEMMA RunningSumsGrow ==
  ASSUME NEW n \in Nat, NEW f \in [0 .. n - 1 -> Nat], NEW below, RunningSums(below, f, n),
         NEW j \in 0 .. n, NEW k \in 0 .. n, j <= k
  PROVE  below[j] <= below[k]
<1> DEFINE G == {d \in Nat : j + d <= n => below[j] <= below[j + d]}
<1>1. below \in [0 .. n -> Nat] /\ \A i \in 0 .. n - 1 : below[i + 1] = below[i] + f[i]
  BY DEF RunningSums
<1>2. 0 \in G
  BY <1>1
<1>3. ASSUME NEW d \in Nat, d \in G PROVE d + 1 \in G
  <2>1. SUFFICES ASSUME j + (d + 1) <= n PROVE below[j] <= below[j + (d + 1)]
    OBVIOUS
  <2>2. below[j] <= below[j + d] /\ j + d \in 0 .. n - 1 /\ j + (d + 1) = (j + d) + 1
    BY <1>3, <2>1
  <2>3. below[(j + d) + 1] = below[j + d] + f[j + d] /\ f[j + d] \in Nat
    BY <1>1, <2>2
  <2>4. below[j + d] \in Nat /\ below[j] \in Nat
    BY <1>1, <2>2
  <2>5. QED
    BY <2>2, <2>3, <2>4
<1> HIDE DEF G
<1>4. Nat \subseteq G
  BY <1>2, <1>3, NaturalSteps
<1>5. k - j \in Nat /\ j + (k - j) = k
  OBVIOUS
<1>6. QED
  BY <1>4, <1>5 DEF G

\* There is one such function.
LEMMA RunningSumsOnly ==
  ASSUME NEW n \in Nat, NEW f \in [0 .. n - 1 -> Nat], NEW below, RunningSums(below, f, n),
         NEW other, RunningSums(other, f, n)
  PROVE  \A k \in 0 .. n : other[k] = below[k]
<1> DEFINE G == {k \in Nat : k <= n => other[k] = below[k]}
<1>1. /\ below[0] = 0 /\ \A i \in 0 .. n - 1 : below[i + 1] = below[i] + f[i]
      /\ other[0] = 0 /\ \A i \in 0 .. n - 1 : other[i + 1] = other[i] + f[i]
  BY DEF RunningSums
<1>2. 0 \in G
  BY <1>1
<1>3. ASSUME NEW k \in Nat, k \in G PROVE k + 1 \in G
  BY <1>1, <1>3
<1> HIDE DEF G
<1>4. Nat \subseteq G
  BY <1>2, <1>3, NaturalSteps
<1>5. ASSUME NEW k \in 0 .. n PROVE other[k] = below[k]
  BY <1>4 DEF G
<1>6. QED
  BY <1>5

\* Every node of the tree is the sum of the frequencies it holds, of the first k symbols.
TreeUpto(below, n, k) ==
  [i \in 0 .. n |-> IF i = 0 THEN 0
                    ELSE below[IF i <= k THEN i ELSE k]
                           - below[IF i - LowBit(i) <= k THEN i - LowBit(i) ELSE k]]

\* ... of all of them.
TreeOf(below, n) ==
  [i \in 0 .. n |-> IF i = 0 THEN 0 ELSE below[i] - below[i - LowBit(i)]]

-----------------------------------------------------------------------------
(* add_fenwick *)

Holders(n, j) == {i \in 1 .. n : Covers(i, j)}

\* The nodes that hold a symbol: its own, and those that hold where the climb goes.
LEMMA HoldersStep ==
  ASSUME NEW n \in Nat, NEW j \in 1 .. n
  PROVE  /\ j + LowBit(j) \in Nat \ {0} /\ j < j + LowBit(j)
         /\ Holders(n, j) = {j} \cup (IF j + LowBit(j) <= n THEN Holders(n, j + LowBit(j)) ELSE {})
<1>1. PICK q : q = LowBit(j)
  OBVIOUS
<1>2. q \in Nat \ {0} /\ q <= j
  BY <1>1, LowBitIs
<1>3. Covers(j, j)
  BY <1>1, <1>2 DEF Covers
<1>4. ASSUME NEW i \in 1 .. n, Covers(i, j), i # j PROVE Covers(i, j + q) /\ j + q <= n
  <2>1. Covers(i, j + q)
    BY <1>1, <1>4, ClimbsInside
  <2>2. QED
    BY <1>2, <2>1 DEF Covers
<1>5. ASSUME NEW i \in 1 .. n, Covers(i, j + q) PROVE Covers(i, j)
  BY <1>1, <1>5, ClimbsFromInside
<1>6. Holders(n, j) = {j} \cup (IF j + q <= n THEN Holders(n, j + q) ELSE {})
  BY <1>3, <1>4, <1>5 DEF Holders
<1>7. QED
  BY <1>1, <1>2, <1>6

\* The climb from the node of a symbol goes through the nodes that hold it.
LEMMA ClimbIs ==
  ASSUME NEW n \in Nat, NEW j \in 1 .. n
  PROVE  (CHOOSE c : c = [i \in 1 .. n |->
            {i} \cup (IF i + LowBit(i) <= n THEN c[i + LowBit(i)] ELSE {})])[j] = Holders(n, j)
<1> DEFINE S(c) == c = [i \in 1 .. n |->
                          {i} \cup (IF i + LowBit(i) <= n THEN c[i + LowBit(i)] ELSE {})]
           w == [i \in 1 .. n |-> Holders(n, i)]
           x == CHOOSE c : S(c)
<1>1. S(w)
  <2>1. ASSUME NEW i \in 1 .. n
        PROVE  w[i] = {i} \cup (IF i + LowBit(i) <= n THEN w[i + LowBit(i)] ELSE {})
    <3>1. i + LowBit(i) \in Nat \ {0}
      BY HoldersStep
    <3>2. i + LowBit(i) <= n => w[i + LowBit(i)] = Holders(n, i + LowBit(i))
      BY <3>1
    <3>3. w[i] = Holders(n, i)
      OBVIOUS
    <3> HIDE DEF w
    <3>4. QED
      BY <3>2, <3>3, HoldersStep
  <2>2. w = [i \in 1 .. n |-> w[i]]
    OBVIOUS
  <2> HIDE DEF w
  <2>3. QED
    BY <2>1, <2>2
<1>2. S(x)
  <2>1. \E c : S(c)
    BY <1>1
  <2> HIDE DEF S
  <2>2. QED
    BY <2>1
<1> HIDE DEF x
<1>3. \A i \in 1 .. n : x[i] = {i} \cup (IF i + LowBit(i) <= n THEN x[i + LowBit(i)] ELSE {})
  BY <1>2
<1> HIDE DEF w, S
<1> DEFINE G == {k \in Nat : \A i \in 1 .. n : n - i < k => x[i] = Holders(n, i)}
<1>4. 0 \in G
  OBVIOUS
<1>5. ASSUME NEW k \in Nat, k \in G PROVE k + 1 \in G
  <2>1. SUFFICES ASSUME NEW i \in 1 .. n, n - i < k + 1 PROVE x[i] = Holders(n, i)
    OBVIOUS
  <2>2. PICK t : t = i + LowBit(i)
    OBVIOUS
  <2>3. t \in Nat \ {0} /\ i < t
    BY <2>2, HoldersStep
  <2>4. t <= n => t \in 1 .. n /\ n - t < k
    BY <2>1, <2>3
  <2>5. t <= n => x[t] = Holders(n, t)
    BY <1>5, <2>4
  <2>6. x[i] = {i} \cup (IF t <= n THEN x[t] ELSE {})
    BY <1>3, <2>2
  <2>7. Holders(n, i) = {i} \cup (IF t <= n THEN Holders(n, t) ELSE {})
    BY <2>2, HoldersStep
  <2>8. QED
    BY <2>5, <2>6, <2>7
<1> HIDE DEF G
<1>6. Nat \subseteq G
  BY <1>4, <1>5, NaturalSteps
<1>7. n - j \in Nat /\ (n - j) + 1 \in Nat /\ n - j < (n - j) + 1
  OBVIOUS
<1>8. x[j] = Holders(n, j)
  BY <1>6, <1>7 DEF G
<1>9. QED
  BY <1>8 DEF x, S

\* add_fenwick adds to every node that holds the symbol.
LEMMA AddFenwickIs ==
  ASSUME NEW n \in Nat, NEW fenwick, DOMAIN fenwick = 0 .. n, NEW s \in 0 .. n - 1, NEW amount
  PROVE  AddFenwick(fenwick, s, amount) =
           [i \in 0 .. n |-> IF i # 0 /\ Covers(i, s + 1) THEN fenwick[i] + amount ELSE fenwick[i]]
<1>1. Cardinality(0 .. n) - 1 = n
  <2>1. Cardinality(0 .. n) = n - 0 + 1
    BY FS_Interval
  <2>2. QED
    BY <2>1
<1> DEFINE Climb(k) == CHOOSE c : c = [i \in 1 .. k |->
                          {i} \cup (IF i + LowBit(i) <= k THEN c[i + LowBit(i)] ELSE {})]
<1>2. AddFenwick(fenwick, s, amount) =
        [i \in DOMAIN fenwick |->
           IF i \in Climb(Cardinality(DOMAIN fenwick) - 1)[s + 1]
           THEN fenwick[i] + amount ELSE fenwick[i]]
  BY DEF AddFenwick
<1>3. s + 1 \in 1 .. n
  OBVIOUS
<1>4. Climb(n)[s + 1] = Holders(n, s + 1)
  BY <1>3, ClimbIs
<1> HIDE DEF Climb
<1>5. AddFenwick(fenwick, s, amount) =
        [i \in 0 .. n |-> IF i \in Holders(n, s + 1) THEN fenwick[i] + amount ELSE fenwick[i]]
  BY <1>1, <1>2, <1>4
<1>6. \A i \in 0 .. n : i \in Holders(n, s + 1) <=> i # 0 /\ Covers(i, s + 1)
  BY DEF Holders
<1>7. QED
  BY <1>5, <1>6

-----------------------------------------------------------------------------
(* rebuild_fenwick *)

\* Where a node's sum begins.
LEMMA NodeBegins ==
  ASSUME NEW n \in Nat, NEW i \in 1 .. n
  PROVE  i - LowBit(i) \in 0 .. n /\ i - LowBit(i) < i
<1>1. LowBit(i) \in Nat \ {0} /\ LowBit(i) <= i
  BY LowBitIs
<1>2. QED
  BY <1>1

\* One more symbol.
LEMMA TreeStep ==
  ASSUME NEW n \in Nat, NEW f \in [0 .. n - 1 -> Nat], NEW below, RunningSums(below, f, n),
         NEW k \in 0 .. n - 1
  PROVE  AddFenwick(TreeUpto(below, n, k), k, f[k]) = TreeUpto(below, n, k + 1)
<1>1. /\ below \in [0 .. n -> Nat] /\ below[k + 1] = below[k] + f[k] /\ f[k] \in Nat
      /\ k \in 0 .. n /\ k + 1 \in 0 .. n /\ k \in Nat
  BY DEF RunningSums
<1>2. DOMAIN TreeUpto(below, n, k) = 0 .. n
  BY DEF TreeUpto
<1>3. PICK t : t = TreeUpto(below, n, k)
  OBVIOUS
<1>4. PICK u : u = TreeUpto(below, n, k + 1)
  OBVIOUS
<1>5. t[0] = 0 /\ u[0] = 0 /\ 0 \in 0 .. n
  BY <1>3, <1>4 DEF TreeUpto
<1>6. ASSUME NEW i \in 1 .. n
      PROVE  u[i] = IF Covers(i, k + 1) THEN t[i] + f[k] ELSE t[i]
  <2>1. PICK b : b = i - LowBit(i)
    OBVIOUS
  <2>2. b \in 0 .. n /\ b < i /\ i \in 0 .. n /\ i # 0
    BY <2>1, NodeBegins
  <2>3. t[i] = below[IF i <= k THEN i ELSE k] - below[IF b <= k THEN b ELSE k]
    BY <1>3, <2>1, <2>2 DEF TreeUpto
  <2>4. u[i] = below[IF i <= k + 1 THEN i ELSE k + 1] - below[IF b <= k + 1 THEN b ELSE k + 1]
    BY <1>4, <2>1, <2>2 DEF TreeUpto
  <2>5. Covers(i, k + 1) <=> b < k + 1 /\ k + 1 <= i
    BY <2>1 DEF Covers
  <2>6. below[k] \in Nat /\ below[b] \in Nat /\ below[i] \in Nat /\ below[k + 1] \in Nat
    BY <1>1, <2>2
  <2>7. CASE k + 1 <= i /\ b <= k
    <3>1. t[i] = below[k] - below[b]
      BY <1>1, <2>2, <2>3, <2>7
    <3>2. u[i] = below[k + 1] - below[b]
      <4>1. CASE i = k + 1
        BY <1>1, <2>2, <2>4, <2>7, <4>1
      <4>2. CASE k + 1 < i
        BY <1>1, <2>2, <2>4, <2>7, <4>2
      <4>3. QED
        BY <1>1, <2>2, <2>7, <4>1, <4>2
    <3>3. QED
      BY <1>1, <2>2, <2>5, <2>6, <2>7, <3>1, <3>2
  <2>8. CASE i <= k
    BY <1>1, <2>2, <2>3, <2>4, <2>5, <2>8
  <2>9. CASE k + 1 <= b
    <3>1. t[i] = below[k] - below[k]
      BY <1>1, <2>2, <2>3, <2>9
    <3>2. u[i] = below[k + 1] - below[k + 1]
      BY <1>1, <2>2, <2>4, <2>9
    <3>3. QED
      BY <1>1, <2>2, <2>5, <2>6, <2>9, <3>1, <3>2
  <2>10. QED
    BY <1>1, <2>2, <2>7, <2>8, <2>9
<1>7. AddFenwick(t, k, f[k]) =
        [i \in 0 .. n |-> IF i # 0 /\ Covers(i, k + 1) THEN t[i] + f[k] ELSE t[i]]
  BY <1>2, <1>3, AddFenwickIs
<1>8. u = [i \in 0 .. n |-> u[i]]
  BY <1>4 DEF TreeUpto
<1>9. \A i \in 0 .. n : u[i] = IF i # 0 /\ Covers(i, k + 1) THEN t[i] + f[k] ELSE t[i]
  BY <1>5, <1>6
<1>10. AddFenwick(t, k, f[k]) = u
  BY <1>7, <1>8, <1>9
<1>11. QED
  BY <1>3, <1>4, <1>10

\* rebuild_fenwick gives every node the sum of what it holds.
LEMMA RebuildIs ==
  ASSUME NEW n \in Nat, NEW f \in [0 .. n - 1 -> Nat], NEW below, RunningSums(below, f, n)
  PROVE  RebuildFenwick(f) = TreeOf(below, n)
<1>1. DOMAIN f = 0 .. n - 1 /\ Cardinality(0 .. n - 1) = n
  <2>1. Cardinality(0 .. n - 1) = IF 0 > n - 1 THEN 0 ELSE (n - 1) - 0 + 1
    BY FS_Interval
  <2>2. QED
    BY <2>1
<1> DEFINE S(b) == b = [k \in 0 .. n |-> IF k = 0 THEN [i \in 0 .. n |-> 0]
                                         ELSE AddFenwick(b[k - 1], k - 1, f[k - 1])]
           w == [k \in 0 .. n |-> TreeUpto(below, n, k)]
           x == CHOOSE b : S(b)
<1>2. RebuildFenwick(f) = x[n]
  <2> DEFINE Built(j) == CHOOSE b : b = [k \in 0 .. j |-> IF k = 0 THEN [i \in 0 .. j |-> 0]
                                         ELSE AddFenwick(b[k - 1], k - 1, f[k - 1])]
  <2>1. RebuildFenwick(f) = Built(Cardinality(DOMAIN f))[Cardinality(DOMAIN f)]
    BY DEF RebuildFenwick
  <2>2. Built(n) = x
    OBVIOUS
  <2> HIDE DEF Built, x
  <2>3. QED
    BY <1>1, <2>1, <2>2
<1>3. TreeUpto(below, n, 0) = [i \in 0 .. n |-> 0]
  <2>1. below \in [0 .. n -> Nat] /\ 0 \in 0 .. n /\ below[0] = 0
    BY DEF RunningSums
  <2>2. PICK t : t = TreeUpto(below, n, 0)
    OBVIOUS
  <2>3. ASSUME NEW i \in 0 .. n PROVE t[i] = 0
    <3>1. CASE i = 0
      BY <2>2, <3>1 DEF TreeUpto
    <3>2. CASE i # 0
      <4>1. PICK b : b = i - LowBit(i)
        OBVIOUS
      <4>2. i \in 1 .. n /\ b \in 0 .. n /\ b < i
        BY <3>2, <4>1, NodeBegins
      <4>3. t[i] = below[IF i <= 0 THEN i ELSE 0] - below[IF b <= 0 THEN b ELSE 0]
        BY <2>2, <3>2, <4>1 DEF TreeUpto
      <4>4. (IF i <= 0 THEN i ELSE 0) = 0 /\ (IF b <= 0 THEN b ELSE 0) = 0
        BY <4>2
      <4>5. QED
        BY <2>1, <4>3, <4>4
    <3>3. QED
      BY <3>1, <3>2
  <2>4. t = [i \in 0 .. n |-> t[i]]
    BY <2>2 DEF TreeUpto
  <2>5. QED
    BY <2>2, <2>3, <2>4
<1>4. ASSUME NEW k \in 0 .. n, k # 0
      PROVE  k - 1 \in 0 .. n /\ AddFenwick(TreeUpto(below, n, k - 1), k - 1, f[k - 1]) = TreeUpto(below, n, k)
  <2>1. k - 1 \in 0 .. n - 1 /\ k - 1 \in 0 .. n /\ (k - 1) + 1 = k
    BY <1>4
  <2>2. AddFenwick(TreeUpto(below, n, k - 1), k - 1, f[k - 1]) = TreeUpto(below, n, (k - 1) + 1)
    BY <2>1, TreeStep
  <2>3. QED
    BY <2>1, <2>2
<1>5. S(w)
  <2>1. \A k \in 0 .. n : w[k] = TreeUpto(below, n, k)
    OBVIOUS
  <2>2. w = [k \in 0 .. n |-> w[k]]
    OBVIOUS
  <2> HIDE DEF w
  <2>3. ASSUME NEW k \in 0 .. n
        PROVE  w[k] = IF k = 0 THEN [i \in 0 .. n |-> 0] ELSE AddFenwick(w[k - 1], k - 1, f[k - 1])
    <3>1. CASE k = 0
      BY <1>3, <2>1, <3>1
    <3>2. CASE k # 0
      <4>1. w[k - 1] = TreeUpto(below, n, k - 1) /\ w[k] = TreeUpto(below, n, k)
        BY <1>4, <2>1, <3>2
      <4>2. AddFenwick(w[k - 1], k - 1, f[k - 1]) = w[k]
        BY <1>4, <3>2, <4>1
      <4>3. QED
        BY <3>2, <4>2
    <3>3. QED
      BY <3>1, <3>2
  <2>4. QED
    BY <2>2, <2>3
<1>6. S(x)
  <2>1. \E b : S(b)
    BY <1>5
  <2> HIDE DEF S
  <2>2. QED
    BY <2>1
<1> HIDE DEF x
<1>7. \A k \in 0 .. n : x[k] = IF k = 0 THEN [i \in 0 .. n |-> 0]
                               ELSE AddFenwick(x[k - 1], k - 1, f[k - 1])
  BY <1>6
<1> HIDE DEF S, w
<1> DEFINE G == {k \in Nat : k <= n => x[k] = TreeUpto(below, n, k)}
<1>8. 0 \in G
  BY <1>3, <1>7
<1>9. ASSUME NEW k \in Nat, k \in G PROVE k + 1 \in G
  <2>1. SUFFICES ASSUME k + 1 <= n PROVE x[k + 1] = TreeUpto(below, n, k + 1)
    OBVIOUS
  <2>2. x[k] = TreeUpto(below, n, k) /\ k + 1 \in 0 .. n /\ k + 1 # 0 /\ (k + 1) - 1 = k
    BY <1>9, <2>1
  <2>3. x[k + 1] = AddFenwick(x[(k + 1) - 1], (k + 1) - 1, f[(k + 1) - 1])
    BY <1>7, <2>2, Zenon
  <2>4. AddFenwick(TreeUpto(below, n, (k + 1) - 1), (k + 1) - 1, f[(k + 1) - 1])
          = TreeUpto(below, n, k + 1)
    BY <1>4, <2>2, Zenon
  <2>5. QED
    BY <2>2, <2>3, <2>4, Zenon
<1> HIDE DEF G
<1>10. Nat \subseteq G
  BY <1>8, <1>9, NaturalSteps
<1>11. x[n] = TreeUpto(below, n, n)
  BY <1>10 DEF G
<1>12. TreeUpto(below, n, n) = TreeOf(below, n)
  <2>1. \A i \in 0 .. n : i # 0 => i <= n /\ i - LowBit(i) <= n
    BY NodeBegins
  <2>2. QED
    BY <2>1 DEF TreeUpto, TreeOf
<1>13. QED
  BY <1>2, <1>11, <1>12

-----------------------------------------------------------------------------
(* update: the tree after a frequency is raised *)

\* f and its sums become g and its sums when the frequency of s is raised.
Raised(n, f, below, s, amount, g, above) ==
  /\ f \in [0 .. n - 1 -> Nat] /\ RunningSums(below, f, n)
  /\ s \in 0 .. n - 1 /\ amount \in Nat /\ g = [f EXCEPT ![s] = f[s] + amount]
  /\ RunningSums(above, g, n)

\* Raising a frequency raises the sums behind it.
LEMMA SumsRaised ==
  ASSUME NEW n \in Nat, NEW f, NEW below, NEW s, NEW amount, NEW g, NEW above,
         Raised(n, f, below, s, amount, g, above)
  PROVE  \A k \in 0 .. n : above[k] = below[k] + (IF s < k THEN amount ELSE 0)
<1>0. /\ f \in [0 .. n - 1 -> Nat] /\ s \in 0 .. n - 1 /\ amount \in Nat
      /\ g = [f EXCEPT ![s] = f[s] + amount]
  BY DEF Raised
<1>1. /\ below \in [0 .. n -> Nat] /\ below[0] = 0
      /\ \A k \in 0 .. n - 1 : below[k + 1] = below[k] + f[k]
  BY DEF RunningSums, Raised
<1>2. /\ above \in [0 .. n -> Nat] /\ above[0] = 0
      /\ \A k \in 0 .. n - 1 : above[k + 1] = above[k] + g[k]
  BY DEF RunningSums, Raised
<1> DEFINE G == {k \in Nat : k <= n => above[k] = below[k] + (IF s < k THEN amount ELSE 0)}
<1>3. 0 \in G
  BY <1>0, <1>1, <1>2
<1>4. ASSUME NEW k \in Nat, k \in G PROVE k + 1 \in G
  <2>1. SUFFICES ASSUME k + 1 <= n
                 PROVE  above[k + 1] = below[k + 1] + (IF s < k + 1 THEN amount ELSE 0)
    OBVIOUS
  <2>2. k \in 0 .. n - 1 /\ above[k] = below[k] + (IF s < k THEN amount ELSE 0)
    BY <1>4, <2>1
  <2>3. above[k + 1] = above[k] + g[k] /\ below[k + 1] = below[k] + f[k]
    BY <1>1, <1>2, <2>2
  <2>4. g[k] = f[k] + (IF k = s THEN amount ELSE 0) /\ f[k] \in Nat
    BY <1>0, <2>2
  <2>5. below[k] \in Nat
    BY <1>1, <2>2
  <2>6. QED
    BY <1>0, <2>2, <2>3, <2>4, <2>5
<1> HIDE DEF G
<1>5. Nat \subseteq G
  BY <1>3, <1>4, NaturalSteps
<1>6. ASSUME NEW k \in 0 .. n PROVE above[k] = below[k] + (IF s < k THEN amount ELSE 0)
  BY <1>5 DEF G
<1>7. QED
  BY <1>6

\* add_fenwick makes the tree of the frequencies that are raised.
LEMMA TreeRaised ==
  ASSUME NEW n \in Nat, NEW f, NEW below, NEW s, NEW amount, NEW g, NEW above,
         Raised(n, f, below, s, amount, g, above)
  PROVE  AddFenwick(TreeOf(below, n), s, amount) = TreeOf(above, n)
<1>1. \A k \in 0 .. n : above[k] = below[k] + (IF s < k THEN amount ELSE 0)
  BY SumsRaised
<1>2. below \in [0 .. n -> Nat] /\ s \in 0 .. n - 1 /\ amount \in Nat
  BY DEF RunningSums, Raised
<1>3. PICK t : t = TreeOf(below, n)
  OBVIOUS
<1>4. PICK u : u = TreeOf(above, n)
  OBVIOUS
<1>5. DOMAIN t = 0 .. n /\ t[0] = 0 /\ u[0] = 0 /\ u = [i \in 0 .. n |-> u[i]]
  BY <1>3, <1>4 DEF TreeOf
<1>6. ASSUME NEW i \in 1 .. n PROVE u[i] = IF Covers(i, s + 1) THEN t[i] + amount ELSE t[i]
  <2>1. PICK b : b = i - LowBit(i)
    OBVIOUS
  <2>2. b \in 0 .. n /\ b < i /\ i \in 0 .. n
    BY <2>1, NodeBegins
  <2>3. t[i] = below[i] - below[b]
    BY <1>3, <2>1 DEF TreeOf
  <2>4. u[i] = above[i] - above[b]
    BY <1>4, <2>1 DEF TreeOf
  <2>5. Covers(i, s + 1) <=> b < s + 1 /\ s + 1 <= i
    BY <2>1 DEF Covers
  <2>6. below[i] \in Nat /\ below[b] \in Nat
    BY <1>2, <2>2
  <2>7. above[i] = below[i] + (IF s < i THEN amount ELSE 0)
    BY <1>1, <2>2
  <2>8. above[b] = below[b] + (IF s < b THEN amount ELSE 0)
    BY <1>1, <2>2
  <2>9. QED
    BY <1>2, <2>2, <2>3, <2>4, <2>5, <2>6, <2>7, <2>8
<1>7. AddFenwick(t, s, amount) =
        [i \in 0 .. n |-> IF i # 0 /\ Covers(i, s + 1) THEN t[i] + amount ELSE t[i]]
  BY <1>2, <1>5, AddFenwickIs
<1>8. ASSUME NEW i \in 0 .. n
      PROVE  u[i] = IF i # 0 /\ Covers(i, s + 1) THEN t[i] + amount ELSE t[i]
  <2>1. CASE i = 0
    BY <1>5, <2>1
  <2>2. CASE i # 0
    <3>1. i \in 1 .. n
      BY <2>2
    <3>2. QED
      BY <1>6, <2>2, <3>1, Zenon
  <2>3. QED
    BY <2>1, <2>2
<1>9. AddFenwick(t, s, amount) = u
  BY <1>5, <1>7, <1>8
<1>10. QED
  BY <1>3, <1>4, <1>9

-----------------------------------------------------------------------------
(* prefix_sum *)

\* The tree of a model holds the sums of its frequencies.
HasTree(m, n, below) ==
  /\ n \in Nat /\ SymbolCount(m) = n /\ m.frequencies \in [0 .. n - 1 -> Nat]
  /\ RunningSums(below, m.frequencies, n) /\ m.fenwick = TreeOf(below, n)

\* prefix_sum adds up what is before a symbol.
LEMMA PrefixSumIs ==
  ASSUME NEW m, NEW n, NEW below, HasTree(m, n, below), NEW s \in 0 .. n
  PROVE  PrefixSum(m, s) = below[s]
<1> DEFINE S(c) == c = [i \in 0 .. s |-> IF i = 0 THEN 0 ELSE m.fenwick[i] + c[i - LowBit(i)]]
           w == [i \in 0 .. s |-> below[i]]
           x == CHOOSE c : S(c)
<1>1. PrefixSum(m, s) = x[s]
  BY DEF PrefixSum
<1>2. n \in Nat /\ below \in [0 .. n -> Nat] /\ below[0] = 0 /\ m.fenwick = TreeOf(below, n)
  BY DEF HasTree, RunningSums
<1>3. ASSUME NEW i \in 0 .. s, i # 0
      PROVE  /\ i - LowBit(i) \in 0 .. s /\ i - LowBit(i) < i
             /\ m.fenwick[i] + below[i - LowBit(i)] = below[i]
  <2>1. PICK b : b = i - LowBit(i)
    OBVIOUS
  <2>2. i \in 1 .. n /\ i \in 0 .. n
    BY <1>2, <1>3
  <2>3. b \in 0 .. n /\ b < i
    BY <1>2, <2>1, <2>2, NodeBegins
  <2>4. m.fenwick[i] = below[i] - below[b]
    BY <1>2, <1>3, <2>1, <2>2 DEF TreeOf
  <2>5. below[i] \in Nat /\ below[b] \in Nat
    BY <1>2, <2>2, <2>3
  <2>6. b \in 0 .. s
    BY <2>3
  <2>7. m.fenwick[i] + below[b] = below[i]
    BY <2>4, <2>5
  <2>8. QED
    BY <2>1, <2>3, <2>6, <2>7
<1>4. S(w)
  <2>1. \A i \in 0 .. s : w[i] = below[i]
    OBVIOUS
  <2>2. w = [i \in 0 .. s |-> w[i]]
    OBVIOUS
  <2> HIDE DEF w
  <2>3. ASSUME NEW i \in 0 .. s
        PROVE  w[i] = IF i = 0 THEN 0 ELSE m.fenwick[i] + w[i - LowBit(i)]
    <3>1. CASE i = 0
      BY <1>2, <2>1, <3>1
    <3>2. CASE i # 0
      <4>1. w[i - LowBit(i)] = below[i - LowBit(i)] /\ w[i] = below[i]
        BY <1>3, <2>1, <3>2
      <4>2. QED
        BY <1>3, <3>2, <4>1
    <3>3. QED
      BY <3>1, <3>2
  <2>4. QED
    BY <2>2, <2>3
<1>5. S(x)
  <2>1. \E c : S(c)
    BY <1>4
  <2> HIDE DEF S
  <2>2. QED
    BY <2>1
<1> HIDE DEF x
<1>6. \A i \in 0 .. s : x[i] = IF i = 0 THEN 0 ELSE m.fenwick[i] + x[i - LowBit(i)]
  BY <1>5
<1> HIDE DEF S, w
<1> DEFINE G == {k \in Nat : \A i \in 0 .. s : i < k => x[i] = below[i]}
<1>7. 0 \in G
  OBVIOUS
<1>8. ASSUME NEW k \in Nat, k \in G PROVE k + 1 \in G
  <2>1. SUFFICES ASSUME NEW i \in 0 .. s, i < k + 1 PROVE x[i] = below[i]
    OBVIOUS
  <2>2. CASE i = 0
    BY <1>2, <1>6, <2>2
  <2>3. CASE i # 0
    <3>1. PICK b : b = i - LowBit(i)
      OBVIOUS
    <3>2. b \in 0 .. s /\ b < i /\ m.fenwick[i] + below[b] = below[i]
      BY <1>3, <2>3, <3>1
    <3>3. x[b] = below[b]
      BY <1>8, <2>1, <3>2
    <3>4. x[i] = m.fenwick[i] + x[b]
      BY <1>6, <2>3, <3>1
    <3>5. QED
      BY <3>2, <3>3, <3>4
  <2>4. QED
    BY <2>2, <2>3
<1> HIDE DEF G
<1>9. Nat \subseteq G
  BY <1>7, <1>8, NaturalSteps
<1>10. s \in Nat /\ s + 1 \in Nat /\ s < s + 1 /\ s \in 0 .. s
  BY <1>2
<1>11. x[s] = below[s]
  BY <1>9, <1>10 DEF G
<1>12. QED
  BY <1>1, <1>11

-----------------------------------------------------------------------------
(* symbol_for_count *)

\* A number without its bits below one.
Cut(s, bit) == (s \div bit) * bit

\* It is the multiple of the bit that is not above.
LEMMA CutIs ==
  ASSUME NEW s \in Nat, NEW p \in Nat \ {0}
  PROVE  Cut(s, p) \in Nat /\ Cut(s, p) <= s /\ s < Cut(s, p) + p /\ Multiple(Cut(s, p), p)
<1>1. PICK q : q = s \div p
  OBVIOUS
<1>2. PICK r : r = s % p
  OBVIOUS
<1>3. Splits(s, p, q, r)
  BY <1>1, <1>2, Split, Zenon
<1>4. q \in Nat /\ r \in 0 .. p - 1 /\ s = q * p + r
  BY <1>3 DEF Splits
<1>5. PICK a : a = q * p
  OBVIOUS
<1>6. a \in Nat /\ s = a + r
  BY <1>4, <1>5
<1>7. Multiple(a, p)
  BY <1>4, <1>5, <1>6, MultipleIs
<1>8. Cut(s, p) = a
  BY <1>1, <1>5 DEF Cut
<1>9. QED
  BY <1>4, <1>6, <1>7, <1>8

\* There is one such multiple.
LEMMA CutOnly ==
  ASSUME NEW s \in Nat, NEW p \in Nat \ {0}, NEW a \in Nat, Multiple(a, p), a <= s, s < a + p
  PROVE  Cut(s, p) = a
<1>1. PICK b : b = Cut(s, p)
  OBVIOUS
<1>2. b \in Nat /\ b <= s /\ s < b + p /\ Multiple(b, p)
  BY <1>1, CutIs
<1>3. ASSUME a < b PROVE FALSE
  <2>1. a + p <= b
    BY <1>2, <1>3, MultiplesApart
  <2>2. QED
    BY <1>2, <2>1
<1>4. ASSUME b < a PROVE FALSE
  <2>1. b + p <= a
    BY <1>2, <1>4, MultiplesApart
  <2>2. QED
    BY <1>2, <2>1
<1>5. QED
  BY <1>1, <1>2, <1>3, <1>4

\* The bits of a number are found one after another.
LEMMA CutNext ==
  ASSUME NEW s \in Nat, NEW p, Power(p)
  PROVE  /\ Cut(s, 2 * p) \in Nat /\ Multiple(Cut(s, 2 * p), 2 * p)
         /\ Cut(s, p) = IF Cut(s, 2 * p) + p <= s THEN Cut(s, 2 * p) + p ELSE Cut(s, 2 * p)
<1>1. p \in Nat \ {0} /\ 2 * p \in Nat \ {0}
  BY DEF Power
<1>2. PICK a : a = Cut(s, 2 * p)
  OBVIOUS
<1>3. a \in Nat /\ a <= s /\ s < a + 2 * p /\ Multiple(a, 2 * p)
  BY <1>1, <1>2, CutIs
<1>4. Multiple(a, p)
  <2>1. Multiple(2 * p, p)
    BY <1>1, MultipleItself
  <2>2. QED
    BY <1>1, <1>3, <2>1, MultipleThrough
<1>5. Multiple(a + p, p) /\ a + p \in Nat
  <2>1. Multiple(p, p)
    BY <1>1, MultipleItself
  <2>2. QED
    BY <1>1, <1>3, <1>4, <2>1, MultiplesAdd
<1>6. CASE a + p <= s
  <2>1. s < (a + p) + p
    BY <1>1, <1>3
  <2>2. Cut(s, p) = a + p
    BY <1>1, <1>5, <1>6, <2>1, CutOnly
  <2>3. QED
    BY <1>2, <1>3, <1>6, <2>2
<1>7. CASE ~(a + p <= s)
  <2>1. s < a + p
    BY <1>1, <1>3, <1>7
  <2>2. Cut(s, p) = a
    BY <1>1, <1>3, <1>4, <2>1, CutOnly
  <2>3. QED
    BY <1>2, <1>3, <1>7, <2>2
<1>8. QED
  BY <1>6, <1>7

\* Count c is one of symbol s.
Counts(below, n, s, c) ==
  s \in 0 .. n - 1 /\ c \in Nat /\ below[s] <= c /\ c < below[s + 1]

\* Where the walk to a symbol stands after the turn of a bit.
Reached(below, s, bit) == [index |-> Cut(s, bit), accumulated |-> below[Cut(s, bit)]]

\* One turn of the walk.
WalkOn(m, n, c, at, bit) ==
  LET next == at.index + bit
  IN  IF next <= n /\ at.accumulated + m.fenwick[next] <= c
      THEN [index |-> next, accumulated |-> at.accumulated + m.fenwick[next]]
      ELSE at

\* A turn takes the walk to where it should be.
LEMMA WalkStep ==
  ASSUME NEW m, NEW n, NEW below, HasTree(m, n, below), NEW s, NEW c, Counts(below, n, s, c),
         NEW p, Power(p)
  PROVE  WalkOn(m, n, c, Reached(below, s, 2 * p), p) = Reached(below, s, p)
<1>1. n \in Nat /\ below \in [0 .. n -> Nat] /\ m.fenwick = TreeOf(below, n)
  BY DEF HasTree, RunningSums
<1>2. s \in 0 .. n - 1 /\ s \in Nat /\ s + 1 \in 0 .. n /\ s \in 0 .. n
      /\ c \in Nat /\ below[s] <= c /\ c < below[s + 1]
  BY <1>1 DEF Counts
<1>3. p \in Nat \ {0} /\ 2 * p \in Nat \ {0}
  BY DEF Power
<1>4. PICK a : a = Cut(s, 2 * p)
  OBVIOUS
<1>5. a \in Nat /\ Multiple(a, 2 * p) /\ a <= s
  BY <1>2, <1>3, <1>4, CutIs
<1>6. Cut(s, p) = IF a + p <= s THEN a + p ELSE a
  BY <1>2, <1>4, CutNext
<1>7. PICK at : at = Reached(below, s, 2 * p)
  OBVIOUS
<1>8. at.index = a /\ at.accumulated = below[a] /\ at = [index |-> a, accumulated |-> below[a]]
  BY <1>4, <1>7 DEF Reached
<1>9. PICK next : next = a + p
  OBVIOUS
<1>10. next \in Nat \ {0} /\ a < next
  BY <1>3, <1>5, <1>9
<1>11. ASSUME next <= n PROVE at.accumulated + m.fenwick[next] = below[next]
  <2>1. LowBit(next) = p
    BY <1>5, <1>9, LowBitNext
  <2>2. next \in 0 .. n /\ next # 0 /\ a \in 0 .. n /\ next - p = a
    BY <1>1, <1>3, <1>5, <1>9, <1>10, <1>11
  <2>3. m.fenwick[next] = below[next] - below[a]
    BY <1>1, <2>1, <2>2 DEF TreeOf
  <2>4. below[next] \in Nat /\ below[a] \in Nat
    BY <1>1, <2>2
  <2>5. QED
    BY <1>8, <2>3, <2>4
<1>12. ASSUME next <= n PROVE below[next] <= c <=> next <= s
  <2>1. next \in 0 .. n /\ below[next] \in Nat /\ below[s] \in Nat /\ below[s + 1] \in Nat
    BY <1>1, <1>2, <1>10, <1>12
  <2>2. m.frequencies \in [0 .. n - 1 -> Nat] /\ RunningSums(below, m.frequencies, n)
    BY DEF HasTree
  <2>3. next <= s => below[next] <= below[s]
    BY <1>1, <1>2, <2>1, <2>2, RunningSumsGrow
  <2>4. s + 1 <= next => below[s + 1] <= below[next]
    BY <1>1, <1>2, <2>1, <2>2, RunningSumsGrow
  <2>5. QED
    BY <1>2, <1>10, <2>1, <2>3, <2>4
<1>13. WalkOn(m, n, c, at, p) = IF next <= s THEN [index |-> next, accumulated |-> below[next]] ELSE at
  <2>1. WalkOn(m, n, c, at, p) =
          IF next <= n /\ at.accumulated + m.fenwick[next] <= c
          THEN [index |-> next, accumulated |-> at.accumulated + m.fenwick[next]] ELSE at
    BY <1>8, <1>9 DEF WalkOn
  <2>2. CASE next <= n
    BY <1>11, <1>12, <2>1, <2>2
  <2>3. CASE ~(next <= n)
    <3>1. ~(next <= s)
      BY <1>1, <1>2, <1>10, <2>3
    <3>2. QED
      BY <2>1, <2>3, <3>1
  <2>4. QED
    BY <2>2, <2>3
<1>14. Reached(below, s, p) = IF next <= s THEN [index |-> next, accumulated |-> below[next]] ELSE at
  BY <1>6, <1>8, <1>9 DEF Reached
<1>15. QED
  BY <1>7, <1>13, <1>14

\* symbol_for_count finds a symbol by each of its counts.
LEMMA SymbolForCountIs ==
  ASSUME NEW m, NEW n, NEW below, HasTree(m, n, below), NEW s, NEW c, Counts(below, n, s, c)
  PROVE  SymbolForCount(m, c) = <<s, below[s], m.frequencies[s]>>
<1>1. n \in Nat /\ below \in [0 .. n -> Nat] /\ below[0] = 0 /\ SymbolCount(m) = n
  BY DEF HasTree, RunningSums
<1>2. s \in Nat /\ s < n /\ n \in Nat \ {0} /\ s \in 0 .. n
  BY <1>1 DEF Counts
<1> DEFINE Bits == PowersOfTwo(2 * n)
           S(w) == w = [bit \in PowersOfTwo(2 * n) |->
                          IF bit > n THEN [index |-> 0, accumulated |-> 0]
                          ELSE LET at   == w[2 * bit]
                                   next == at.index + bit
                               IN  IF next <= n /\ at.accumulated + m.fenwick[next] <= c
                                   THEN [index |-> next, accumulated |-> at.accumulated + m.fenwick[next]]
                                   ELSE at]
           T(w) == w = [bit \in Bits |-> IF bit > n THEN [index |-> 0, accumulated |-> 0]
                                         ELSE WalkOn(m, n, c, w[2 * bit], bit)]
           v == [bit \in Bits |-> Reached(below, s, bit)]
           x == CHOOSE w : S(w)
<1>3. SymbolForCount(m, c) = <<x[1].index, x[1].accumulated, m.frequencies[x[1].index]>>
  BY <1>1 DEF SymbolForCount
<1>4. \A w : S(w) <=> T(w)
  BY DEF WalkOn
<1>5. \A p : p \in Bits <=> Power(p) /\ p <= 2 * n
  <2>1. 2 * n \in Nat
    BY <1>2
  <2>2. QED
    BY <2>1, PowersAre
<1>6. ASSUME NEW p \in Bits, p > n
      PROVE  Reached(below, s, p) = [index |-> 0, accumulated |-> 0]
  <2>1. p \in Nat \ {0}
    BY <1>5 DEF Power
  <2>2. Multiple(0, p) /\ 0 <= s /\ s < 0 + p /\ 0 \in Nat
    BY <1>2, <1>6, <2>1, MultipleItself
  <2>3. Cut(s, p) = 0
    BY <1>2, <2>1, <2>2, CutOnly
  <2>4. QED
    BY <1>1, <2>3 DEF Reached
<1>7. ASSUME NEW p \in Bits, ~(p > n)
      PROVE  /\ 2 * p \in Bits /\ p < 2 * p
             /\ WalkOn(m, n, c, Reached(below, s, 2 * p), p) = Reached(below, s, p)
  <2>1. Power(p) /\ p \in Nat \ {0}
    BY <1>5 DEF Power
  <2>2. Power(2 * p) /\ 2 * p <= 2 * n /\ p < 2 * p
    BY <1>2, <1>7, <2>1, TwicePower
  <2>3. 2 * p \in Bits
    BY <1>5, <2>2
  <2>4. WalkOn(m, n, c, Reached(below, s, 2 * p), p) = Reached(below, s, p)
    BY <2>1, WalkStep
  <2>5. QED
    BY <2>2, <2>3, <2>4
<1> HIDE DEF Bits
<1>8. T(v)
  <2>1. \A p \in Bits : v[p] = Reached(below, s, p)
    OBVIOUS
  <2>2. v = [p \in Bits |-> v[p]]
    OBVIOUS
  <2> HIDE DEF v
  <2>3. ASSUME NEW p \in Bits
        PROVE  v[p] = IF p > n THEN [index |-> 0, accumulated |-> 0] ELSE WalkOn(m, n, c, v[2 * p], p)
    <3>1. CASE p > n
      BY <1>6, <2>1, <3>1
    <3>2. CASE ~(p > n)
      <4>1. v[2 * p] = Reached(below, s, 2 * p) /\ v[p] = Reached(below, s, p)
        BY <1>7, <2>1, <3>2
      <4>2. v[p] = WalkOn(m, n, c, v[2 * p], p)
        BY <1>7, <3>2, <4>1
      <4>3. QED
        BY <3>2, <4>2
    <3>3. QED
      BY <3>1, <3>2
  <2>4. QED
    BY <2>2, <2>3
<1>9. T(x)
  <2>1. \E w : S(w)
    BY <1>4, <1>8
  <2>2. S(x)
    <3> HIDE DEF S
    <3>1. QED
      BY <2>1
  <2> HIDE DEF S, T, x
  <2>3. QED
    BY <1>4, <2>2
<1> HIDE DEF x
<1>10. \A p \in Bits : x[p] = IF p > n THEN [index |-> 0, accumulated |-> 0]
                              ELSE WalkOn(m, n, c, x[2 * p], p)
  BY <1>9
<1> HIDE DEF S, T, v
<1> DEFINE G == {k \in Nat : \A p \in Bits : 2 * n - p < k => x[p] = Reached(below, s, p)}
<1>11. 0 \in G
  <2>1. \A p \in Bits : p \in Nat /\ p <= 2 * n
    BY <1>5 DEF Power
  <2>2. QED
    BY <1>2, <2>1
<1>12. ASSUME NEW k \in Nat, k \in G PROVE k + 1 \in G
  <2>1. SUFFICES ASSUME NEW p \in Bits, 2 * n - p < k + 1 PROVE x[p] = Reached(below, s, p)
    OBVIOUS
  <2>2. CASE p > n
    BY <1>6, <1>10, <2>2
  <2>3. CASE ~(p > n)
    <3>1. PICK t : t = 2 * p
      OBVIOUS
    <3>2. t \in Bits /\ p < t /\ WalkOn(m, n, c, Reached(below, s, t), p) = Reached(below, s, p)
      BY <1>7, <2>3, <3>1
    <3>3. p \in Nat /\ t \in Nat
      BY <1>5, <3>2 DEF Power
    <3>4. 2 * n - t < k
      BY <1>2, <2>1, <3>2, <3>3
    <3>5. x[t] = Reached(below, s, t)
      BY <1>12, <3>2, <3>4
    <3>6. x[p] = WalkOn(m, n, c, x[t], p)
      BY <1>10, <2>3, <3>1
    <3>7. QED
      BY <3>2, <3>5, <3>6
  <2>4. QED
    BY <2>2, <2>3
<1> HIDE DEF G
<1>13. Nat \subseteq G
  BY <1>11, <1>12, NaturalSteps
<1>14. 1 \in Bits /\ 2 * n \in Nat /\ 2 * n - 1 < 2 * n
  BY <1>2, <1>5, OneIsPower
<1>15. x[1] = Reached(below, s, 1)
  BY <1>13, <1>14 DEF G
<1>16. Cut(s, 1) = s
  <2>1. s = s * 1 /\ 1 \in Nat \ {0} /\ s <= s /\ s < s + 1
    BY <1>2
  <2>2. Multiple(s, 1)
    BY <1>2, <2>1, MultipleIs
  <2>3. QED
    BY <1>2, <2>1, <2>2, CutOnly
<1>17. x[1].index = s /\ x[1].accumulated = below[s]
  BY <1>15, <1>16 DEF Reached
<1>18. QED
  BY <1>3, <1>17

-----------------------------------------------------------------------------
(* Models stay sound *)

\* The tree holds the sums, every frequency is one at least, and there is room for updates.
Fit(m) ==
  /\ m = [frequencies |-> m.frequencies, fenwick |-> m.fenwick, total |-> m.total,
          increment |-> m.increment]
  /\ \E below : HasTree(m, SymbolCount(m), below) /\ below[SymbolCount(m)] = m.total
  /\ \A s \in SymbolsOf(m) : m.frequencies[s] > 0
  /\ m.total = SumOf(m.frequencies) /\ m.total <= ModelMaxTotal
  /\ m.increment \in Nat /\ RoomForUpdates(m)

\* How many symbols there are.
LEMMA SymbolsAre ==
  ASSUME NEW m, NEW n \in Nat, DOMAIN m.frequencies = 0 .. n - 1
  PROVE  SymbolsOf(m) = 0 .. n - 1 /\ SymbolCount(m) = n
<1>1. Cardinality(0 .. n - 1) = IF 0 > n - 1 THEN 0 ELSE (n - 1) - 0 + 1
  BY FS_Interval
<1>2. Cardinality(0 .. n - 1) = n
  BY <1>1
<1>3. QED
  BY <1>2, Zenon DEF SymbolsOf, SymbolCount

\* A model that is made of positive frequencies has their tree and their total.
LEMMA ModelOfFits ==
  ASSUME NEW n \in Nat, NEW f \in [0 .. n - 1 -> Nat \ {0}], NEW increment \in Nat,
         SumOf(f) <= ModelMaxTotal, increment + 1 < n, n + increment <= ModelMaxTotal
  PROVE  Fit(ModelOf(f, increment))
<1>1. PICK m : m = ModelOf(f, increment)
  OBVIOUS
<1>2. /\ m = [frequencies |-> f, fenwick |-> RebuildFenwick(f), total |-> SumOf(f),
              increment |-> increment]
      /\ m.frequencies = f /\ m.fenwick = RebuildFenwick(f) /\ m.total = SumOf(f)
      /\ m.increment = increment
  BY <1>1 DEF ModelOf
<1>3. f \in [0 .. n - 1 -> Nat] /\ DOMAIN f = 0 .. n - 1 /\ \A s \in 0 .. n - 1 : f[s] > 0
  OBVIOUS
<1>4. SymbolsOf(m) = 0 .. n - 1 /\ SymbolCount(m) = n
  BY <1>2, <1>3, SymbolsAre
<1>5. PICK below : RunningSums(below, f, n) /\ below[n] = SumOf(f)
  BY <1>3, RunningSumsAre
<1>6. m.fenwick = TreeOf(below, n)
  BY <1>2, <1>3, <1>5, RebuildIs
<1>7. HasTree(m, n, below) /\ below[n] = m.total
  BY <1>2, <1>3, <1>4, <1>5, <1>6 DEF HasTree
<1>8. RoomForUpdates(m)
  BY <1>2, <1>4 DEF RoomForUpdates
<1>9. Fit(m)
  BY <1>2, <1>3, <1>4, <1>7, <1>8, Zenon DEF Fit
<1>10. QED
  BY <1>1, <1>9

\* Models fit that a stream starts with.
LEMMA UnusedFits ==
  ASSUME NEW m, Unused(m), RoomForUpdates(m)
  PROVE  Fit(m)
<1>1. PICK n \in Nat : n = SymbolCount(m)
  BY DEF Unused
<1>2. PICK f : f = m.frequencies
  OBVIOUS
<1>3. PICK increment \in Nat : increment = m.increment
  BY DEF Unused
<1>4. m = ModelOf(f, increment) /\ f \in [0 .. n - 1 -> Nat \ {0}] /\ m.total <= ModelMaxTotal
  BY <1>1, <1>2, <1>3, Zenon DEF Unused
<1>5. increment + 1 < n /\ n + increment <= ModelMaxTotal
  BY <1>1, <1>3 DEF RoomForUpdates
<1>6. m.total = SumOf(f)
  BY <1>4 DEF ModelOf
<1>7. QED
  BY <1>4, <1>5, <1>6, ModelOfFits

\* A count below the total is one of a symbol.
LEMMA CountOfSymbol ==
  ASSUME NEW n \in Nat, NEW below \in [0 .. n -> Nat], below[0] = 0, NEW c \in Nat, c < below[n]
  PROVE  \E s : Counts(below, n, s, c)
<1> DEFINE K == {k \in 0 .. n : c < below[k]}
<1>1. K \subseteq Nat /\ K # {}
  OBVIOUS
<1>2. PICK k \in K : \A j \in K : k <= j
  BY <1>1, LeastNatural
<1>3. k # 0 /\ k \in 0 .. n /\ c < below[k]
  BY <1>2
<1>4. k - 1 \in 0 .. n - 1 /\ k - 1 \in 0 .. n /\ (k - 1) + 1 = k /\ k - 1 \notin K
  BY <1>2, <1>3
<1>5. below[k - 1] <= c
  BY <1>4
<1>6. Counts(below, n, k - 1, c)
  BY <1>3, <1>4, <1>5 DEF Counts
<1>7. QED
  BY <1>6

\* Such a model is sound.
LEMMA FitIsSound ==
  ASSUME NEW m, Fit(m)
  PROVE  ModelSound(m)
<1>1. PICK n : n = SymbolCount(m)
  OBVIOUS
<1>2. PICK below : HasTree(m, n, below) /\ below[n] = m.total
  BY <1>1, Zenon DEF Fit
<1>3. PICK f : f = m.frequencies
  OBVIOUS
<1>4. n \in Nat /\ f \in [0 .. n - 1 -> Nat] /\ RunningSums(below, f, n)
  BY <1>2, <1>3 DEF HasTree
<1>5. /\ below \in [0 .. n -> Nat] /\ below[0] = 0
      /\ \A k \in 0 .. n - 1 : below[k + 1] = below[k] + f[k]
  BY <1>4 DEF RunningSums
<1>6. SymbolsOf(m) = 0 .. n - 1
  BY <1>3, <1>4, SymbolsAre
<1>7. \A s \in 0 .. n - 1 : f[s] > 0
  BY <1>3, <1>6, Zenon DEF Fit
<1>8. m.total = SumOf(f) /\ m.total <= ModelMaxTotal /\ n >= 2
  <2>1. m.increment \in Nat /\ m.increment + 1 < n
    BY <1>1 DEF Fit, RoomForUpdates
  <2>2. n >= 2
    BY <1>4, <2>1
  <2>3. QED
    BY <1>3, <2>2 DEF Fit
<1>9. m.total \in 1 .. ModelMaxTotal
  <2>1. below[1] = below[0] + f[0] /\ 0 \in 0 .. n - 1 /\ 1 \in 0 .. n /\ n \in 0 .. n
    <3>1. 0 \in 0 .. n - 1 /\ 0 + 1 = 1 /\ 1 \in 0 .. n /\ n \in 0 .. n
      BY <1>4, <1>8
    <3>2. QED
      BY <1>5, <3>1
  <2>2. f[0] \in Nat /\ f[0] > 0
    BY <1>4, <1>7, <2>1
  <2>3. below[1] <= below[n]
    BY <1>4, <1>8, <2>1, RunningSumsGrow
  <2>4. below[1] \in Nat /\ below[n] \in Nat
    BY <1>5, <2>1
  <2>5. below[n] >= 1
    BY <1>5, <2>1, <2>2, <2>3, <2>4
  <2>6. QED
    BY <1>2, <1>8, <2>4, <2>5, ModelAssumption
<1>10. ASSUME NEW s \in 0 .. n - 1
       PROVE  LET b == SumOf([r \in 0 .. s - 1 |-> m.frequencies[r]])
              IN  /\ m.frequencies[s] > 0
                  /\ Interval(m, s) = <<b, m.frequencies[s]>>
                  /\ \A c \in b .. b + m.frequencies[s] - 1 :
                       SymbolForCount(m, c) = <<s, b, m.frequencies[s]>>
  <2>1. PICK b : b = SumOf([r \in 0 .. s - 1 |-> f[r]])
    OBVIOUS
  <2>2. s \in 0 .. n /\ s + 1 \in 0 .. n
    BY <1>4
  <2>3. b = below[s]
    <3>1. PICK all : /\ RunningSums(all, f, n) /\ all[n] = SumOf(f)
                     /\ \A k \in 0 .. n : all[k] = SumOf([r \in 0 .. k - 1 |-> f[r]])
      BY <1>4, RunningSumsAre, Zenon
    <3>2. all[s] = b
      BY <2>1, <2>2, <3>1, Zenon
    <3>3. all[s] = below[s]
      BY <1>4, <2>2, <3>1, RunningSumsOnly
    <3>4. QED
      BY <3>2, <3>3
  <2>4. Interval(m, s) = <<b, f[s]>>
    <3>1. PrefixSum(m, s) = below[s]
      BY <1>2, <2>2, PrefixSumIs
    <3>2. QED
      BY <1>3, <2>3, <3>1, Zenon DEF Interval
  <2>5. b \in Nat /\ f[s] \in Nat /\ f[s] > 0 /\ below[s + 1] = b + f[s]
    BY <1>4, <1>5, <1>7, <2>2, <2>3
  <2>6. ASSUME NEW c \in b .. b + f[s] - 1 PROVE SymbolForCount(m, c) = <<s, b, f[s]>>
    <3>1. Counts(below, n, s, c)
      BY <2>3, <2>5 DEF Counts
    <3>2. SymbolForCount(m, c) = <<s, below[s], m.frequencies[s]>>
      BY <1>2, <3>1, SymbolForCountIs
    <3>3. QED
      BY <1>3, <2>3, <3>2
  <2>7. QED
    BY <1>3, <2>1, <2>4, <2>5, <2>6, Zenon
<1>11. QED
  BY <1>1, <1>3, <1>4, <1>6, <1>8, <1>9, <1>10, Zenon DEF ModelSound

-----------------------------------------------------------------------------
(* update keeps them so *)

\* Where every frequency is at least one, a sum has room for all the symbols in it.
LEMMA SumsAbove ==
  ASSUME NEW n \in Nat, NEW f \in [0 .. n - 1 -> Nat \ {0}], NEW below, RunningSums(below, f, n),
         NEW s \in 0 .. n - 1
  PROVE  n + f[s] <= below[n] + 1
<1> DEFINE G == {k \in Nat : k <= n => k + (IF s < k THEN f[s] - 1 ELSE 0) <= below[k]}
<1>1. /\ below \in [0 .. n -> Nat] /\ below[0] = 0
      /\ \A k \in 0 .. n - 1 : below[k + 1] = below[k] + f[k]
  BY DEF RunningSums
<1>2. 0 \in G
  BY <1>1
<1>3. ASSUME NEW k \in Nat, k \in G PROVE k + 1 \in G
  <2>1. SUFFICES ASSUME k + 1 <= n
                 PROVE  (k + 1) + (IF s < k + 1 THEN f[s] - 1 ELSE 0) <= below[k + 1]
    OBVIOUS
  <2>2. k \in 0 .. n - 1 /\ k \in 0 .. n /\ k + (IF s < k THEN f[s] - 1 ELSE 0) <= below[k]
    BY <1>3, <2>1
  <2>3. below[k + 1] = below[k] + f[k] /\ below[k] \in Nat
    BY <1>1, <2>2
  <2>4. f[k] \in Nat /\ f[k] >= 1 /\ f[s] \in Nat /\ f[s] >= 1
    BY <2>2
  <2>5. CASE s = k
    BY <2>2, <2>3, <2>4, <2>5
  <2>6. CASE s < k
    BY <2>2, <2>3, <2>4, <2>6
  <2>7. CASE k < s
    BY <2>2, <2>3, <2>4, <2>7
  <2>8. QED
    BY <2>2, <2>5, <2>6, <2>7
<1> HIDE DEF G
<1>4. Nat \subseteq G
  BY <1>2, <1>3, NaturalSteps
<1>5. n + (IF s < n THEN f[s] - 1 ELSE 0) <= below[n]
  BY <1>4 DEF G
<1>6. s < n /\ f[s] \in Nat /\ below[n] \in Nat
  BY <1>1
<1>7. QED
  BY <1>5, <1>6

\* Frequencies halved, rounded up, have not much more than half the sum.
LEMMA HalvedSum ==
  ASSUME NEW n \in Nat, NEW f \in [0 .. n - 1 -> Nat], NEW below, RunningSums(below, f, n),
         NEW g \in [0 .. n - 1 -> Nat], \A s \in 0 .. n - 1 : g[s] = f[s] - f[s] \div 2,
         NEW halves, RunningSums(halves, g, n)
  PROVE  2 * halves[n] <= below[n] + n
<1> DEFINE G == {k \in Nat : k <= n => 2 * halves[k] <= below[k] + k}
<1>1. /\ below \in [0 .. n -> Nat] /\ below[0] = 0
      /\ \A k \in 0 .. n - 1 : below[k + 1] = below[k] + f[k]
  BY DEF RunningSums
<1>2. /\ halves \in [0 .. n -> Nat] /\ halves[0] = 0
      /\ \A k \in 0 .. n - 1 : halves[k + 1] = halves[k] + g[k]
  BY DEF RunningSums
<1>3. 0 \in G
  BY <1>1, <1>2
<1>4. ASSUME NEW k \in Nat, k \in G PROVE k + 1 \in G
  <2>1. SUFFICES ASSUME k + 1 <= n PROVE 2 * halves[k + 1] <= below[k + 1] + (k + 1)
    OBVIOUS
  <2>2. k \in 0 .. n - 1 /\ k \in 0 .. n /\ 2 * halves[k] <= below[k] + k
    BY <1>4, <2>1
  <2>3. /\ below[k + 1] = below[k] + f[k] /\ below[k] \in Nat
        /\ halves[k + 1] = halves[k] + g[k] /\ halves[k] \in Nat
    BY <1>1, <1>2, <2>2
  <2>4. f[k] \in Nat /\ g[k] \in Nat /\ g[k] = f[k] - f[k] \div 2
    BY <2>2
  <2>5. 2 * g[k] <= f[k] + 1
    <3>1. PICK v \in Nat : v = f[k]
      BY <2>4
    <3>2. PICK q : q = v \div 2
      OBVIOUS
    <3>3. q \in Nat /\ v <= 2 * q + 1
      BY <3>2
    <3>4. g[k] = v - q
      BY <2>4, <3>1, <3>2
    <3>5. QED
      BY <3>1, <3>3, <3>4
  <2>6. PICK a, b, c, d : a = halves[k] /\ b = g[k] /\ c = below[k] /\ d = f[k]
    OBVIOUS
  <2>7. /\ a \in Nat /\ b \in Nat /\ c \in Nat /\ d \in Nat
        /\ 2 * a <= c + k /\ 2 * b <= d + 1 /\ halves[k + 1] = a + b /\ below[k + 1] = c + d
    BY <2>2, <2>3, <2>4, <2>5, <2>6, Zenon
  <2>8. 2 * (a + b) <= (c + d) + (k + 1)
    BY <2>7
  <2>9. QED
    BY <2>7, <2>8, Zenon
<1> HIDE DEF G
<1>5. Nat \subseteq G
  BY <1>3, <1>4, NaturalSteps
<1>6. QED
  BY <1>5 DEF G

\* A model that fits still does after an update: no frequency wraps, and where they are
\* halved the total comes back below its bound.
LEMMA UpdateFits ==
  ASSUME NEW m, Fit(m), NEW s \in SymbolsOf(m)
  PROVE  Fit(Update(m, s))
<1>1. PICK n : n = SymbolCount(m)
  OBVIOUS
<1>2. PICK below : HasTree(m, n, below) /\ below[n] = m.total
  BY <1>1, Zenon DEF Fit
<1>3. PICK f : f = m.frequencies
  OBVIOUS
<1>4. PICK inc : inc = m.increment
  OBVIOUS
<1>5. PICK t : t = m.total
  OBVIOUS
<1>6. n \in Nat /\ f \in [0 .. n - 1 -> Nat] /\ RunningSums(below, f, n) /\ m.fenwick = TreeOf(below, n)
  BY <1>2, <1>3 DEF HasTree
<1>7. SymbolsOf(m) = 0 .. n - 1 /\ s \in 0 .. n - 1
  BY <1>3, <1>6, SymbolsAre
<1>8. f \in [0 .. n - 1 -> Nat \ {0}]
  <2>1. \A r \in 0 .. n - 1 : f[r] > 0
    BY <1>3, <1>7, Zenon DEF Fit
  <2>2. \A r \in 0 .. n - 1 : f[r] \in Nat \ {0}
    BY <1>6, <2>1
  <2>3. QED
    BY <1>6, <2>2
<1>9. /\ inc \in Nat /\ inc + 1 < n /\ n + inc <= ModelMaxTotal /\ t <= ModelMaxTotal
      /\ t = SumOf(f) /\ t = below[n] /\ t \in Nat
  <2>1. inc \in Nat /\ t <= ModelMaxTotal /\ t = SumOf(f) /\ RoomForUpdates(m)
    BY <1>3, <1>4, <1>5, Zenon DEF Fit
  <2>2. inc + 1 < n /\ n + inc <= ModelMaxTotal
    BY <1>1, <1>4, <2>1 DEF RoomForUpdates
  <2>3. below[n] \in Nat
    BY <1>6 DEF RunningSums
  <2>4. QED
    BY <1>2, <1>5, <2>1, <2>2, <2>3
<1>10. f[s] \in Nat /\ (f[s] + inc) % FrequencyModulus = f[s] + inc
  <2>1. n + f[s] <= t + 1
    BY <1>6, <1>7, <1>8, <1>9, SumsAbove
  <2>2. f[s] \in Nat
    BY <1>6, <1>7
  <2>3. FrequencyModulus \in Nat \ {0} /\ ModelMaxTotal <= FrequencyModulus /\ ModelMaxTotal \in Nat
    BY ModelAssumption, CoderAssumption
  <2>4. PICK x \in Nat : x = f[s] + inc
    BY <1>9, <2>2
  <2>5. x \in 0 .. FrequencyModulus - 1
    <3>1. PICK v \in Nat : v = f[s]
      BY <2>2
    <3>2. n \in Nat /\ inc \in Nat /\ t \in Nat /\ inc + 1 < n /\ t <= ModelMaxTotal
      BY <1>6, <1>9, Zenon
    <3>3. n + v <= t + 1 /\ x = v + inc
      BY <2>1, <2>4, <3>1, Zenon
    <3>4. x < t
      BY <3>1, <3>2, <3>3
    <3>5. QED
      BY <2>3, <3>2, <3>4
  <2>6. x % FrequencyModulus = x
    BY <2>3, <2>5, SmallRemainder
  <2>7. QED
    BY <2>2, <2>4, <2>6
<1>11. PICK g : g = [f EXCEPT ![s] = f[s] + inc]
  OBVIOUS
<1>12. g \in [0 .. n - 1 -> Nat \ {0}] /\ g \in [0 .. n - 1 -> Nat] /\ \A r \in 0 .. n - 1 : g[r] > 0
  BY <1>7, <1>8, <1>9, <1>11
<1>13. [m.frequencies EXCEPT ![s] = (@ + m.increment) % FrequencyModulus] = g
  BY <1>3, <1>4, <1>10, <1>11
<1>14. PICK above : RunningSums(above, g, n) /\ above[n] = SumOf(g)
  BY <1>6, <1>12, RunningSumsAre
<1>15. Raised(n, f, below, s, inc, g, above)
  BY <1>6, <1>7, <1>9, <1>11, <1>14, Zenon DEF Raised
<1>16. SumOf(g) = t + inc
  <2>1. above[n] = below[n] + (IF s < n THEN inc ELSE 0)
    <3>1. \A k \in 0 .. n : above[k] = below[k] + (IF s < k THEN inc ELSE 0)
      BY <1>6, <1>15, SumsRaised
    <3>2. n \in 0 .. n
      BY <1>6
    <3>3. QED
      BY <3>1, <3>2
  <2>2. s < n
    BY <1>6, <1>7
  <2>3. QED
    BY <1>9, <1>14, <2>1, <2>2
<1>17. PICK h : h = [r \in 0 .. n - 1 |-> g[r] - g[r] \div 2]
  OBVIOUS
<1>18. Update(m, s) = IF t + inc > ModelMaxTotal THEN ModelOf(h, inc)
                      ELSE [m EXCEPT !.frequencies = g, !.total = t + inc,
                                     !.fenwick = AddFenwick(m.fenwick, s, inc)]
  <2>1. PICK raised : raised = [m.frequencies EXCEPT ![s] = (@ + m.increment) % FrequencyModulus]
    OBVIOUS
  <2>2. Update(m, s) =
          IF m.total + m.increment > ModelMaxTotal
          THEN ModelOf([r \in SymbolsOf(m) |-> raised[r] - raised[r] \div 2], m.increment)
          ELSE [m EXCEPT !.frequencies = raised, !.total = m.total + m.increment,
                         !.fenwick = AddFenwick(m.fenwick, s, m.increment)]
    BY <2>1 DEF Update
  <2>3. raised = g
    BY <1>13, <2>1, Zenon
  <2>4. [r \in SymbolsOf(m) |-> raised[r] - raised[r] \div 2] = h
    BY <1>7, <1>17, <2>3, Zenon
  <2>5. QED
    BY <1>4, <1>5, <2>2, <2>3, <2>4, Zenon
<1>19. CASE t + inc > ModelMaxTotal
  <2>1. h \in [0 .. n - 1 -> Nat \ {0}]
    <3>1. ASSUME NEW r \in 0 .. n - 1 PROVE g[r] - g[r] \div 2 \in Nat \ {0}
      <4>1. PICK v \in Nat \ {0} : v = g[r]
        BY <1>12
      <4>2. v - v \div 2 \in Nat \ {0}
        OBVIOUS
      <4>3. QED
        BY <4>1, <4>2
    <3>2. QED
      BY <1>17, <3>1
  <2>2. PICK halves : RunningSums(halves, h, n) /\ halves[n] = SumOf(h)
    <3>1. h \in [0 .. n - 1 -> Nat]
      BY <2>1
    <3>2. QED
      BY <1>6, <3>1, RunningSumsAre
  <2>3. 2 * halves[n] <= above[n] + n
    <3>1. h \in [0 .. n - 1 -> Nat] /\ \A r \in 0 .. n - 1 : h[r] = g[r] - g[r] \div 2
      BY <1>17, <2>1
    <3>2. QED
      BY <1>6, <1>12, <1>14, <2>2, <3>1, HalvedSum
  <2>4. halves[n] \in Nat
    BY <1>6, <2>2 DEF RunningSums
  <2>5. SumOf(h) <= ModelMaxTotal
    BY <1>6, <1>9, <1>14, <1>16, <2>2, <2>3, <2>4, ModelAssumption
  <2>6. Fit(ModelOf(h, inc))
    BY <1>6, <1>9, <2>1, <2>5, ModelOfFits
  <2>7. QED
    BY <1>18, <1>19, <2>6
<1>20. CASE ~(t + inc > ModelMaxTotal)
  <2>1. PICK tree : tree = AddFenwick(m.fenwick, s, inc)
    OBVIOUS
  <2>2. PICK u : u = [frequencies |-> g, fenwick |-> tree, total |-> t + inc, increment |-> inc]
    OBVIOUS
  <2>3. Update(m, s) = u
    <3>1. PICK old : old = m.fenwick
      OBVIOUS
    <3>2. m = [frequencies |-> f, fenwick |-> old, total |-> t, increment |-> inc]
      BY <1>3, <1>4, <1>5, <3>1, Zenon DEF Fit
    <3>3. PICK total : total = t + inc
      OBVIOUS
    <3>4. [[frequencies |-> f, fenwick |-> old, total |-> t, increment |-> inc]
             EXCEPT !.frequencies = g, !.total = total, !.fenwick = tree]
          = [frequencies |-> g, fenwick |-> tree, total |-> total, increment |-> inc]
      <4>1. [[frequencies |-> f, fenwick |-> old, total |-> t, increment |-> inc]
               EXCEPT !.frequencies = g]
            = [frequencies |-> g, fenwick |-> old, total |-> t, increment |-> inc]
        OBVIOUS
      <4>2. [[frequencies |-> g, fenwick |-> old, total |-> t, increment |-> inc]
               EXCEPT !.total = total]
            = [frequencies |-> g, fenwick |-> old, total |-> total, increment |-> inc]
        OBVIOUS
      <4>3. [[frequencies |-> g, fenwick |-> old, total |-> total, increment |-> inc]
               EXCEPT !.fenwick = tree]
            = [frequencies |-> g, fenwick |-> tree, total |-> total, increment |-> inc]
        OBVIOUS
      <4>4. QED
        BY <4>1, <4>2, <4>3
    <3>5. [m EXCEPT !.frequencies = g, !.total = total, !.fenwick = tree] = u
      BY <2>2, <3>2, <3>3, <3>4, Zenon
    <3>6. QED
      BY <1>18, <1>20, <2>1, <3>3, <3>5, Zenon
  <2>4. u.frequencies = g /\ u.fenwick = tree /\ u.total = t + inc /\ u.increment = inc
    BY <2>2
  <2>5. SymbolsOf(u) = 0 .. n - 1 /\ SymbolCount(u) = n
    <3>1. DOMAIN u.frequencies = 0 .. n - 1
      BY <1>12, <2>4
    <3>2. QED
      BY <1>6, <3>1, SymbolsAre
  <2>6. tree = TreeOf(above, n)
    BY <1>6, <1>15, <2>1, TreeRaised
  <2>7. HasTree(u, n, above) /\ above[n] = u.total
    BY <1>6, <1>12, <1>14, <1>16, <2>4, <2>5, <2>6, Zenon DEF HasTree
  <2>8. u.total <= ModelMaxTotal
    BY <1>9, <1>20, <2>4, ModelAssumption
  <2>9. RoomForUpdates(u)
    BY <1>9, <2>4, <2>5, Zenon DEF RoomForUpdates
  <2>10. Fit(u)
    <3>1. u = [frequencies |-> u.frequencies, fenwick |-> u.fenwick, total |-> u.total,
               increment |-> u.increment]
      BY <2>2
    <3>2. u.total = SumOf(u.frequencies) /\ u.increment \in Nat
      BY <1>9, <1>16, <2>4, Zenon
    <3>3. \A r \in SymbolsOf(u) : u.frequencies[r] > 0
      BY <1>12, <2>4, <2>5, Zenon
    <3>4. QED
      BY <2>5, <2>7, <2>8, <2>9, <3>1, <3>2, <3>3, Zenon DEF Fit
  <2>11. QED
    BY <2>3, <2>10
<1>21. QED
  BY <1>19, <1>20

-----------------------------------------------------------------------------
(* The interval of a coder *)

\* The sizes of words.
LEMMA Units ==
  /\ Base \in Nat \ {0, 1} /\ Bottom \in Nat \ {0} /\ Top \in Nat \ {0} /\ Word \in Nat \ {0}
  /\ Bottom >= 4 /\ Bottom <= Top /\ 2 * Top <= Word
  /\ Bottom = Base * Base /\ Top = Bottom * Base /\ Word = Top * Base
<1>1. Base \in Nat \ {0, 1} /\ Base >= 2
  BY CoderAssumption
<1>2. \A x \in Nat : x * Base \in Nat /\ 2 * x <= x * Base
  <2>1. TAKE x \in Nat
  <2>2. x * 2 <= x * Base
    BY <1>1, TimesLeq
  <2>3. QED
    BY <1>1, <2>2
<1>3. Bottom \in Nat /\ 2 * Base <= Bottom /\ Bottom = Base * Base
  BY <1>1, <1>2 DEF Bottom
<1>4. Top \in Nat /\ 2 * Bottom <= Top /\ Top = Bottom * Base
  BY <1>2, <1>3 DEF Top
<1>5. Word \in Nat /\ 2 * Top <= Word /\ Word = Top * Base
  BY <1>2, <1>4 DEF Word
<1>6. QED
  BY <1>1, <1>3, <1>4, <1>5

\* The high byte is the high byte of what is above the low two.
LEMMA TopQuotient ==
  ASSUME NEW x \in Nat PROVE x \div Top = (x \div Bottom) \div Base
<1>1. Top = Bottom * Base /\ Bottom \in Nat \ {0} /\ Base \in Nat \ {0}
  BY Units
<1>2. x \div (Bottom * Base) = (x \div Bottom) \div Base
  BY <1>1, QuotientTwice, Zenon
<1>3. QED
  BY <1>1, <1>2, Zenon

\* An interval within the word, that reaches its end only from the last high byte.
Within(l, r) ==
  l \in Nat /\ r \in Nat /\ r > 0 /\ l + r <= Word /\ (l + r = Word => l >= Word - Top)

\* Its high byte.
LEMMA HighByte ==
  ASSUME NEW l \in Nat, l < Word
  PROVE  l \div Top \in 0 .. Base - 1 /\ Splits(l, Top, l \div Top, l % Top)
<1>1. PICK t : t = l \div Top
  OBVIOUS
<1>2. Splits(l, Top, t, l % Top)
  BY <1>1, Units, Split
<1>3. PICK d : d = l % Top
  OBVIOUS
<1>4. t \in Nat /\ d \in Nat /\ l = t * Top + d
  BY <1>2, <1>3, Units DEF Splits
<1>5. t * Top < Base * Top
  <2>1. Base * Top = Word
    BY Units
  <2>2. PICK z : z = t * Top
    OBVIOUS
  <2>3. z \in Nat /\ l = z + d
    BY <1>4, <2>2, Units
  <2>4. z < Word
    BY <1>4, <2>3, Units
  <2>5. QED
    BY <2>1, <2>2, <2>4
<1>6. t < Base
  BY <1>4, <1>5, Units, TimesLess
<1>7. QED
  BY <1>1, <1>2, <1>4, <1>6, Units

\* Where the high byte is settled, all of the interval has it.
LEMMA SettledByte ==
  ASSUME NEW l, NEW r, Within(l, r), HighByteSettled(l, r)
  PROVE  (l % Top) + r < Top
<1>1. l \in Nat /\ r \in Nat /\ r > 0 /\ l + r <= Word /\ l < Word
  BY Units DEF Within
<1>2. l + r < Word
  <2>1. ASSUME l + r = Word PROVE FALSE
    <3>1. l >= Word - Top
      BY <2>1 DEF Within
    <3>2. (l + r) % Word = 0
      BY <2>1, Units, WholeRemainder
    <3>3. ((l + r) % Word) \div Top = 0
      BY <3>2, Units, SmallRemainder
    <3>4. l \div Top = 0
      BY <3>3 DEF HighByteSettled
    <3>5. PICK d : d = l % Top
      OBVIOUS
    <3>6. Splits(l, Top, 0, d)
      BY <1>1, <3>4, <3>5, Units, Split
    <3>7. l < Top
      BY <3>6, Units DEF Splits
    <3>8. QED
      BY <1>1, <3>1, <3>7, Units
  <2>2. QED
    BY <1>1, <2>1, Units
<1>3. PICK h : h = l + r
  OBVIOUS
<1>4. h \in Nat /\ h < Word /\ h % Word = h
  BY <1>1, <1>2, <1>3, Units, SmallRemainder
<1>5. h \div Top = l \div Top
  BY <1>3, <1>4 DEF HighByteSettled
<1>6. PICK t : t = l \div Top
  OBVIOUS
<1>7. PICK d : d = l % Top
  OBVIOUS
<1>8. PICK e : e = h % Top
  OBVIOUS
<1>9. Splits(l, Top, t, d) /\ Splits(h, Top, t, e)
  BY <1>1, <1>4, <1>5, <1>6, <1>7, <1>8, Units, Split
<1>10. PICK z : z = t * Top
  OBVIOUS
<1>11. z \in Nat /\ l = z + d /\ h = z + e /\ d \in Nat /\ e \in Nat /\ e < Top
  BY <1>9, <1>10, Units DEF Splits
<1>12. QED
  BY <1>1, <1>3, <1>7, <1>11

\* Where it is not and the range is small, the next multiple of BOTTOM is one of TOP and
\* within the interval.
LEMMA CutInside ==
  ASSUME NEW l, NEW r, Within(l, r), ~HighByteSettled(l, r), r < Bottom
  PROVE  /\ l % Bottom # 0 /\ l % Bottom \in 0 .. Bottom - 1
         /\ Bottom - (l % Bottom) <= r /\ (l % Top) + (Bottom - (l % Bottom)) <= Top
<1>1. l \in Nat /\ r \in Nat /\ r > 0 /\ l + r <= Word /\ l < Word
  BY Units DEF Within
<1>2. PICK q : q = l \div Bottom
  OBVIOUS
<1>3. PICK e : e = l % Bottom
  OBVIOUS
<1>4. PICK h : h = l + r
  OBVIOUS
<1>5. Splits(l, Bottom, q, e)
  BY <1>1, <1>2, <1>3, Units, Split
<1>6. PICK z : z = q * Bottom
  OBVIOUS
<1>7. z \in Nat /\ q \in Nat /\ e \in 0 .. Bottom - 1 /\ l = z + e
  BY <1>5, <1>6, Units DEF Splits
<1>8. h >= z + Bottom
  <2>1. ASSUME h < z + Bottom PROVE FALSE
    <3>1. PICK f : f = h - z
      OBVIOUS
    <3>2. f \in 0 .. Bottom - 1 /\ h = z + f /\ h \in Nat
      BY <1>1, <1>4, <1>7, <2>1, <3>1, Units
    <3>3. h \div Bottom = q
      BY <1>6, <1>7, <3>2, Units, SplitIs
    <3>4. h \div Top = l \div Top
      <4>1. h \div Top = (h \div Bottom) \div Base
        BY <3>2, TopQuotient, Zenon
      <4>2. l \div Top = (l \div Bottom) \div Base
        BY <1>1, TopQuotient, Zenon
      <4>3. QED
        BY <1>2, <3>3, <4>1, <4>2
    <3>5. h < Word
      <4>1. ASSUME h = Word PROVE FALSE
        <5>1. Word = (Bottom * Base) * Base /\ Bottom * (Base * Base) = Word
          BY Units
        <5>2. PICK k : k = Base * Base
          OBVIOUS
        <5>3. k \in Nat /\ Word = k * Bottom + 0
          BY <5>1, <5>2, Units
        <5>4. q = k
          <6>1. Word \div Bottom = k
            <7>1. 0 \in 0 .. Bottom - 1
              BY Units
            <7>2. QED
              BY <5>3, <7>1, Units, SplitIs
          <6>2. QED
            BY <3>3, <4>1, <6>1
        <5>5. z = Word
          BY <1>6, <5>3, <5>4, Units
        <5>6. QED
          BY <1>1, <1>7, <5>5, Units
      <4>2. QED
        BY <1>1, <1>4, <4>1, Units
    <3>6. h % Word = h
      BY <3>2, <3>5, Units, SmallRemainder
    <3>7. HighByteSettled(l, r)
      BY <1>4, <3>4, <3>6, Zenon DEF HighByteSettled
    <3>8. QED
      BY <3>7
  <2>2. QED
    BY <1>1, <1>4, <1>7, <2>1, Units
<1>9. e # 0 /\ Bottom - e <= r
  BY <1>1, <1>4, <1>7, <1>8, Units
<1>10. (l % Top) + (Bottom - e) <= Top
  <2>1. PICK t : t = q \div Base
    OBVIOUS
  <2>2. PICK u : u = q % Base
    OBVIOUS
  <2>3. t \in Nat /\ u \in 0 .. Base - 1 /\ q = t * Base + u
    BY <1>7, <2>1, <2>2, Units, Split DEF Splits
  <2>4. PICK v : v = u * Bottom
    OBVIOUS
  <2>5. v \in Nat /\ v + Bottom <= Top
    <3>1. u * Bottom + Bottom <= Base * Bottom
      BY <2>3, Units, TimesNext
    <3>2. Base * Bottom = Top
      BY Units
    <3>3. QED
      BY <2>3, <2>4, <3>1, <3>2, Units
  <2>6. z = t * Top + v
    <3>1. (t * Base + u) * Bottom = t * (Bottom * Base) + u * Bottom
      BY <2>3, Units
    <3>2. QED
      BY <1>6, <2>3, <2>4, <3>1, Units
  <2>7. l = t * Top + (v + e)
    <3>1. PICK y : y = t * Top
      OBVIOUS
    <3>2. y \in Nat
      BY <2>3, <3>1, Units
    <3>3. QED
      BY <1>7, <2>5, <2>6, <3>1, <3>2, Units
  <2>8. v + e \in 0 .. Top - 1
    BY <1>7, <2>5, Units
  <2>9. l % Top = v + e
    <3>1. Splits(l, Top, t, v + e)
      BY <2>3, <2>7, <2>8, Zenon DEF Splits
    <3>2. QED
      BY <3>1, Units, SplitOf, Zenon
  <2>10. (v + e) + (Bottom - e) <= Top
    BY <1>7, <2>5, Units
  <2>11. QED
    BY <2>9, <2>10
<1>11. QED
  BY <1>3, <1>7, <1>9, <1>10, Zenon

-----------------------------------------------------------------------------
(* One turn of renormalize *)

\* The interval with a word in it.
Holds(l, r, w) == w \in Nat /\ l <= w /\ w < l + r

\* A word without its high byte, moved up by one.
LEMMA MovedUp ==
  ASSUME NEW x \in Nat, NEW t \in Nat, NEW d \in 0 .. Top - 1, x = t * Top + d
  PROVE  (x * Base) % Word = d * Base /\ d * Base \in 0 .. Word - Base
<1>1. Word = Top * Base /\ Base \in Nat /\ Word \in Nat \ {0} /\ Top \in Nat /\ Base > 0
  BY Units
<1>2. PICK e : e = d * Base
  OBVIOUS
<1>3. e \in Nat /\ e + Base <= Word
  <2>1. d * Base + Base <= Top * Base
    BY <1>1, TimesNext
  <2>2. d * Base \in Nat
    BY <1>1
  <2>3. QED
    BY <1>1, <1>2, <2>1, <2>2
<1>4. x * Base = t * Word + e
  <2>1. (t * Top + d) * Base = t * (Top * Base) + d * Base
    BY <1>1
  <2>2. QED
    BY <1>1, <1>2, <2>1
<1>5. e \in 0 .. Word - 1
  BY <1>1, <1>3
<1>6. PICK y : y = x * Base
  OBVIOUS
<1>7. Splits(y, Word, t, e)
  BY <1>4, <1>5, <1>6, Zenon DEF Splits
<1>8. y % Word = e
  BY <1>1, <1>7, SplitOf, Zenon
<1>9. e \in 0 .. Word - Base
  BY <1>1, <1>3
<1>10. QED
  BY <1>2, <1>6, <1>8, <1>9, Zenon

\* What is left of the interval when its high byte goes out: all of it has that byte.
LEMMA CutFits ==
  ASSUME NEW l, NEW r, Within(l, r), ~Settled(l, r)
  PROVE  /\ CutRange(l, r) \in Nat \ {0} /\ CutRange(l, r) <= r
         /\ (l % Top) + CutRange(l, r) <= Top
         /\ (l % Top) + CutRange(l, r) = Top => (l % Top) + Bottom >= Top
<1>1. r \in Nat \ {0}
  BY DEF Within
<1>2. PICK d : d = l % Top
  OBVIOUS
<1>3. d \in 0 .. Top - 1
  <2>1. l \in Nat /\ l < Word
    BY Units DEF Within
  <2>2. QED
    BY <1>2, <2>1, HighByte, Zenon DEF Splits
<1>4. CASE HighByteSettled(l, r)
  <2>1. CutRange(l, r) = r
    BY <1>4, Zenon DEF CutRange
  <2>2. d + r < Top
    BY <1>2, <1>4, SettledByte, Zenon
  <2>3. QED
    BY <1>1, <1>2, <1>3, <2>1, <2>2, Units
<1>5. CASE ~HighByteSettled(l, r)
  <2>1. r < Bottom
    BY <1>1, <1>5, Units DEF Settled
  <2>2. PICK e : e = l % Bottom
    OBVIOUS
  <2>3. e # 0 /\ e \in 0 .. Bottom - 1 /\ Bottom - e <= r /\ d + (Bottom - e) <= Top
    BY <1>2, <1>5, <2>1, <2>2, CutInside, Zenon
  <2>4. PICK c : c = Bottom - e
    OBVIOUS
  <2>5. c \in 0 .. Bottom - 1 /\ c # 0 /\ c <= r /\ d + c <= Top
    BY <2>3, <2>4, Units
  <2>6. c % Bottom = c
    BY <2>5, SmallRemainder, Units, Zenon
  <2>7. CutRange(l, r) = c
    BY <1>5, <2>2, <2>4, <2>6, Zenon DEF CutRange
  <2>8. c \in Nat \ {0} /\ (d + c = Top => d + Bottom >= Top)
    BY <1>3, <2>5, Units
  <2>9. QED
    BY <1>2, <2>5, <2>7, <2>8, Zenon
<1>6. QED
  BY <1>4, <1>5

\* The interval of the next turn.
LEMMA ShiftFits ==
  ASSUME NEW l, NEW r, Within(l, r), ~Settled(l, r)
  PROVE  /\ (l * Base) % Word = (l % Top) * Base
         /\ (CutRange(l, r) * Base) % Word = CutRange(l, r) * Base
         /\ Within((l % Top) * Base, CutRange(l, r) * Base)
<1>1. PICK d : d = l % Top
  OBVIOUS
<1>2. PICK t : t = l \div Top
  OBVIOUS
<1>3. PICK c : c = CutRange(l, r)
  OBVIOUS
<1>4. l \in Nat /\ l < Word /\ r \in Nat /\ r < Word + 1
  BY Units DEF Within
<1>5. t \in Nat /\ d \in 0 .. Top - 1 /\ l = t * Top + d
  BY <1>1, <1>2, <1>4, HighByte, Zenon DEF Splits
<1>6. c \in Nat \ {0} /\ c <= r /\ d + c <= Top /\ (d + c = Top => d + Bottom >= Top)
  BY <1>1, <1>3, CutFits, Zenon
<1>7. (l * Base) % Word = d * Base
  BY <1>4, <1>5, MovedUp, Zenon
<1>8. PICK x : x = d * Base
  OBVIOUS
<1>9. PICK y : y = c * Base
  OBVIOUS
<1>10. x \in Nat /\ y \in Nat /\ y > 0 /\ x + y <= Word /\ (x + y = Word => x >= Word - Top)
  <2>1. x \in Nat /\ y \in Nat
    BY <1>5, <1>6, <1>8, <1>9, Units
  <2>2. 1 * Base <= c * Base
    BY <1>6, Units, TimesLeq
  <2>3. y > 0
    BY <1>9, <2>1, <2>2, Units
  <2>4. PICK s : s = d + c
    OBVIOUS
  <2>5. x + y = s * Base /\ s \in Nat
    <3>1. (d + c) * Base = d * Base + c * Base
      BY <1>5, <1>6, Units
    <3>2. QED
      BY <1>5, <1>6, <1>8, <1>9, <2>4, <3>1
  <2>6. s * Base <= Top * Base
    BY <1>6, <2>4, <2>5, Units, TimesLeq
  <2>7. x + y <= Word
    BY <2>5, <2>6, Units
  <2>8. ASSUME x + y = Word PROVE x >= Word - Top
    <3>1. s = Top
      <4>1. ASSUME s < Top PROVE FALSE
        <5>1. s * Base + Base <= Top * Base
          BY <2>5, <4>1, Units, TimesNext
        <5>2. QED
          BY <2>1, <2>5, <2>8, <5>1, Units
      <4>2. QED
        BY <1>6, <2>4, <2>5, <4>1, Units
    <3>2. Top <= d + Bottom
      BY <1>5, <1>6, <2>4, <3>1, Units
    <3>3. Top * Base <= (d + Bottom) * Base
      BY <1>5, <3>2, Units, TimesLeq
    <3>4. (d + Bottom) * Base = d * Base + Bottom * Base
      BY <1>5, Units
    <3>5. Word <= x + Top
      BY <1>8, <3>3, <3>4, Units
    <3>6. QED
      BY <2>1, <3>5, Units
  <2>9. QED
    BY <2>1, <2>3, <2>7, <2>8
<1>11. Within(x, y)
  BY <1>10, Zenon DEF Within
<1>12. y % Word = y
  <2>1. y \in 0 .. Word - 1
    <3>1. ASSUME y = Word PROVE FALSE
      BY <1>10, <3>1, Units
    <3>2. QED
      BY <1>10, <3>1, Units
  <2>2. QED
    BY <2>1, SmallRemainder, Units, Zenon
<1>13. QED
  BY <1>1, <1>3, <1>7, <1>8, <1>9, <1>11, <1>12, Zenon

\* A word with the interval's high byte, of which the next turn holds what follows, is
\* in the interval.
LEMMA ShiftHolds ==
  ASSUME NEW l, NEW r, Within(l, r), ~Settled(l, r),
         NEW w \in 0 .. Word - 1, w \div Top = l \div Top, NEW b \in 0 .. Base - 1,
         Holds((l % Top) * Base, CutRange(l, r) * Base, ((w * Base) % Word) + b)
  PROVE  Holds(l, r, w)
<1>1. PICK d : d = l % Top
  OBVIOUS
<1>2. PICK t : t = l \div Top
  OBVIOUS
<1>3. PICK c : c = CutRange(l, r)
  OBVIOUS
<1>4. PICK e : e = w % Top
  OBVIOUS
<1>5. l \in Nat /\ l < Word /\ r \in Nat /\ w \in Nat /\ w < Word
  BY Units DEF Within
<1>6. t \in Nat /\ d \in 0 .. Top - 1 /\ l = t * Top + d
  BY <1>1, <1>2, <1>5, HighByte, Zenon DEF Splits
<1>7. e \in 0 .. Top - 1 /\ w = t * Top + e
  BY <1>2, <1>4, <1>5, HighByte, Zenon DEF Splits
<1>8. c \in Nat \ {0} /\ c <= r
  BY <1>3, CutFits, Zenon
<1>9. (w * Base) % Word = e * Base
  BY <1>5, <1>6, <1>7, MovedUp, Zenon
<1>10. Holds(d * Base, c * Base, e * Base + b)
  BY <1>1, <1>3, <1>9, Zenon
<1>11. d <= e
  <2>1. ASSUME e < d PROVE FALSE
    <3>1. e * Base + Base <= d * Base
      BY <1>6, <1>7, <2>1, Units, TimesNext
    <3>2. PICK x : x = d * Base
      OBVIOUS
    <3>3. PICK y : y = e * Base
      OBVIOUS
    <3>4. x \in Nat /\ y \in Nat
      BY <1>6, <1>7, <3>2, <3>3, Units
    <3>5. x <= y + b
      BY <1>10, <3>2, <3>3 DEF Holds
    <3>6. y + Base <= x
      BY <3>1, <3>2, <3>3
    <3>7. QED
      BY <3>4, <3>5, <3>6, Units
  <2>2. QED
    BY <1>6, <1>7, <2>1, Units
<1>12. e < d + c
  <2>1. PICK x : x = (d + c) * Base
    OBVIOUS
  <2>2. PICK y : y = e * Base
    OBVIOUS
  <2>3. x \in Nat /\ y \in Nat /\ d * Base + c * Base = x
    BY <1>6, <1>7, <1>8, <2>1, <2>2, Units
  <2>4. y + b < x
    BY <1>10, <2>2, <2>3 DEF Holds
  <2>5. y < x
    BY <2>3, <2>4
  <2>6. d + c \in Nat /\ e \in Nat /\ Base \in Nat
    BY <1>6, <1>7, <1>8, Units
  <2>7. QED
    BY <2>1, <2>2, <2>5, <2>6, TimesLess
<1>13. PICK z : z = t * Top
  OBVIOUS
<1>14. z \in Nat /\ l = z + d /\ w = z + e
  BY <1>6, <1>7, <1>13, Units
<1>15. QED
  BY <1>5, <1>6, <1>7, <1>8, <1>11, <1>12, <1>14 DEF Holds

-----------------------------------------------------------------------------
(* Coding a symbol *)

\* b and f: the sum below a symbol and its frequency, of a total of n.
Slice(b, f, n) == b \in Nat /\ f \in Nat \ {0} /\ n \in Nat \ {0} /\ b + f <= n

\* The part of an interval that a symbol takes, with a unit of u.
Takes(l, r, b, f, u) ==
  /\ u \in Nat \ {0} /\ (l + b * u) % Word = l + b * u /\ (u * f) % Word = u * f
  /\ Within(l + b * u, u * f) /\ u * f + b * u <= r

\* Encode fits: a slice of an interval of words is computed without wrapping.
LEMMA CodeFits ==
  ASSUME NEW l, NEW r, Within(l, r), NEW b, NEW f, NEW n, Slice(b, f, n), r \div n # 0
  PROVE  Takes(l, r, b, f, r \div n)
<1>1. PICK u : u = r \div n
  OBVIOUS
<1>2. l \in Nat /\ r \in Nat /\ r > 0 /\ l + r <= Word
  BY DEF Within
<1>3. b \in Nat /\ f \in Nat \ {0} /\ n \in Nat \ {0} /\ b + f <= n
  BY DEF Slice
<1>4. PICK e : e = r % n
  OBVIOUS
<1>5. Splits(r, n, u, e)
  BY <1>1, <1>2, <1>3, <1>4, Split, Zenon
<1>6. u \in Nat /\ e \in Nat /\ r = u * n + e
  BY <1>3, <1>5 DEF Splits
<1>7. u \in Nat \ {0}
  BY <1>1, <1>6
<1>8. PICK x : x = b * u
  OBVIOUS
<1>9. PICK y : y = u * f
  OBVIOUS
<1>10. x \in Nat /\ y \in Nat /\ y > 0
  <2>1. u * 1 <= u * f
    BY <1>3, <1>6, TimesLeq
  <2>2. x \in Nat /\ y \in Nat
    BY <1>3, <1>6, <1>8, <1>9
  <2>3. u * 1 = u
    BY <1>6
  <2>4. QED
    BY <1>7, <1>9, <2>1, <2>2, <2>3
<1>11. x + y <= r
  <2>1. PICK s : s = b + f
    OBVIOUS
  <2>2. s \in Nat /\ s <= n
    BY <1>3, <2>1
  <2>3. u * s <= u * n
    BY <1>3, <1>6, <2>2, TimesLeq
  <2>4. u * s = x + y
    <3>1. u * (b + f) = b * u + u * f
      BY <1>3, <1>6
    <3>2. QED
      BY <1>8, <1>9, <2>1, <3>1
  <2>5. PICK v : v = u * n
    OBVIOUS
  <2>6. v \in Nat /\ r = v + e
    BY <1>3, <1>6, <2>5
  <2>7. QED
    BY <1>6, <1>10, <2>3, <2>4, <2>5, <2>6
<1>12. l + x < Word /\ y <= r /\ (l + x) + y <= l + r
  BY <1>2, <1>10, <1>11, Units
<1>13. y < Word
  <2>1. ASSUME y = Word PROVE FALSE
    <3>1. l = 0 /\ l + r = Word
      BY <1>2, <1>12, <2>1, Units
    <3>2. l >= Word - Top
      BY <3>1 DEF Within
    <3>3. QED
      BY <3>1, <3>2, Units
  <2>2. QED
    BY <1>2, <1>10, <1>12, <2>1, Units
<1>14. (l + x) + y = Word => l + x >= Word - Top
  <2>1. ASSUME (l + x) + y = Word PROVE l + x >= Word - Top
    <3>1. l + r = Word
      BY <1>2, <1>10, <1>12, <2>1, Units
    <3>2. l >= Word - Top
      BY <3>1 DEF Within
    <3>3. QED
      BY <1>2, <1>10, <3>2, Units
  <2>2. QED
    BY <2>1
<1>15. l + x \in Nat /\ (l + x) + y <= Word
  BY <1>2, <1>10, <1>12, Units
<1>16. Within(l + x, y)
  BY <1>10, <1>14, <1>15, Zenon DEF Within
<1>17. (l + x) % Word = l + x /\ y % Word = y
  <2>1. l + x \in 0 .. Word - 1 /\ y \in 0 .. Word - 1
    BY <1>10, <1>12, <1>13, <1>15, Units
  <2>2. QED
    BY <2>1, SmallRemainder, Units, Zenon
<1>18. y + x <= r
  BY <1>10, <1>11
<1>19. Takes(l, r, b, f, u)
  BY <1>7, <1>8, <1>9, <1>16, <1>17, <1>18, Zenon DEF Takes
<1>20. QED
  BY <1>1, <1>19, Zenon

\* A word there is in the whole interval, and counts inside the symbol.
LEMMA CodeHolds ==
  ASSUME NEW l, NEW r, Within(l, r), NEW b, NEW f, NEW n, Slice(b, f, n), r \div n # 0,
         NEW w \in 0 .. Word - 1, Holds(l + b * (r \div n), (r \div n) * f, w)
  PROVE  /\ Holds(l, r, w)
         /\ ((w - l) % Word) \div (r \div n) \in b .. b + f - 1
<1>1. PICK u : u = r \div n
  OBVIOUS
<1>2. l \in Nat /\ r \in Nat
  BY DEF Within
<1>3. b \in Nat /\ f \in Nat \ {0} /\ n \in Nat \ {0} /\ b + f <= n
  BY DEF Slice
<1>4. PICK x : x = b * u
  OBVIOUS
<1>5. PICK y : y = u * f
  OBVIOUS
<1>6. u \in Nat \ {0} /\ y + x <= r
  BY <1>1, <1>4, <1>5, CodeFits, Zenon DEF Takes
<1>7. x \in Nat /\ y \in Nat
  BY <1>3, <1>4, <1>5, <1>6
<1>8. l + x <= w /\ w < (l + x) + y
  BY <1>1, <1>4, <1>5 DEF Holds
<1>9. Holds(l, r, w)
  BY <1>2, <1>6, <1>7, <1>8, Units DEF Holds
<1>10. PICK o : o = w - l
  OBVIOUS
<1>11. o \in 0 .. Word - 1 /\ x <= o /\ o < x + y
  BY <1>2, <1>7, <1>8, <1>10, Units
<1>12. o % Word = o
  BY <1>11, SmallRemainder, Units, Zenon
<1>13. PICK q : q = o \div u
  OBVIOUS
<1>14. PICK e : e = o % u
  OBVIOUS
<1>15. Splits(o, u, q, e)
  <2>1. o \in Nat
    BY <1>11, Units
  <2>2. QED
    BY <1>6, <1>13, <1>14, <2>1, Split, Zenon
<1>16. q \in Nat /\ e \in 0 .. u - 1 /\ o = q * u + e
  BY <1>15, Zenon DEF Splits
<1>17. PICK z : z = q * u
  OBVIOUS
<1>18. z \in Nat /\ o = z + e
  BY <1>6, <1>16, <1>17
<1>19. b <= q
  <2>1. ASSUME q < b PROVE FALSE
    <3>1. q * u + u <= b * u
      BY <1>3, <1>6, <1>16, <2>1, TimesNext
    <3>2. QED
      BY <1>4, <1>6, <1>7, <1>11, <1>16, <1>17, <1>18, <3>1
  <2>2. QED
    BY <1>3, <1>16, <2>1
<1>20. q < b + f
  <2>1. PICK s : s = b + f
    OBVIOUS
  <2>2. s \in Nat
    BY <1>3, <2>1
  <2>3. s * u = x + y
    <3>1. (b + f) * u = b * u + u * f
      BY <1>3, <1>6
    <3>2. QED
      BY <1>4, <1>5, <2>1, <3>1
  <2>4. z < s * u
    BY <1>7, <1>11, <1>16, <1>18, <2>3
  <2>5. QED
    BY <1>6, <1>16, <1>17, <2>1, <2>2, <2>4, TimesLess
<1>21. q \in b .. b + f - 1
  BY <1>3, <1>16, <1>19, <1>20
<1>22. QED
  BY <1>1, <1>9, <1>10, <1>12, <1>13, <1>21, Zenon

-----------------------------------------------------------------------------
(* The decoder's word *)

\* Four digits make a word, and the first of them is its high byte.
LEMMA FourDigits ==
  ASSUME NEW a \in 0 .. Base - 1, NEW b \in 0 .. Base - 1, NEW c \in 0 .. Base - 1,
         NEW d \in 0 .. Base - 1
  PROVE  /\ ((a * Base + b) * Base + c) * Base + d = a * Top + ((b * Base + c) * Base + d)
         /\ (b * Base + c) * Base + d \in 0 .. Top - 1
         /\ ((a * Base + b) * Base + c) * Base + d \in 0 .. Word - 1
         /\ (((a * Base + b) * Base + c) * Base + d) \div Top = a
<1>1. Base \in Nat /\ Base > 0 /\ Bottom = Base * Base /\ Top = Bottom * Base /\ Word = Top * Base
  BY Units
<1>2. ASSUME NEW x \in Nat, NEW m \in Nat, x < m, NEW y \in 0 .. Base - 1
      PROVE  x * Base + y \in Nat /\ x * Base + y < m * Base
  <2>1. x * Base + Base <= m * Base
    BY <1>1, <1>2, TimesNext
  <2>2. x * Base \in Nat /\ m * Base \in Nat
    BY <1>1, <1>2
  <2>3. PICK p : p = x * Base
    OBVIOUS
  <2>4. QED
    BY <1>1, <1>2, <2>1, <2>2, <2>3
<1>3. PICK g : g = b * Base + c
  OBVIOUS
<1>4. g \in Nat /\ g < Bottom
  <2>1. b \in Nat /\ b < Base
    BY <1>1
  <2>2. b * Base + c \in Nat /\ b * Base + c < Base * Base
    BY <1>1, <1>2, <2>1
  <2>3. QED
    BY <1>1, <1>3, <2>2
<1>5. PICK h : h = g * Base + d
  OBVIOUS
<1>6. h \in Nat /\ h < Top
  <2>1. Bottom \in Nat
    BY Units
  <2>2. g * Base + d \in Nat /\ g * Base + d < Bottom * Base
    BY <1>2, <1>4, <2>1
  <2>3. QED
    BY <1>1, <1>5, <2>2
<1>7. ((a * Base + b) * Base + c) * Base + d = a * ((Base * Base) * Base) + ((b * Base + c) * Base + d)
  BY <1>1
<1>8. a * ((Base * Base) * Base) = a * Top
  BY <1>1
<1>9. PICK z : z = a * Top
  OBVIOUS
<1>10. PICK w : w = ((a * Base + b) * Base + c) * Base + d
  OBVIOUS
<1>11. w = z + h
  BY <1>3, <1>5, <1>7, <1>8, <1>9, <1>10
<1>12. h \in 0 .. Top - 1 /\ a \in Nat
  BY <1>1, <1>6, Units
<1>13. Splits(w, Top, a, h)
  BY <1>9, <1>11, <1>12, Zenon DEF Splits
<1>14. w \div Top = a
  BY <1>13, Units, SplitOf, Zenon
<1>15. w \in 0 .. Word - 1
  <2>1. a * Top + Top <= Base * Top
    BY <1>1, <1>12, Units, TimesNext
  <2>2. Base * Top = Word
    BY Units
  <2>3. z \in Nat
    BY <1>9, <1>12, Units
  <2>4. z + Top <= Word
    BY <1>9, <2>1, <2>2
  <2>5. QED
    BY <1>11, <1>12, <2>3, <2>4, Units
<1>16. QED
  BY <1>3, <1>5, <1>9, <1>10, <1>11, <1>12, <1>14, <1>15, Zenon

\* Bytes, wherever they are read.
LEMMA AnyByte ==
  ASSUME NEW bytes \in Seq(0 .. Base - 1), NEW i \in Nat \ {0}
  PROVE  ByteAt(bytes, i) \in 0 .. Base - 1
BY Units DEF ByteAt

\* A byte on: the high byte goes, the next one comes.
LEMMA CodeNext ==
  ASSUME NEW bytes \in Seq(0 .. Base - 1), NEW n \in Nat
  PROVE  /\ CodeAfter(bytes, n) \in 0 .. Word - 1
         /\ CodeAfter(bytes, n) \div Top = ByteAt(bytes, n + 1)
         /\ CodeAfter(bytes, n + 1) = ((CodeAfter(bytes, n) * Base) % Word) + ByteAt(bytes, n + 5)
<1>1. PICK a : a = ByteAt(bytes, n + 1)
  OBVIOUS
<1>2. PICK b : b = ByteAt(bytes, n + 2)
  OBVIOUS
<1>3. PICK c : c = ByteAt(bytes, n + 3)
  OBVIOUS
<1>4. PICK d : d = ByteAt(bytes, n + 4)
  OBVIOUS
<1>5. PICK e : e = ByteAt(bytes, n + 5)
  OBVIOUS
<1>6. /\ a \in 0 .. Base - 1 /\ b \in 0 .. Base - 1 /\ c \in 0 .. Base - 1 /\ d \in 0 .. Base - 1
      /\ e \in 0 .. Base - 1
  <2>1. /\ n + 1 \in Nat \ {0} /\ n + 2 \in Nat \ {0} /\ n + 3 \in Nat \ {0}
        /\ n + 4 \in Nat \ {0} /\ n + 5 \in Nat \ {0}
    OBVIOUS
  <2>2. QED
    BY <1>1, <1>2, <1>3, <1>4, <1>5, <2>1, AnyByte, Zenon
<1>7. (n + 1) + 1 = n + 2 /\ (n + 1) + 2 = n + 3 /\ (n + 1) + 3 = n + 4 /\ (n + 1) + 4 = n + 5
  OBVIOUS
<1>8. CodeAfter(bytes, n) = ((a * Base + b) * Base + c) * Base + d
  BY <1>1, <1>2, <1>3, <1>4, Zenon DEF CodeAfter
<1>9. CodeAfter(bytes, n + 1) = ((b * Base + c) * Base + d) * Base + e
  BY <1>2, <1>3, <1>4, <1>5, <1>7, Zenon DEF CodeAfter
<1>10. PICK w : w = ((a * Base + b) * Base + c) * Base + d
  OBVIOUS
<1>11. PICK h : h = (b * Base + c) * Base + d
  OBVIOUS
<1>12. w = a * Top + h /\ h \in 0 .. Top - 1 /\ w \in 0 .. Word - 1 /\ w \div Top = a
  <2>1. /\ ((a * Base + b) * Base + c) * Base + d = a * Top + ((b * Base + c) * Base + d)
        /\ (b * Base + c) * Base + d \in 0 .. Top - 1
        /\ ((a * Base + b) * Base + c) * Base + d \in 0 .. Word - 1
        /\ (((a * Base + b) * Base + c) * Base + d) \div Top = a
    BY <1>6, FourDigits
  <2>2. QED
    BY <1>10, <1>11, <2>1, Zenon
<1>13. a \in Nat /\ w \in Nat
  BY <1>6, <1>12, Units
<1>14. (w * Base) % Word = h * Base
  BY <1>12, <1>13, MovedUp, Zenon
<1>15. CodeAfter(bytes, n) = w /\ CodeAfter(bytes, n + 1) = h * Base + e
  BY <1>8, <1>9, <1>10, <1>11, Zenon
<1>16. CodeAfter(bytes, n) \in 0 .. Word - 1 /\ CodeAfter(bytes, n) \div Top = ByteAt(bytes, n + 1)
  BY <1>1, <1>12, <1>15, Zenon
<1>17. CodeAfter(bytes, n + 1) = ((CodeAfter(bytes, n) * Base) % Word) + ByteAt(bytes, n + 5)
  BY <1>5, <1>14, <1>15, Zenon
<1>18. QED
  BY <1>16, <1>17, Zenon

-----------------------------------------------------------------------------
(* The terminator *)

\* A prefix of the midpoint that neither end of an interval has tells the interval,
\* whatever follows it.
LEMMA Separated ==
  ASSUME NEW l \in Nat, NEW m \in Nat, NEW h \in Nat, l <= m, m <= h, NEW u \in Nat \ {0},
         m \div u # l \div u, m \div u # h \div u, NEW x \in 0 .. u - 1
  PROVE  l <= (m \div u) * u + x /\ (m \div u) * u + x <= h
<1>1. PICK q : q = m \div u
  OBVIOUS
<1>2. PICK p : p = l \div u
  OBVIOUS
<1>3. PICK s : s = h \div u
  OBVIOUS
<1>4. p <= q /\ q <= s
  BY <1>1, <1>2, <1>3, QuotientLeq, Zenon
<1>5. PICK a : a = l % u
  OBVIOUS
<1>6. PICK b : b = h % u
  OBVIOUS
<1>7. PICK e : e = m % u
  OBVIOUS
<1>8. Splits(l, u, p, a) /\ Splits(h, u, s, b) /\ Splits(m, u, q, e)
  BY <1>1, <1>2, <1>3, <1>5, <1>6, <1>7, Split, Zenon
<1>9. p \in Nat /\ a \in 0 .. u - 1 /\ l = p * u + a
  BY <1>8, Zenon DEF Splits
<1>10. s \in Nat /\ b \in 0 .. u - 1 /\ h = s * u + b /\ q \in Nat
  BY <1>8, Zenon DEF Splits
<1>11. p < q /\ q < s
  BY <1>1, <1>2, <1>3, <1>4, <1>9, <1>10
<1>12. PICK z : z = q * u
  OBVIOUS
<1>13. PICK y : y = p * u
  OBVIOUS
<1>14. PICK v : v = s * u
  OBVIOUS
<1>15. z \in Nat /\ y \in Nat /\ v \in Nat /\ l = y + a /\ h = v + b
  BY <1>9, <1>10, <1>12, <1>13, <1>14
<1>16. y + u <= z /\ z + u <= v
  BY <1>9, <1>10, <1>11, <1>12, <1>13, <1>14, TimesNext
<1>17. l <= z + x /\ z + x <= h
  BY <1>9, <1>10, <1>15, <1>16
<1>18. QED
  BY <1>1, <1>12, <1>17

\* The prefixes of a word.
LEMMA LeadingIs ==
  ASSUME NEW w
  PROVE  /\ Leading(w, 1) = w \div Top /\ Leading(w, 2) = w \div Bottom
         /\ Leading(w, 3) = w \div Base /\ Leading(w, 4) = w \div 1
<1>1. PICK units : units = <<Top, Bottom, Base, 1>>
  OBVIOUS
<1>2. units[1] = Top /\ units[2] = Bottom /\ units[3] = Base /\ units[4] = 1
  BY <1>1
<1>3. QED
  BY <1>1, <1>2, Zenon DEF Leading

\* Each prefix is the one before it and a digit.
LEMMA LeadingDigits ==
  ASSUME NEW w \in Nat, w < Word
  PROVE  /\ Leading(w, 1) = Leading(w, 1) % Base
         /\ Leading(w, 2) = Leading(w, 1) * Base + (Leading(w, 2) % Base)
         /\ Leading(w, 3) = Leading(w, 2) * Base + (Leading(w, 3) % Base)
         /\ Leading(w, 4) = Leading(w, 3) * Base + (Leading(w, 4) % Base)
         /\ \A k \in 1 .. 4 : Leading(w, k) \in Nat /\ Leading(w, k) % Base \in 0 .. Base - 1
<1>1. PICK a : a = w \div Top
  OBVIOUS
<1>2. PICK b : b = w \div Bottom
  OBVIOUS
<1>3. PICK c : c = w \div Base
  OBVIOUS
<1>4. w \div 1 = w
  OBVIOUS
<1>5. Base \in Nat \ {0} /\ Bottom \in Nat \ {0} /\ Bottom = Base * Base
  BY Units
<1>6. a = b \div Base
  BY <1>1, <1>2, TopQuotient, Zenon
<1>7. b = c \div Base
  BY <1>2, <1>3, <1>5, QuotientTwice, Zenon
<1>8. \A x \in Nat : x \div Base \in Nat /\ x % Base \in 0 .. Base - 1
                      /\ x = (x \div Base) * Base + (x % Base)
  BY <1>5, Split, Zenon DEF Splits
<1>9. c \in Nat /\ b \in Nat /\ a \in Nat
  BY <1>3, <1>6, <1>7, <1>8, Zenon
<1>10. a \in 0 .. Base - 1
  BY <1>1, HighByte
<1>11. a % Base = a
  BY <1>5, <1>10, SmallRemainder, Zenon
<1>12. /\ b = a * Base + (b % Base) /\ c = b * Base + (c % Base) /\ w = c * Base + (w % Base)
       /\ a % Base \in 0 .. Base - 1 /\ b % Base \in 0 .. Base - 1
       /\ c % Base \in 0 .. Base - 1 /\ w % Base \in 0 .. Base - 1
  BY <1>3, <1>6, <1>7, <1>8, <1>9, Zenon
<1>13. Leading(w, 1) = a /\ Leading(w, 2) = b /\ Leading(w, 3) = c /\ Leading(w, 4) = w
  BY <1>1, <1>2, <1>3, <1>4, LeadingIs, Zenon
<1>14. ASSUME NEW k \in 1 .. 4
       PROVE  Leading(w, k) \in Nat /\ Leading(w, k) % Base \in 0 .. Base - 1
  <2>1. k = 1 \/ k = 2 \/ k = 3 \/ k = 4
    OBVIOUS
  <2>2. QED
    BY <1>9, <1>12, <1>13, <2>1, Zenon
<1>15. QED
  BY <1>11, <1>12, <1>13, <1>14, Zenon

\* The midpoint of a settled interval and its end.
LEMMA Middle ==
  ASSUME NEW l, NEW r, Within(l, r), Settled(l, r)
  PROVE  /\ Midpoint(l, r) \in 0 .. Word - 1 /\ High(l, r) \in 0 .. Word - 1 /\ l \in 0 .. Word - 1
         /\ l < Midpoint(l, r) /\ Midpoint(l, r) < High(l, r) /\ High(l, r) = l + r - 1
<1>1. l \in Nat /\ r \in Nat /\ l + r <= Word /\ r >= 4
  BY Units DEF Within, Settled
<1>2. PICK s : s = r \div 2
  OBVIOUS
<1>3. s \in Nat /\ 2 * s <= r /\ r <= 2 * s + 1
  BY <1>1, <1>2
<1>4. PICK m : m = l + s
  OBVIOUS
<1>5. PICK h : h = l + r - 1
  OBVIOUS
<1>6. m \in 0 .. Word - 1 /\ h \in 0 .. Word - 1 /\ l \in 0 .. Word - 1 /\ l < m /\ m < h
  BY <1>1, <1>3, <1>4, <1>5, Units
<1>7. m % Word = m /\ h % Word = h
  BY <1>6, SmallRemainder, Units, Zenon
<1>8. Midpoint(l, r) = m /\ High(l, r) = h
  BY <1>2, <1>4, <1>5, <1>7, Zenon DEF Midpoint, High
<1>9. QED
  BY <1>5, <1>6, <1>8, Zenon

\* There are bytes enough.
LEMMA BytesEnough ==
  ASSUME NEW l, NEW r, Within(l, r), Settled(l, r)
  PROVE  /\ EncodedBytes(l, r) \in 1 .. 4
         /\ Leading(Midpoint(l, r), EncodedBytes(l, r)) # Leading(l, EncodedBytes(l, r))
         /\ Leading(Midpoint(l, r), EncodedBytes(l, r)) # Leading(High(l, r), EncodedBytes(l, r))
<1> DEFINE Enough == {k \in 1 .. 4 : /\ Leading(Midpoint(l, r), k) # Leading(l, k)
                                     /\ Leading(Midpoint(l, r), k) # Leading(High(l, r), k)}
<1>1. 4 \in Enough
  <2>1. \A w \in 0 .. Word - 1 : w \div 1 = w
    BY Units
  <2>2. \A w \in 0 .. Word - 1 : Leading(w, 4) = w
    BY <2>1, LeadingIs, Zenon
  <2>3. Midpoint(l, r) # l /\ Midpoint(l, r) # High(l, r)
    <3>1. PICK m : m = Midpoint(l, r)
      OBVIOUS
    <3>2. PICK h : h = High(l, r)
      OBVIOUS
    <3>3. m \in 0 .. Word - 1 /\ h \in 0 .. Word - 1 /\ l \in 0 .. Word - 1 /\ l < m /\ m < h
      BY <3>1, <3>2, Middle, Zenon
    <3>4. m # l /\ m # h
      BY <3>3
    <3>5. QED
      BY <3>1, <3>2, <3>4, Zenon
  <2>4. Leading(Midpoint(l, r), 4) # Leading(l, 4)
    BY <2>2, <2>3, Middle, Zenon
  <2>5. Leading(Midpoint(l, r), 4) # Leading(High(l, r), 4)
    BY <2>2, <2>3, Middle, Zenon
  <2>6. 4 \in 1 .. 4
    OBVIOUS
  <2>7. QED
    BY <2>4, <2>5, <2>6, Zenon
<1>2. Enough \subseteq Nat /\ Enough # {}
  BY <1>1
<1>3. PICK k \in Enough : \A y \in Enough : k <= y
  BY <1>2, LeastNatural
<1>4. Min(Enough) \in Enough
  BY <1>3, Zenon DEF Min
<1>5. EncodedBytes(l, r) = Min(Enough)
  BY Zenon DEF EncodedBytes
<1>6. EncodedBytes(l, r) \in Enough
  BY <1>4, <1>5, Zenon
<1>7. QED
  BY <1>6, Zenon

\* A word that has the bytes of the midpoint that are written, whatever comes after
\* them, is in the interval.
LEMMA TerminatorTells ==
  ASSUME NEW l, NEW r, Within(l, r), Settled(l, r),
         NEW a \in 0 .. Base - 1, NEW b \in 0 .. Base - 1, NEW c \in 0 .. Base - 1,
         NEW d \in 0 .. Base - 1,
         a = Leading(Midpoint(l, r), 1) % Base,
         EncodedBytes(l, r) >= 2 => b = Leading(Midpoint(l, r), 2) % Base,
         EncodedBytes(l, r) >= 3 => c = Leading(Midpoint(l, r), 3) % Base,
         EncodedBytes(l, r) >= 4 => d = Leading(Midpoint(l, r), 4) % Base
  PROVE  Holds(l, r, ((a * Base + b) * Base + c) * Base + d)
<1>1. PICK m : m = Midpoint(l, r)
  OBVIOUS
<1>2. PICK h : h = High(l, r)
  OBVIOUS
<1>3. PICK k : k = EncodedBytes(l, r)
  OBVIOUS
<1>4. PICK w : w = ((a * Base + b) * Base + c) * Base + d
  OBVIOUS
<1>5. /\ m \in 0 .. Word - 1 /\ h \in 0 .. Word - 1 /\ l \in 0 .. Word - 1 /\ l < m /\ m < h
      /\ h = l + r - 1
  BY <1>1, <1>2, Middle, Zenon
<1>6. k \in 1 .. 4 /\ Leading(m, k) # Leading(l, k) /\ Leading(m, k) # Leading(h, k)
  BY <1>1, <1>2, <1>3, BytesEnough, Zenon
<1>7. m \in Nat /\ m < Word /\ h \in Nat /\ l \in Nat /\ r \in Nat /\ l <= m /\ m <= h
  BY <1>5, Units DEF Within
<1>8. ASSUME NEW q \in Nat, NEW u \in Nat \ {0}, NEW x \in 0 .. u - 1,
             q = m \div u, q # l \div u, q # h \div u, w = q * u + x
      PROVE  Holds(l, r, w)
  <2>1. l <= (m \div u) * u + x /\ (m \div u) * u + x <= h
    BY <1>7, <1>8, Separated, Zenon
  <2>2. l <= w /\ w <= h
    BY <1>8, <2>1, Zenon
  <2>3. w \in Nat
    BY <1>8
  <2>4. QED
    BY <1>5, <1>7, <2>2, <2>3 DEF Holds
<1>9. Base \in Nat /\ Base > 0 /\ Bottom = Base * Base /\ a \in Nat /\ b \in Nat /\ c \in Nat /\ d \in Nat
  BY Units
<1>10. a = Leading(m, 1)
  <2>1. Leading(m, 1) = Leading(m, 1) % Base
    BY <1>7, LeadingDigits, Zenon
  <2>2. QED
    BY <1>1, <2>1, Zenon
<1>11. CASE k = 1
  <2>1. PICK x : x = (b * Base + c) * Base + d
    OBVIOUS
  <2>2. ((a * Base + b) * Base + c) * Base + d = a * Top + ((b * Base + c) * Base + d)
    BY FourDigits
  <2>3. (b * Base + c) * Base + d \in 0 .. Top - 1
    BY FourDigits
  <2>4. w = a * Top + x /\ x \in 0 .. Top - 1
    BY <1>4, <2>1, <2>2, <2>3, Zenon
  <2>5. a = m \div Top /\ a # l \div Top /\ a # h \div Top
    BY <1>6, <1>10, <1>11, LeadingIs, Zenon
  <2>6. Top \in Nat \ {0}
    BY Units
  <2>7. QED
    BY <1>4, <1>8, <1>9, <2>4, <2>5, <2>6, Zenon
<1>12. CASE k \in 2 .. 4
  <2>1. PICK q : q = a * Base + b
    OBVIOUS
  <2>2. b = Leading(m, 2) % Base
    BY <1>1, <1>3, <1>12
  <2>3. q = Leading(m, 2) /\ q \in Nat
    <3>1. Leading(m, 2) = Leading(m, 1) * Base + (Leading(m, 2) % Base)
      BY <1>7, LeadingDigits, Zenon
    <3>2. q = Leading(m, 2)
      BY <1>10, <2>1, <2>2, <3>1, Zenon
    <3>3. q \in Nat
      BY <1>9, <2>1
    <3>4. QED
      BY <3>2, <3>3
  <2>4. CASE k = 2
    <3>1. PICK x : x = c * Base + d
      OBVIOUS
    <3>2. x \in 0 .. Bottom - 1
      <4>1. c * Base + Base <= Base * Base
        BY <1>9, Units, TimesNext
      <4>2. PICK y : y = c * Base
        OBVIOUS
      <4>3. y \in Nat /\ y + Base <= Bottom
        BY <1>9, <4>1, <4>2
      <4>4. QED
        BY <1>9, <3>1, <4>2, <4>3, Units
    <3>3. w = q * Bottom + x
      <4>1. (q * Base + c) * Base + d = q * (Base * Base) + (c * Base + d)
        BY <1>9, <2>3
      <4>2. QED
        BY <1>4, <1>9, <2>1, <3>1, <4>1, Zenon
    <3>4. q = m \div Bottom /\ q # l \div Bottom /\ q # h \div Bottom
      BY <1>6, <2>3, <2>4, LeadingIs, Zenon
    <3>5. Bottom \in Nat \ {0}
      BY Units
    <3>6. QED
      BY <1>4, <1>8, <2>3, <3>2, <3>3, <3>4, <3>5, Zenon
  <2>5. CASE k \in 3 .. 4
    <3>1. PICK p : p = q * Base + c
      OBVIOUS
    <3>2. c = Leading(m, 3) % Base
      BY <1>1, <1>3, <2>5
    <3>3. p = Leading(m, 3) /\ p \in Nat
      <4>1. Leading(m, 3) = Leading(m, 2) * Base + (Leading(m, 3) % Base)
        BY <1>7, LeadingDigits, Zenon
      <4>2. p = Leading(m, 3)
        BY <2>3, <3>1, <3>2, <4>1, Zenon
      <4>3. p \in Nat
        BY <1>9, <2>3, <3>1
      <4>4. QED
        BY <4>2, <4>3
    <3>4. w = p * Base + d
      BY <1>4, <2>1, <3>1, Zenon
    <3>5. CASE k = 3
      <4>1. p = m \div Base /\ p # l \div Base /\ p # h \div Base
        BY <1>6, <3>3, <3>5, LeadingIs, Zenon
      <4>2. Base \in Nat \ {0}
        BY Units
      <4>3. QED
        BY <1>4, <1>8, <3>3, <3>4, <4>1, <4>2, Zenon
    <3>6. CASE k = 4
      <4>1. d = Leading(m, 4) % Base
        BY <1>1, <1>3, <3>6
      <4>2. Leading(m, 4) = Leading(m, 3) * Base + (Leading(m, 4) % Base)
        BY <1>7, LeadingDigits, Zenon
      <4>3. Leading(m, 4) = m
        <5>1. m \div 1 = m
          BY <1>7
        <5>2. QED
          BY <5>1, LeadingIs, Zenon
      <4>4. w = m
        BY <3>3, <3>4, <4>1, <4>2, <4>3, Zenon
      <4>5. Holds(l, r, m)
        BY <1>5, <1>7 DEF Holds
      <4>6. QED
        BY <1>4, <4>4, <4>5, Zenon
    <3>7. QED
      BY <2>5, <3>5, <3>6
  <2>6. QED
    BY <1>12, <2>4, <2>5
<1>13. QED
  BY <1>6, <1>11, <1>12

-----------------------------------------------------------------------------
(* The whole stream *)

Bytes == Seq(0 .. Base - 1)

\* The bytes of the terminator.
Terminator(l, r) == [k \in 1 .. EncodedBytes(l, r) |-> Leading(Midpoint(l, r), k) % Base]

\* finish writes as many bytes as it counted: the leading digits of the midpoint.
LEMMA TerminatorBytes ==
  ASSUME NEW l, NEW r, Within(l, r), Settled(l, r)
  PROVE  /\ Terminator(l, r) \in Bytes /\ Len(Terminator(l, r)) = EncodedBytes(l, r)
         /\ \A k \in 1 .. EncodedBytes(l, r) :
              Terminator(l, r)[k] = Leading(Midpoint(l, r), k) % Base
<1>1. PICK m : m = Midpoint(l, r)
  OBVIOUS
<1>2. PICK n : n = EncodedBytes(l, r)
  OBVIOUS
<1>3. m \in Nat /\ m < Word
  <2>1. m \in 0 .. Word - 1
    BY <1>1, Middle, Zenon
  <2>2. QED
    BY <2>1, Units
<1>4. n \in 1 .. 4
  BY <1>2, BytesEnough, Zenon
<1>5. \A k \in 1 .. 4 : Leading(m, k) % Base \in 0 .. Base - 1
  BY <1>3, LeadingDigits, Zenon
<1>6. Terminator(l, r) = [k \in 1 .. n |-> Leading(m, k) % Base]
  BY <1>1, <1>2, Zenon DEF Terminator
<1>7. PICK t : t = Terminator(l, r)
  OBVIOUS
<1>8. \A k \in 1 .. n : k \in 1 .. 4
  BY <1>4
<1>9. t \in [1 .. n -> 0 .. Base - 1] /\ \A k \in 1 .. n : t[k] = Leading(m, k) % Base
  BY <1>5, <1>6, <1>7, <1>8, Zenon
<1>10. n \in Nat /\ DOMAIN t = 1 .. n
  BY <1>4, <1>9
<1>11. t \in Seq(0 .. Base - 1) /\ Len(t) = n
  <2>1. PICK Digit : Digit = 0 .. Base - 1
    OBVIOUS
  <2>2. t \in UNION {[1 .. i -> Digit] : i \in Nat}
    BY <1>9, <1>10, <2>1, Zenon
  <2>3. t \in Seq(Digit)
    BY <2>2, SeqDef, Zenon
  <2>4. Len(t) \in Nat /\ DOMAIN t = 1 .. Len(t)
    BY <2>3, LenProperties, Zenon
  <2>5. Len(t) = n
    BY <1>10, <2>4
  <2>6. QED
    BY <2>1, <2>3, <2>5, Zenon
<1>12. QED
  BY <1>1, <1>2, <1>7, <1>9, <1>11, Zenon DEF Bytes

\* A stream with its terminator, and what follows: the word that the decoder reads at the
\* terminator is in the interval.
LEMMA TerminatedHolds ==
  ASSUME NEW l, NEW r, Within(l, r), Settled(l, r), NEW out \in Bytes, NEW tail \in Bytes
  PROVE  LET bytes == (out \o Terminator(l, r)) \o tail
         IN  Holds(l, r, CodeAfter(bytes, Len(out)))
<1>1. PICK t : t = Terminator(l, r)
  OBVIOUS
<1>2. PICK bytes : bytes = (out \o t) \o tail
  OBVIOUS
<1>3. PICK n : n = EncodedBytes(l, r)
  OBVIOUS
<1>4. PICK o : o = Len(out)
  OBVIOUS
<1>5. t \in Seq(0 .. Base - 1) /\ Len(t) = n /\ n \in 1 .. 4
  BY <1>1, <1>3, TerminatorBytes, BytesEnough, Zenon DEF Bytes
<1>6. out \in Seq(0 .. Base - 1) /\ tail \in Seq(0 .. Base - 1)
  BY DEF Bytes
<1>7. bytes \in Seq(0 .. Base - 1) /\ o \in Nat
  BY <1>2, <1>4, <1>5, <1>6
<1>8. ASSUME NEW k \in 1 .. n PROVE ByteAt(bytes, o + k) = t[k]
  <2>1. Len(bytes) = (o + n) + Len(tail) /\ Len(tail) \in Nat /\ o + k \in 1 .. o + n
    BY <1>2, <1>4, <1>5, <1>6
  <2>2. bytes[o + k] = (out \o t)[o + k]
    <3>1. out \o t \in Seq(0 .. Base - 1) /\ Len(out \o t) = o + n
      BY <1>4, <1>5, <1>6
    <3>2. QED
      BY <1>2, <1>6, <2>1, <3>1
  <2>3. (out \o t)[o + k] = t[k]
    BY <1>4, <1>5, <1>6
  <2>4. o + k <= Len(bytes)
    BY <1>5, <1>7, <2>1
  <2>5. QED
    BY <2>2, <2>3, <2>4, Zenon DEF ByteAt
<1>9. \A k \in 1 .. n : t[k] = Leading(Midpoint(l, r), k) % Base
  BY <1>1, <1>3, TerminatorBytes, Zenon
<1>10. PICK a : a = ByteAt(bytes, o + 1)
  OBVIOUS
<1>11. PICK b : b = ByteAt(bytes, o + 2)
  OBVIOUS
<1>12. PICK c : c = ByteAt(bytes, o + 3)
  OBVIOUS
<1>13. PICK d : d = ByteAt(bytes, o + 4)
  OBVIOUS
<1>14. a \in 0 .. Base - 1 /\ b \in 0 .. Base - 1 /\ c \in 0 .. Base - 1 /\ d \in 0 .. Base - 1
  <2>1. o + 1 \in Nat \ {0} /\ o + 2 \in Nat \ {0} /\ o + 3 \in Nat \ {0} /\ o + 4 \in Nat \ {0}
    BY <1>7
  <2>2. QED
    BY <1>7, <1>10, <1>11, <1>12, <1>13, <2>1, AnyByte, Zenon
<1>15. /\ 1 \in 1 .. n /\ (n >= 2 => 2 \in 1 .. n) /\ (n >= 3 => 3 \in 1 .. n)
       /\ (n >= 4 => 4 \in 1 .. n)
  BY <1>5
<1>16. /\ a = Leading(Midpoint(l, r), 1) % Base
       /\ n >= 2 => b = Leading(Midpoint(l, r), 2) % Base
       /\ n >= 3 => c = Leading(Midpoint(l, r), 3) % Base
       /\ n >= 4 => d = Leading(Midpoint(l, r), 4) % Base
  BY <1>8, <1>9, <1>10, <1>11, <1>12, <1>13, <1>15, Zenon
<1>17. Holds(l, r, ((a * Base + b) * Base + c) * Base + d)
  BY <1>3, <1>14, <1>16, TerminatorTells, Zenon
<1>18. CodeAfter(bytes, o) = ((a * Base + b) * Base + c) * Base + d
  BY <1>10, <1>11, <1>12, <1>13, Zenon DEF CodeAfter
<1>19. QED
  BY <1>1, <1>2, <1>4, <1>17, <1>18, Zenon

-----------------------------------------------------------------------------
(* A sound model *)

\* A longer sum is no smaller.
LEMMA SumLonger ==
  ASSUME NEW f, NEW n \in Nat, \A x \in 0 .. n - 1 : f[x] \in Nat,
         NEW s \in 0 .. n - 1
  PROVE  SumOver(f, 0 .. s) <= SumOver(f, 0 .. n - 1)
<1> DEFINE G == {k \in Nat : s + k <= n - 1 => SumOver(f, 0 .. s) <= SumOver(f, 0 .. s + k)}
<1>1. \A i \in Int : IsFiniteSet(0 .. i)
  BY FS_Interval
<1>2. ASSUME NEW t \in 0 .. n - 1 PROVE SumOver(f, 0 .. t) \in Nat
  <2>1. \A x \in 0 .. t : f[x] \in Nat
    BY <1>2
  <2>2. IsFiniteSet(0 .. t)
    BY <1>1
  <2>3. QED
    BY <2>1, <2>2, SumStep
<1>3. 0 \in G
  <2>1. s + 0 = s /\ SumOver(f, 0 .. s) \in Nat
    BY <1>2
  <2>2. PICK v : v = SumOver(f, 0 .. s)
    OBVIOUS
  <2>3. v <= v
    BY <2>1, <2>2
  <2>4. QED
    BY <2>1, <2>2, <2>3
<1>4. ASSUME NEW k \in Nat, k \in G PROVE k + 1 \in G
  <2>1. SUFFICES ASSUME s + (k + 1) <= n - 1
                 PROVE  SumOver(f, 0 .. s) <= SumOver(f, 0 .. s + (k + 1))
    OBVIOUS
  <2>2. PICK t : t = s + k
    OBVIOUS
  <2>3. t \in 0 .. n - 1 /\ t + 1 \in 0 .. n - 1 /\ s + (k + 1) = t + 1
    BY <2>1, <2>2
  <2>4. SumOver(f, 0 .. s) <= SumOver(f, 0 .. t)
    BY <1>4, <2>1, <2>2
  <2>5. SumOver(f, 0 .. t + 1) = SumOver(f, 0 .. t) + f[t + 1]
    <3>1. 0 .. t + 1 = (0 .. t) \cup {t + 1} /\ t + 1 \notin 0 .. t /\ IsFiniteSet(0 .. t)
      <4>1. t \in Int /\ t + 1 \in Nat
        BY <2>3
      <4>2. IsFiniteSet(0 .. t)
        BY <1>1, <4>1, Zenon
      <4>3. 0 .. t + 1 = (0 .. t) \cup {t + 1} /\ t + 1 \notin 0 .. t
        BY <4>1
      <4>4. QED
        BY <4>2, <4>3
    <3>2. \A x \in (0 .. t) \cup {t + 1} : f[x] \in Nat
      BY <2>3
    <3>3. SumOver(f, (0 .. t) \cup {t + 1}) = SumOver(f, 0 .. t) + f[t + 1]
      <4>1. PICK U : U = 0 .. t
        OBVIOUS
      <4>2. PICK y : y = t + 1
        OBVIOUS
      <4>3. IsFiniteSet(U) /\ y \notin U /\ \A x \in U \cup {y} : f[x] \in Nat
        BY <3>1, <3>2, <4>1, <4>2, Zenon
      <4>4. SumOver(f, U \cup {y}) = SumOver(f, U) + f[y]
        BY <4>3, SumWith, Zenon
      <4>5. QED
        BY <4>1, <4>2, <4>4, Zenon
    <3>4. QED
      BY <3>1, <3>3, Zenon
  <2>6. SumOver(f, 0 .. t) \in Nat /\ f[t + 1] \in Nat /\ SumOver(f, 0 .. s) \in Nat
    BY <1>2, <2>3
  <2>7. PICK a : a = SumOver(f, 0 .. t)
    OBVIOUS
  <2>8. PICK b : b = SumOver(f, 0 .. s)
    OBVIOUS
  <2>9. b <= a + f[t + 1]
    BY <2>4, <2>6, <2>7, <2>8
  <2>10. QED
    BY <2>3, <2>5, <2>7, <2>8, <2>9
<1>5. Nat \subseteq G
  <2> HIDE DEF G
  <2>1. QED
    BY <1>3, <1>4, NaturalSteps
<1>6. PICK k : k = n - 1 - s
  OBVIOUS
<1>7. k \in Nat /\ s + k = n - 1
  BY <1>6
<1>8. k \in G
  <2> HIDE DEF G
  <2>1. QED
    BY <1>5, <1>7
<1>9. QED
  BY <1>7, <1>8

\* What a symbol has in a sound model: a slice of the total, where each count is its own.
HasSlice(m, s, b, f) ==
  /\ Interval(m, s) = <<b, f>> /\ Slice(b, f, m.total)
  /\ \A c \in b .. b + f - 1 : SymbolForCount(m, c) = <<s, b, f>>

\* In a sound model every symbol has a slice, and each count of it is found again.
LEMMA SoundSlice ==
  ASSUME NEW m, ModelSound(m), NEW s \in SymbolsOf(m)
  PROVE  \E b, f : HasSlice(m, s, b, f)
<1>1. PICK n : n = SymbolCount(m)
  OBVIOUS
<1>2. PICK fr : fr = m.frequencies
  OBVIOUS
<1>3. PICK b : b = SumOf([r \in 0 .. s - 1 |-> fr[r]])
  OBVIOUS
<1>4. n \in Nat /\ fr \in [0 .. n - 1 -> Nat] /\ m.total = SumOf(fr) /\ m.total \in 1 .. ModelMaxTotal
  BY <1>1, <1>2, Zenon DEF ModelSound
<1>5. /\ fr[s] > 0 /\ Interval(m, s) = <<b, fr[s]>>
      /\ \A c \in b .. b + fr[s] - 1 : SymbolForCount(m, c) = <<s, b, fr[s]>>
  BY <1>2, <1>3, Zenon DEF ModelSound
<1>6. s \in 0 .. n - 1 /\ fr[s] \in Nat /\ DOMAIN fr = 0 .. n - 1
  BY <1>2, <1>4 DEF SymbolsOf
<1>7. m.total = SumOver(fr, 0 .. n - 1)
  <2>1. SumOf(fr) = SumOver(fr, DOMAIN fr)
    BY DEF SumOf, SumOver
  <2>2. QED
    BY <1>4, <1>6, <2>1, Zenon
<1>8. b = SumOver(fr, 0 .. s - 1)
  <2> DEFINE g == [r \in 0 .. s - 1 |-> fr[r]]
  <2>1. SumOf(g) = SumOver(g, DOMAIN g)
    BY DEF SumOf, SumOver
  <2>2. DOMAIN g = 0 .. s - 1 /\ \A x \in 0 .. s - 1 : g[x] = fr[x]
    OBVIOUS
  <2>3. \A x \in 0 .. s - 1 : g[x] \in Nat /\ fr[x] = g[x]
    BY <1>4, <1>6, <2>2
  <2>4. IsFiniteSet(0 .. s - 1)
    BY <1>6, FS_Interval
  <2>5. b = SumOver(g, 0 .. s - 1)
    BY <1>3, <2>1, <2>2, Zenon
  <2> HIDE DEF g
  <2>6. SumOver(g, 0 .. s - 1) = SumOver(fr, 0 .. s - 1)
    BY <2>3, <2>4, SumCongruence
  <2>7. QED
    BY <2>5, <2>6
<1>9. b \in Nat /\ SumOver(fr, 0 .. s) = b + fr[s]
  <2>1. IsFiniteSet(0 .. s - 1) /\ s \notin 0 .. s - 1 /\ (0 .. s - 1) \cup {s} = 0 .. s
    <3>1. s \in Nat /\ s - 1 \in Int /\ 0 \in Int
      BY <1>6
    <3>2. IsFiniteSet(0 .. s - 1)
      BY <3>1, FS_Interval, Zenon
    <3>3. s \notin 0 .. s - 1 /\ (0 .. s - 1) \cup {s} = 0 .. s
      BY <3>1
    <3>4. QED
      BY <3>2, <3>3
  <2>2. \A x \in 0 .. s : fr[x] \in Nat
    BY <1>4, <1>6
  <2>3. \A x \in 0 .. s - 1 : fr[x] \in Nat
    BY <1>6, <2>2
  <2>4. b \in Nat
    BY <1>8, <2>1, <2>3, SumStep
  <2>5. \A x \in (0 .. s - 1) \cup {s} : fr[x] \in Nat
    BY <2>1, <2>2, Zenon
  <2>6. SumOver(fr, (0 .. s - 1) \cup {s}) = SumOver(fr, 0 .. s - 1) + fr[s]
    BY <2>1, <2>5, SumWith
  <2>7. QED
    BY <1>8, <2>1, <2>4, <2>6, Zenon
<1>10. SumOver(fr, 0 .. s) <= SumOver(fr, 0 .. n - 1)
  <2>1. \A x \in 0 .. n - 1 : fr[x] \in Nat
    BY <1>4
  <2>2. QED
    BY <1>4, <1>6, <2>1, SumLonger
<1>11. b + fr[s] <= m.total
  BY <1>7, <1>9, <1>10, Zenon
<1>12. fr[s] \in Nat \ {0} /\ m.total \in Nat \ {0}
  <2>1. PICK t : t = m.total
    OBVIOUS
  <2>2. t \in 1 .. ModelMaxTotal
    BY <1>4, <2>1
  <2>3. t \in Nat \ {0}
    BY <2>2, ModelAssumption
  <2>4. QED
    BY <1>5, <1>6, <2>1, <2>3
<1>13. Slice(b, fr[s], m.total)
  BY <1>9, <1>11, <1>12, Zenon DEF Slice
<1>14. HasSlice(m, s, b, fr[s])
  BY <1>5, <1>13, Zenon DEF HasSlice
<1>15. QED
  BY <1>14, Zenon

\* The settled interval is wide enough for every total.
LEMMA UnitThere ==
  ASSUME NEW m, ModelSound(m), NEW l, NEW r, Within(l, r), Settled(l, r)
  PROVE  r \div m.total # 0
<1>1. PICK t : t = m.total
  OBVIOUS
<1>2. t \in 1 .. ModelMaxTotal
  BY <1>1, Zenon DEF ModelSound
<1>3. t \in Nat \ {0} /\ t <= Bottom /\ r \in Nat /\ Bottom <= r
  BY <1>2, Units, ModelAssumption, CoderAssumption DEF Within, Settled
<1>4. PICK q : q = r \div t
  OBVIOUS
<1>5. PICK e : e = r % t
  OBVIOUS
<1>6. Splits(r, t, q, e)
  BY <1>3, <1>4, <1>5, Split, Zenon
<1>7. ASSUME q = 0 PROVE FALSE
  <2>1. r < t
    BY <1>3, <1>6, <1>7 DEF Splits
  <2>2. QED
    BY <1>3, <2>1, Units
<1>8. QED
  BY <1>1, <1>4, <1>7, Zenon

-----------------------------------------------------------------------------
(* Sequences of anything *)

IsSequence(s) == \E S : s \in Seq(S)

\* A sequence begins with another.
Extends(s, t) == Len(t) <= Len(s) /\ \A i \in 1 .. Len(t) : s[i] = t[i]

\* A sequence with one more element begins with the sequence.
LEMMA AppendExtends ==
  ASSUME NEW s, IsSequence(s), NEW x
  PROVE  /\ IsSequence(Append(s, x)) /\ Extends(Append(s, x), s) /\ Append(s, x)[Len(s) + 1] = x
         /\ Len(s) \in Nat /\ Len(Append(s, x)) = Len(s) + 1
<1>1. PICK S : s \in Seq(S)
  BY DEF IsSequence
<1>2. PICK T : T = S \cup {x}
  OBVIOUS
<1>3. s \in Seq(T) /\ x \in T
  BY <1>1, <1>2, SeqMonotonic
<1>4. Append(s, x) \in Seq(T) /\ Len(Append(s, x)) = Len(s) + 1 /\ Len(s) \in Nat
  BY <1>3
<1>5. Append(s, x)[Len(s) + 1] = x /\ \A i \in 1 .. Len(s) : Append(s, x)[i] = s[i]
  BY <1>3
<1>6. IsSequence(Append(s, x))
  BY <1>4, Zenon DEF IsSequence
<1>7. Len(s) <= Len(Append(s, x))
  BY <1>4
<1>8. Extends(Append(s, x), s)
  BY <1>5, <1>7, Zenon DEF Extends
<1>9. QED
  BY <1>4, <1>5, <1>6, <1>8, Zenon

\* A sequence begins with itself.
LEMMA ExtendsItself ==
  ASSUME NEW s, IsSequence(s) PROVE Extends(s, s) /\ Len(s) \in Nat
<1>1. PICK S : s \in Seq(S)
  BY DEF IsSequence
<1>2. PICK n : n = Len(s)
  OBVIOUS
<1>3. n \in Nat
  BY <1>1, <1>2
<1>4. n <= n
  BY <1>3
<1>5. QED
  BY <1>2, <1>3, <1>4, Zenon DEF Extends

\* What begins with a sequence and one more byte begins with the sequence, and has the byte next.
LEMMA ExtendsShorter ==
  ASSUME NEW out \in Bytes, NEW b \in 0 .. Base - 1, NEW bytes \in Bytes, Extends(bytes, Append(out, b))
  PROVE  Extends(bytes, out) /\ ByteAt(bytes, Len(out) + 1) = b
<1>1. PICK longer : longer = Append(out, b)
  OBVIOUS
<1>2. PICK n : n = Len(out)
  OBVIOUS
<1>3. n \in Nat /\ Len(bytes) \in Nat
  BY <1>2 DEF Bytes
<1>4. Len(longer) = n + 1 /\ longer[n + 1] = b /\ \A i \in 1 .. n : longer[i] = out[i]
  BY <1>1, <1>2 DEF Bytes
<1>5. n + 1 <= Len(bytes) /\ \A i \in 1 .. n + 1 : bytes[i] = longer[i]
  BY <1>1, <1>4, Zenon DEF Extends
<1>6. n + 1 \in 1 .. n + 1 /\ n <= Len(bytes) /\ \A i \in 1 .. n : i \in 1 .. n + 1
  BY <1>3, <1>5
<1>7. bytes[n + 1] = b /\ \A i \in 1 .. n : bytes[i] = out[i]
  BY <1>4, <1>5, <1>6, Zenon
<1>8. Extends(bytes, out)
  BY <1>2, <1>6, <1>7, Zenon DEF Extends
<1>9. ByteAt(bytes, n + 1) = b
  BY <1>5, <1>7, Zenon DEF ByteAt
<1>10. QED
  BY <1>2, <1>8, <1>9, Zenon

\* Bytes followed by bytes are bytes, and begin with the first of them.
LEMMA ExtendsJoined ==
  ASSUME NEW out \in Bytes, NEW mid \in Bytes, NEW tail \in Bytes
  PROVE  /\ (out \o mid) \o tail \in Bytes /\ Extends((out \o mid) \o tail, out)
         /\ out \o mid \in Bytes /\ Len(out \o mid) = Len(out) + Len(mid)
<1>1. PICK both : both = out \o mid
  OBVIOUS
<1>2. PICK bytes : bytes = both \o tail
  OBVIOUS
<1>3. PICK D : D = 0 .. Base - 1
  OBVIOUS
<1>4. out \in Seq(D) /\ mid \in Seq(D) /\ tail \in Seq(D)
  BY <1>3, Zenon DEF Bytes
<1>5. /\ both \in Seq(D) /\ Len(both) = Len(out) + Len(mid)
      /\ bytes \in Seq(D) /\ Len(bytes) = Len(both) + Len(tail)
      /\ Len(out) \in Nat /\ Len(mid) \in Nat /\ Len(tail) \in Nat
  BY <1>1, <1>2, <1>4
<1>6. ASSUME NEW i \in 1 .. Len(out) PROVE bytes[i] = out[i]
  <2>1. both[i] = out[i]
    BY <1>1, <1>4
  <2>2. i \in 1 .. Len(both)
    BY <1>5
  <2>3. bytes[i] = both[i]
    BY <1>2, <1>4, <1>5, <2>2
  <2>4. QED
    BY <2>1, <2>3
<1>7. Len(out) <= Len(bytes)
  BY <1>5
<1>8. Extends(bytes, out)
  BY <1>6, <1>7, Zenon DEF Extends
<1>9. both \in Bytes /\ bytes \in Bytes
  BY <1>3, <1>5, Zenon DEF Bytes
<1>10. QED
  BY <1>1, <1>2, <1>5, <1>8, <1>9

-----------------------------------------------------------------------------
(* The encoder's way: the intervals that it goes through *)

\* An interval with the bytes written and the symbols coded before it, and the model.
IsPlace(e) == e.at \in Nat /\ e.count \in Nat /\ Within(e.low, e.range)

\* The next symbol is coded there.
Coded(e, f, symbols, kept) ==
  /\ e.count < Len(symbols) /\ kept[e.count + 1] = <<e.low, e.range, e.model>>
  /\ f.at = e.at /\ f.count = e.count + 1 /\ f.model = Update(e.model, symbols[e.count + 1])
  /\ e.range \div e.model.total # 0
  /\ \E b, n : /\ HasSlice(e.model, symbols[e.count + 1], b, n)
               /\ f.low = e.low + b * (e.range \div e.model.total)
               /\ f.range = (e.range \div e.model.total) * n

\* A byte goes out.
Shifted(e, f) ==
  /\ f.at = e.at + 1 /\ f.count = e.count /\ f.model = e.model
  /\ f.low = (e.low % Top) * Base /\ f.range = CutRange(e.low, e.range) * Base

Follows(e, f, symbols, kept) ==
  IF Settled(e.low, e.range) THEN Coded(e, f, symbols, kept) ELSE Shifted(e, f)

HoldsAt(e, bytes) == Holds(e.low, e.range, CodeAfter(bytes, e.at))

\* The words of a later place are words of an earlier one.
Narrows(e, f, out) ==
  \A bytes \in Bytes : Extends(bytes, out) /\ HoldsAt(f, bytes) => HoldsAt(e, bytes)

\* All but the last place are followed.
Way(places, last, symbols, kept) ==
  /\ last \in places /\ \A e \in places : IsPlace(e)
  /\ \A e \in places : e = last \/ \E f \in places : Follows(e, f, symbols, kept)

\* More symbols change nothing of what is coded.
LEMMA FollowsStill ==
  ASSUME NEW symbols, NEW more, NEW kept, NEW longer,
         Extends(more, symbols), Extends(longer, kept), Len(kept) = Len(symbols),
         Len(symbols) \in Nat, Len(more) \in Nat,
         NEW e, IsPlace(e), NEW f, Follows(e, f, symbols, kept)
  PROVE  Follows(e, f, more, longer)
<1>1. CASE ~Settled(e.low, e.range)
  BY <1>1, Zenon DEF Follows
<1>2. CASE Settled(e.low, e.range)
  <2>1. Coded(e, f, symbols, kept)
    BY <1>2, Zenon DEF Follows
  <2>2. PICK n : n = e.count
    OBVIOUS
  <2>3. n \in Nat /\ n < Len(symbols)
    BY <2>1, <2>2, Zenon DEF Coded, IsPlace
  <2>4. n + 1 \in 1 .. Len(symbols) /\ n + 1 \in 1 .. Len(kept)
    BY <2>3
  <2>5. more[n + 1] = symbols[n + 1] /\ longer[n + 1] = kept[n + 1]
    BY <2>4, Zenon DEF Extends
  <2>6. n < Len(more)
    <3>1. Len(symbols) <= Len(more)
      BY Zenon DEF Extends
    <3>2. QED
      BY <2>3, <3>1
  <2>7. Coded(e, f, more, longer)
    BY <2>1, <2>2, <2>5, <2>6, Zenon DEF Coded
  <2>8. QED
    BY <1>2, <2>7, Zenon DEF Follows
<1>3. QED
  BY <1>1, <1>2

\* A way is made longer by a place.
LEMMA WayOn ==
  ASSUME NEW places, NEW last, NEW next, NEW symbols, NEW kept, NEW more, NEW longer,
         Way(places, last, symbols, kept), IsPlace(next), Follows(last, next, more, longer),
         \A e \in places : \A f : Follows(e, f, symbols, kept) => Follows(e, f, more, longer)
  PROVE  Way(places \cup {next}, next, more, longer)
<1>1. PICK all : all = places \cup {next}
  OBVIOUS
<1>2. last \in places /\ \A e \in places : IsPlace(e)
  BY DEF Way
<1>3. \A e \in places : e = last \/ \E f \in places : Follows(e, f, symbols, kept)
  BY DEF Way
<1>4. next \in all /\ \A e \in all : e \in places \/ e = next
  BY <1>1
<1>5. places \subseteq all
  BY <1>1
<1>6. \A e \in all : IsPlace(e)
  BY <1>2, <1>4, Zenon
<1>7. ASSUME NEW e \in all PROVE e = next \/ \E f \in all : Follows(e, f, more, longer)
  <2>1. CASE e \in places
    <3>1. CASE e = last
      BY <1>4, <3>1
    <3>2. CASE \E f \in places : Follows(e, f, symbols, kept)
      BY <1>5, <2>1, <3>2
    <3>3. QED
      BY <1>3, <2>1, <3>1, <3>2
  <2>2. QED
    BY <1>4, <2>1
<1>8. Way(all, next, more, longer)
  BY <1>4, <1>6, <1>7, Zenon DEF Way
<1>9. QED
  BY <1>1, <1>8, Zenon

\* So are the words.
LEMMA NarrowsOn ==
  ASSUME NEW e, NEW f, NEW g, NEW out, NEW longer, Narrows(e, f, out), Narrows(f, g, longer),
         \A bytes \in Bytes : Extends(bytes, longer) => Extends(bytes, out)
  PROVE  Narrows(e, g, longer)
BY Zenon DEF Narrows

\* A place narrows to itself.
LEMMA NarrowsItself ==
  ASSUME NEW e, NEW out PROVE Narrows(e, e, out)
BY Zenon DEF Narrows

\* A coded symbol leads to a place, with fewer words.
LEMMA CodedPlace ==
  ASSUME NEW e, IsPlace(e), NEW f, NEW symbols, NEW kept, Coded(e, f, symbols, kept)
  PROVE  IsPlace(f) /\ \A out : Narrows(e, f, out)
<1>1. PICK u : u = e.range \div e.model.total
  OBVIOUS
<1>2. PICK b, n : /\ HasSlice(e.model, symbols[e.count + 1], b, n)
                  /\ f.low = e.low + b * u /\ f.range = u * n
  BY <1>1, Zenon DEF Coded
<1>3. Slice(b, n, e.model.total) /\ Within(e.low, e.range) /\ e.range \div e.model.total # 0
  BY <1>2, Zenon DEF HasSlice, IsPlace, Coded
<1>4. Within(f.low, f.range)
  <2>1. Within(e.low + b * u, u * n)
    BY <1>1, <1>3, CodeFits, Zenon DEF Takes
  <2>2. QED
    BY <1>2, <2>1, Zenon
<1>5. f.at \in Nat /\ f.count \in Nat
  <2>1. e.count \in Nat /\ e.at \in Nat /\ f.at = e.at /\ f.count = e.count + 1
    BY DEF IsPlace, Coded
  <2>2. QED
    BY <2>1
<1>6. ASSUME NEW bytes \in Bytes, HoldsAt(f, bytes) PROVE HoldsAt(e, bytes)
  <2>1. PICK w : w = CodeAfter(bytes, e.at)
    OBVIOUS
  <2>2. w \in 0 .. Word - 1
    BY <2>1, CodeNext, Zenon DEF Bytes, IsPlace
  <2>3. Holds(e.low + b * u, u * n, w)
    BY <1>2, <1>6, <2>1, Zenon DEF HoldsAt, Coded
  <2>4. Holds(e.low, e.range, w)
    BY <1>1, <1>3, <2>2, <2>3, CodeHolds, Zenon
  <2>5. QED
    BY <2>1, <2>4, Zenon DEF HoldsAt
<1>7. \A out : Narrows(e, f, out)
  BY <1>6, Zenon DEF Narrows
<1>8. QED
  BY <1>4, <1>5, <1>7, Zenon DEF IsPlace

\* So does a byte that goes out.
LEMMA ShiftedPlace ==
  ASSUME NEW e, IsPlace(e), ~Settled(e.low, e.range), NEW f, Shifted(e, f),
         NEW out \in Bytes, e.at = Len(out)
  PROVE  /\ IsPlace(f) /\ Append(out, e.low \div Top) \in Bytes
         /\ Len(Append(out, e.low \div Top)) = f.at
         /\ Narrows(e, f, Append(out, e.low \div Top))
<1>1. PICK t : t = e.low \div Top
  OBVIOUS
<1>2. Within(e.low, e.range) /\ e.at \in Nat /\ e.count \in Nat
  BY DEF IsPlace
<1>3. f.at = e.at + 1 /\ f.count = e.count
  BY DEF Shifted
<1>4. Within(f.low, f.range)
  BY <1>2, ShiftFits, Zenon DEF Shifted
<1>5. IsPlace(f)
  <2>1. f.at \in Nat /\ f.count \in Nat
    BY <1>2, <1>3
  <2>2. QED
    BY <1>4, <2>1, Zenon DEF IsPlace
<1>6. t \in 0 .. Base - 1
  <2>1. PICK l : l = e.low
    OBVIOUS
  <2>2. l \in Nat /\ l < Word
    <3>1. Within(l, e.range)
      BY <1>2, <2>1
    <3>2. QED
      BY <3>1, Units DEF Within
  <2>3. QED
    BY <1>1, <2>1, <2>2, HighByte, Zenon
<1>7. PICK longer : longer = Append(out, t)
  OBVIOUS
<1>8. longer \in Bytes /\ Len(longer) = f.at
  <2>1. PICK D : D = 0 .. Base - 1
    OBVIOUS
  <2>2. out \in Seq(D) /\ t \in D
    BY <1>6, <2>1, Zenon DEF Bytes
  <2>3. longer \in Seq(D) /\ Len(longer) = Len(out) + 1
    BY <1>7, <2>2
  <2>4. QED
    BY <1>3, <2>1, <2>3, Zenon DEF Bytes
<1>9. ASSUME NEW bytes \in Bytes, Extends(bytes, longer), HoldsAt(f, bytes) PROVE HoldsAt(e, bytes)
  <2>1. PICK w : w = CodeAfter(bytes, e.at)
    OBVIOUS
  <2>2. PICK b : b = ByteAt(bytes, e.at + 5)
    OBVIOUS
  <2>3. /\ w \in 0 .. Word - 1 /\ w \div Top = ByteAt(bytes, e.at + 1)
        /\ CodeAfter(bytes, e.at + 1) = ((w * Base) % Word) + b
    BY <1>2, <2>1, <2>2, CodeNext, Zenon DEF Bytes
  <2>4. b \in 0 .. Base - 1
    <3>1. e.at + 5 \in Nat \ {0}
      BY <1>2
    <3>2. QED
      BY <2>2, <3>1, AnyByte, Zenon DEF Bytes
  <2>5. w \div Top = t
    <3>1. ByteAt(bytes, Len(out) + 1) = t
      BY <1>6, <1>7, <1>9, ExtendsShorter, Zenon
    <3>2. QED
      BY <2>3, <3>1, Zenon
  <2>6. Holds((e.low % Top) * Base, CutRange(e.low, e.range) * Base, ((w * Base) % Word) + b)
    BY <1>9, <2>3, Zenon DEF HoldsAt, Shifted
  <2>7. Holds(e.low, e.range, w)
    BY <1>1, <1>2, <2>3, <2>4, <2>5, <2>6, ShiftHolds, Zenon
  <2>8. QED
    BY <2>1, <2>7, Zenon DEF HoldsAt
<1>10. Narrows(e, f, longer)
  BY <1>9, Zenon DEF Narrows
<1>11. QED
  BY <1>1, <1>5, <1>7, <1>8, <1>10, Zenon

\* What the decoder makes of the word at a place, and that it is what was coded there.
Finds(e, bytes, unit, count, found) ==
  /\ unit = e.range \div e.model.total
  /\ count = ((CodeAfter(bytes, e.at) - e.low) % Word) \div unit
  /\ found = SymbolForCount(e.model, count)

Right(e, f, symbol, unit, count, found) ==
  /\ unit # 0 /\ ~(count >= e.model.total) /\ found[1] = symbol
  /\ (e.low + unit * found[2]) % Word = f.low /\ (unit * found[3]) % Word = f.range

\* Decode, where it sees a word of the interval that Encode left, finds the symbol and cuts the same.
LEMMA SymbolFound ==
  ASSUME NEW e, IsPlace(e), NEW f, NEW symbols, NEW kept, Coded(e, f, symbols, kept),
         NEW bytes \in Bytes, HoldsAt(f, bytes),
         NEW unit, NEW count, NEW found, Finds(e, bytes, unit, count, found)
  PROVE  Right(e, f, symbols[e.count + 1], unit, count, found)
<1>0. /\ unit = e.range \div e.model.total
      /\ count = ((CodeAfter(bytes, e.at) - e.low) % Word) \div unit
      /\ found = SymbolForCount(e.model, count)
  BY Zenon DEF Finds
<1>1. PICK b, n : /\ HasSlice(e.model, symbols[e.count + 1], b, n)
                  /\ f.low = e.low + b * unit /\ f.range = unit * n
  BY <1>0, Zenon DEF Coded
<1>2. Slice(b, n, e.model.total) /\ Within(e.low, e.range) /\ e.range \div e.model.total # 0
  BY <1>1, Zenon DEF HasSlice, IsPlace, Coded
<1>3. PICK w : w = CodeAfter(bytes, e.at)
  OBVIOUS
<1>4. w \in 0 .. Word - 1
  BY <1>3, CodeNext, Zenon DEF Bytes, IsPlace
<1>5. Holds(e.low + b * unit, unit * n, w)
  BY <1>1, <1>3, Zenon DEF HoldsAt, Coded
<1>6. count \in b .. b + n - 1
  BY <1>0, <1>2, <1>3, <1>4, <1>5, CodeHolds, Zenon
<1>7. found = <<symbols[e.count + 1], b, n>>
  BY <1>0, <1>1, <1>6, Zenon DEF HasSlice
<1>8. found[1] = symbols[e.count + 1] /\ found[2] = b /\ found[3] = n
  BY <1>7
<1>9. PICK t : t = e.model.total
  OBVIOUS
<1>10. b \in Nat /\ n \in Nat \ {0} /\ t \in Nat \ {0} /\ b + n <= t
  BY <1>2, <1>9, Zenon DEF Slice
<1>11. ~(count >= t)
  BY <1>6, <1>10
<1>12. /\ unit \in Nat \ {0} /\ (e.low + b * unit) % Word = e.low + b * unit
       /\ (unit * n) % Word = unit * n
  <2>1. PICK l : l = e.low
    OBVIOUS
  <2>2. PICK r : r = e.range
    OBVIOUS
  <2>3. Within(l, r) /\ Slice(b, n, t) /\ r \div t # 0 /\ unit = r \div t
    BY <1>0, <1>2, <1>9, <2>1, <2>2, Zenon
  <2>4. /\ unit \in Nat \ {0} /\ (l + b * unit) % Word = l + b * unit
        /\ (unit * n) % Word = unit * n
    <3>1. Takes(l, r, b, n, r \div t)
      BY <2>3, CodeFits, Zenon
    <3>2. QED
      BY <2>3, <3>1, Zenon DEF Takes
  <2>5. QED
    BY <2>1, <2>4, Zenon
<1>13. unit * b = b * unit
  BY <1>10, <1>12
<1>14. (e.low + unit * found[2]) % Word = f.low /\ (unit * found[3]) % Word = f.range
  BY <1>1, <1>8, <1>12, <1>13, Zenon
<1>15. QED
  BY <1>0, <1>2, <1>8, <1>9, <1>11, <1>14, Zenon DEF Right

-----------------------------------------------------------------------------
(* The inductive invariant *)

\* The place where the encoder is, and where both begin.
Place == [at |-> Len(output), count |-> Len(sent), low |-> low, range |-> range, model |-> model]
Start == [at |-> 0, count |-> 0, low |-> 0, range |-> Word - 1, model |-> initial]

\* The encoder came from the start, and every word it can still write is one of every
\* place it came by.
EncodedBy(places) ==
  /\ Start \in places /\ Way(places, Place, sent, trail)
  /\ \A e \in places : Narrows(e, Place, output)

Encoding ==
  /\ output \in Bytes /\ IsSequence(sent) /\ IsSequence(trail) /\ Len(trail) = Len(sent)
  /\ got = <<>> /\ (phase = "encode" => Settled(low, range))
  /\ \E places : EncodedBy(places)

\* The input has a word of every place the encoder came by.
WrittenBy(places, last) ==
  /\ Way(places, last, sent, trail) /\ \A e \in places : HoldsAt(e, input)
  /\ last.count = Len(sent) /\ Settled(last.low, last.range)
  /\ Len(output) = last.at + EncodedBytes(last.low, last.range)
  /\ trail[Len(sent) + 1] = <<last.low, last.range, last.model>>

\* The decoder is there.
ReadsAt(e) ==
  /\ e.count = Len(got) /\ position = e.at + 4 /\ code = CodeAfter(input, e.at)
  /\ low = e.low /\ range = e.range /\ model = e.model

Decoding ==
  /\ input \in Bytes /\ IsSequence(got) /\ Len(sent) \in Nat /\ Extends(sent, got)
  /\ (phase # "shift in" => Settled(low, range)) /\ (phase = "end" => Len(got) = Len(sent))
  /\ \E places, last, e : WrittenBy(places, last) /\ e \in places /\ ReadsAt(e)

CoderInv ==
  /\ phase \in {"encode", "shift out", "decode", "shift in", "end"}
  /\ phase \in {"encode", "shift out"} => Encoding
  /\ phase \in {"decode", "shift in", "end"} => Decoding

-----------------------------------------------------------------------------
(* It holds at the start *)

\* with_output starts with an interval of words that needs no byte shifted out.
LEMMA StartSettled == Within(0, Word - 1) /\ Settled(0, Word - 1)
<1>1. 0 + (Word - 1) = Word - 1 /\ Word - 1 \in 0 .. Word - 1 /\ 0 \in 0 .. Top - 1
  BY Units
<1>2. (Word - 1) % Word = Word - 1 /\ 0 \div Top = 0
  BY <1>1, SmallRemainder, Units, Zenon
<1>3. PICK w : w = Word - 1
  OBVIOUS
<1>4. w \in Nat /\ w > 0 /\ w >= Bottom /\ w < Word
  BY <1>3, Units
<1>5. Within(0, w)
  BY <1>3, <1>4, Units DEF Within
<1>6. w \div Top # 0
  <2>1. PICK q : q = w \div Top
    OBVIOUS
  <2>2. PICK e : e = w % Top
    OBVIOUS
  <2>3. Splits(w, Top, q, e)
    BY <1>4, <2>1, <2>2, Split, Units, Zenon
  <2>4. ASSUME q = 0 PROVE FALSE
    <3>1. w < Top
      BY <2>3, <2>4, Units DEF Splits
    <3>2. QED
      BY <1>3, <3>1, Units
  <2>5. QED
    BY <2>1, <2>4, Zenon
<1>7. ~HighByteSettled(0, w)
  BY <1>1, <1>2, <1>3, <1>6, Zenon DEF HighByteSettled
<1>8. QED
  BY <1>3, <1>4, <1>5, <1>7, Zenon DEF Settled

\* The empty output is bytes.
LEMMA EmptyIsSequence == IsSequence(<<>>) /\ Len(<<>>) = 0 /\ <<>> \in Bytes
<1>1. <<>> \in Seq({}) /\ Len(<<>>) = 0 /\ <<>> \in Seq(0 .. Base - 1)
  OBVIOUS
<1>2. QED
  BY <1>1, Zenon DEF IsSequence, Bytes

\* The invariant holds before the first symbol.
LEMMA CoderInvInit == Init => CoderInv
<1>1. SUFFICES ASSUME Init PROVE CoderInv
  OBVIOUS
<1>2. PICK p : p = [at |-> 0, count |-> 0, low |-> 0, range |-> Word - 1, model |-> initial]
  OBVIOUS
<1>3. /\ phase = "encode" /\ model = initial /\ sent = <<>> /\ got = <<>> /\ output = <<>>
      /\ low = 0 /\ range = Word - 1 /\ trail = <<>>
  BY <1>1, Zenon DEF Init
<1>4. Place = p /\ Start = p
  BY <1>2, <1>3, EmptyIsSequence, Zenon DEF Place, Start
<1>5. IsPlace(p)
  <2>1. p.at = 0 /\ p.count = 0 /\ p.low = 0 /\ p.range = Word - 1
    BY <1>2
  <2>2. 0 \in Nat
    OBVIOUS
  <2>3. QED
    BY <2>1, <2>2, StartSettled, Zenon DEF IsPlace
<1>6. Way({p}, p, sent, trail)
  BY <1>5 DEF Way
<1>7. \A e \in {p} : Narrows(e, p, output)
  BY NarrowsItself
<1>8. p \in {p}
  OBVIOUS
<1>9. EncodedBy({p})
  BY <1>4, <1>6, <1>7, <1>8, Zenon DEF EncodedBy
<1>10. Encoding
  BY <1>3, <1>9, EmptyIsSequence, StartSettled, Zenon DEF Encoding
<1>11. QED
  BY <1>3, <1>10 DEF CoderInv

-----------------------------------------------------------------------------
(* The encoder *)

\* RangeEncoder::encode keeps the invariant: the symbol adds a place, narrower than those before.
LEMMA EncodeKeeps ==
  ASSUME CoderInv, ModelsSound, NEW symbol \in SymbolsOf(model), Encode(symbol)
  PROVE  CoderInv'
<1>1. phase = "encode" /\ Encoding /\ Settled(low, range)
  <2>1. phase = "encode"
    BY DEF Encode
  <2>2. Encoding
    BY <2>1 DEF CoderInv
  <2>3. QED
    BY <2>1, <2>2, Zenon DEF Encoding
<1>2. PICK p : p = Place
  OBVIOUS
<1>3. p.at = Len(output) /\ p.count = Len(sent) /\ p.low = low /\ p.range = range /\ p.model = model
  BY <1>2 DEF Place
<1>4. PICK places : Start \in places /\ Way(places, p, sent, trail) /\ \A e \in places : Narrows(e, p, output)
  BY <1>1, <1>2, Zenon DEF Encoding, EncodedBy
<1>5. p \in places /\ IsPlace(p) /\ Within(low, range)
  <2>1. p \in places /\ \A e \in places : IsPlace(e)
    BY <1>4, Zenon DEF Way
  <2>2. QED
    BY <1>3, <2>1, Zenon DEF IsPlace
<1>6. PICK b, n : HasSlice(model, symbol, b, n)
  BY SoundSlice, Zenon DEF ModelsSound
<1>7. PICK u : u = range \div model.total
  OBVIOUS
<1>8. u # 0
  BY <1>1, <1>5, <1>7, UnitThere, Zenon DEF ModelsSound
<1>9. Interval(model, symbol)[1] = b /\ Interval(model, symbol)[2] = n
  <2>1. Interval(model, symbol) = <<b, n>>
    BY <1>6, Zenon DEF HasSlice
  <2>2. QED
    BY <2>1
<1>10. Takes(low, range, b, n, u)
  <2>1. Slice(b, n, model.total)
    BY <1>6, Zenon DEF HasSlice
  <2>2. QED
    BY <1>5, <1>7, <1>8, <2>1, CodeFits, Zenon
<1>11. /\ low' = low + b * u /\ range' = u * n /\ model' = Update(model, symbol)
       /\ sent' = Append(sent, symbol) /\ trail' = Append(trail, <<low, range, model>>)
       /\ phase' = "shift out" /\ output' = output /\ got' = got /\ initial' = initial
  <2>1. /\ low' = (low + Interval(model, symbol)[1] * u) % Word
        /\ range' = (u * Interval(model, symbol)[2]) % Word
        /\ model' = Update(model, symbol)
        /\ sent' = Append(sent, symbol) /\ trail' = Append(trail, <<low, range, model>>)
        /\ phase' = "shift out" /\ output' = output /\ got' = got /\ initial' = initial
    BY <1>7, <1>8 DEF Encode
  <2>2. (low + b * u) % Word = low + b * u /\ (u * n) % Word = u * n
    BY <1>10, Zenon DEF Takes
  <2>3. low' = low + b * u /\ range' = u * n
    BY <1>9, <2>1, <2>2, Zenon
  <2>4. QED
    BY <2>1, <2>3, Zenon
<1>12. PICK more : more = sent'
  OBVIOUS
<1>13. PICK longer : longer = trail'
  OBVIOUS
<1>14. /\ IsSequence(more) /\ Extends(more, sent) /\ more[Len(sent) + 1] = symbol
       /\ Len(sent) \in Nat /\ Len(more) = Len(sent) + 1
  <2>1. IsSequence(sent) /\ more = Append(sent, symbol)
    BY <1>1, <1>11, <1>12, Zenon DEF Encoding
  <2>2. QED
    BY <2>1, AppendExtends, Zenon
<1>15. /\ IsSequence(longer) /\ Extends(longer, trail) /\ Len(longer) = Len(sent) + 1
       /\ longer[Len(sent) + 1] = <<low, range, model>> /\ Len(trail) = Len(sent)
  <2>1. IsSequence(trail) /\ longer = Append(trail, <<low, range, model>>) /\ Len(trail) = Len(sent)
    BY <1>1, <1>11, <1>13, Zenon DEF Encoding
  <2>2. QED
    BY <2>1, AppendExtends, Zenon
<1>16. PICK q : q = [at |-> Len(output), count |-> Len(sent) + 1, low |-> low + b * u,
                    range |-> u * n, model |-> Update(model, symbol)]
  OBVIOUS
<1>17. /\ q.at = Len(output) /\ q.count = Len(sent) + 1 /\ q.low = low + b * u /\ q.range = u * n
       /\ q.model = Update(model, symbol)
  BY <1>16
<1>18. Place' = q
  BY <1>11, <1>12, <1>14, <1>16, Zenon DEF Place
<1>19. Coded(p, q, more, longer)
  <2>1. p.count < Len(more)
    BY <1>3, <1>14
  <2>2. QED
    BY <1>3, <1>6, <1>7, <1>8, <1>14, <1>15, <1>17, <2>1, Zenon DEF Coded
<1>20. IsPlace(q) /\ Narrows(p, q, output)
  BY <1>5, <1>19, CodedPlace, Zenon
<1>21. Follows(p, q, more, longer)
  BY <1>1, <1>3, <1>19, Zenon DEF Follows
<1>22. Len(more) \in Nat
  BY <1>14
<1>23. \A e \in places : \A f : Follows(e, f, sent, trail) => Follows(e, f, more, longer)
  <2>1. \A e \in places : IsPlace(e)
    BY <1>4, Zenon DEF Way
  <2>2. QED
    BY <1>14, <1>15, <1>22, <2>1, FollowsStill, Zenon
<1>24. PICK all : all = places \cup {q}
  OBVIOUS
<1>25. Way(all, q, more, longer)
  BY <1>4, <1>20, <1>21, <1>23, <1>24, WayOn, Zenon
<1>26. \A e \in all : Narrows(e, q, output)
  <2>1. \A e \in places : Narrows(e, q, output)
    BY <1>4, <1>20, NarrowsOn, Zenon
  <2>2. Narrows(q, q, output)
    BY NarrowsItself, Zenon
  <2>3. \A e \in all : e \in places \/ e = q
    BY <1>24
  <2>4. QED
    BY <2>1, <2>2, <2>3, Zenon
<1>27. Start' = Start /\ Start \in all
  BY <1>4, <1>11, <1>24 DEF Start
<1>28. EncodedBy(all)'
  BY <1>11, <1>12, <1>13, <1>18, <1>25, <1>26, <1>27, Zenon DEF EncodedBy
<1>29. Encoding'
  <2>1. (phase = "encode" => Settled(low, range))'
    BY <1>11
  <2>2. (\E all_1 : EncodedBy(all_1))'
    BY <1>28
  <2>3. output' \in Bytes /\ got' = <<>>
    BY <1>1, <1>11, Zenon DEF Encoding
  <2>4. IsSequence(sent)' /\ IsSequence(trail)' /\ Len(trail)' = Len(sent)'
    BY <1>12, <1>13, <1>14, <1>15, Zenon
  <2>5. QED
    BY <2>1, <2>2, <2>3, <2>4 DEF Encoding
<1>30. QED
  BY <1>11, <1>29 DEF CoderInv

\* A turn of the encoder's renormalize.
LEMMA ShiftOutKeeps ==
  ASSUME CoderInv, ShiftOut
  PROVE  CoderInv'
<1>1. phase = "shift out" /\ Encoding
  <2>1. phase = "shift out"
    BY Zenon DEF ShiftOut
  <2>2. QED
    BY <2>1 DEF CoderInv
<1>2. UNCHANGED <<sent, model, got, initial, trail>>
  BY Zenon DEF ShiftOut
<1>3. /\ sent' = sent /\ model' = model /\ got' = got /\ initial' = initial /\ trail' = trail
  BY <1>2
<1>4. CASE Settled(low, range)
  <2>1. phase' = "encode" /\ low' = low /\ range' = range /\ output' = output
    BY <1>4, Zenon DEF ShiftOut
  <2>2. Place' = Place /\ Start' = Start
    BY <1>3, <2>1, Zenon DEF Place, Start
  <2>3. (\E places : EncodedBy(places))'
    <3>1. PICK places : EncodedBy(places)
      BY <1>1, Zenon DEF Encoding
    <3>2. EncodedBy(places)'
      BY <1>3, <2>1, <2>2, <3>1, Zenon DEF EncodedBy
    <3>3. QED
      BY <3>2
  <2>4. Settled(low, range)'
    BY <1>4, <2>1, Zenon
  <2>5. /\ output' \in Bytes /\ IsSequence(sent)' /\ IsSequence(trail)' /\ Len(trail)' = Len(sent)'
        /\ got' = <<>>
    BY <1>1, <1>3, <2>1, Zenon DEF Encoding
  <2>6. Encoding'
    BY <2>3, <2>4, <2>5, Zenon DEF Encoding
  <2>7. QED
    BY <2>1, <2>6, Zenon DEF CoderInv
<1>5. CASE ~Settled(low, range)
  <2>1. /\ output' = Append(output, low \div Top) /\ low' = (low * Base) % Word
        /\ range' = (CutRange(low, range) * Base) % Word /\ phase' = phase
    BY <1>5, Zenon DEF ShiftOut
  <2>2. PICK p : p = Place
    OBVIOUS
  <2>3. p.at = Len(output) /\ p.count = Len(sent) /\ p.low = low /\ p.range = range /\ p.model = model
    BY <2>2 DEF Place
  <2>4. PICK places : Start \in places /\ Way(places, p, sent, trail) /\ \A e \in places : Narrows(e, p, output)
    BY <1>1, <2>2, Zenon DEF Encoding, EncodedBy
  <2>5. p \in places /\ IsPlace(p) /\ Within(low, range) /\ \A e \in places : IsPlace(e)
    <3>1. p \in places /\ \A e \in places : IsPlace(e)
      BY <2>4, Zenon DEF Way
    <3>2. QED
      BY <2>3, <3>1, Zenon DEF IsPlace
  <2>6. PICK q : q = [at |-> Len(output) + 1, count |-> Len(sent), low |-> (low % Top) * Base,
                      range |-> CutRange(low, range) * Base, model |-> model]
    OBVIOUS
  <2>7. /\ q.at = Len(output) + 1 /\ q.count = Len(sent) /\ q.low = (low % Top) * Base
        /\ q.range = CutRange(low, range) * Base /\ q.model = model
    BY <2>6
  <2>8. Shifted(p, q)
    BY <2>3, <2>7, Zenon DEF Shifted
  <2>9. PICK longer : longer = output'
    OBVIOUS
  <2>10. output \in Bytes /\ longer = Append(output, p.low \div Top) /\ ~Settled(p.low, p.range)
    BY <1>1, <1>5, <2>1, <2>3, <2>9, Zenon DEF Encoding
  <2>11. /\ IsPlace(q) /\ longer \in Bytes /\ Len(longer) = q.at /\ Narrows(p, q, longer)
    BY <2>3, <2>5, <2>8, <2>10, ShiftedPlace, Zenon
  <2>12. Follows(p, q, sent, trail)
    BY <2>8, <2>10, Zenon DEF Follows
  <2>13. Place' = q
    <3>1. low' = (low % Top) * Base /\ range' = CutRange(low, range) * Base
      BY <1>5, <2>1, <2>5, ShiftFits, Zenon
    <3>2. Len(output') = Len(output) + 1
      BY <2>7, <2>9, <2>11, Zenon
    <3>3. QED
      BY <1>3, <2>6, <3>1, <3>2, Zenon DEF Place
  <2>14. PICK all : all = places \cup {q}
    OBVIOUS
  <2>15. Way(all, q, sent, trail)
    BY <2>4, <2>11, <2>12, <2>14, WayOn, Zenon
  <2>16. \A bytes \in Bytes : Extends(bytes, longer) => Extends(bytes, output)
    <3>1. PICK t : t = low \div Top
      OBVIOUS
    <3>2. t \in 0 .. Base - 1
      <4>1. low \in Nat /\ low < Word
        BY <2>5, Units DEF Within
      <4>2. QED
        BY <3>1, <4>1, HighByte, Zenon
    <3>3. longer = Append(output, t)
      BY <2>1, <2>9, <3>1, Zenon
    <3>4. QED
      BY <2>10, <3>2, <3>3, ExtendsShorter, Zenon
  <2>17. \A e \in all : Narrows(e, q, longer)
    <3>1. \A e \in places : Narrows(e, q, longer)
      BY <2>4, <2>11, <2>16, NarrowsOn, Zenon
    <3>2. Narrows(q, q, longer)
      BY NarrowsItself, Zenon
    <3>3. \A e \in all : e \in places \/ e = q
      BY <2>14
    <3>4. QED
      BY <3>1, <3>2, <3>3, Zenon
  <2>18. Start' = Start /\ Start \in all
    <3>1. Start' = Start
      BY <1>3, Zenon DEF Start
    <3>2. QED
      BY <2>4, <2>14, <3>1
  <2>19. EncodedBy(all)'
    BY <1>3, <2>9, <2>13, <2>15, <2>17, <2>18, Zenon DEF EncodedBy
  <2>20. Encoding'
    <3>1. (phase = "encode" => Settled(low, range))'
      BY <1>1, <2>1, Zenon
    <3>2. (\E all_1 : EncodedBy(all_1))'
      BY <2>19
    <3>3. /\ output' \in Bytes /\ IsSequence(sent)' /\ IsSequence(trail)' /\ Len(trail)' = Len(sent)'
          /\ got' = <<>>
      BY <1>1, <1>3, <2>9, <2>11, Zenon DEF Encoding
    <3>4. QED
      BY <3>1, <3>2, <3>3, Zenon DEF Encoding
  <2>21. QED
    BY <1>1, <2>1, <2>20 DEF CoderInv
<1>6. QED
  BY <1>4, <1>5

\* The terminator, and the decoder's first word.
LEMMA FinishKeeps ==
  ASSUME CoderInv, NEW tail \in Tails, Finish(tail)
  PROVE  CoderInv'
<1>1. phase = "encode" /\ Encoding /\ Settled(low, range)
  <2>1. phase = "encode"
    BY Zenon DEF Finish
  <2>2. Encoding
    BY <2>1 DEF CoderInv
  <2>3. QED
    BY <2>1, <2>2, Zenon DEF Encoding
<1>2. /\ output' = Terminated /\ input' = Terminated \o tail /\ code' = CodeAfter(input', 0)
      /\ position' = 4 /\ low' = 0 /\ range' = Word - 1 /\ model' = initial
      /\ trail' = Append(trail, <<low, range, model>>) /\ phase' = "decode"
      /\ UNCHANGED <<sent, got, initial>>
  BY Zenon DEF Finish
<1>3. sent' = sent /\ got' = got /\ initial' = initial
  BY <1>2
<1>4. PICK p : p = Place
  OBVIOUS
<1>5. p.at = Len(output) /\ p.count = Len(sent) /\ p.low = low /\ p.range = range /\ p.model = model
  BY <1>4 DEF Place
<1>6. PICK places : Start \in places /\ Way(places, p, sent, trail) /\ \A e \in places : Narrows(e, p, output)
  BY <1>1, <1>4, Zenon DEF Encoding, EncodedBy
<1>7. p \in places /\ IsPlace(p) /\ Within(low, range) /\ \A e \in places : IsPlace(e)
  <2>1. p \in places /\ \A e \in places : IsPlace(e)
    BY <1>6, Zenon DEF Way
  <2>2. QED
    BY <1>5, <2>1, Zenon DEF IsPlace
<1>8. output \in Bytes /\ tail \in Bytes /\ got = <<>> /\ IsSequence(sent) /\ IsSequence(trail)
      /\ Len(trail) = Len(sent)
  BY <1>1, CoderAssumption, Zenon DEF Encoding, Bytes
<1>9. PICK t : t = Terminator(low, range)
  OBVIOUS
<1>10. t \in Bytes /\ Len(t) = EncodedBytes(low, range)
  BY <1>1, <1>7, <1>9, TerminatorBytes, Zenon
<1>11. PICK bytes : bytes = (output \o t) \o tail
  OBVIOUS
<1>12. PICK ended : ended = output'
  OBVIOUS
<1>13. ended = output \o t /\ input' = bytes
  BY <1>2, <1>9, <1>11, <1>12, Zenon DEF Terminated, Terminator
<1>14. bytes \in Bytes /\ Extends(bytes, output) /\ Len(ended) = Len(output) + EncodedBytes(low, range)
  BY <1>8, <1>10, <1>11, <1>13, ExtendsJoined, Zenon
<1>15. HoldsAt(p, bytes)
  <2>1. Holds(low, range, CodeAfter(bytes, Len(output)))
    BY <1>1, <1>7, <1>8, <1>9, <1>11, TerminatedHolds, Zenon
  <2>2. QED
    BY <1>5, <2>1, Zenon DEF HoldsAt
<1>16. \A e \in places : HoldsAt(e, bytes)
  BY <1>6, <1>14, <1>15, Zenon DEF Narrows
<1>17. PICK kept : kept = trail'
  OBVIOUS
<1>18. /\ Extends(kept, trail) /\ kept[Len(sent) + 1] = <<low, range, model>>
  BY <1>2, <1>8, <1>17, AppendExtends, Zenon
<1>19. Extends(sent, sent) /\ Len(sent) \in Nat
  BY <1>8, ExtendsItself, Zenon
<1>20. Way(places, p, sent, kept)
  <2>1. \A e \in places : \A f : Follows(e, f, sent, trail) => Follows(e, f, sent, kept)
    BY <1>7, <1>8, <1>18, <1>19, FollowsStill, Zenon
  <2>2. \A e \in places : e = p \/ \E f \in places : Follows(e, f, sent, trail)
    BY <1>6, Zenon DEF Way
  <2>3. \A e \in places : e = p \/ \E f \in places : Follows(e, f, sent, kept)
    BY <2>1, <2>2, Zenon
  <2>4. QED
    BY <1>7, <2>3, Zenon DEF Way
<1>21. WrittenBy(places, p)'
  <2>1. p.count = Len(sent') /\ Settled(p.low, p.range)
    BY <1>1, <1>3, <1>5, Zenon
  <2>2. Len(output') = p.at + EncodedBytes(p.low, p.range)
    BY <1>5, <1>12, <1>14, Zenon
  <2>3. trail'[Len(sent') + 1] = <<p.low, p.range, p.model>>
    BY <1>3, <1>5, <1>17, <1>18, Zenon
  <2>4. Way(places, p, sent', trail') /\ \A e \in places : HoldsAt(e, input')
    BY <1>3, <1>13, <1>16, <1>17, <1>20, Zenon
  <2>5. QED
    BY <2>1, <2>2, <2>3, <2>4, Zenon DEF WrittenBy
<1>22. PICK s : s = Start
  OBVIOUS
<1>23. s.at = 0 /\ s.count = 0 /\ s.low = 0 /\ s.range = Word - 1 /\ s.model = initial
  BY <1>22 DEF Start
<1>24. ReadsAt(s)'
  <2>1. Len(got') = 0 /\ 4 = 0 + 4
    BY <1>3, <1>8, EmptyIsSequence
  <2>2. s.count = Len(got') /\ position' = s.at + 4
    BY <1>2, <1>23, <2>1, Zenon
  <2>3. code' = CodeAfter(input', s.at) /\ low' = s.low /\ range' = s.range /\ model' = s.model
    BY <1>2, <1>23, Zenon
  <2>4. QED
    BY <2>2, <2>3, Zenon DEF ReadsAt
<1>25. s \in places
  BY <1>6, <1>22
<1>26. Decoding'
  <2>1. input' \in Bytes
    BY <1>13, <1>14
  <2>2. IsSequence(got') /\ Len(sent') \in Nat
    BY <1>3, <1>8, <1>19, EmptyIsSequence, Zenon
  <2>3. Extends(sent', got')
    <3>1. Extends(sent, <<>>)
      <4>1. 0 <= Len(sent) /\ \A i \in 1 .. 0 : FALSE
        BY <1>19
      <4>2. QED
        BY <4>1, EmptyIsSequence, Zenon DEF Extends
    <3>2. QED
      BY <1>3, <1>8, <3>1, Zenon
  <2>4. Settled(low', range')
    BY <1>2, StartSettled, Zenon
  <2>5. phase' # "end"
    BY <1>2
  <2>6. (\E all, last, e : WrittenBy(all, last) /\ e \in all /\ ReadsAt(e))'
    BY <1>21, <1>24, <1>25, Zenon
  <2>7. QED
    BY <2>1, <2>2, <2>3, <2>4, <2>5, <2>6, Zenon DEF Decoding
<1>27. QED
  BY <1>2, <1>26, Zenon DEF CoderInv

-----------------------------------------------------------------------------
(* The decoder *)

\* A symbol more of those that were sent.
LEMMA ExtendsMore ==
  ASSUME NEW s, NEW t, IsSequence(t), Extends(s, t), Len(s) \in Nat, Len(t) < Len(s)
  PROVE  Extends(s, Append(t, s[Len(t) + 1]))
<1>1. PICK x : x = s[Len(t) + 1]
  OBVIOUS
<1>2. PICK more : more = Append(t, x)
  OBVIOUS
<1>3. PICK n : n = Len(t)
  OBVIOUS
<1>4. /\ Extends(more, t) /\ more[n + 1] = x /\ n \in Nat /\ Len(more) = n + 1
  BY <1>2, <1>3, AppendExtends, Zenon
<1>5. \A i \in 1 .. n : s[i] = t[i] /\ more[i] = t[i]
  BY <1>3, <1>4, Zenon DEF Extends
<1>6. \A i \in 1 .. n + 1 : i \in 1 .. n \/ i = n + 1
  BY <1>4
<1>7. \A i \in 1 .. n + 1 : s[i] = more[i]
  BY <1>1, <1>3, <1>4, <1>5, <1>6, Zenon
<1>8. n + 1 <= Len(s)
  BY <1>3, <1>4
<1>9. QED
  BY <1>1, <1>2, <1>4, <1>7, <1>8, Zenon DEF Extends

\* The decoder is where symbols remain, or where the encoder goes on: not at the last place.
LEMMA NotLast ==
  ASSUME NEW places, NEW last, WrittenBy(places, last), NEW e \in places,
         e.count # last.count \/ ~Settled(e.low, e.range)
  PROVE  \E f \in places : Follows(e, f, sent, trail)
<1>1. Settled(last.low, last.range) /\ \A g \in places : g = last \/ \E f \in places : Follows(g, f, sent, trail)
  BY Zenon DEF WrittenBy, Way
<1>2. e # last
  BY <1>1, Zenon
<1>3. QED
  BY <1>1, <1>2, Zenon

\* Where all symbols are read and no byte is to come, it is there.
LEMMA AtLast ==
  ASSUME NEW places, NEW last, WrittenBy(places, last), Len(sent) \in Nat, NEW e \in places,
         e.count = Len(sent), Settled(e.low, e.range)
  PROVE  e = last
<1>1. ASSUME NEW f, Follows(e, f, sent, trail) PROVE FALSE
  <2>1. e.count < Len(sent)
    BY <1>1, Zenon DEF Follows, Coded
  <2>2. QED
    BY <2>1
<1>2. e = last \/ \E f \in places : Follows(e, f, sent, trail)
  BY Zenon DEF WrittenBy, Way
<1>3. QED
  BY <1>1, <1>2, Zenon

\* What does not change while the stream is read.
LEMMA StillWritten ==
  ASSUME UNCHANGED <<sent, output, input, trail>>,
         NEW places, NEW last, WrittenBy(places, last)
  PROVE  WrittenBy(places, last)'
<1>1. sent' = sent /\ output' = output /\ input' = input /\ trail' = trail
  OBVIOUS
<1>2. QED
  BY <1>1, Zenon DEF WrittenBy

\* RangeDecoder::decode keeps the invariant: it finds the symbol sent from that place.
LEMMA DecodeKeeps ==
  ASSUME CoderInv, Decode
  PROVE  CoderInv'
<1>1. phase = "decode" /\ Len(got) < Len(sent) /\ Decoding
  <2>1. phase = "decode" /\ Len(got) < Len(sent)
    BY Zenon DEF Decode
  <2>2. QED
    BY <2>1 DEF CoderInv
<1>2. Settled(low, range) /\ input \in Bytes /\ IsSequence(got) /\ Len(sent) \in Nat /\ Extends(sent, got)
  BY <1>1 DEF Decoding
<1>3. PICK places, last, e : WrittenBy(places, last) /\ e \in places /\ ReadsAt(e)
  BY <1>1, Zenon DEF Decoding
<1>4. /\ e.count = Len(got) /\ position = e.at + 4 /\ code = CodeAfter(input, e.at)
      /\ low = e.low /\ range = e.range /\ model = e.model
  BY <1>3, Zenon DEF ReadsAt
<1>5. Settled(e.low, e.range) /\ last.count = Len(sent)
  BY <1>2, <1>3, <1>4, Zenon DEF WrittenBy
<1>6. Len(got) \in Nat
  BY <1>2, ExtendsItself, Zenon
<1>7. e.count # last.count
  BY <1>1, <1>2, <1>4, <1>5, <1>6
<1>8. PICK f \in places : Follows(e, f, sent, trail)
  BY <1>3, <1>7, NotLast, Zenon
<1>9. Coded(e, f, sent, trail)
  BY <1>5, <1>8, Zenon DEF Follows
<1>10. IsPlace(e) /\ HoldsAt(f, input)
  BY <1>3, <1>8, Zenon DEF WrittenBy, Way
<1>11. PICK unit : unit = range \div model.total
  OBVIOUS
<1>12. PICK count : count = ((code - low) % Word) \div unit
  OBVIOUS
<1>13. PICK found : found = SymbolForCount(model, count)
  OBVIOUS
<1>14. PICK symbol : symbol = sent[Len(got) + 1]
  OBVIOUS
<1>15. /\ unit # 0 /\ ~(count >= model.total) /\ found[1] = symbol
       /\ (low + unit * found[2]) % Word = f.low /\ (unit * found[3]) % Word = f.range
  <2>1. Finds(e, input, unit, count, found)
    BY <1>4, <1>11, <1>12, <1>13, Zenon DEF Finds
  <2>2. Right(e, f, sent[e.count + 1], unit, count, found)
    BY <1>2, <1>9, <1>10, <2>1, SymbolFound, Zenon
  <2>3. QED
    BY <1>4, <1>14, <2>2, Zenon DEF Right
<1>16. /\ low' = f.low /\ range' = f.range /\ model' = Update(model, symbol)
       /\ got' = Append(got, symbol) /\ phase' = "shift in"
       /\ UNCHANGED <<sent, output, input, position, code, initial, trail>>
  <2>1. /\ low' = (low + unit * found[2]) % Word /\ range' = (unit * found[3]) % Word
        /\ model' = Update(model, found[1]) /\ got' = Append(got, found[1])
        /\ phase' = "shift in"
        /\ UNCHANGED <<sent, output, input, position, code, initial, trail>>
    BY <1>11, <1>12, <1>13, <1>15, Zenon DEF Decode
  <2>2. QED
    BY <1>15, <2>1, Zenon
<1>17. /\ sent' = sent /\ input' = input /\ position' = position /\ code' = code
  BY <1>16
<1>18. WrittenBy(places, last)'
  <2>1. UNCHANGED <<sent, output, input, trail>>
    BY <1>16
  <2>2. QED
    BY <1>3, <2>1, StillWritten, Zenon
<1>19. /\ IsSequence(got') /\ Len(got') = Len(got) + 1
  BY <1>2, <1>16, AppendExtends, Zenon
<1>20. ReadsAt(f)'
  <2>1. /\ f.at = e.at /\ f.count = e.count + 1 /\ f.model = Update(e.model, sent[e.count + 1])
    BY <1>9, Zenon DEF Coded
  <2>2. f.count = Len(got')
    BY <1>4, <1>19, <2>1, Zenon
  <2>3. position' = f.at + 4 /\ code' = CodeAfter(input', f.at)
    BY <1>4, <1>17, <2>1, Zenon
  <2>4. model' = f.model
    BY <1>4, <1>14, <1>16, <2>1, Zenon
  <2>5. low' = f.low /\ range' = f.range
    BY <1>16
  <2>6. QED
    BY <2>2, <2>3, <2>4, <2>5, Zenon DEF ReadsAt
<1>21. Extends(sent', got')
  BY <1>1, <1>2, <1>14, <1>16, <1>17, ExtendsMore, Zenon
<1>22. (phase # "shift in" => Settled(low, range))' /\ (phase = "end" => Len(got) = Len(sent))'
  <2>1. phase' = "shift in" /\ "shift in" # "end"
    BY <1>16
  <2>2. QED
    BY <2>1, Zenon
<1>23. input' \in Bytes /\ Len(sent') \in Nat
  BY <1>2, <1>17
<1>24. (\E all, final, g : WrittenBy(all, final) /\ g \in all /\ ReadsAt(g))'
  BY <1>8, <1>18, <1>20, Zenon
<1>25. Decoding'
  BY <1>19, <1>21, <1>22, <1>23, <1>24, Zenon DEF Decoding
<1>26. phase' = "shift in"
  BY <1>16
<1>27. QED
  BY <1>25, <1>26, Zenon DEF CoderInv

\* A turn of the decoder's renormalize.
LEMMA ShiftInKeeps ==
  ASSUME CoderInv, ShiftIn
  PROVE  CoderInv'
<1>1. phase = "shift in" /\ Decoding
  <2>1. phase = "shift in"
    BY Zenon DEF ShiftIn
  <2>2. QED
    BY <2>1 DEF CoderInv
<1>2. input \in Bytes /\ IsSequence(got) /\ Len(sent) \in Nat /\ Extends(sent, got)
  BY <1>1, Zenon DEF Decoding
<1>3. PICK places, last, e : WrittenBy(places, last) /\ e \in places /\ ReadsAt(e)
  BY <1>1, Zenon DEF Decoding
<1>4. /\ e.count = Len(got) /\ position = e.at + 4 /\ code = CodeAfter(input, e.at)
      /\ low = e.low /\ range = e.range /\ model = e.model
  BY <1>3, Zenon DEF ReadsAt
<1>5. UNCHANGED <<sent, model, output, input, got, initial, trail>>
  BY Zenon DEF ShiftIn
<1>6. sent' = sent /\ model' = model /\ output' = output /\ input' = input /\ got' = got /\ trail' = trail
  BY <1>5
<1>7. WrittenBy(places, last)'
  <2>1. UNCHANGED <<sent, output, input, trail>>
    BY <1>6
  <2>2. QED
    BY <1>3, <2>1, StillWritten, Zenon
<1>8. input' \in Bytes /\ IsSequence(got') /\ Len(sent') \in Nat /\ Extends(sent', got')
  BY <1>2, <1>6, Zenon
<1>9. CASE Settled(low, range)
  <2>1. phase' = "decode" /\ low' = low /\ range' = range /\ code' = code /\ position' = position
    BY <1>9, Zenon DEF ShiftIn
  <2>2. ReadsAt(e)'
    BY <1>4, <1>6, <2>1, Zenon DEF ReadsAt
  <2>3. Settled(low', range')
    BY <1>9, <2>1, Zenon
  <2>4. (\E all, final, g : WrittenBy(all, final) /\ g \in all /\ ReadsAt(g))'
    BY <1>3, <1>7, <2>2, Zenon
  <2>5. Decoding'
    <3>1. phase' # "end"
      BY <2>1
    <3>2. QED
      BY <1>8, <2>3, <2>4, <3>1, Zenon DEF Decoding
  <2>6. QED
    BY <2>1, <2>5, Zenon DEF CoderInv
<1>10. CASE ~Settled(low, range)
  <2>1. /\ code' = ((code * Base) % Word) + ByteAt(input, position + 1) /\ position' = position + 1
        /\ low' = (low * Base) % Word /\ range' = (CutRange(low, range) * Base) % Word
        /\ phase' = phase
    BY <1>10, Zenon DEF ShiftIn
  <2>2. ~Settled(e.low, e.range)
    BY <1>4, <1>10, Zenon
  <2>3. PICK f \in places : Follows(e, f, sent, trail)
    BY <1>3, <2>2, NotLast, Zenon
  <2>4. Shifted(e, f)
    BY <2>2, <2>3, Zenon DEF Follows
  <2>5. /\ f.at = e.at + 1 /\ f.count = e.count /\ f.model = e.model
        /\ f.low = (e.low % Top) * Base /\ f.range = CutRange(e.low, e.range) * Base
    BY <2>4, Zenon DEF Shifted
  <2>6. IsPlace(e)
    BY <1>3, Zenon DEF WrittenBy, Way
  <2>7. e.at \in Nat /\ Within(e.low, e.range)
    BY <2>6, Zenon DEF IsPlace
  <2>8. low' = f.low /\ range' = f.range
    <3>1. /\ (e.low * Base) % Word = (e.low % Top) * Base
          /\ (CutRange(e.low, e.range) * Base) % Word = CutRange(e.low, e.range) * Base
      BY <2>2, <2>7, ShiftFits, Zenon
    <3>2. QED
      BY <1>4, <2>1, <2>5, <3>1, Zenon
  <2>9. position' = f.at + 4
    BY <1>4, <2>1, <2>5, <2>7
  <2>10. code' = CodeAfter(input', f.at)
    <3>1. CodeAfter(input, e.at + 1) = ((CodeAfter(input, e.at) * Base) % Word) + ByteAt(input, e.at + 5)
      BY <1>2, <2>7, CodeNext, Zenon DEF Bytes
    <3>2. position + 1 = e.at + 5
      BY <1>4, <2>7
    <3>3. QED
      BY <1>4, <1>6, <2>1, <2>5, <3>1, <3>2, Zenon
  <2>11. ReadsAt(f)'
    <3>1. f.count = Len(got') /\ model' = f.model
      BY <1>4, <1>6, <2>5, Zenon
    <3>2. QED
      BY <2>8, <2>9, <2>10, <3>1, Zenon DEF ReadsAt
  <2>12. phase' = "shift in"
    BY <1>1, <2>1, Zenon
  <2>13. (\E all, final, g : WrittenBy(all, final) /\ g \in all /\ ReadsAt(g))'
    BY <1>7, <2>3, <2>11, Zenon
  <2>14. Decoding'
    <3>1. phase' # "end"
      BY <2>12
    <3>2. QED
      BY <1>8, <2>12, <2>13, <3>1, Zenon DEF Decoding
  <2>15. QED
    BY <2>12, <2>14, Zenon DEF CoderInv
<1>11. QED
  BY <1>9, <1>10

\* Ending after the last symbol keeps the invariant.
LEMMA EndKeeps ==
  ASSUME CoderInv, End
  PROVE  CoderInv'
<1>1. phase = "decode" /\ Len(got) = Len(sent) /\ Decoding
  <2>1. phase = "decode" /\ Len(got) = Len(sent)
    BY Zenon DEF End
  <2>2. QED
    BY <2>1 DEF CoderInv
<1>2. /\ phase' = "end" /\ sent' = sent /\ model' = model /\ low' = low /\ range' = range
      /\ output' = output /\ input' = input /\ position' = position /\ code' = code /\ got' = got
      /\ initial' = initial /\ trail' = trail
  BY Zenon DEF End
<1>3. PICK places, last, e : WrittenBy(places, last) /\ e \in places /\ ReadsAt(e)
  BY <1>1, Zenon DEF Decoding
<1>4. WrittenBy(places, last)' /\ ReadsAt(e)'
  BY <1>2, <1>3, Zenon DEF WrittenBy, ReadsAt
<1>5. input \in Bytes /\ IsSequence(got) /\ Len(sent) \in Nat /\ Extends(sent, got) /\ Settled(low, range)
  <2>1. phase # "shift in"
    BY <1>1
  <2>2. QED
    BY <1>1, <2>1, Zenon DEF Decoding
<1>6. (\E all, final, g : WrittenBy(all, final) /\ g \in all /\ ReadsAt(g))'
  BY <1>3, <1>4, Zenon
<1>7. /\ input' \in Bytes /\ IsSequence(got') /\ Len(sent') \in Nat /\ Extends(sent', got')
      /\ Settled(low', range') /\ Len(got') = Len(sent')
  BY <1>1, <1>2, <1>5, Zenon
<1>8. Decoding'
  BY <1>6, <1>7, Zenon DEF Decoding
<1>9. QED
  BY <1>2, <1>8, Zenon DEF CoderInv

-----------------------------------------------------------------------------
(* The theorems *)

\* Every step keeps the invariant while the models are sound.
LEMMA CoderInvNext == CoderInv /\ ModelsSound /\ [Next]_vars => CoderInv'
<1>1. SUFFICES ASSUME CoderInv, ModelsSound, [Next]_vars PROVE CoderInv'
  OBVIOUS
<1>2. CASE Next
  BY <1>1, <1>2, EncodeKeeps, ShiftOutKeeps, FinishKeeps, DecodeKeeps, ShiftInKeeps, EndKeeps,
     Zenon DEF Next
<1>3. CASE UNCHANGED vars
  <2>1. /\ phase' = phase /\ sent' = sent /\ model' = model /\ low' = low /\ range' = range
        /\ output' = output /\ input' = input /\ position' = position /\ code' = code
        /\ got' = got /\ initial' = initial /\ trail' = trail
    BY <1>3 DEF vars
  <2>2. Place' = Place /\ Start' = Start
    BY <2>1, Zenon DEF Place, Start
  <2>3. \A places : EncodedBy(places) => EncodedBy(places)'
    BY <2>1, <2>2, Zenon DEF EncodedBy
  <2>4. Encoding => Encoding'
    BY <2>1, <2>3, Zenon DEF Encoding
  <2>5. \A places, last, e : WrittenBy(places, last) /\ ReadsAt(e) => (WrittenBy(places, last) /\ ReadsAt(e))'
    BY <2>1, Zenon DEF WrittenBy, ReadsAt
  <2>6. Decoding => Decoding'
    BY <2>1, <2>5, Zenon DEF Decoding
  <2>7. QED
    BY <1>1, <2>1, <2>4, <2>6, Zenon DEF CoderInv
<1>4. QED
  BY <1>1, <1>2, <1>3

-----------------------------------------------------------------------------
(* Models, and then all of it *)

\* The models stay fit.
ModelsFit == Fit(model) /\ initial \in Models

\* A model that a stream starts with is fit.
LEMMA ModelsFitInit == Init => ModelsFit
<1>1. SUFFICES ASSUME Init PROVE ModelsFit
  OBVIOUS
<1>2. initial \in Models /\ model = initial
  BY <1>1 DEF Init
<1>3. Fit(initial)
  BY <1>2, CoderAssumption, UnusedFits
<1>4. QED
  BY <1>2, <1>3, Zenon DEF ModelsFit

\* RangeDecoder::decode updates its model with a symbol of it.
LEMMA DecodeFits ==
  ASSUME CoderInv, ModelsFit, Decode
  PROVE  ModelsFit'
<1>1. phase = "decode" /\ initial' = initial
  BY Zenon DEF Decode
<1>2. Decoding
  BY <1>1 DEF CoderInv
<1>3. PICK places, last, e : WrittenBy(places, last) /\ e \in places /\ ReadsAt(e)
  BY <1>2, Zenon DEF Decoding
<1>4. code = CodeAfter(input, e.at) /\ low = e.low /\ range = e.range
  BY <1>3, Zenon DEF ReadsAt
<1>5. Within(low, range) /\ Holds(low, range, code)
  BY <1>3, <1>4, Zenon DEF WrittenBy, Way, IsPlace, HoldsAt
<1>6. low \in Nat /\ range \in Nat /\ code \in Nat
  BY <1>5 DEF Within, Holds
<1>7. PICK n, below : n = SymbolCount(model) /\ HasTree(model, n, below) /\ below[n] = model.total
  BY Zenon DEF ModelsFit, Fit
<1>8. PICK t : t = model.total
  OBVIOUS
<1>9. n \in Nat /\ below \in [0 .. n -> Nat] /\ below[0] = 0
  BY <1>7 DEF HasTree, RunningSums
<1>10. SymbolsOf(model) = 0 .. n - 1
  BY <1>7, <1>9, SymbolsAre DEF HasTree
<1>11. PICK unit : unit = range \div model.total
  OBVIOUS
<1>12. PICK count : count = ((code - low) % Word) \div unit
  OBVIOUS
<1>13. PICK found : found = SymbolForCount(model, count)
  OBVIOUS
<1>14. CASE unit = 0 \/ count >= model.total
  <2>1. model' = model
    BY <1>11, <1>12, <1>13, <1>14, Zenon DEF Decode
  <2>2. QED
    BY <1>1, <2>1, Zenon DEF ModelsFit
<1>15. CASE ~(unit = 0 \/ count >= model.total)
  <2>1. model' = Update(model, found[1])
    BY <1>11, <1>12, <1>13, <1>15, Zenon DEF Decode
  <2>2. t \in Nat \ {0}
    <3>1. ModelSound(model)
      BY Zenon, FitIsSound DEF ModelsFit
    <3>2. t \in 1 .. ModelMaxTotal
      BY <1>8, <3>1, Zenon DEF ModelSound
    <3>3. QED
      BY <3>2, ModelAssumption
  <2>3. unit \in Nat \ {0}
    <3>1. unit = range \div t
      BY <1>8, <1>11, Zenon
    <3>2. PICK r : r = range % t
      OBVIOUS
    <3>3. Splits(range, t, unit, r)
      BY <1>6, <2>2, <3>1, <3>2, Split, Zenon
    <3>4. QED
      BY <1>15, <3>3 DEF Splits
  <2>4. count \in Nat /\ count < t
    <3>1. PICK d : d = (code - low) % Word
      OBVIOUS
    <3>2. code - low \in Int /\ Word \in Nat \ {0}
      BY <1>6, Units
    <3>3. d \in Nat
      BY <3>1, <3>2
    <3>4. count = d \div unit
      BY <1>12, <3>1, Zenon
    <3>5. PICK r : r = d % unit
      OBVIOUS
    <3>6. Splits(d, unit, count, r)
      BY <2>3, <3>3, <3>4, <3>5, Split, Zenon
    <3>7. count \in Nat
      BY <3>6, Zenon DEF Splits
    <3>8. QED
      BY <1>8, <1>15, <2>2, <3>7
  <2>5. PICK s : Counts(below, n, s, count)
    BY <1>7, <1>8, <1>9, <2>4, CountOfSymbol
  <2>6. found = <<s, below[s], model.frequencies[s]>>
    BY <1>7, <1>13, <2>5, SymbolForCountIs
  <2>7. found[1] = s /\ s \in SymbolsOf(model)
    BY <1>10, <2>5, <2>6 DEF Counts
  <2>8. Fit(Update(model, s))
    BY <2>7, UpdateFits, Zenon DEF ModelsFit
  <2>9. QED
    BY <1>1, <2>1, <2>7, <2>8, Zenon DEF ModelsFit
<1>16. QED
  BY <1>14, <1>15

\* Every step keeps the models fit.
LEMMA ModelsFitNext == CoderInv /\ ModelsFit /\ [Next]_vars => ModelsFit'
<1>1. SUFFICES ASSUME CoderInv, ModelsFit, [Next]_vars PROVE ModelsFit'
  OBVIOUS
<1>2. ASSUME NEW symbol \in SymbolsOf(model), Encode(symbol) PROVE ModelsFit'
  <2>1. initial' = initial /\ (model' = model \/ model' = Update(model, symbol))
    BY <1>2, Zenon DEF Encode
  <2>2. Fit(Update(model, symbol)) /\ Fit(model) /\ initial \in Models
    BY <1>1, <1>2, UpdateFits, Zenon DEF ModelsFit
  <2>3. QED
    BY <2>1, <2>2, Zenon DEF ModelsFit
<1>3. ASSUME NEW tail \in Tails, Finish(tail) PROVE ModelsFit'
  <2>1. initial' = initial /\ model' = initial
    BY <1>3, Zenon DEF Finish
  <2>2. initial \in Models
    BY <1>1, Zenon DEF ModelsFit
  <2>3. Fit(initial)
    BY <2>2, CoderAssumption, UnusedFits
  <2>4. QED
    BY <2>1, <2>2, <2>3, Zenon DEF ModelsFit
<1>4. ASSUME model' = model /\ initial' = initial PROVE ModelsFit'
  BY <1>1, <1>4, Zenon DEF ModelsFit
<1>5. CASE Next
  <2>1. CASE ShiftOut
    BY <1>4, <2>1, Zenon DEF ShiftOut
  <2>2. CASE ShiftIn
    BY <1>4, <2>2, Zenon DEF ShiftIn
  <2>3. CASE End
    BY <1>4, <2>3, Zenon DEF End
  <2>4. QED
    BY <1>1, <1>2, <1>3, <1>5, <2>1, <2>2, <2>3, DecodeFits, Zenon DEF Next
<1>6. CASE UNCHANGED vars
  BY <1>4, <1>6, Zenon DEF vars
<1>7. QED
  BY <1>1, <1>5, <1>6

\* The inductive invariant of the coder and its models.
RangeInv == CoderInv /\ ModelsFit

\* It holds throughout.
LEMMA RangeInvHolds == Spec => []RangeInv
<1>1. Init => RangeInv
  BY CoderInvInit, ModelsFitInit DEF RangeInv
<1>2. ModelsFit => ModelsSound
  BY FitIsSound DEF ModelsFit, ModelsSound
<1>3. RangeInv /\ [Next]_vars => RangeInv'
  BY <1>2, CoderInvNext, ModelsFitNext DEF RangeInv
<1>4. QED
  BY <1>1, <1>3, PTL DEF Spec

\* However long a model is updated, its symbols keep adjacent intervals that are not empty,
\* and its tree finds each by every count.
THEOREM ModelsStaySound == Spec => []ModelsSound
<1>1. RangeInv => ModelsSound
  BY FitIsSound DEF RangeInv, ModelsFit, ModelsSound
<1>2. QED
  BY <1>1, RangeInvHolds, PTL

\* Whatever follows the stream: the decoder reads what the encoder sent and neither side
\* runs out of interval.
THEOREM DecodesWhatWasSent == Spec => []RoundTrip
<1>1. ASSUME RangeInv PROVE RoundTrip
  <2>1. phase # "failed"
    BY <1>1 DEF RangeInv, CoderInv
  <2>2. CASE phase \in {"encode", "shift out"}
    <3>1. got = <<>> /\ IsSequence(sent)
      BY <1>1, <2>2, Zenon DEF RangeInv, CoderInv, Encoding
    <3>2. Len(sent) \in Nat /\ Len(got) = 0
      BY <3>1, ExtendsItself, EmptyIsSequence, Zenon
    <3>3. SubSeq(sent, 1, 0) = SubSeq(got, 1, 0)
      OBVIOUS
    <3>4. QED
      BY <2>1, <3>2, <3>3 DEF RoundTrip, IsPrefix
  <2>3. CASE phase \in {"decode", "shift in", "end"}
    <3>1. IsSequence(got) /\ Len(sent) \in Nat /\ Extends(sent, got)
      BY <1>1, <2>3, Zenon DEF RangeInv, CoderInv, Decoding
    <3>2. Len(got) \in Nat /\ Len(got) <= Len(sent) /\ \A i \in 1 .. Len(got) : sent[i] = got[i]
      BY <3>1, ExtendsItself, Zenon DEF Extends
    <3>3. SubSeq(got, 1, Len(got)) = SubSeq(sent, 1, Len(got))
      BY <3>2
    <3>4. QED
      BY <2>1, <3>2, <3>3, Zenon DEF RoundTrip, IsPrefix
  <2>4. QED
    BY <1>1, <2>2, <2>3 DEF RangeInv, CoderInv
<1>2. QED
  BY <1>1, RangeInvHolds, PTL

\* Before each symbol the decoder has the encoder's interval and model.
THEOREM CodersInLockstep == Spec => []InLockstep
<1>1. ASSUME RangeInv PROVE InLockstep
  <2>1. SUFFICES ASSUME phase = "decode" PROVE trail[Len(got) + 1] = <<low, range, model>>
    BY Zenon DEF InLockstep
  <2>2. Decoding /\ phase # "shift in"
    BY <1>1, <2>1 DEF RangeInv, CoderInv
  <2>3. Settled(low, range) /\ Len(sent) \in Nat
    BY <2>2, Zenon DEF Decoding
  <2>4. PICK places, last, e : WrittenBy(places, last) /\ e \in places /\ ReadsAt(e)
    BY <2>2, Zenon DEF Decoding
  <2>5. e.count = Len(got) /\ low = e.low /\ range = e.range /\ model = e.model
    BY <2>4, Zenon DEF ReadsAt
  <2>6. CASE e = last
    BY <2>4, <2>5, <2>6, Zenon DEF WrittenBy
  <2>7. CASE \E f \in places : Follows(e, f, sent, trail)
    <3>1. PICK f \in places : Follows(e, f, sent, trail)
      BY <2>7
    <3>2. Coded(e, f, sent, trail)
      BY <2>3, <2>5, <3>1, Zenon DEF Follows
    <3>3. QED
      BY <2>5, <3>2, Zenon DEF Coded
  <2>8. QED
    BY <2>4, <2>6, <2>7, Zenon DEF WrittenBy, Way
<1>2. QED
  BY <1>1, RangeInvHolds, PTL

\* The decoder ends where the stream does.
THEOREM EndsWithTheStream == Spec => []FinishesAtTheEnd
<1>1. ASSUME RangeInv PROVE FinishesAtTheEnd
  <2>1. SUFFICES ASSUME phase = "end" PROVE FinishedPosition = Len(output)
    BY Zenon DEF FinishesAtTheEnd
  <2>2. Decoding /\ phase # "shift in"
    BY <1>1, <2>1 DEF RangeInv, CoderInv
  <2>3. Settled(low, range) /\ Len(sent) \in Nat /\ Len(got) = Len(sent)
    BY <2>1, <2>2, Zenon DEF Decoding
  <2>4. PICK places, last, e : WrittenBy(places, last) /\ e \in places /\ ReadsAt(e)
    BY <2>2, Zenon DEF Decoding
  <2>5. e.count = Len(got) /\ position = e.at + 4 /\ low = e.low /\ range = e.range
    BY <2>4, Zenon DEF ReadsAt
  <2>6. e = last
    BY <2>3, <2>4, <2>5, AtLast, Zenon
  <2>7. PICK n : n = EncodedBytes(low, range)
    OBVIOUS
  <2>8. Len(output) = e.at + n
    BY <2>4, <2>5, <2>6, <2>7, Zenon DEF WrittenBy
  <2>9. IsPlace(e)
    BY <2>4, Zenon DEF WrittenBy, Way
  <2>10. n \in 1 .. 4 /\ e.at \in Nat
    BY <2>3, <2>5, <2>7, <2>9, BytesEnough, Zenon DEF IsPlace
  <2>11. position - (4 - n) = e.at + n
    BY <2>5, <2>10
  <2>12. QED
    BY <2>7, <2>8, <2>11, Zenon DEF FinishedPosition
<1>2. QED
  BY <1>1, RangeInvHolds, PTL
=============================================================================
