----------------------------- MODULE NumbersProofs -----------------------------
(***************************************************************************)
(* Proofs about the numbers, for any machines, delays and addresses: what  *)
(* a product of ints is, that scores rank, that upgrades help, that slots  *)
(* are held, and that addresses arrive.                                    *)
(***************************************************************************)
EXTENDS Numbers, FiniteSetTheorems, WellFoundedInduction, TLAPS

-------------------------------------------------------------------------------
(* Products of ints. *)

\* What an int holds.
Fits(n) == n \in Int /\ -2147483648 <= n /\ n <= 2147483647

\* Two numbers that have the same 32 low bits.
Modulus == 4294967296
Agree(m, n) == \E k \in Int : m = n + Modulus * k

LEMMA AgreeTrans ==
  ASSUME NEW m \in Int, NEW n \in Int, NEW p \in Int, Agree(m, n), Agree(n, p)
  PROVE  Agree(m, p)
<1>1. PICK j \in Int : m = n + Modulus * j
  BY DEF Agree
<1>2. PICK k \in Int : n = p + Modulus * k
  BY DEF Agree
<1>3. j + k \in Int /\ m = p + Modulus * (j + k)
  BY <1>1, <1>2 DEF Modulus
<1> QED
  BY <1>3, Zenon DEF Agree

LEMMA AgreeNegated ==
  ASSUME NEW m \in Int, NEW n \in Int, Agree(m, n)
  PROVE  Agree(-m, -n)
<1>1. PICK k \in Int : m = n + Modulus * k
  BY DEF Agree
<1>2. -k \in Int /\ -m = -n + Modulus * (-k)
  BY <1>1 DEF Modulus
<1> QED
  BY <1>2, Zenon DEF Agree

\* Numbers an int holds do not agree but with themselves.
LEMMA AgreeEqual ==
  ASSUME NEW m, NEW n, Fits(m), Fits(n), Agree(m, n)
  PROVE  m = n
BY DEF Agree, Modulus, Fits

\* A number by its limbs, and one by its 10 high and 22 low bits.
Places(x0, x1, x2, x3) == x0 + 2048 * x1 + 4194304 * x2 + 8589934592 * x3
Word(high, low) == high * 4194304 + low
Signed(high, low) == Word(IF high < 512 THEN high ELSE high - 1024, low)

Limb0(a) == Limb(a, 1)
Limb1(a) == Limb(a, 2048)
Limb2(a) == Limb(a, 4194304)

\* What Times keeps of a product: 22 bits and the 10 above them.
Low(p0, p1) == ((p1 + (p0 \div 2048)) % 2048) * 2048 + (p0 % 2048)
High(p0, p1, p2) == (p2 + ((p1 + (p0 \div 2048)) \div 2048)) % 1024
Bits(high, low) == high \in Nat /\ high < 1024 /\ low \in Nat /\ low < 4194304

\* The three lowest limbs of a number, and what is above them.
LEMMA LimbsAre ==
  ASSUME NEW a \in Int
  PROVE  /\ Limb0(a) \in Nat /\ Limb1(a) \in Nat /\ Limb2(a) \in Nat
         /\ \E rest \in Nat : Abs(a) = Places(Limb0(a), Limb1(a), Limb2(a), rest)
<1>1. Abs(a) \in Nat
  BY DEF Abs
<1> DEFINE n == Abs(a)
<1> HIDE DEF n
<1>2. n \in Nat
  BY <1>1 DEF n
<1>3. /\ (n \div 1) % 2048 \in Nat /\ (n \div 2048) % 2048 \in Nat
      /\ (n \div 4194304) % 2048 \in Nat /\ n \div 8589934592 \in Nat
  BY <1>2
<1>4. n = ((n \div 1) % 2048) + 2048 * ((n \div 2048) % 2048)
          + 4194304 * ((n \div 4194304) % 2048) + 8589934592 * (n \div 8589934592)
  BY <1>2
<1>5. /\ Limb0(a) = (n \div 1) % 2048 /\ Limb1(a) = (n \div 2048) % 2048
      /\ Limb2(a) = (n \div 4194304) % 2048
  BY DEF Limb, Limb0, Limb1, Limb2, n
<1>6. Abs(a) = Places(Limb0(a), Limb1(a), Limb2(a), n \div 8589934592)
  BY <1>4, <1>5 DEF n, Places
<1> QED
  BY <1>3, <1>5, <1>6

\* What is carried from place to place is not lost, up to a multiple of 2^32.
LEMMA Carried ==
  ASSUME NEW p0 \in Nat, NEW p1 \in Nat, NEW p2 \in Nat, NEW rest \in Nat
  PROVE  /\ Bits(High(p0, p1, p2), Low(p0, p1))
         /\ Agree(Places(p0, p1, p2, rest), Word(High(p0, p1, p2), Low(p0, p1)))
<1> DEFINE q0 == p0 \div 2048
           r0 == p0 % 2048
           c1 == p1 + q0
           q1 == c1 \div 2048
           r1 == c1 % 2048
           c2 == p2 + q1
           q2 == c2 \div 1024
           high == c2 % 1024
           low == r1 * 2048 + r0
           k == q2 + 2 * rest
<1>1. Low(p0, p1) = low /\ High(p0, p1, p2) = high
  BY DEF Low, High
<1>2. q0 \in Nat /\ r0 \in Nat /\ r0 < 2048 /\ p0 = 2048 * q0 + r0
  OBVIOUS
<1> HIDE DEF q0, r0
<1>3. c1 \in Nat /\ c1 = p1 + q0
  BY <1>2
<1> HIDE DEF c1
<1>4. q1 \in Nat /\ r1 \in Nat /\ r1 < 2048 /\ c1 = 2048 * q1 + r1
  BY <1>3
<1> HIDE DEF q1, r1
<1>5. c2 \in Nat /\ c2 = p2 + q1
  BY <1>4
<1> HIDE DEF c2
<1>6. q2 \in Nat /\ high \in Nat /\ high < 1024 /\ c2 = 1024 * q2 + high
  BY <1>5
<1> HIDE DEF q2, high
<1>7. low \in Nat /\ low < 4194304 /\ low = r1 * 2048 + r0
  BY <1>2, <1>4
<1> HIDE DEF low
<1>8. k \in Int /\ k = q2 + 2 * rest
  BY <1>6
<1> HIDE DEF k
<1>9. p0 + 2048 * p1 + 4194304 * p2 + 8589934592 * rest = high * 4194304 + low + Modulus * k
  BY <1>2, <1>3, <1>4, <1>5, <1>6, <1>7, <1>8 DEF Modulus
<1>10. Agree(Places(p0, p1, p2, rest), Word(high, low))
  BY <1>8, <1>9 DEF Agree, Places, Word
<1>11. Bits(high, low)
  BY <1>6, <1>7 DEF Bits
<1> QED
  BY <1>1, <1>10, <1>11, Zenon

\* The product of two numbers is that of their sizes, with a sign.
LEMMA AbsProduct ==
  ASSUME NEW a \in Int, NEW b \in Int
  PROVE  /\ Abs(a) \in Nat /\ Abs(b) \in Nat
         /\ (a < 0) = (b < 0) => a * b = Abs(a) * Abs(b)
         /\ ~((a < 0) = (b < 0)) => a * b = -(Abs(a) * Abs(b))
BY DEF Abs

\* Two's complement: 32 bits as a signed number.
LEMMA SignedIs ==
  ASSUME NEW high, NEW low, Bits(high, low)
  PROVE  /\ Fits(Signed(high, low)) /\ Word(high, low) \in Int
         /\ ~(high = 512 /\ low = 0) => Fits(-Signed(high, low))
         /\ high = 512 /\ low = 0 => Agree(-Signed(high, low), Signed(high, low))
         /\ Agree(Word(high, low), Signed(high, low))
<1>1. high \in Nat /\ high < 1024 /\ low \in Nat /\ low < 4194304
  BY DEF Bits
<1>2. CASE high < 512
  <2>1. Signed(high, low) = high * 4194304 + low /\ Word(high, low) = high * 4194304 + low
    BY <1>2 DEF Signed, Word
  <2>2. Word(high, low) = Signed(high, low) + Modulus * 0
    BY <1>1, <2>1 DEF Modulus
  <2>3. Agree(Word(high, low), Signed(high, low))
    BY <2>2 DEF Agree
  <2> QED
    BY <1>1, <1>2, <2>1, <2>3 DEF Fits
<1>3. CASE ~(high < 512)
  <2>1. Signed(high, low) = (high - 1024) * 4194304 + low /\ Word(high, low) = high * 4194304 + low
    BY <1>3 DEF Signed, Word
  <2>2. Word(high, low) = Signed(high, low) + Modulus * 1
    BY <1>1, <2>1 DEF Modulus
  <2>3. Agree(Word(high, low), Signed(high, low))
    BY <2>2 DEF Agree
  <2>4. ASSUME high = 512, low = 0
        PROVE  Agree(-Signed(high, low), Signed(high, low))
    <3>1. Signed(high, low) \in Int /\ Signed(high, low) + 2147483648 = 0
      BY <2>1, <2>4
    <3>2. 1 \in Int /\ -Signed(high, low) = Signed(high, low) + Modulus * 1
      BY <3>1 DEF Modulus
    <3> QED
      BY <3>2, Zenon DEF Agree
  <2>5. ASSUME ~(high = 512 /\ low = 0)
        PROVE  Fits(-Signed(high, low))
    BY <1>1, <1>3, <2>1, <2>5 DEF Fits
  <2>6. Fits(Signed(high, low)) /\ Word(high, low) \in Int
    BY <1>1, <1>3, <2>1 DEF Fits
  <2> QED
    BY <2>3, <2>4, <2>5, <2>6, Zenon
<1> QED
  BY <1>2, <1>3

\* Times is the * of C on ints: it differs from the product by a multiple of 2^32, and
\* is an int.
THEOREM TimesWraps ==
  ASSUME NEW a \in Int, NEW b \in Int
  PROVE  Fits(Times(a, b)) /\ Agree(a * b, Times(a, b))
<1> DEFINE x0 == Limb0(a)  x1 == Limb1(a)  x2 == Limb2(a)
           y0 == Limb0(b)  y1 == Limb1(b)  y2 == Limb2(b)
           p0 == x0 * y0
           p1 == x0 * y1 + x1 * y0
           p2 == x0 * y2 + x1 * y1 + x2 * y0
           high == High(p0, p1, p2)
           low == Low(p0, p1)
           signed == Signed(high, low)
           size == Abs(a) * Abs(b)
<1>1. Times(a, b) = IF (a < 0) = (b < 0) \/ (high = 512 /\ low = 0) THEN signed ELSE -signed
  BY DEF Times, High, Low, Signed, Word, Limb0, Limb1, Limb2
<1>2. /\ x0 \in Nat /\ x1 \in Nat /\ x2 \in Nat /\ y0 \in Nat /\ y1 \in Nat /\ y2 \in Nat
      /\ \E rest \in Nat : Abs(a) = Places(x0, x1, x2, rest)
      /\ \E rest \in Nat : Abs(b) = Places(y0, y1, y2, rest)
  BY LimbsAre, Zenon
<1> HIDE DEF x0, x1, x2, y0, y1, y2
<1>3. PICK x3 \in Nat : Abs(a) = Places(x0, x1, x2, x3)
  BY <1>2
<1>4. PICK y3 \in Nat : Abs(b) = Places(y0, y1, y2, y3)
  BY <1>2
<1>5. p0 \in Nat /\ p1 \in Nat /\ p2 \in Nat
  BY <1>2
<1>6. PICK rest \in Nat : size = Places(p0, p1, p2, rest)
  <2> DEFINE more == (x0 * y3 + x1 * y2 + x2 * y1 + x3 * y0) + 2048 * (x1 * y3 + x2 * y2 + x3 * y1)
                     + 4194304 * (x2 * y3 + x3 * y2) + 8589934592 * (x3 * y3)
  <2>1. more \in Nat
    BY <1>2
  <2>2. (x0 + 2048 * x1 + 4194304 * x2 + 8589934592 * x3) * (y0 + 2048 * y1 + 4194304 * y2 + 8589934592 * y3)
        = x0 * y0 + 2048 * (x0 * y1 + x1 * y0) + 4194304 * (x0 * y2 + x1 * y1 + x2 * y0)
          + 8589934592 * more
    BY <1>2
  <2>3. Places(x0, x1, x2, x3) * Places(y0, y1, y2, y3) = Places(p0, p1, p2, more)
    BY <2>2 DEF Places
  <2> HIDE DEF more, p0, p1, p2
  <2> QED
    BY <1>3, <1>4, <2>1, <2>3, Zenon
<1> HIDE DEF p0, p1, p2
<1>7. Bits(high, low) /\ Agree(size, Word(high, low))
  BY <1>5, <1>6, Carried, Zenon
<1>8. size \in Int
  BY AbsProduct
<1> HIDE DEF high, low, size
<1>9. /\ Fits(signed) /\ Word(high, low) \in Int
      /\ ~(high = 512 /\ low = 0) => Fits(-signed)
      /\ high = 512 /\ low = 0 => Agree(-signed, signed)
      /\ Agree(Word(high, low), signed)
  BY <1>7, SignedIs, Zenon
<1> HIDE DEF signed
<1>10. signed \in Int /\ -signed \in Int /\ -size \in Int
  BY <1>8, <1>9 DEF Fits
<1>11. Agree(size, signed) /\ Agree(-size, -signed)
  BY <1>7, <1>8, <1>9, <1>10, AgreeTrans, AgreeNegated, Zenon
<1>12. /\ (a < 0) = (b < 0) => a * b = size
       /\ ~((a < 0) = (b < 0)) => a * b = -size
  BY AbsProduct DEF size
<1>13. CASE (a < 0) = (b < 0)
  BY <1>1, <1>9, <1>11, <1>12, <1>13, Zenon
<1>14. CASE ~((a < 0) = (b < 0)) /\ high = 512 /\ low = 0
  <2>1. Agree(-size, signed)
    BY <1>9, <1>10, <1>11, <1>14, AgreeTrans, Zenon
  <2> QED
    BY <1>1, <1>9, <1>12, <1>14, <2>1, Zenon
<1>15. CASE ~((a < 0) = (b < 0)) /\ ~(high = 512 /\ low = 0)
  BY <1>1, <1>9, <1>11, <1>12, <1>15, Zenon
<1> QED
  BY <1>13, <1>14, <1>15, Zenon

\* A product that is an int is what * gives.
LEMMA TimesIs ==
  ASSUME NEW a \in Int, NEW b \in Int, Fits(a * b)
  PROVE  Times(a, b) = a * b
BY TimesWraps, AgreeEqual, Zenon

-------------------------------------------------------------------------------
(* Minima and maxima. *)

LEMMA MinIn ==
  ASSUME NEW S \in SUBSET Nat, S # {}
  PROVE  Min(S) \in S /\ \A y \in S : Min(S) <= y
<1>1. PICK x \in S : \A y \in S : ~(<<y, x>> \in OpToRel(<, Nat))
  BY NatLessThanWellFounded, WFMin
<1>2. \A y \in S : ~(y < x)
  BY <1>1, Zenon DEF OpToRel
<1>3. \A y \in S : x <= y
  BY <1>2
<1> QED
  BY <1>3, Zenon DEF Min

LEMMA MinIs ==
  ASSUME NEW S \in SUBSET Int, NEW m \in S, \A y \in S : m <= y
  PROVE  Min(S) = m
<1>1. Min(S) \in S /\ \A y \in S : Min(S) <= y
  BY Zenon DEF Min
<1>2. Min(S) \in Int /\ m \in Int /\ Min(S) <= m /\ m <= Min(S)
  BY <1>1
<1> QED
  BY <1>2

LEMMA MaxIs ==
  ASSUME NEW S \in SUBSET Int, NEW m \in S, \A y \in S : y <= m
  PROVE  Max(S) = m
<1>1. Max(S) \in S /\ \A y \in S : y <= Max(S)
  BY Zenon DEF Max
<1>2. Max(S) \in Int /\ m \in Int /\ Max(S) <= m /\ m <= Max(S)
  BY <1>1
<1> QED
  BY <1>2

-------------------------------------------------------------------------------
(* Scores. *)

\* A score between two limits in tenths, and limits without a fraction.
Between(low, high, s) == low <= s * 10 /\ s * 10 <= high
Whole(low, high) ==
  /\ low \in Int /\ high \in Int /\ low % 10 = 0 /\ high % 10 = 0
  /\ 900 <= low /\ low <= high /\ 1000 <= high /\ high <= 100000
Fraction(low, high) == low \in Int /\ high \in Int /\ (low % 10 # 0 \/ high % 10 # 0)

\* The product (score-high)*(score-low) tells whether a score on the scale is between the limits.
LEMMA WholeRung ==
  ASSUME NEW s \in Int, OnScale(s), NEW low, NEW high, Whole(low, high)
  PROVE  OnRung(<<low, high>>, s) <=> Between(low, high, s)
<1> DEFINE l == low \div 10
           h == high \div 10
           u == s - h
           v == s - l
<1>1. OnRung(<<low, high>>, s) <=> Times(u, v) <= 0
  BY DEF OnRung, Whole
<1>2. /\ low = 10 * l /\ high = 10 * h /\ l \in Int /\ h \in Int
      /\ 90 <= l /\ l <= h /\ 100 <= h /\ h <= 10000
  BY DEF Whole
<1> HIDE DEF l, h
<1>3. /\ -46335 <= u /\ u <= 46335
      /\ -46345 <= v /\ v <= 46345
      /\ u <= v
      /\ Between(low, high, s) <=> u <= 0 /\ v >= 0
  BY <1>2 DEF OnScale, Between
<1>4. u \in Int /\ v \in Int
  BY <1>2
<1> HIDE DEF u, v
<1>5. u * v \in Int /\ u * v <= 2147395575 /\ -2147395575 <= u * v
  BY <1>3, <1>4
<1>6. Fits(u * v)
  BY <1>5 DEF Fits
<1>7. Times(u, v) = u * v
  BY <1>4, <1>6, TimesIs, Zenon
<1>8. u * v <= 0 <=> u <= 0 /\ v >= 0
  BY <1>3, <1>4
<1> QED
  BY <1>1, <1>3, <1>7, <1>8

\* The same for the sizes of memory an int can hold, in millions of kilobytes.
OfMemory(s) == s \in Nat /\ s <= 2147
LEMMA MemoryRung ==
  ASSUME NEW s, OfMemory(s), NEW low \in Int, NEW high \in Int,
         low % 10 = 0, high % 10 = 0, 0 <= low, low <= high, high <= 1280
  PROVE  OnRung(<<low, high>>, s) <=> Between(low, high, s)
<1> DEFINE l == low \div 10
           h == high \div 10
           u == s - h
           v == s - l
<1>1. OnRung(<<low, high>>, s) <=> Times(u, v) <= 0
  BY DEF OnRung
<1>2. low = 10 * l /\ high = 10 * h /\ l \in Int /\ h \in Int /\ 0 <= l /\ l <= h /\ h <= 128
  OBVIOUS
<1> HIDE DEF l, h
<1>3. /\ -128 <= u /\ u <= 2147
      /\ -128 <= v /\ v <= 2147
      /\ u <= v
      /\ Between(low, high, s) <=> u <= 0 /\ v >= 0
  BY <1>2 DEF OfMemory, Between
<1>4. u \in Int /\ v \in Int
  BY <1>2 DEF OfMemory
<1> HIDE DEF u, v
<1>5. u * v \in Int /\ u * v <= 4609609 /\ -4609609 <= u * v
  BY <1>3, <1>4
<1>6. Times(u, v) = u * v
  <2>1. Fits(u * v)
    BY <1>5 DEF Fits
  <2> QED
    BY <1>4, <2>1, TimesIs, Zenon
<1>7. u * v <= 0 <=> u <= 0 /\ v >= 0
  BY <1>3, <1>4
<1> QED
  BY <1>1, <1>3, <1>6, <1>7

\* Where a limit has a fraction, the test is done on doubles.
LEMMA FractionRung ==
  ASSUME NEW s \in Int, NEW low, NEW high, Fraction(low, high)
  PROVE  OnRung(<<low, high>>, s) <=> Between(low, high, s)
<1>1. OnRung(<<low, high>>, s) <=> s * 10 \in low..high
  BY DEF OnRung, Fraction
<1> QED
  BY <1>1 DEF Between, Fraction

\* Each rung's test, on the scale, is whether the score is between its limits.
LEMMA CpuRungTests ==
  ASSUME NEW s \in Int, OnScale(s)
  PROVE  \A i \in 1..9 : OnRung(CpuRungs[i], s) <=> Between(CpuRungs[i][1], CpuRungs[i][2], s)
<1>1. /\ Whole(900, 1000) /\ Whole(1150, 2810) /\ Whole(2810, 7000) /\ Whole(7000, 20000)
      /\ Whole(20000, 60000) /\ Whole(60000, 100000)
  BY DEF Whole
<1>2. Fraction(10, 832) /\ Fraction(832, 900) /\ Fraction(1000, 1149)
  BY DEF Fraction
<1>3. /\ OnRung(<<900, 1000>>, s) <=> Between(900, 1000, s)
      /\ OnRung(<<1150, 2810>>, s) <=> Between(1150, 2810, s)
      /\ OnRung(<<2810, 7000>>, s) <=> Between(2810, 7000, s)
      /\ OnRung(<<7000, 20000>>, s) <=> Between(7000, 20000, s)
      /\ OnRung(<<20000, 60000>>, s) <=> Between(20000, 60000, s)
      /\ OnRung(<<60000, 100000>>, s) <=> Between(60000, 100000, s)
  BY <1>1, WholeRung
<1>4. /\ OnRung(<<10, 832>>, s) <=> Between(10, 832, s)
      /\ OnRung(<<832, 900>>, s) <=> Between(832, 900, s)
      /\ OnRung(<<1000, 1149>>, s) <=> Between(1000, 1149, s)
  BY <1>2, FractionRung
<1> QED
  BY <1>3, <1>4 DEF CpuRungs

\* The rungs whose limits a score is above.
CpuAbove(s) == {i \in DOMAIN CpuRungs : s * 10 > CpuRungs[i][2]}
RamAbove(s) == {i \in DOMAIN RamRungs : s * 10 > RamRungs[i][2]}

\* The rungs, for the provers.
LEMMA CpuRungsAre ==
  /\ DOMAIN CpuRungs = 1..9
  /\ CpuRungs[1][1] = 10 /\ CpuRungs[1][2] = 832
  /\ CpuRungs[2][1] = 832 /\ CpuRungs[2][2] = 900
  /\ CpuRungs[3][1] = 900 /\ CpuRungs[3][2] = 1000
  /\ CpuRungs[4][1] = 1000 /\ CpuRungs[4][2] = 1149
  /\ CpuRungs[5][1] = 1150 /\ CpuRungs[5][2] = 2810
  /\ CpuRungs[6][1] = 2810 /\ CpuRungs[6][2] = 7000
  /\ CpuRungs[7][1] = 7000 /\ CpuRungs[7][2] = 20000
  /\ CpuRungs[8][1] = 20000 /\ CpuRungs[8][2] = 60000
  /\ CpuRungs[9][1] = 60000 /\ CpuRungs[9][2] = 100000
BY DEF CpuRungs

LEMMA RamRungsAre ==
  /\ DOMAIN RamRungs = 1..9
  /\ RamRungs[1][1] = 0 /\ RamRungs[1][2] = 20
  /\ RamRungs[2][1] = 20 /\ RamRungs[2][2] = 40
  /\ RamRungs[3][1] = 40 /\ RamRungs[3][2] = 60
  /\ RamRungs[4][1] = 60 /\ RamRungs[4][2] = 80
  /\ RamRungs[5][1] = 80 /\ RamRungs[5][2] = 160
  /\ RamRungs[6][1] = 160 /\ RamRungs[6][2] = 320
  /\ RamRungs[7][1] = 320 /\ RamRungs[7][2] = 640
  /\ RamRungs[8][1] = 640 /\ RamRungs[8][2] = 1000
  /\ RamRungs[9][1] = 1000 /\ RamRungs[9][2] = 1280
BY DEF RamRungs

\* Each rung's test is whether the memory is between its limits.
LEMMA RamRungTests ==
  ASSUME NEW s, OfMemory(s)
  PROVE  \A i \in 1..9 : OnRung(RamRungs[i], s) <=> Between(RamRungs[i][1], RamRungs[i][2], s)
<1>1. /\ OnRung(<<0, 20>>, s) <=> Between(0, 20, s)
      /\ OnRung(<<20, 40>>, s) <=> Between(20, 40, s)
      /\ OnRung(<<40, 60>>, s) <=> Between(40, 60, s)
      /\ OnRung(<<60, 80>>, s) <=> Between(60, 80, s)
      /\ OnRung(<<80, 160>>, s) <=> Between(80, 160, s)
      /\ OnRung(<<160, 320>>, s) <=> Between(160, 320, s)
      /\ OnRung(<<320, 640>>, s) <=> Between(320, 640, s)
      /\ OnRung(<<640, 1000>>, s) <=> Between(640, 1000, s)
      /\ OnRung(<<1000, 1280>>, s) <=> Between(1000, 1280, s)
  BY MemoryRung
<1> QED
  BY <1>1 DEF RamRungs

\* A score that leaves the first k of nine rungs behind it and is on the next is ranked k + 1.
LEMMA Ranked ==
  ASSUME NEW on \in SUBSET (1..9), NEW above, NEW k \in 0..9,
         above = 1..k,
         \A i \in on : i > k,
         k < 9 => k + 1 \in on
  PROVE  (IF on = {} THEN 10 ELSE Min(on)) = 1 + Cardinality(above)
<1>1. Cardinality(1..k) = k
  <2>1. k \in Int /\ 1 \in Int
    OBVIOUS
  <2>2. Cardinality(1..k) = IF 1 > k THEN 0 ELSE k - 1 + 1
    BY <2>1, FS_Interval, Zenon
  <2> QED
    BY <2>2
<1>2. CASE k = 9
  <2>1. on = {}
    BY <1>2
  <2> QED
    BY <1>1, <1>2, <2>1
<1>3. CASE k < 9
  <2>1. k + 1 \in on /\ \A i \in on : k + 1 <= i
    BY <1>3
  <2>2. on \in SUBSET Int
    OBVIOUS
  <2>3. Min(on) = k + 1
    BY <2>1, <2>2, MinIs, Zenon
  <2> QED
    BY <1>1, <2>1, <2>3
<1> QED
  BY <1>2, <1>3

\* On the scale, a score's rank is the number of limits it is above.
LEMMA CpuRank ==
  ASSUME NEW s \in Int, OnScale(s)
  PROVE  get_cpu_score(s) = 1 + Cardinality(CpuAbove(s))
<1> DEFINE on == {i \in DOMAIN CpuRungs : OnRung(CpuRungs[i], s)}
<1>1. DOMAIN CpuRungs = 1..9
  BY CpuRungsAre
<1>2. s >= 1
  BY DEF OnScale
<1>3. PICK k \in 0..9 : \A i \in 1..9 : s * 10 > CpuRungs[i][2] <=> i <= k
  BY <1>2, CpuRungsAre
<1>4. CpuAbove(s) = 1..k
  BY <1>1, <1>3 DEF CpuAbove
<1>5. on \subseteq 1..9 /\ \A i \in 1..9 : i \in on <=> Between(CpuRungs[i][1], CpuRungs[i][2], s)
  BY <1>1, CpuRungTests
<1>6. \A i \in 1..9 : Between(CpuRungs[i][1], CpuRungs[i][2], s) => i > k
  BY <1>2, <1>3, CpuRungsAre DEF Between
<1>7. k < 9 => Between(CpuRungs[k + 1][1], CpuRungs[k + 1][2], s)
  BY <1>2, <1>3, CpuRungsAre DEF Between
<1> HIDE DEF on
<1>8. \A i \in on : i > k
  BY <1>5, <1>6
<1>9. k < 9 => k + 1 \in on
  BY <1>5, <1>7
<1>10. (IF on = {} THEN 10 ELSE Min(on)) = 1 + Cardinality(CpuAbove(s))
  BY <1>4, <1>5, <1>8, <1>9, Ranked, Zenon
<1> QED
  BY <1>10, Zenon DEF on, get_cpu_score

\* The same for memory.
Memory == {k \in Nat : k <= IntMax}
LEMMA MemoryIs ==
  ASSUME NEW kilobytes \in Memory
  PROVE  OfMemory(kilobytes \div 1000000)
BY DEF Memory, OfMemory, IntMax

LEMMA RamRank ==
  ASSUME NEW kilobytes \in Memory
  PROVE  get_ram_score(kilobytes) = 1 + Cardinality(RamAbove(kilobytes \div 1000000))
<1> DEFINE s == kilobytes \div 1000000
           on == {i \in DOMAIN RamRungs : OnRung(RamRungs[i], s)}
<1>1. OfMemory(s)
  BY MemoryIs
<1>2. get_ram_score(kilobytes) = IF on = {} THEN 10 ELSE Min(on)
  BY DEF get_ram_score
<1> HIDE DEF s
<1>3. DOMAIN RamRungs = 1..9
  BY RamRungsAre
<1>4. PICK k \in 0..9 : \A i \in 1..9 : s * 10 > RamRungs[i][2] <=> i <= k
  BY <1>1, RamRungsAre DEF OfMemory
<1>5. RamAbove(s) = 1..k
  BY <1>3, <1>4 DEF RamAbove
<1>6. on \subseteq 1..9 /\ \A i \in 1..9 : i \in on <=> Between(RamRungs[i][1], RamRungs[i][2], s)
  BY <1>1, <1>3, RamRungTests
<1>7. \A i \in 1..9 : Between(RamRungs[i][1], RamRungs[i][2], s) => i > k
  BY <1>1, <1>4, RamRungsAre DEF Between, OfMemory
<1>8. k < 9 => Between(RamRungs[k + 1][1], RamRungs[k + 1][2], s)
  BY <1>1, <1>4, RamRungsAre DEF Between, OfMemory
<1> HIDE DEF on
<1>9. \A i \in on : i > k
  BY <1>6, <1>7
<1>10. k < 9 => k + 1 \in on
  BY <1>6, <1>8
<1>11. (IF on = {} THEN 10 ELSE Min(on)) = 1 + Cardinality(RamAbove(s))
  BY <1>5, <1>6, <1>9, <1>10, Ranked, Zenon
<1> QED
  BY <1>2, <1>11 DEF s

\* A score is a number from 1 to 10, whatever the machine.
LEMMA ScoresType ==
  ASSUME NEW score, NEW kilobytes
  PROVE  get_cpu_score(score) \in 1..10 /\ get_ram_score(kilobytes) \in 1..10
<1>1. \A S \in SUBSET (1..9) : S # {} => Min(S) \in 1..10
  <2> TAKE S \in SUBSET (1..9)
  <2> HAVE S # {}
  <2>1. S \in SUBSET Nat
    OBVIOUS
  <2>2. Min(S) \in S
    BY <2>1, MinIn, Zenon
  <2>3. Min(S) \in 1..9
    BY <2>2, Zenon
  <2> QED
    BY <2>3
<1> DEFINE on(s) == {i \in DOMAIN CpuRungs : OnRung(CpuRungs[i], s)}
           fit(k) == {i \in DOMAIN RamRungs : OnRung(RamRungs[i], k \div 1000000)}
<1>2. on(score) \in SUBSET (1..9) /\ fit(kilobytes) \in SUBSET (1..9)
  <2>1. DOMAIN CpuRungs = 1..9 /\ DOMAIN RamRungs = 1..9
    BY CpuRungsAre, RamRungsAre
  <2> QED
    BY <2>1
<1>3. /\ get_cpu_score(score) = IF on(score) = {} THEN 10 ELSE Min(on(score))
      /\ get_ram_score(kilobytes) = IF fit(kilobytes) = {} THEN 10 ELSE Min(fit(kilobytes))
  BY DEF get_cpu_score, get_ram_score
<1> HIDE DEF on, fit
<1> QED
  BY <1>1, <1>2, <1>3

\* More limits, more in number.
LEMMA MoreLimits ==
  ASSUME NEW S \in SUBSET (1..9), NEW T \in SUBSET (1..9), S \subseteq T
  PROVE  1 + Cardinality(S) <= 1 + Cardinality(T)
<1>1. IsFiniteSet(1..9)
  <2>1. 1 \in Int /\ 9 \in Int
    OBVIOUS
  <2> QED
    BY <2>1, FS_Interval, Zenon
<1>2. IsFiniteSet(S) /\ IsFiniteSet(T)
  BY <1>1, FS_Subset, Zenon
<1>3. Cardinality(S) <= Cardinality(T) /\ Cardinality(S) \in Nat /\ Cardinality(T) \in Nat
  BY <1>2, FS_Subset, FS_CardinalityType, Zenon
<1> QED
  BY <1>3

\* A higher score never gets a lower rank.
LEMMA CpuRanksGrow ==
  ASSUME NEW s \in Int, NEW t \in Int, OnScale(s), OnScale(t), s <= t
  PROVE  get_cpu_score(s) <= get_cpu_score(t)
<1>1. \A i \in 1..9 : CpuRungs[i][2] \in Int
  BY CpuRungsAre
<1>2. \A i \in 1..9 : s * 10 > CpuRungs[i][2] => t * 10 > CpuRungs[i][2]
  BY <1>1
<1>3. CpuAbove(s) \in SUBSET (1..9) /\ CpuAbove(t) \in SUBSET (1..9) /\ CpuAbove(s) \subseteq CpuAbove(t)
  BY <1>2, CpuRungsAre DEF CpuAbove
<1> QED
  BY <1>3, CpuRank, MoreLimits, Zenon

LEMMA RamRanksGrow ==
  ASSUME NEW m \in Memory, NEW n \in Memory, m <= n
  PROVE  get_ram_score(m) <= get_ram_score(n)
<1> DEFINE s == m \div 1000000
           t == n \div 1000000
<1>1. s \in Int /\ t \in Int /\ s <= t
  BY DEF Memory, IntMax
<1>2. /\ get_ram_score(m) = 1 + Cardinality(RamAbove(s))
      /\ get_ram_score(n) = 1 + Cardinality(RamAbove(t))
  BY RamRank
<1> HIDE DEF s, t
<1>3. \A i \in 1..9 : RamRungs[i][2] \in Int
  BY RamRungsAre
<1>4. \A i \in 1..9 : s * 10 > RamRungs[i][2] => t * 10 > RamRungs[i][2]
  BY <1>1, <1>3
<1>5. RamAbove(s) \in SUBSET (1..9) /\ RamAbove(t) \in SUBSET (1..9) /\ RamAbove(s) \subseteq RamAbove(t)
  BY <1>4, RamRungsAre DEF RamAbove
<1> QED
  BY <1>2, <1>5, MoreLimits, Zenon

-------------------------------------------------------------------------------
(* Tasks and estimates. *)

\* What a worker reports, and when one of them reports no less of anything.
Reports == [cpu : 1..10, ram : 1..10, gpu : 0..10]
Better(w, v) == v.cpu <= w.cpu /\ v.ram <= w.ram /\ v.gpu <= w.gpu

Tenths(r) == 6 * r.cpu + 3 * r.ram + r.gpu
TasksFor(tenths) == ((tenths \div 10) * 14509 + 500) \div 1000

LEMMA TasksGrow ==
  ASSUME NEW m \in Nat, NEW n \in Nat, m <= n
  PROVE  TasksFor(m) \in Nat /\ TasksFor(n) \in Nat /\ TasksFor(m) <= TasksFor(n)
<1> DEFINE a == m \div 10
           b == n \div 10
<1>1. a \in Nat /\ b \in Nat /\ a <= b
  OBVIOUS
<1> HIDE DEF a, b
<1>2. /\ (a * 14509 + 500) \div 1000 \in Nat /\ (b * 14509 + 500) \div 1000 \in Nat
      /\ (a * 14509 + 500) \div 1000 <= (b * 14509 + 500) \div 1000
  BY <1>1
<1> QED
  BY <1>2 DEF TasksFor, a, b

\* The fewest and the most tasks a worker may offer.
LEMMA TasksAre ==
  ASSUME NEW r \in Reports
  PROVE  /\ Tenths(r) \in Nat
         /\ Min(get_max_tasks(r)) = TasksFor(Tenths(r) + 4)
         /\ Max(get_max_tasks(r)) = TasksFor(Tenths(r) + 5)
<1>1. Tenths(r) \in Nat
  BY DEF Reports, Tenths
<1>2. TaskUnits(r) = {(Tenths(r) + 5) \div 10, (Tenths(r) + 4) \div 10}
  BY DEF TaskUnits, Tenths
<1> DEFINE few == TasksFor(Tenths(r) + 4)
           most == TasksFor(Tenths(r) + 5)
<1>3. get_max_tasks(r) = {most, few}
  BY <1>2 DEF get_max_tasks, TasksFor, Acosh
<1>4. few \in Nat /\ most \in Nat /\ few <= most
  BY <1>1, TasksGrow
<1> HIDE DEF few, most
<1>5. {most, few} \in SUBSET Int /\ \A y \in {most, few} : few <= y /\ y <= most
  BY <1>4
<1>6. Min({most, few}) = few /\ Max({most, few}) = most
  BY <1>5, MinIs, MaxIs, Zenon
<1> QED
  BY <1>1, <1>3, <1>6 DEF few, most

LEMMA TasksHelp ==
  ASSUME NEW v \in Reports, NEW w \in Reports, Better(w, v)
  PROVE  /\ Min(get_max_tasks(v)) <= Min(get_max_tasks(w))
         /\ Max(get_max_tasks(v)) <= Max(get_max_tasks(w))
<1>1. Tenths(v) <= Tenths(w)
  BY DEF Reports, Better, Tenths
<1>2. Tenths(v) \in Nat /\ Tenths(w) \in Nat
  BY TasksAre
<1> DEFINE a == Tenths(v)
           b == Tenths(w)
<1> HIDE DEF a, b
<1>3. TasksFor(a + 4) <= TasksFor(b + 4) /\ TasksFor(a + 5) <= TasksFor(b + 5)
  BY <1>1, <1>2, TasksGrow DEF a, b
<1> QED
  BY <1>3, TasksAre DEF a, b

\* The int that the request's points and the worker's lead to, from the points.
Points(q, w) == (w.cpu - q.cpu) * q.cpu + (w.ram - q.ram) * q.ram + (w.gpu - q.gpu) * q.gpu

LEMMA PointsAre ==
  ASSUME NEW type \in 1..6, NEW v \in Reports, NEW w \in Reports, Better(w, v)
  PROVE  LET q == resources_for_request_type[type]
         IN  /\ Points(q, v) \in Int /\ -86 <= Points(q, v) /\ Points(q, v) <= 73
             /\ Points(q, w) \in Int /\ Points(q, v) <= Points(q, w)
<1> DEFINE q == resources_for_request_type[type]
           c == v.cpu  r == v.ram  g == v.gpu
           C == w.cpu  R == w.ram  G == w.gpu
<1>1. /\ c \in 1..10 /\ r \in 1..10 /\ g \in 0..10
      /\ C \in 1..10 /\ R \in 1..10 /\ G \in 0..10
      /\ c <= C /\ r <= R /\ g <= G
  BY DEF Reports, Better
<1>2. /\ Points(q, v) = (c - q.cpu) * q.cpu + (r - q.ram) * q.ram + (g - q.gpu) * q.gpu
      /\ Points(q, w) = (C - q.cpu) * q.cpu + (R - q.ram) * q.ram + (G - q.gpu) * q.gpu
  BY DEF Points
<1>3. \/ q.cpu = 6 /\ q.ram = 5 /\ q.gpu = 6
      \/ q.cpu = 6 /\ q.ram = 4 /\ q.gpu = 4
      \/ q.cpu = 6 /\ q.ram = 5 /\ q.gpu = 2
      \/ q.cpu = 1 /\ q.ram = 1 /\ q.gpu = 1
      \/ q.cpu = 6 /\ q.ram = 4 /\ q.gpu = 5
      \/ q.cpu = 3 /\ q.ram = 2 /\ q.gpu = 1
  BY DEF resources_for_request_type
<1> HIDE DEF q, c, r, g, C, R, G
<1>4. /\ Points(q, v) \in Int /\ -86 <= Points(q, v) /\ Points(q, v) <= 73
      /\ Points(q, w) \in Int /\ Points(q, v) <= Points(q, w)
  <2>1. CASE q.cpu = 6 /\ q.ram = 5 /\ q.gpu = 6
    BY <1>1, <1>2, <2>1
  <2>2. CASE q.cpu = 6 /\ q.ram = 4 /\ q.gpu = 4
    BY <1>1, <1>2, <2>2
  <2>3. CASE q.cpu = 6 /\ q.ram = 5 /\ q.gpu = 2
    BY <1>1, <1>2, <2>3
  <2>4. CASE q.cpu = 1 /\ q.ram = 1 /\ q.gpu = 1
    BY <1>1, <1>2, <2>4
  <2>5. CASE q.cpu = 6 /\ q.ram = 4 /\ q.gpu = 5
    BY <1>1, <1>2, <2>5
  <2>6. CASE q.cpu = 3 /\ q.ram = 2 /\ q.gpu = 1
    BY <1>1, <1>2, <2>6
  <2> QED
    BY <1>3, <2>1, <2>2, <2>3, <2>4, <2>5, <2>6
<1> QED
  BY <1>4 DEF q

LEMMA ApcIs ==
  ASSUME NEW type \in 1..6, NEW w \in Reports
  PROVE  worker_apc_for_request_type(type, w) \in 0..13
<1> DEFINE R == Points(resources_for_request_type[type], w)
<1>1. Better(w, w)
  BY DEF Reports, Better
<1>2. R \in Int /\ -86 <= R /\ R <= 73
  BY <1>1, PointsAre
<1>3. worker_apc_for_request_type(type, w) = Trunc((R + 75) * 10, 113)
  BY DEF worker_apc_for_request_type, Points
<1> HIDE DEF R
<1>4. Trunc((R + 75) * 10, 113) \in 0..13
  BY <1>2 DEF Trunc
<1> QED
  BY <1>3, <1>4

LEMMA ApcGrows ==
  ASSUME NEW type \in 1..6, NEW v \in Reports, NEW w \in Reports, Better(w, v)
  PROVE  worker_apc_for_request_type(type, v) <= worker_apc_for_request_type(type, w)
<1> DEFINE a == Points(resources_for_request_type[type], v)
           b == Points(resources_for_request_type[type], w)
<1>1. a \in Int /\ b \in Int /\ a <= b
  BY PointsAre
<1>2. /\ worker_apc_for_request_type(type, v) = Trunc((a + 75) * 10, 113)
      /\ worker_apc_for_request_type(type, w) = Trunc((b + 75) * 10, 113)
  BY DEF worker_apc_for_request_type, Points
<1> HIDE DEF a, b
<1>3. Trunc((a + 75) * 10, 113) <= Trunc((b + 75) * 10, 113)
  BY <1>1 DEF Trunc
<1> QED
  BY <1>2, <1>3

\* The processing takes from 31 to 50 seconds and less the better the worker.
LEMMA ProcessingFalls ==
  ASSUME NEW i \in 0..13, NEW j \in 0..13, i <= j
  PROVE  /\ Processing[i + 1] \in Int /\ 31432 <= Processing[i + 1] /\ Processing[i + 1] <= 50000
         /\ Processing[j + 1] \in Int /\ Processing[j + 1] <= Processing[i + 1]
BY DEF Processing

\* The delays for which nanosleep takes the whole estimate, and what the estimate is then.
Holdable(d) == d \in Int /\ -15 <= d /\ d <= 474
Held(e, d) == e \in Int /\ 2 * d + 31 <= e /\ e <= 2 * d + 50 /\ 0 <= e /\ e <= 999

LEMMA EstimateIs ==
  ASSUME NEW type \in 1..6, NEW w \in Reports, NEW d, Holdable(d)
  PROVE  Held(estimate_time_for_request_type(type, w, d), d)
<1> DEFINE i == worker_apc_for_request_type(type, w)
           p == Processing[i + 1]
<1>1. i \in 0..13
  BY ApcIs
<1>2. estimate_time_for_request_type(type, w, d) = Trunc(p + 2000 * d, 1000)
  BY DEF estimate_time_for_request_type
<1> HIDE DEF i
<1>3. p \in Int /\ 31432 <= p /\ p <= 50000
  BY <1>1, ProcessingFalls
<1> HIDE DEF p
<1>4. Held(Trunc(p + 2000 * d, 1000), d)
  BY <1>3 DEF Holdable, Held, Trunc
<1> QED
  BY <1>2, <1>4

\* No request takes longer on a better worker that is no further away.
LEMMA EstimateFalls ==
  ASSUME NEW type \in 1..6, NEW v \in Reports, NEW w \in Reports, Better(w, v),
         NEW d \in Int, NEW e \in Int, e <= d
  PROVE  LET before == estimate_time_for_request_type(type, v, d)
             after == estimate_time_for_request_type(type, w, e)
         IN  before \in Int /\ after \in Int /\ after <= before
<1> DEFINE i == worker_apc_for_request_type(type, v)
           j == worker_apc_for_request_type(type, w)
           a == Processing[j + 1] + 2000 * e
           b == Processing[i + 1] + 2000 * d
<1>1. i \in 0..13 /\ j \in 0..13 /\ i <= j
  BY ApcIs, ApcGrows
<1>2. /\ estimate_time_for_request_type(type, v, d) = Trunc(b, 1000)
      /\ estimate_time_for_request_type(type, w, e) = Trunc(a, 1000)
  BY DEF estimate_time_for_request_type
<1> HIDE DEF i, j
<1>3. a \in Int /\ b \in Int /\ a <= b
  BY <1>1, ProcessingFalls
<1> HIDE DEF a, b
<1>4. Trunc(a, 1000) \in Int /\ Trunc(b, 1000) \in Int /\ Trunc(a, 1000) <= Trunc(b, 1000)
  BY <1>3 DEF Trunc
<1> QED
  BY <1>2, <1>4

-------------------------------------------------------------------------------
(* The power of a machine. *)

LEMMA TimesType ==
  ASSUME NEW a \in Int, NEW b \in Int
  PROVE  Times(a, b) \in Int
<1>1. Fits(Times(a, b))
  BY TimesWraps, Zenon
<1> QED
  BY <1>1 DEF Fits

LEMMA PowerType ==
  ASSUME NEW p \in Nat, NEW c \in Nat, NEW k \in Nat
  PROVE  CpuPower(p, c, k) \in Int
<1>1. p \in Int /\ k \in Int /\ p * c \in Int
  OBVIOUS
<1> DEFINE t == Times(Times(p, p * c), k)
<1>2. t \in Int
  BY <1>1, TimesType, Zenon
<1>3. CpuPower(p, c, k) = Trunc(t, 1000)
  BY DEF CpuPower
<1> HIDE DEF t
<1> QED
  BY <1>2, <1>3 DEF Trunc

\* A power whose products are ints is what plain arithmetic gives.
LEMMA PowerIs ==
  ASSUME NEW p \in Nat, NEW c \in Nat, NEW k \in Nat, k = 0 \/ p * (p * c) <= IntMax \div k
  PROVE  /\ p * (p * c) \in Nat /\ p * (p * c) * k \in Nat
         /\ CpuPower(p, c, k) = (p * (p * c) * k) \div 1000
<1> DEFINE m == p * (p * c)
           x == Times(p, p * c)
<1>1. p \in Int /\ k \in Int /\ p * c \in Int /\ m \in Nat
  OBVIOUS
<1>2. x \in Int
  BY <1>1, TimesType, Zenon
<1>3. CpuPower(p, c, k) = Trunc(Times(x, k), 1000)
  BY DEF CpuPower
<1>4. Fits(m) => x = m
  BY <1>1, TimesIs, Zenon
<1>5. k = 0 \/ m <= IntMax \div k
  OBVIOUS
<1> HIDE DEF m, x
<1>6. Fits(x * k) => Times(x, k) = x * k
  BY <1>1, <1>2, TimesIs, Zenon
<1>7. m * k \in Nat /\ Fits(x * k) /\ x * k = m * k
  <2>1. CASE k = 0
    BY <1>1, <1>2, <2>1 DEF Fits
  <2>2. CASE k > 0
    <3>1. m <= IntMax /\ m * k <= IntMax
      BY <1>1, <1>5, <2>2 DEF IntMax
    <3>2. Fits(m) /\ Fits(m * k)
      BY <1>1, <3>1 DEF Fits, IntMax
    <3> QED
      BY <1>1, <1>4, <3>2
  <2> QED
    BY <2>1, <2>2
<1>8. CpuPower(p, c, k) = (m * k) \div 1000
  <2> DEFINE y == m * k
  <2>1. CpuPower(p, c, k) = Trunc(y, 1000) /\ y \in Nat
    BY <1>3, <1>6, <1>7
  <2> HIDE DEF y
  <2>2. CpuPower(p, c, k) = y \div 1000
    BY <2>1 DEF Trunc
  <2> QED
    BY <2>2 DEF y
<1> QED
  BY <1>1, <1>7, <1>8 DEF m

Machines == [processors : Nat, cores : Nat, clock : Nat, kilobytes : Memory, gpu : 0..10]

\* A machine with no less of anything.
NoLess(g, h) ==
  /\ h.processors <= g.processors /\ h.cores <= g.cores /\ h.clock <= g.clock
  /\ h.kilobytes <= g.kilobytes /\ h.gpu <= g.gpu

\* While the products of the greater machine are ints, it has no less power.
LEMMA PowerGrows ==
  ASSUME NEW g \in Machines, NEW h \in Machines, NoLess(g, h), Unwrapped(g)
  PROVE  Power(h) <= Power(g)
<1> DEFINE p == h.processors  c == h.cores  k == h.clock
           q == g.processors  d == g.cores  l == g.clock
           m == p * (p * c)
           n == q * (q * d)
<1>1. /\ p \in Nat /\ c \in Nat /\ k \in Nat /\ q \in Nat /\ d \in Nat /\ l \in Nat
      /\ p <= q /\ c <= d /\ k <= l
  BY DEF Machines, NoLess
<1>2. l = 0 \/ n <= IntMax \div l
  BY DEF Unwrapped
<1>3. Power(h) = CpuPower(p, c, k) /\ Power(g) = CpuPower(q, d, l)
  BY DEF Power
<1> HIDE DEF p, c, k, q, d, l
<1>4. ASSUME NEW x \in Nat, NEW y \in Nat, NEW z \in Nat, NEW w \in Nat, x <= y, z <= w
      PROVE  x * z \in Nat /\ y * w \in Nat /\ x * z <= y * w
  BY <1>4
<1>5. p * c \in Nat /\ q * d \in Nat /\ p * c <= q * d
  BY <1>1, <1>4, Zenon
<1>6. m \in Nat /\ n \in Nat /\ m <= n
  BY <1>1, <1>4, <1>5, Zenon
<1>7. m * k \in Nat /\ n * l \in Nat /\ m * k <= n * l
  BY <1>1, <1>4, <1>6, Zenon
<1>8. k = 0 \/ m <= IntMax \div k
  <2> HIDE DEF m, n
  <2> SUFFICES ASSUME k > 0
               PROVE  m <= IntMax \div k
    BY <1>1
  <2>1. l > 0 /\ n <= IntMax \div l
    BY <1>1, <1>2
  <2>2. IntMax \div l \in Nat /\ IntMax \div k \in Nat /\ IntMax \div l <= IntMax \div k
    BY <1>1, <2>1 DEF IntMax
  <2> QED
    BY <1>6, <2>1, <2>2
<1>9. Power(h) = (m * k) \div 1000 /\ Power(g) = (n * l) \div 1000
  BY <1>1, <1>2, <1>3, <1>8, PowerIs
<1> DEFINE s == m * k
           t == n * l
<1> HIDE DEF s, t
<1>10. s \in Nat /\ t \in Nat /\ s <= t /\ Power(h) = s \div 1000 /\ Power(g) = t \div 1000
  BY <1>7, <1>9 DEF s, t
<1> QED
  BY <1>10

-------------------------------------------------------------------------------
(* What every state of Numbers is. *)

\* A machine of the given parts, its own report, a request type, a delay and an address.
Typed ==
  /\ host \in Machines
  /\ worker = Resources(host)
  /\ request \in 1..6
  /\ delay \in Int
  /\ address \in [port : Ports, ip : Addresses]

LEMMA ReportsAre ==
  ASSUME NEW h \in Machines
  PROVE  Resources(h) \in Reports /\ Power(h) \in Int
<1>1. h.processors \in Nat /\ h.cores \in Nat /\ h.clock \in Nat /\ h.gpu \in 0..10
  BY DEF Machines
<1>2. Power(h) \in Int
  BY <1>1, PowerType, Zenon DEF Power
<1>3. get_cpu_score(Power(h)) \in 1..10 /\ get_ram_score(h.kilobytes) \in 1..10
  BY ScoresType, Zenon
<1> QED
  BY <1>1, <1>2, <1>3 DEF Resources, Reports

LEMMA SizesFit == Kilobytes \subseteq Memory /\ Memory \subseteq Nat
<1>1. Kilobytes \in SUBSET Nat /\ \A k \in Kilobytes : k <= IntMax
  BY NumbersAssumption, Zenon
<1> QED
  BY <1>1 DEF Memory, IntMax

LEMMA TypedInit == Init => Typed
<1> SUFFICES ASSUME Init
             PROVE  Typed
  OBVIOUS
<1>1. Lowest \in Machines
  <2>1. \A S \in {Processors, Cores, Clocks, Kilobytes} : S \in SUBSET Nat /\ S # {}
    BY NumbersAssumption, Zenon
  <2>2. /\ Min(Processors) \in Nat /\ Min(Cores) \in Nat /\ Min(Clocks) \in Nat
        /\ Min(Kilobytes) \in Kilobytes
    BY <2>1, MinIn
  <2>3. Gpus \in SUBSET Nat /\ Gpus # {} /\ Gpus \subseteq 0..10
    BY NumbersAssumption
  <2>4. Min(Gpus) \in 0..10
    BY <2>3, MinIn
  <2> QED
    BY <2>2, <2>4, SizesFit DEF Lowest, Machines
<1>2. host = Lowest /\ worker = Resources(host)
  BY DEF Init
<1>3. request \in 1..6
  BY DEF Init, resources_for_request_type
<1>4. delay \in Int /\ address \in [port : Ports, ip : Addresses]
  BY NumbersAssumption DEF Init
<1> QED
  BY <1>1, <1>2, <1>3, <1>4 DEF Typed

\* A step is an upgrade of one part, a longer delay, or none.
LEMMA Steps ==
  ASSUME Typed, [Next]_inputs
  PROVE  /\ Typed'
         /\ NoLess(host', host)
         /\ request' = request
         /\ \/ delay' = delay
            \/ delay' > delay /\ delay' \in Int /\ worker' = worker /\ host' = host
<1>0. /\ host.processors \in Nat /\ host.cores \in Nat /\ host.clock \in Nat
      /\ host.kilobytes \in Memory /\ host.kilobytes \in Nat /\ host.gpu \in 0..10
      /\ host \in Machines
  BY SizesFit DEF Typed, Machines
<1>1. \A x \in Int : x <= x
  OBVIOUS
<1>2. NoLess(host, host)
  BY <1>0 DEF NoLess
<1>3. ASSUME NEW part \in {"processors", "cores", "clock", "kilobytes", "gpu"}, NEW choices,
             part = "gpu" => choices \subseteq 0..10,
             part = "kilobytes" => choices \subseteq Memory,
             part \notin {"gpu", "kilobytes"} => choices \subseteq Nat,
             Upgrade(part, choices)
      PROVE  host' \in Machines /\ NoLess(host', host)
  <2>1. PICK x \in choices : x > host[part] /\ host' = [host EXCEPT ![part] = x]
    BY <1>3 DEF Upgrade
  <2>2. CASE part = "processors"
    BY <1>0, <1>3, <2>1, <2>2 DEF Machines, NoLess
  <2>3. CASE part = "cores"
    BY <1>0, <1>3, <2>1, <2>3 DEF Machines, NoLess
  <2>4. CASE part = "clock"
    BY <1>0, <1>3, <2>1, <2>4 DEF Machines, NoLess
  <2>5. CASE part = "kilobytes"
    <3>0. x \in Memory
      BY <1>3, <2>1, <2>5, Zenon
    <3>1. x \in Nat /\ host.kilobytes <= x
      BY <1>0, <2>1, <2>5, <3>0, SizesFit
    <3>2. host' = [host EXCEPT !.kilobytes = x]
      BY <2>1, <2>5
    <3> QED
      BY <1>0, <3>0, <3>1, <3>2 DEF Machines, NoLess
  <2>6. CASE part = "gpu"
    BY <1>0, <1>3, <2>1, <2>6 DEF Machines, NoLess
  <2> QED
    BY <1>3, <2>2, <2>3, <2>4, <2>5, <2>6, Zenon
<1>4. ASSUME NEW part \in {"processors", "cores", "clock", "kilobytes", "gpu"}, NEW choices,
             part = "gpu" => choices \subseteq 0..10,
             part = "kilobytes" => choices \subseteq Memory,
             part \notin {"gpu", "kilobytes"} => choices \subseteq Nat,
             Upgrade(part, choices)
      PROVE  /\ Typed' /\ NoLess(host', host) /\ request' = request /\ delay' = delay
  <2>1. host' \in Machines /\ NoLess(host', host)
    BY <1>3, <1>4, Zenon
  <2>2. worker' = Resources(host') /\ UNCHANGED <<request, delay, address>>
    BY <1>4, Zenon DEF Upgrade
  <2> QED
    BY <2>1, <2>2, Zenon DEF Typed
<1>5. /\ Processors \subseteq Nat /\ Cores \subseteq Nat /\ Clocks \subseteq Nat /\ Kilobytes \subseteq Memory
      /\ Gpus \subseteq 0..10 /\ Delays \subseteq Int
  BY NumbersAssumption, SizesFit, Zenon
<1>6. CASE Upgrade("processors", Processors)
  BY <1>4, <1>5, <1>6
<1>7. CASE Upgrade("cores", Cores)
  BY <1>4, <1>5, <1>7
<1>8. CASE Upgrade("clock", Clocks)
  BY <1>4, <1>5, <1>8
<1>9. CASE Upgrade("kilobytes", Kilobytes)
  BY <1>4, <1>5, <1>9
<1>10. CASE Upgrade("gpu", Gpus)
  BY <1>4, <1>5, <1>10
<1>11. CASE SlowDown
  <2>1. PICK d \in Delays : d > delay /\ delay' = d
    BY <1>11 DEF SlowDown
  <2>2. UNCHANGED <<host, worker, request, address>>
    BY <1>11 DEF SlowDown
  <2>3. delay' \in Int /\ delay' > delay
    BY <1>5, <2>1
  <2>4. Typed' /\ NoLess(host', host)
    BY <1>2, <2>2, <2>3, Zenon DEF Typed
  <2> QED
    BY <2>2, <2>3, <2>4, Zenon
<1>12. CASE UNCHANGED inputs
  BY <1>2, <1>12, Zenon DEF Typed, inputs
<1> QED
  BY <1>6, <1>7, <1>8, <1>9, <1>10, <1>11, <1>12, Zenon DEF Next

\* The parts of a machine, its scores, the request, the delay and the lengths keep their
\* types in every state (get_local_resources, create_worker_metadata).
THEOREM AlwaysTyped == Spec => []Typed
<1>1. Typed /\ [Next]_inputs => Typed'
  BY Steps, Zenon
<1> QED
  BY <1>1, TypedInit, PTL DEF Spec

-------------------------------------------------------------------------------
(* The properties. *)

\* The tests of the rungs of both scores rank every machine as comparisons with their
\* limits would, in every state (get_cpu_score, get_ram_score).
THEOREM ScoresAlwaysRank == Spec => []ScoresRank
<1>1. Typed => ScoresRank
  <2> SUFFICES ASSUME Typed
               PROVE  ScoresRank
    OBVIOUS
  <2>1. host \in Machines /\ host.kilobytes \in Memory /\ Power(host) \in Int
    BY ReportsAre DEF Typed, Machines
  <2>2. worker.cpu = get_cpu_score(Power(host)) /\ worker.ram = get_ram_score(host.kilobytes)
    BY DEF Typed, Resources
  <2>3. OnScale(Power(host)) => get_cpu_score(Power(host)) = 1 + Cardinality(CpuAbove(Power(host)))
    BY <2>1, CpuRank, Zenon
  <2>4. get_ram_score(host.kilobytes) = 1 + Cardinality(RamAbove(host.kilobytes \div 1000000))
    BY <2>1, RamRank
  <2> QED
    BY <2>2, <2>3, <2>4 DEF ScoresRank, CpuAbove, RamAbove
<1> QED
  BY <1>1, AlwaysTyped, PTL

\* While the delay is in the range nanosleep takes, a slot is held for the estimate, in every
\* state (estimate_time_for_request_type, sleep_for_milliseconds).
THEOREM SlotsAlwaysHeld == Spec => []SlotHeld
<1>1. Typed => SlotHeld
  <2> SUFFICES ASSUME Typed, delay \in -15..474
               PROVE  sleep_for_milliseconds(Estimate) \in 2 * delay + 31..2 * delay + 50
    BY DEF SlotHeld
  <2>1. worker \in Reports /\ request \in 1..6 /\ delay \in Int /\ Holdable(delay)
    BY ReportsAre DEF Typed, Holdable
  <2>2. Held(Estimate, delay)
    BY <2>1, EstimateIs, Zenon DEF Estimate
  <2> QED
    BY <2>1, <2>2 DEF Held, sleep_for_milliseconds
<1> QED
  BY <1>1, AlwaysTyped, PTL

\* The lesser of two numbers.
LEMMA AtMostIs ==
  ASSUME NEW n \in Nat, NEW m \in Nat
  PROVE  AtMost(n, m) = IF n <= m THEN n ELSE m
<1>1. {n, m} \in SUBSET Int
  OBVIOUS
<1>2. CASE n <= m
  <2>1. n \in {n, m} /\ \A y \in {n, m} : n <= y
    BY <1>2
  <2>2. Min({n, m}) = n
    BY <1>1, <2>1, MinIs, Zenon
  <2> QED
    BY <1>2, <2>2 DEF AtMost
<1>3. CASE ~(n <= m)
  <2>1. m \in {n, m} /\ \A y \in {n, m} : m <= y
    BY <1>3
  <2>2. Min({n, m}) = m
    BY <1>1, <2>1, MinIs, Zenon
  <2> QED
    BY <1>3, <2>2 DEF AtMost
<1> QED
  BY <1>2, <1>3

\* A port of up to five digits and a dotted quad reach the worker whole, in every state
\* (client_function, handle_client_connection, master_worker_server).
THEOREM CallbackAlwaysReaches == Spec => []CallbackReaches
<1>1. ASSUME NEW port \in 1..5, NEW ip \in 7..15
      PROVE  MasterIp(port, ip) = ip /\ WorkerPort(port, ip) = port /\ ip + 1 <= Block
  <2> DEFINE line == 3 + port + ip
  <2>1. LineLength(port, ip) = line /\ TypeAndPort(port) = 2 + port /\ line \in Nat /\ line <= 23
    BY DEF LineLength, TypeAndPort
  <2>2. MasterText(port, ip) = line
    BY <2>1, AtMostIs DEF MasterText, LineBytes
  <2>3. Minus(MasterText(port, ip), TypeAndPort(port) + 1) = ip
    BY <2>1, <2>2 DEF Minus
  <2>4. MasterIp(port, ip) = ip
    BY <2>3, AtMostIs DEF MasterIp
  <2>5. AtMost(ip + 3 + line, 25) = IF ip + 3 + line <= 25 THEN ip + 3 + line ELSE 25
    BY AtMostIs
  <2>6. WorkerText(port, ip) = IF ip + 3 + line <= 25 THEN ip + 3 + line ELSE 25
    BY <2>2, <2>4, <2>5 DEF WorkerText, FrameBytes
  <2> DEFINE left == Minus(WorkerText(port, ip), ip + 5)
  <2>7. left \in Nat /\ port <= left
    BY <2>6 DEF Minus
  <2> HIDE DEF left
  <2>8. AtMost(port, left) = port
    BY <2>7, AtMostIs
  <2>9. WorkerPort(port, ip) = AtMost(port, left)
    BY <2>4 DEF WorkerPort, left
  <2> QED
    BY <2>4, <2>8, <2>9 DEF Block
<1>2. Typed => CallbackReaches
  <2> SUFFICES ASSUME Typed
               PROVE  CallbackReaches
    OBVIOUS
  <2>1. address.port \in 1..5 /\ address.ip \in 7..15
    BY NumbersAssumption DEF Typed
  <2> QED
    BY <1>1, <2>1, Zenon DEF CallbackReaches
<1> QED
  BY <1>2, AlwaysTyped, PTL

\* As long as no product in it wraps, an upgrade never lowers what a machine offers nor makes
\* a request take longer, and only a longer delay raises an estimate (get_max_tasks,
\* estimate_time_for_request_type).
THEOREM UpgradesAlwaysHelp == Spec => UpgradeHelps
<1>1. ASSUME Typed, Typed', [Next]_inputs,
             OnScale(Power(host)), OnScale(Power(host')), Unwrapped(host')
      PROVE  /\ Min(get_max_tasks(worker)) <= Min(get_max_tasks(worker'))
             /\ Max(get_max_tasks(worker)) <= Max(get_max_tasks(worker'))
             /\ Estimate' > Estimate => delay' > delay
  <2>1. /\ host \in Machines /\ host' \in Machines /\ NoLess(host', host)
        /\ worker = Resources(host) /\ worker' = Resources(host')
    BY <1>1, Steps, Zenon DEF Typed
  <2>2. /\ worker \in Reports /\ worker' \in Reports
        /\ Power(host) \in Int /\ Power(host') \in Int
    BY <2>1, ReportsAre, Zenon
  <2>3. Power(host) <= Power(host')
    BY <1>1, <2>1, PowerGrows, Zenon
  <2>4. get_cpu_score(Power(host)) <= get_cpu_score(Power(host'))
    BY <1>1, <2>2, <2>3, CpuRanksGrow, Zenon
  <2>5. get_ram_score(host.kilobytes) <= get_ram_score(host'.kilobytes)
    <3>1. host.kilobytes \in Memory /\ host'.kilobytes \in Memory /\ host.kilobytes <= host'.kilobytes
      BY <2>1 DEF Machines, NoLess
    <3> QED
      BY <3>1, RamRanksGrow, Zenon
  <2>6. host.gpu <= host'.gpu
    BY <2>1 DEF NoLess
  <2>7. Better(worker', worker)
    BY <2>1, <2>4, <2>5, <2>6 DEF Better, Resources
  <2>8. /\ Min(get_max_tasks(worker)) <= Min(get_max_tasks(worker'))
        /\ Max(get_max_tasks(worker)) <= Max(get_max_tasks(worker'))
    BY <2>2, <2>7, TasksHelp, Zenon
  <2>9. ASSUME ~(delay' > delay)
        PROVE  Estimate' <= Estimate /\ Estimate' \in Int /\ Estimate \in Int
    <3>1. /\ request \in 1..6 /\ request' = request
          /\ delay \in Int /\ delay' \in Int /\ delay' <= delay
      BY <1>1, <2>9, Steps DEF Typed
    <3>2. /\ Estimate = estimate_time_for_request_type(request, worker, delay)
          /\ Estimate' = estimate_time_for_request_type(request, worker', delay')
      BY <3>1, Zenon DEF Estimate
    <3> QED
      BY <2>2, <2>7, <3>1, <3>2, EstimateFalls
  <2>10. Estimate' > Estimate => delay' > delay
    BY <2>9
  <2> QED
    BY <2>8, <2>10
<1>2. Typed /\ Typed' /\ [Next]_inputs =>
        [OnScale(Power(host)) /\ OnScale(Power(host')) /\ Unwrapped(host') =>
           /\ Min(get_max_tasks(worker)) <= Min(get_max_tasks(worker'))
           /\ Max(get_max_tasks(worker)) <= Max(get_max_tasks(worker'))
           /\ Estimate' > Estimate => delay' > delay]_inputs
  BY <1>1
<1> QED
  BY <1>2, AlwaysTyped, PTL DEF Spec, UpgradeHelps
===============================================================================
