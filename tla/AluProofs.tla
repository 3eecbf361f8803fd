----------------------------- MODULE AluProofs -----------------------------
(***************************************************************************)
(* Proofs about modules Arithmetic and Alu, for every width of a register. *)
(* Most facts are congruences: a register, a word and the signed number    *)
(* that either stands for are equal modulo a power of 2.                   *)
(***************************************************************************)
EXTENDS Alu, TLAPS, WellFoundedInduction

\* The numbers of values of a register and of a word, and half of each.
W == 2^Bits
H == 2^Half
HalfW == 2^(Bits - 1)
HalfH == 2^(Half - 1)

Regs == 0 .. W - 1
Words == 0 .. H - 1
SignedRegs == -HalfW .. HalfW - 1
SignedWords == -HalfH .. HalfH - 1

LEMMA Widths ==
  /\ Bits \in Nat /\ Half \in Nat /\ Bits >= 4 /\ Half >= 2 /\ Bits = 2 * Half
  /\ {W, H, HalfW, HalfH} \subseteq Nat \ {0}
  /\ W = H * H /\ W = 2 * HalfW /\ H = 2 * HalfH
  /\ \A k \in 0 .. Bits - 1 : 2^k \in Nat \ {0}
<1>1. Bits \in {4, 8, 16, 32, 64} /\ PowersOf2
  BY ArithmeticAssumption DEF ArithmeticAssumption
<1>2. /\ Half \in {2, 4, 8, 16, 32} /\ Bits = 2 * Half
  BY <1>1 DEF Half
<1>3. \A m, n \in 0 .. Bits : m + n <= Bits => 2^(m + n) = 2^m * 2^n
  BY <1>1 DEF PowersOf2
<1>4. \A n \in 0 .. Bits : 2^n \in Nat \ {0}
  BY <1>1 DEF PowersOf2
<1>5. {Bits, Half, Bits - 1, Half - 1, 1} \subseteq 0 .. Bits
  BY <1>1, <1>2
<1>6. {W, H, HalfW, HalfH} \subseteq Nat \ {0}
  BY <1>4, <1>5 DEF W, H, HalfW, HalfH
<1>7. W = H * H
  <2>1. PICK h \in 0 .. Bits : h = Half /\ h + h = Bits
    BY <1>1, <1>2, <1>5
  <2>2. 2^(h + h) = 2^h * 2^h
    BY <1>1, <1>3, <2>1
  <2> QED
    BY <2>1, <2>2 DEF W, H
<1>8. ASSUME NEW n \in {Bits, Half}
      PROVE  2^n = 2 * 2^(n - 1)
  <2>1. PICK m \in 0 .. Bits, i \in 0 .. Bits : m = n - 1 /\ i = 1 /\ i + m = n /\ i + m <= Bits
    BY <1>1, <1>2, <1>5
  <2>2. 2^(i + m) = 2^i * 2^m
    BY <1>3, <2>1, Zenon
  <2>3. 2^1 = 2
    BY <1>1 DEF PowersOf2
  <2> QED
    BY <2>1, <2>2, <2>3
<1>9. W = 2 * HalfW /\ H = 2 * HalfH
  BY <1>8 DEF W, H, HalfW, HalfH
<1>10. \A k \in 0 .. Bits - 1 : 2^k \in Nat \ {0}
  BY <1>1, <1>4
<1> QED
  BY <1>1, <1>2, <1>6, <1>7, <1>9, <1>10

-----------------------------------------------------------------------------
(* Division and congruence                                                 *)

LEMMA DivMod ==
  ASSUME NEW x \in Int, NEW m \in Nat \ {0}
  PROVE  /\ x \div m \in Int /\ x % m \in 0 .. m - 1
         /\ x = m * (x \div m) + (x % m)
OBVIOUS

LEMMA Digits ==
  ASSUME NEW x \in Int, NEW m \in Nat \ {0}
  PROVE  \E q \in Int, r \in 0 .. m - 1 : q = x \div m /\ r = x % m /\ x = m * q + r
BY DivMod

LEMMA Quotient ==
  ASSUME NEW m \in Nat \ {0}, NEW q \in Int, NEW r \in 0 .. m - 1
  PROVE  (m * q + r) \div m = q /\ (m * q + r) % m = r
OBVIOUS

\* x and y are numbers that differ by a multiple of m.
Cong(x, y, m) == x \in Int /\ y \in Int /\ \E k \in Int : x = y + m * k

LEMMA CongBy ==
  ASSUME NEW x \in Int, NEW y \in Int, NEW m, NEW k \in Int, x = y + m * k
  PROVE  Cong(x, y, m)
BY DEF Cong

LEMMA CongRefl == ASSUME NEW x \in Int, NEW m \in Nat \ {0} PROVE Cong(x, x, m)
<1>1. x = x + m * 0 /\ 0 \in Int
  OBVIOUS
<1> QED
  BY <1>1 DEF Cong

LEMMA CongSym ==
  ASSUME NEW x, NEW y, NEW m \in Nat \ {0}, Cong(x, y, m)
  PROVE  Cong(y, x, m)
<1>1. PICK k \in Int : x = y + m * k
  BY DEF Cong
<1>2. -k \in Int /\ y = x + m * (-k)
  BY <1>1 DEF Cong
<1> QED
  BY <1>2 DEF Cong

LEMMA CongTrans ==
  ASSUME NEW x, NEW y, NEW z, NEW m \in Nat \ {0}, Cong(x, y, m), Cong(y, z, m)
  PROVE  Cong(x, z, m)
<1>1. PICK k \in Int, l \in Int : x = y + m * k /\ y = z + m * l
  BY Zenon DEF Cong
<1>2. k + l \in Int /\ x = z + m * (k + l)
  BY <1>1 DEF Cong
<1> QED
  BY <1>2, Zenon DEF Cong

LEMMA CongAdd ==
  ASSUME NEW x, NEW y, NEW u, NEW v, NEW m \in Nat \ {0}, Cong(x, y, m), Cong(u, v, m)
  PROVE  Cong(x + u, y + v, m) /\ Cong(x - u, y - v, m)
<1>0. x \in Int /\ y \in Int /\ u \in Int /\ v \in Int
  BY DEF Cong
<1>1. PICK k \in Int, l \in Int : x = y + m * k /\ u = v + m * l
  BY Zenon DEF Cong
<1>2. m * (k + l) = m * k + m * l /\ m * (k - l) = m * k - m * l
  OBVIOUS
<1>3. x + u = (y + v) + m * (k + l) /\ x - u = (y - v) + m * (k - l)
  BY <1>0, <1>1, <1>2
<1>4. PICK a \in Int, b \in Int, c \in Int, d \in Int, i \in Int, j \in Int :
        a = x + u /\ b = y + v /\ c = x - u /\ d = y - v /\ i = k + l /\ j = k - l
  BY <1>0
<1>5. a = b + m * i /\ c = d + m * j
  BY <1>3, <1>4
<1>6. Cong(a, b, m) /\ Cong(c, d, m)
  BY <1>5, CongBy, Zenon
<1> QED
  BY <1>4, <1>6

LEMMA CongMul ==
  ASSUME NEW x, NEW y, NEW u, NEW v, NEW m \in Nat \ {0}, Cong(x, y, m), Cong(u, v, m)
  PROVE  Cong(x * u, y * v, m)
<1>0. x \in Int /\ y \in Int /\ u \in Int /\ v \in Int
  BY DEF Cong
<1>1. PICK k \in Int, l \in Int : x = y + m * k /\ u = v + m * l
  BY Zenon DEF Cong
<1>2. PICK n \in Int : n = y * l + k * v + m * k * l
  BY <1>0
<1>3. (y + m * k) * (v + m * l) = y * v + m * n
  BY <1>0, <1>2
<1>4. PICK a \in Int, b \in Int : a = x * u /\ b = y * v
  BY <1>0
<1>5. a = b + m * n
  BY <1>1, <1>3, <1>4
<1>6. Cong(a, b, m)
  BY <1>5, CongBy, Zenon
<1> QED
  BY <1>4, <1>6

LEMMA CongMod ==
  ASSUME NEW x \in Int, NEW m \in Nat \ {0}
  PROVE  Cong(x % m, x, m)
<1>1. PICK q \in Int, r \in 0 .. m - 1 : q = x \div m /\ r = x % m /\ x = m * q + r
  BY Digits, Zenon
<1>2. PICK k \in Int : k = -q
  OBVIOUS
<1>3. r = x + m * k
  BY <1>1, <1>2
<1>4. r \in Int
  OBVIOUS
<1> QED
  BY <1>1, <1>3, <1>4, CongBy, Zenon

\* Congruent numbers closer to each other than m are equal.
LEMMA CongNear ==
  ASSUME NEW x, NEW y, NEW m \in Nat \ {0}, Cong(x, y, m), x - y < m, y - x < m
  PROVE  x = y
<1>1. PICK k \in Int : x = y + m * k
  BY DEF Cong
<1>2. m * k < m /\ m * (-k) < m
  BY <1>1 DEF Cong
<1>3. k < 1
  BY <1>2
<1>4. -k < 1
  BY <1>2
<1> QED
  BY <1>1, <1>3, <1>4 DEF Cong

LEMMA ModCong ==
  ASSUME NEW x, NEW y, NEW m \in Nat \ {0}, Cong(x, y, m)
  PROVE  x % m = y % m
<1>0. x \in Int /\ y \in Int
  BY DEF Cong
<1>1. Cong(x % m, y % m, m)
  <2>1. Cong(x % m, x, m) /\ Cong(y % m, y, m)
    BY <1>0, CongMod
  <2>2. Cong(y, y % m, m)
    BY <2>1, CongSym
  <2>3. Cong(x, y % m, m)
    BY <2>2, CongTrans
  <2> QED
    BY <2>1, <2>3, CongTrans
<1>2. x % m \in 0 .. m - 1 /\ y % m \in 0 .. m - 1
  BY <1>0, DivMod
<1> QED
  BY <1>1, <1>2, CongNear

\* Congruence modulo W is congruence modulo H.
LEMMA CongWord ==
  ASSUME NEW x, NEW y, Cong(x, y, W)
  PROVE  Cong(x, y, H)
<1>1. PICK k \in Int : x = y + W * k
  BY DEF Cong
<1>2. PICK h \in Nat : h = H /\ W = h * h
  BY Widths
<1>3. h * k \in Int /\ x = y + h * (h * k)
  BY <1>1, <1>2 DEF Cong
<1> QED
  BY <1>2, <1>3 DEF Cong

-----------------------------------------------------------------------------
(* Registers, words and signed numbers                                     *)

LEMMA Ranges ==
  /\ Regs \subseteq Int /\ Words \subseteq Regs /\ Words \subseteq Int
  /\ SignedRegs \subseteq Int /\ SignedWords \subseteq SignedRegs /\ SignedWords \subseteq Int
  /\ W \in Nat \ {0} /\ H \in Nat \ {0} /\ H <= HalfW
<1>1. PICK w \in Nat \ {0}, h \in Nat \ {0}, s \in Nat \ {0}, t \in Nat \ {0} :
        w = W /\ h = H /\ s = HalfW /\ t = HalfH
  BY Widths
<1>2. w = h * h /\ w = 2 * s /\ h = 2 * t
  BY <1>1, Widths
<1>3. h * h = h * (2 * t) /\ h * (2 * t) = 2 * (h * t)
  BY <1>2
<1>4. s = h * t
  BY <1>2, <1>3
<1>5. h * t >= h
  OBVIOUS
<1>6. h <= s /\ t <= s /\ h <= w
  BY <1>2, <1>4, <1>5
<1> QED
  BY <1>1, <1>6 DEF Regs, Words, SignedRegs, SignedWords

\* The number with the low bits of x, as signed.
LEMMA SignedOf ==
  ASSUME NEW x \in Int, NEW h \in Nat \ {0}, NEW m \in Nat \ {0}, m = 2 * h,
         NEW s, s = IF x % m >= h THEN (x % m) - m ELSE x % m
  PROVE  s \in -h .. h - 1 /\ Cong(s, x, m)
<1>1. PICK u \in 0 .. m - 1 : u = x % m
  BY DivMod
<1>2. s \in -h .. h - 1 /\ s \in Int /\ u \in Int
  BY <1>1
<1>3. Cong(s, u, m)
  <2>1. CASE u >= h
    <3>1. PICK k \in Int : k = -1
      OBVIOUS
    <3>2. s = u + m * k
      BY <1>1, <2>1, <3>1
    <3> QED
      BY <1>2, <3>2, CongBy, Zenon
  <2>2. CASE ~ (u >= h)
    BY <1>1, <1>2, <2>2, CongRefl
  <2> QED
    BY <2>1, <2>2
<1>4. Cong(u, x, m)
  BY <1>1, CongMod
<1> QED
  BY <1>2, <1>3, <1>4, CongTrans

LEMMA RegFacts ==
  ASSUME NEW x \in Int
  PROVE  Reg(x) \in Regs /\ Cong(Reg(x), x, W)
BY Ranges, DivMod, CongMod, Zenon DEF Reg, Regs, W

LEMMA U32Facts ==
  ASSUME NEW x \in Int
  PROVE  U32(x) \in Words /\ Cong(U32(x), x, H)
BY Ranges, DivMod, CongMod, Zenon DEF U32, Words, H

LEMMA I64Facts ==
  ASSUME NEW x \in Int
  PROVE  I64(x) \in SignedRegs /\ Cong(I64(x), x, W)
<1>1. PICK h \in Nat \ {0}, m \in Nat \ {0} : h = HalfW /\ m = W /\ m = 2 * h
  BY Widths
<1>2. I64(x) = IF x % m >= h THEN (x % m) - m ELSE x % m
  BY <1>1 DEF I64, Signed, W, HalfW
<1>3. I64(x) \in -h .. h - 1 /\ Cong(I64(x), x, m)
  BY <1>1, <1>2, SignedOf, Zenon
<1> QED
  BY <1>1, <1>3 DEF SignedRegs

LEMMA I32Facts ==
  ASSUME NEW x \in Int
  PROVE  I32(x) \in SignedWords /\ Cong(I32(x), x, H)
<1>1. PICK h \in Nat \ {0}, m \in Nat \ {0} : h = HalfH /\ m = H /\ m = 2 * h
  BY Widths
<1>2. I32(x) = IF x % m >= h THEN (x % m) - m ELSE x % m
  BY <1>1 DEF I32, Signed, H, HalfH
<1>3. I32(x) \in -h .. h - 1 /\ Cong(I32(x), x, m)
  BY <1>1, <1>2, SignedOf, Zenon
<1> QED
  BY <1>1, <1>3 DEF SignedWords

\* Each conversion is the only number of its range that is congruent.
LEMMA RegIs ==
  ASSUME NEW x, NEW y, Cong(x, y, W)
  PROVE  Reg(x) = Reg(y) /\ (y \in Regs => Reg(x) = y)
<1>1. Reg(x) = Reg(y)
  BY Ranges, ModCong DEF Reg, W
<1>2. y \in Int
  BY DEF Cong
<1>3. Reg(y) \in Regs /\ Cong(Reg(y), y, W)
  BY <1>2, RegFacts
<1>4. y \in Regs => Reg(y) - y < W /\ y - Reg(y) < W
  BY <1>3, Ranges DEF Regs
<1>5. y \in Regs => Reg(y) = y
  BY <1>3, <1>4, Ranges, CongNear
<1> QED
  BY <1>1, <1>5

LEMMA U32Is ==
  ASSUME NEW x, NEW y, Cong(x, y, H)
  PROVE  U32(x) = U32(y) /\ (y \in Words => U32(x) = y)
<1>1. U32(x) = U32(y)
  BY Ranges, ModCong DEF U32, H
<1>2. y \in Int
  BY DEF Cong
<1>3. U32(y) \in Words /\ Cong(U32(y), y, H)
  BY <1>2, U32Facts
<1>4. y \in Words => U32(y) - y < H /\ y - U32(y) < H
  BY <1>3, Ranges DEF Words
<1>5. y \in Words => U32(y) = y
  BY <1>3, <1>4, Ranges, CongNear
<1> QED
  BY <1>1, <1>5

LEMMA I64Is ==
  ASSUME NEW x, NEW y, Cong(x, y, W)
  PROVE  I64(x) = I64(y) /\ (y \in SignedRegs => I64(x) = y)
<1>1. I64(x) = I64(y)
  <2>1. x % W = y % W
    BY Ranges, ModCong
  <2> QED
    BY <2>1 DEF I64, Signed, W
<1>2. y \in Int
  BY DEF Cong
<1>3. I64(y) \in SignedRegs /\ Cong(I64(y), y, W)
  BY <1>2, I64Facts
<1>4. y \in SignedRegs => I64(y) - y < W /\ y - I64(y) < W
  BY <1>3, Widths DEF SignedRegs
<1>5. y \in SignedRegs => I64(y) = y
  BY <1>3, <1>4, Ranges, CongNear
<1> QED
  BY <1>1, <1>5

LEMMA I32Is ==
  ASSUME NEW x, NEW y, Cong(x, y, H)
  PROVE  I32(x) = I32(y) /\ (y \in SignedWords => I32(x) = y)
<1>1. I32(x) = I32(y)
  <2>1. x % H = y % H
    BY Ranges, ModCong
  <2> QED
    BY <2>1 DEF I32, Signed, H
<1>2. y \in Int
  BY DEF Cong
<1>3. I32(y) \in SignedWords /\ Cong(I32(y), y, H)
  BY <1>2, I32Facts
<1>4. y \in SignedWords => I32(y) - y < H /\ y - I32(y) < H
  BY <1>3, Widths DEF SignedWords
<1>5. y \in SignedWords => I32(y) = y
  BY <1>3, <1>4, Ranges, CongNear
<1> QED
  BY <1>1, <1>5

-----------------------------------------------------------------------------
(* Bitwise operators                                                       *)

\* Every set of numbers that is not empty has a least one.
LEMMA NatMin ==
  ASSUME NEW S, S \subseteq Nat, S # {}
  PROVE  \E x \in S : \A y \in S : x <= y
<1> DEFINE R == OpToRel(<, Nat)
<1>1. IsWellFoundedOn(R, Nat)
  BY NatLessThanWellFounded, Zenon
<1>2. PICK x \in S : \A y \in S : ~ (<<y, x>> \in R)
  <2> HIDE DEF R
  <2> QED
    BY <1>1, WFMin, Zenon
<1>3. ASSUME NEW y \in S PROVE x <= y
  <2>1. ~ (<<y, x>> \in R)
    BY <1>2, Zenon
  <2>2. <<y, x>> \in Nat \X Nat
    OBVIOUS
  <2>3. ~ (y < x)
    BY <2>1, <2>2 DEF OpToRel
  <2> QED
    BY <2>3
<1> QED
  BY <1>3

\* g holds the number of the bits of S below n, for each n up to k.
Weight(S, n) == IF n \in S THEN 2^n ELSE 0
LowUpTo(S, k, g) ==
  g = [n \in 0 .. k |-> IF n = 0 THEN 0 ELSE g[n - 1] + Weight(S, n - 1)]

LEMMA LowExists ==
  ASSUME NEW S, NEW k \in Nat
  PROVE  \E g : LowUpTo(S, k, g)
<1> DEFINE Stuck == {j \in Nat : ~ \E g : LowUpTo(S, j, g)}
<1>1. SUFFICES ASSUME Stuck # {} PROVE FALSE
  OBVIOUS
<1>2. PICK j \in Stuck : \A i \in Stuck : j <= i
  BY <1>1, NatMin, Zenon
<1>3. j # 0
  <2>1. 0 .. 0 = {0}
    OBVIOUS
  <2> DEFINE g == [n \in {0} |-> 0]
  <2>2. LowUpTo(S, 0, g)
    BY <2>1 DEF LowUpTo
  <2> QED
    BY <1>2, <2>2
<1>4. PICK g : LowUpTo(S, j - 1, g)
  <2>1. j - 1 \in Nat /\ ~ (j <= j - 1)
    BY <1>3
  <2>2. j - 1 \notin Stuck
    BY <1>2, <2>1
  <2> QED
    BY <2>1, <2>2
<1> DEFINE h == [n \in 0 .. j |-> IF n = j THEN g[j - 1] + Weight(S, j - 1) ELSE g[n]]
<1>5. LowUpTo(S, j, h)
  <2>1. ASSUME NEW n \in 0 .. j
        PROVE  h[n] = IF n = 0 THEN 0 ELSE h[n - 1] + Weight(S, n - 1)
    <3>1. CASE n = 0
      <4>1. 0 \in 0 .. j - 1
        BY <1>3
      <4>2. h[n] = g[0] /\ g[0] = 0
        BY <1>3, <1>4, <3>1, <4>1 DEF LowUpTo
      <4> QED
        BY <3>1, <4>2
    <3>2. CASE n # 0
      <4>1. n - 1 \in 0 .. j - 1 /\ h[n - 1] = g[n - 1]
        BY <3>2
      <4>2. CASE n = j
        BY <3>2, <4>1, <4>2
      <4>3. CASE n # j
        <5>1. n \in 0 .. j - 1 /\ h[n] = g[n]
          BY <4>3
        <5>2. g[n] = g[n - 1] + Weight(S, n - 1)
          BY <1>4, <3>2, <5>1 DEF LowUpTo
        <5> QED
          BY <3>2, <4>1, <5>1, <5>2
      <4> QED
        BY <4>2, <4>3
    <3> QED
      BY <3>1, <3>2
  <2> QED
    BY <2>1 DEF LowUpTo
<1> QED
  BY <1>2, <1>5

\* The number whose bits are 1 in a set fits a register.
LEMMA NumberFits ==
  ASSUME NEW S
  PROVE  Number(S) \in Regs
<1>0. Bits \in Nat /\ PowersOf2
  BY Widths, ArithmeticAssumption DEF ArithmeticAssumption
<1> DEFINE f == CHOOSE f : LowUpTo(S, Bits, f)
<1>1. LowUpTo(S, Bits, f)
  BY <1>0, LowExists
<1>2. Number(S) = f[Bits]
  BY DEF Number, LowUpTo, Weight
<1> HIDE DEF f
<1> DEFINE Bad == {n \in Nat : n <= Bits /\ ~ (f[n] \in 0 .. 2^n - 1)}
<1>3. Bad = {}
  <2>1. SUFFICES ASSUME Bad # {} PROVE FALSE
    OBVIOUS
  <2>2. PICK n \in Bad : \A m \in Bad : n <= m
    BY <2>1, NatMin, Zenon
  <2>3. n # 0
    <3>1. 0 \in 0 .. Bits /\ 2^0 = 1
      BY <1>0 DEF PowersOf2
    <3>2. f[0] = 0
      BY <1>1, <3>1 DEF LowUpTo
    <3>3. f[0] \in 0 .. 2^0 - 1
      BY <3>1, <3>2
    <3>4. 0 \notin Bad
      BY <3>3
    <3> QED
      BY <2>2, <3>4, Zenon
  <2>4. PICK p \in Nat : p = n - 1 /\ p + 1 = n /\ p \in 0 .. Bits /\ n \in 0 .. Bits
    BY <1>0, <2>2, <2>3
  <2>5. f[p] \in 0 .. 2^p - 1
    <3>1. p \notin Bad /\ p <= Bits
      BY <1>0, <2>2, <2>4
    <3> QED
      BY <3>1
  <2>6. f[n] = f[p] + Weight(S, p)
    BY <1>1, <2>3, <2>4 DEF LowUpTo
  <2>7. 2^p \in Nat \ {0} /\ 2^n = 2 * 2^p
    <3>1. PICK i \in 0 .. Bits : i = 1 /\ 2^i = 2 /\ p + i = n /\ p + i <= Bits
      <4>1. 1 \in 0 .. Bits
        BY Widths
      <4> QED
        BY <1>0, <2>4, <4>1, Zenon DEF PowersOf2
    <3>2. 2^(p + i) = 2^p * 2^i
      BY <1>0, <2>4, <3>1, Zenon DEF PowersOf2
    <3>3. 2^p \in Nat \ {0}
      BY <1>0, <2>4 DEF PowersOf2
    <3> QED
      BY <3>1, <3>2, <3>3
  <2>8. f[n] \in 0 .. 2^n - 1
    BY <2>5, <2>6, <2>7 DEF Weight
  <2> QED
    BY <2>2, <2>8
<1>4. f[Bits] \in 0 .. 2^Bits - 1
  BY <1>0, <1>3
<1> QED
  BY <1>2, <1>4 DEF Regs, W

LEMMA BitwiseFits ==
  ASSUME NEW a, NEW b
  PROVE  And(a, b) \in Regs /\ Or(a, b) \in Regs /\ Xor(a, b) \in Regs
BY NumberFits DEF And, Or, Xor

-----------------------------------------------------------------------------
(* The values that instructions compute fit a register                     *)

\* A product of numbers that are at most m has a high part below m.
LEMMA HighFits ==
  ASSUME NEW m \in Nat \ {0}, NEW x \in 0 .. m - 1, NEW y \in 0 .. m - 1
  PROVE  x * y \in Nat /\ (x * y) \div m \in 0 .. m - 1
<1>1. PICK p \in Nat : p = x * y
  OBVIOUS
<1>2. x * y <= x * m /\ x * m <= (m - 1) * m
  OBVIOUS
<1>3. PICK q \in Int, r \in 0 .. m - 1 : p = m * q + r /\ p \div m = q
  BY DivMod
<1>4. m * q <= m * (m - 1)
  BY <1>1, <1>2, <1>3
<1>5. q <= m - 1
  BY <1>4
<1>6. q >= 0
  <2>1. m * q > -m
    BY <1>1, <1>3
  <2>2. q > -1
    BY <2>1
  <2> QED
    BY <2>2
<1> QED
  BY <1>1, <1>3, <1>5, <1>6

LEMMA MulHiFits ==
  ASSUME NEW x \in Regs, NEW y \in Regs
  PROVE  MulUint64Hi(x, y) \in Regs
BY Ranges, HighFits DEF MulUint64Hi, Regs, W

LEMMA AbsFits ==
  ASSUME NEW x \in SignedRegs
  PROVE  Abs(x) \in Regs
BY Widths DEF Abs, SignedRegs, Regs

LEMMA ComplementFits ==
  ASSUME NEW x \in Regs
  PROVE  Complement(x) \in Regs
BY Ranges DEF Complement, Regs, W

LEMMA BoolFits ==
  ASSUME NEW p
  PROVE  Bool(p) \in Regs /\ Bool(p) \in {0, 1}
<1>1. W >= 2
  BY Widths
<1> QED
  BY <1>1, Ranges DEF Bool, Regs

LEMMA MulhFits ==
  ASSUME NEW a \in Regs, NEW b \in Regs
  PROVE  Mulh(a, b) \in Regs /\ Mulhsu(a, b) \in Regs
<1>1. a \in Int /\ b \in Int /\ 0 \in Regs
  BY Ranges DEF Regs
<1>2. Abs(I64(a)) \in Regs /\ Abs(I64(b)) \in Regs
  BY <1>1, I64Facts, AbsFits
<1>3. PICK res \in Regs : res = MulUint64Hi(Abs(I64(a)), Abs(I64(b)))
  BY <1>2, MulHiFits
<1>4. Complement(res) \in Int
  BY ComplementFits, Ranges, Zenon
<1>5. Complement(res) + Bool(Reg(a * b) = 0) \in Int
  <2>1. Bool(Reg(a * b) = 0) \in {0, 1}
    BY BoolFits
  <2> QED
    BY <1>4, <2>1
<1>6. Mulh(a, b) \in Regs
  BY <1>3, <1>5, RegFacts DEF Mulh
<1>7. Complement(MulUint64Hi(Abs(I64(a)), b)) \in Regs /\ MulUint64Hi(a, b) \in Regs
  BY <1>2, MulHiFits, ComplementFits
<1> QED
  BY <1>1, <1>6, <1>7 DEF Mulhsu

\* Shifts to the right.
LEMMA ShiftFits ==
  ASSUME NEW x \in Int, NEW k \in 0 .. Bits - 1
  PROVE  x \div 2^k \in Int /\ (x \in Nat => x \div 2^k \in 0 .. x)
<1>1. PICK m \in Nat \ {0} : m = 2^k
  BY Widths
<1>2. PICK q \in Int, r \in 0 .. m - 1 : x = m * q + r /\ x \div m = q
  BY DivMod, Zenon
<1>3. ASSUME x \in Nat PROVE q \in 0 .. x
  <2>1. m * q > -m
    BY <1>2, <1>3
  <2>2. q > -1
    BY <2>1
  <2>3. m * q >= q
    BY <2>2
  <2> QED
    BY <1>2, <2>2, <2>3
<1> QED
  BY <1>1, <1>2, <1>3

-----------------------------------------------------------------------------
(* Division                                                                *)

LEMMA QuotFacts ==
  ASSUME NEW x \in Int, NEW y \in Int, y # 0
  PROVE  /\ Quot(x, y) \in Int /\ Rem(x, y) \in Int
         /\ x = y * Quot(x, y) + Rem(x, y)
         /\ Abs(Rem(x, y)) < Abs(y)
         /\ Rem(x, y) # 0 => (Rem(x, y) < 0) = (x < 0)
<1>1. PICK u \in Int, v \in Nat \ {0} : u = Abs(x) /\ v = Abs(y) /\ u >= 0
  BY DEF Abs
<1>2. PICK q \in Int, r \in 0 .. v - 1 : u = v * q + r /\ u \div v = q
  BY <1>1, DivMod, Zenon
<1>3. Quot(x, y) = IF (x < 0) = (y < 0) THEN q ELSE -q
  BY <1>1, <1>2 DEF Quot
<1>4. y * Quot(x, y) = IF x < 0 THEN -(v * q) ELSE v * q
  <2>1. CASE x < 0 /\ y < 0
    <3>1. y = -v /\ Quot(x, y) = q
      BY <1>1, <1>3, <2>1 DEF Abs
    <3>2. (-v) * q = -(v * q)
      OBVIOUS
    <3> QED
      BY <2>1, <3>1, <3>2
  <2>2. CASE x < 0 /\ ~ (y < 0)
    <3>1. y = v /\ Quot(x, y) = -q
      BY <1>1, <1>3, <2>2 DEF Abs
    <3>2. v * (-q) = -(v * q)
      OBVIOUS
    <3> QED
      BY <2>2, <3>1, <3>2
  <2>3. CASE ~ (x < 0) /\ y < 0
    <3>1. y = -v /\ Quot(x, y) = -q
      BY <1>1, <1>3, <2>3 DEF Abs
    <3>2. (-v) * (-q) = v * q
      OBVIOUS
    <3> QED
      BY <2>3, <3>1, <3>2
  <2>4. CASE ~ (x < 0) /\ ~ (y < 0)
    <3>1. y = v /\ Quot(x, y) = q
      BY <1>1, <1>3, <2>4 DEF Abs
    <3> QED
      BY <2>4, <3>1
  <2> QED
    BY <2>1, <2>2, <2>3, <2>4
<1>5. Rem(x, y) = IF x < 0 THEN -r ELSE r
  <2>1. x = IF x < 0 THEN -u ELSE u
    BY <1>1 DEF Abs
  <2>2. PICK p \in Int : p = v * q
    OBVIOUS
  <2> QED
    BY <1>2, <1>4, <2>1, <2>2 DEF Rem
<1>6. PICK p \in Int : p = y * Quot(x, y)
  BY <1>3
<1> QED
  BY <1>1, <1>3, <1>5, <1>6 DEF Rem, Abs

\* A quotient that is right modulo m, and the remainder, satisfy the equation
\* of division modulo m.
Equation(x, y, q, r, m) == (x - (y * q) - r) % m = 0

LEMMA EquationHolds ==
  ASSUME NEW x \in Int, NEW y \in Int, NEW z, NEW q, NEW r \in Int, NEW m \in Nat \ {0},
         Cong(q, z, m), Cong(x, y * z + r, m)
  PROVE  Equation(x, y, q, r, m)
<1>0. z \in Int /\ q \in Int
  BY DEF Cong
<1>1. Cong(y, y, m) /\ Cong(r, r, m)
  BY CongRefl
<1>2. PICK p \in Int, s \in Int : p = y * z /\ s = y * q
  BY <1>0
<1>3. Cong(s, p, m)
  BY <1>1, <1>2, CongMul
<1>4. Cong(x - s, (p + r) - p, m)
  BY <1>2, <1>3, CongAdd
<1>5. Cong((x - s) - r, ((p + r) - p) - r, m)
  BY <1>1, <1>4, CongAdd, Zenon
<1>6. ((p + r) - p) - r = 0 /\ (x - s) - r = x - s - r
  OBVIOUS
<1>7. ((x - s) - r) % m = 0 % m
  BY <1>5, <1>6, ModCong
<1>8. 0 % m = 0
  OBVIOUS
<1> QED
  BY <1>2, <1>6, <1>7, <1>8 DEF Equation

\* Signed division of numbers of w bits, with its two special cases.
LEMMA SignedDivision ==
  ASSUME NEW w, NEW h \in Nat \ {0}, NEW m \in Nat \ {0}, m = 2 * h, m = 2^w,
         NEW x \in -h .. h - 1, NEW y \in -h .. h - 1, NEW least, least = -h,
         NEW q, Cong(q, Div(x, y, least), m), NEW r, r = RemS(x, y, least)
  PROVE  r \in -h .. h - 1 /\ Divides(x, y, q, r, w)
<1>0. x \in Int /\ y \in Int
  OBVIOUS
<1>1. CASE y = 0
  <2>1. PICK z \in Int : r = x /\ r \in Int /\ z = -1 /\ Cong(q, z, m)
    BY <1>1 DEF RemS, Div
  <2>2. y * z + r = x
    BY <1>1, <2>1
  <2>3. Cong(x, y * z + r, m)
    BY <1>0, <2>2, CongRefl
  <2>4. Equation(x, y, q, r, m)
    BY <1>0, <2>1, <2>3, EquationHolds, Zenon
  <2> QED
    BY <1>1, <2>1, <2>4 DEF Equation, Divides
<1>2. CASE x = least /\ y = -1
  <2>1. r = 0 /\ Div(x, y, least) = least /\ y * least = h /\ y # 0
    BY <1>2 DEF RemS, Div
  <2>2. PICK k \in Int : k = -1
    OBVIOUS
  <2>3. x = (y * least + r) + m * k /\ y * least + r \in Int
    BY <1>2, <2>1, <2>2
  <2>4. Cong(x, y * least + r, m)
    BY <1>0, <2>3, CongBy
  <2>5. Equation(x, y, q, r, m)
    <3>1. Cong(q, least, m) /\ r \in Int
      BY <2>1
    <3> QED
      BY <1>0, <2>4, <3>1, EquationHolds, Zenon
  <2> QED
    BY <1>2, <2>1, <2>5 DEF Equation, Divides, Abs
<1>3. CASE y # 0 /\ ~ (x = least /\ y = -1)
  <2>1. r = Rem(x, y) /\ Div(x, y, least) = Quot(x, y)
    BY <1>3 DEF RemS, Div
  <2>2. /\ Quot(x, y) \in Int /\ r \in Int
        /\ x = y * Quot(x, y) + r
        /\ Abs(r) < Abs(y)
        /\ r # 0 => (r < 0) = (x < 0)
    BY <1>0, <1>3, <2>1, QuotFacts
  <2>3. r \in -h .. h - 1
    BY <2>2 DEF Abs
  <2>4. Cong(x, y * Quot(x, y) + r, m)
    BY <1>0, <2>2, CongRefl
  <2>5. Equation(x, y, q, r, m)
    BY <1>0, <2>1, <2>2, <2>4, EquationHolds
  <2> QED
    BY <1>3, <2>2, <2>3, <2>5 DEF Equation, Divides
<1> QED
  BY <1>1, <1>2, <1>3

LEMMA UnsignedDivision ==
  ASSUME NEW w, NEW m \in Nat \ {0}, m = 2^w,
         NEW x \in 0 .. m - 1, NEW y \in 0 .. m - 1,
         NEW q, Cong(q, DivU(x, y), m), NEW r, r = RemU(x, y)
  PROVE  r \in 0 .. m - 1 /\ Divides(x, y, q, r, w)
<1>0. x \in Int /\ y \in Int
  OBVIOUS
<1>1. CASE y = 0
  <2>1. PICK z \in Int : r = x /\ r \in Int /\ z = -1 /\ Cong(q, z, m)
    BY <1>1 DEF RemU, DivU
  <2>2. y * z + r = x
    BY <1>1, <2>1
  <2>3. Cong(x, y * z + r, m)
    BY <1>0, <2>2, CongRefl
  <2>4. Equation(x, y, q, r, m)
    BY <1>0, <2>1, <2>3, EquationHolds, Zenon
  <2> QED
    BY <1>1, <2>1, <2>4 DEF Equation, Divides
<1>2. CASE y # 0
  <2>1. PICK d : d = x \div y /\ DivU(x, y) = d
    BY <1>2 DEF DivU
  <2>2. d \in Int /\ r \in 0 .. y - 1 /\ x = y * d + r
    <3>1. PICK v \in Nat \ {0} : v = y
      BY <1>2
    <3>2. r = x % v /\ d = x \div v
      BY <1>2, <2>1, <3>1 DEF RemU
    <3>3. PICK n \in Int : n = x
      BY <1>0
    <3>4. n % v \in 0 .. v - 1 /\ n \div v \in Int /\ n = v * (n \div v) + (n % v)
      BY DivMod, Zenon
    <3> QED
      BY <3>1, <3>2, <3>3, <3>4
  <2>3. Cong(x, y * d + r, m)
    BY <1>0, <2>2, CongRefl
  <2>4. Equation(x, y, q, r, m)
    BY <1>0, <2>1, <2>2, <2>3, EquationHolds
  <2> QED
    BY <1>2, <2>2, <2>4 DEF Equation, Divides, Abs
<1> QED
  BY <1>1, <1>2

-----------------------------------------------------------------------------
(* The registers and the doubleword hold numbers of their width            *)

LEMMA DivisionTypes ==
  ASSUME NEW x \in Int, NEW y \in Int, NEW least \in Int
  PROVE  /\ Div(x, y, least) \in Int /\ RemS(x, y, least) \in Int
         /\ x >= 0 /\ y >= 0 => DivU(x, y) \in Int /\ RemU(x, y) \in Int
<1>1. y # 0 => Quot(x, y) \in Int /\ Rem(x, y) \in Int
  BY QuotFacts
<1>2. ASSUME x >= 0, y >= 0, y # 0
      PROVE  x \div y \in Int /\ x % y \in Int
  <2>1. PICK v \in Nat \ {0} : v = y
    BY <1>2
  <2> QED
    BY <2>1, DivMod
<1> QED
  BY <1>1, <1>2 DEF Div, RemS, DivU, RemU

LEMMA ShiftCount ==
  ASSUME NEW x \in Int
  PROVE  x % Bits \in 0 .. Bits - 1 /\ x % Half \in 0 .. Bits - 1
<1>1. PICK m \in Nat \ {0}, n \in Nat \ {0} : m = Bits /\ n = Half /\ n <= m
  BY Widths
<1>2. x % m \in 0 .. m - 1 /\ x % n \in 0 .. n - 1
  BY DivMod
<1> QED
  BY <1>1, <1>2

LEMMA LeastTypes == Least64 \in Int /\ Least32 \in Int /\ Least64 = -HalfW /\ Least32 = -HalfH
BY Widths DEF Least64, Least32, HalfW, HalfH

LEMMA Types ==
  ASSUME NEW x \in Int
  PROVE  /\ I64(x) \in Int /\ I32(x) \in Int
         /\ U32(x) \in Int /\ U32(x) \in Nat
         /\ x \in Regs => x \in Nat /\ x >= 0
<1>1. I64(x) \in SignedRegs /\ I32(x) \in SignedWords /\ U32(x) \in Words
  BY I64Facts, I32Facts, U32Facts
<1>2. Words \subseteq Nat /\ Regs \subseteq Nat
  BY Ranges DEF Words, Regs
<1>3. U32(x) \in Nat /\ (x \in Regs => x \in Nat)
  BY <1>1, <1>2, Zenon
<1>4. x \in Nat => x >= 0
  OBVIOUS
<1>5. I64(x) \in Int /\ I32(x) \in Int /\ U32(x) \in Int
  BY <1>1, Ranges, Zenon
<1> QED
  BY <1>3, <1>4, <1>5

LEMMA ShiftedFits ==
  ASSUME NEW x \in Regs, NEW k \in 0 .. Bits - 1
  PROVE  x \div 2^k \in Regs
<1>1. x \in Int /\ x \in Nat
  BY Ranges, Types
<1>2. x \div 2^k \in 0 .. x
  BY <1>1, ShiftFits
<1> QED
  BY <1>1, <1>2, Ranges DEF Regs

AllFit(r) == \A op \in DOMAIN r : r[op] \in Regs

LEMMA RegTypeFits ==
  ASSUME NEW a \in Regs, NEW b \in Regs
  PROVE  AllFit(RegTypeExec(a, b))
<1>1. a \in Int /\ b \in Int /\ a >= 0 /\ b >= 0 /\ I64(a) \in Int /\ I64(b) \in Int
  BY Ranges, Types
<1>2. PICK k \in 0 .. Bits - 1 : k = b % Bits
  BY <1>1, ShiftCount
<1>3. /\ Reg(a + b) \in Regs /\ Reg(a - b) \in Regs /\ Reg(a * b) \in Regs
  BY <1>1, RegFacts
<1>4. Reg(a * 2^k) \in Regs
  <2>1. a * 2^k \in Int
    BY <1>1, Widths
  <2> QED
    BY <2>1, RegFacts
<1>5. a \div 2^k \in Regs /\ Reg(I64(a) \div 2^k) \in Regs
  BY <1>1, ShiftFits, ShiftedFits, RegFacts
<1>6. Bool(I64(a) < I64(b)) \in Regs /\ Bool(a < b) \in Regs
  BY BoolFits
<1>7. Mulh(a, b) \in Regs /\ Mulhsu(a, b) \in Regs /\ MulUint64Hi(a, b) \in Regs
  BY MulhFits, MulHiFits
<1>8. Reg(Div(I64(a), I64(b), Least64)) \in Regs /\ Reg(RemS(I64(a), I64(b), Least64)) \in Regs
  BY <1>1, LeastTypes, DivisionTypes, RegFacts, Zenon
<1>9. Reg(DivU(a, b)) \in Regs /\ Reg(RemU(a, b)) \in Regs
  BY <1>1, LeastTypes, DivisionTypes, RegFacts, Zenon
<1>10. And(a, b) \in Regs /\ Or(a, b) \in Regs /\ Xor(a, b) \in Regs
  BY BitwiseFits, Zenon
<1> QED
  BY <1>2, <1>3, <1>4, <1>5, <1>6, <1>7, <1>8, <1>9, <1>10 DEF RegTypeExec, AllFit

\* Whatever number it is given, Word gives a register.
LEMMA WordFits ==
  ASSUME NEW x \in Int
  PROVE  Word(x) \in Regs /\ UnsignedWord(x) \in Regs /\ Reg(I32(x)) \in Regs
BY I32Facts, Ranges, RegFacts, Zenon DEF Word, UnsignedWord

LEMMA Rv32TypeFits ==
  ASSUME NEW a \in Regs, NEW b \in Regs
  PROVE  AllFit(Rv32TypeExec(a, b))
<1>1. a \in Int /\ b \in Int
  BY Ranges
<1>2. /\ I32(a) \in Int /\ I32(b) \in Int /\ U32(a) \in Int /\ U32(b) \in Int
      /\ U32(a) >= 0 /\ U32(b) >= 0
  <2>1. U32(a) \in Nat /\ U32(b) \in Nat
    BY <1>1, Types
  <2> QED
    BY <1>1, <2>1, Types
<1>3. PICK k \in 0 .. Bits - 1 : k = b % Half
  BY <1>1, ShiftCount
<1>4. /\ Word(I32(a) + I32(b)) \in Regs /\ Word(I32(a) - I32(b)) \in Regs
      /\ Word(I32(a) * I32(b)) \in Regs
  BY <1>2, WordFits
<1>5. Word(I32(a) * 2^k) \in Regs
  <2>1. I32(a) * 2^k \in Int
    BY <1>2, Widths
  <2> QED
    BY <2>1, WordFits
<1>6. UnsignedWord(U32(a) \div 2^k) \in Regs /\ Word(I32(a) \div 2^k) \in Regs
  BY <1>2, ShiftFits, WordFits
<1>7. /\ Word(Div(I32(a), I32(b), Least32)) \in Regs
      /\ Word(RemS(I32(a), I32(b), Least32)) \in Regs
  BY <1>2, LeastTypes, DivisionTypes, WordFits, Zenon
<1>8. UnsignedWord(DivU(U32(a), U32(b))) \in Regs /\ UnsignedWord(RemU(U32(a), U32(b))) \in Regs
  <2>1. DivU(U32(a), U32(b)) \in Int /\ RemU(U32(a), U32(b)) \in Int
    BY <1>2, LeastTypes, DivisionTypes, Zenon
  <2> QED
    BY <2>1, WordFits
<1> QED
  BY <1>3, <1>4, <1>5, <1>6, <1>7, <1>8 DEF Rv32TypeExec, AllFit

LEMMA ImmTypeFits ==
  ASSUME NEW a \in Regs, NEW imm \in Int
  PROVE  AllFit(ImmTypeExec(a, imm)) /\ AllFit(Imm32TypeExec(a, imm))
<1>1. a \in Int /\ I64(a) \in Int /\ I32(a) \in Int /\ U32(a) \in Int
  BY Ranges, Types
<1>2. PICK k \in 0 .. Bits - 1, l \in 0 .. Bits - 1 : k = Shamt(imm, FALSE) /\ l = Shamt(imm, TRUE)
  BY ShiftCount DEF Shamt
<1>3. AllFit(ImmTypeExec(a, imm))
  <2>1. Reg(I64(a) + imm) \in Regs /\ Bool(I64(a) < imm) \in Regs /\ Bool(a < Unsigned(imm)) \in Regs
    BY <1>1, RegFacts, BoolFits
  <2>2. Reg(a * 2^k) \in Regs
    <3>1. a * 2^k \in Int
      BY <1>1, Widths
    <3> QED
      BY <3>1, RegFacts
  <2>3. a \div 2^k \in Regs /\ Reg(I64(a) \div 2^k) \in Regs
    BY <1>1, ShiftFits, ShiftedFits, RegFacts
  <2>4. ImmTypeExec(a, imm) =
          [ ADDI  |-> Reg(I64(a) + imm),
            SLTI  |-> Bool(I64(a) < imm),
            SLTIU |-> Bool(a < Unsigned(imm)),
            XORI  |-> Xor(a, Unsigned(imm)),
            ORI   |-> Or(a, Unsigned(imm)),
            ANDI  |-> And(a, Unsigned(imm)),
            SLLI  |-> Reg(a * 2^k),
            SRLI  |-> a \div 2^k,
            SRAI  |-> Reg(I64(a) \div 2^k) ]
    BY <1>2 DEF ImmTypeExec
  <2> QED
    BY <2>1, <2>2, <2>3, <2>4, BitwiseFits DEF AllFit
<1>4. AllFit(Imm32TypeExec(a, imm))
  <2>1. Word(I32(a) + imm) \in Regs
    BY <1>1, WordFits
  <2>2. Word(I32(a) * 2^l) \in Regs
    <3>1. I32(a) * 2^l \in Int
      BY <1>1, Widths
    <3> QED
      BY <3>1, WordFits
  <2>3. UnsignedWord(U32(a) \div 2^l) \in Regs /\ Word(I32(a) \div 2^l) \in Regs
    BY <1>1, ShiftFits, WordFits
  <2>4. Imm32TypeExec(a, imm) =
          [ ADDIW |-> Word(I32(a) + imm),
            SLLIW |-> Word(I32(a) * 2^l),
            SRLIW |-> UnsignedWord(U32(a) \div 2^l),
            SRAIW |-> Word(I32(a) \div 2^l) ]
    BY <1>2 DEF Imm32TypeExec
  <2> QED
    BY <2>1, <2>2, <2>3, <2>4 DEF AllFit
<1> QED
  BY <1>3, <1>4

\* What an AMO stores fits the memory it stores to.
LEMMA AmoDFits ==
  ASSUME NEW b \in Regs, NEW m \in Regs
  PROVE  AllFit(AmoD(b, m))
<1>1. b \in Int /\ m \in Int /\ I64(b) \in Int /\ I64(m) \in Int
  BY Ranges, Types
<1>2. Least(I64(b), I64(m)) \in Int /\ Greatest(I64(b), I64(m)) \in Int
  BY <1>1 DEF Least, Greatest
<1>3. Reg(b + m) \in Regs
  BY <1>1, RegFacts
<1>4. Reg(Least(I64(b), I64(m))) \in Regs /\ Reg(Greatest(I64(b), I64(m))) \in Regs
  BY <1>2, RegFacts
<1>5. Least(b, m) \in Regs /\ Greatest(b, m) \in Regs
  BY DEF Least, Greatest
<1> QED
  BY <1>3, <1>4, <1>5, BitwiseFits DEF AmoD, AllFit

LEMMA AmoWFits ==
  ASSUME NEW b \in Int, NEW m \in Int
  PROVE  \A op \in DOMAIN AmoW(b, m) : AmoW(b, m)[op] \in Words
<1>1. I32(b) \in Int /\ I32(m) \in Int
  BY Types
<1>2. /\ Least(I32(b), I32(m)) \in Int /\ Greatest(I32(b), I32(m)) \in Int
      /\ I32(b) + I32(m) \in Int
  BY <1>1 DEF Least, Greatest
<1>3. \A x, y : Xor(x, y) \in Int /\ And(x, y) \in Int /\ Or(x, y) \in Int
  BY BitwiseFits, Ranges, Zenon
<1>4. /\ U32(I32(b)) \in Words /\ U32(I32(b) + I32(m)) \in Words
      /\ U32(Least(I32(b), I32(m))) \in Words /\ U32(Greatest(I32(b), I32(m))) \in Words
  BY <1>1, <1>2, U32Facts
<1>5. \A x, y : U32(Xor(x, y)) \in Words /\ U32(And(x, y)) \in Words /\ U32(Or(x, y)) \in Words
  BY <1>3, U32Facts
<1>6. Least(U32(b), U32(m)) \in Words /\ Greatest(U32(b), U32(m)) \in Words
  BY U32Facts DEF Least, Greatest
<1> QED
  BY <1>4, <1>5, <1>6 DEF AmoW

\* The store of a word leaves the upper half of the doubleword.
LEMMA LowWordFits ==
  ASSUME NEW m \in Regs, NEW v \in Words
  PROVE  m - U32(m) + v \in Regs
<1>1. PICK h \in Nat \ {0} : h = H /\ W = h * h
  BY Widths
<1>2. m \in 0 .. (h * h) - 1 /\ v \in 0 .. h - 1
  BY <1>1 DEF Regs, Words
<1>3. PICK q \in Int, r \in 0 .. h - 1 : m = h * q + r /\ r = m % h
  <2>1. m \in Int
    BY Ranges
  <2> QED
    BY <2>1, DivMod, Zenon
<1>4. U32(m) = r
  BY <1>1, <1>3 DEF U32, H
<1>5. h * q < h * h /\ h * q > -h
  BY <1>2, <1>3
<1>6. q < h /\ q > -1
  BY <1>5
<1>7. h * q <= h * (h - 1) /\ h * q >= 0
  BY <1>6
<1>8. m - r + v \in 0 .. (h * h) - 1
  BY <1>2, <1>3, <1>7
<1> QED
  BY <1>1, <1>4, <1>8 DEF Regs

AluInv == xregs \in [0 .. 2 -> Regs] /\ mem \in Regs

LEMMA AluInitInv == AluInit => AluInv
BY Ranges DEF AluInit, AluInv, Regs

LEMMA WriteFits ==
  ASSUME AluInv, NEW rd \in 0 .. 2, NEW val \in Regs, Write(rd, val)
  PROVE  xregs' \in [0 .. 2 -> Regs]
<1>1. 0 \in Regs
  BY Ranges DEF Regs
<1> QED
  BY <1>1 DEF AluInv, Write

LEMMA AluNextInv == AluInv /\ [AluNext]_aluVars => AluInv'
<1> SUFFICES ASSUME AluInv, [AluNext]_aluVars PROVE AluInv'
  OBVIOUS
<1>1. \A r \in 0 .. 2 : xregs[r] \in Regs /\ xregs[r] \in Int
  BY Ranges, Zenon DEF AluInv
<1>2. mem \in Regs /\ mem \in Int
  BY Ranges DEF AluInv
<1>3. Imms \subseteq Int
  BY Widths, AluAssumption DEF AluAssumption, HalfW
<1>4. ASSUME NEW f, AllFit(f), NEW rd \in 0 .. 2,
             \E val \in Range(f) : Write(rd, val) /\ UNCHANGED mem
      PROVE  AluInv'
  BY <1>4, WriteFits DEF AluInv, Range, AllFit
<1>5. ASSUME NEW rd \in 0 .. 2, NEW rs1 \in 0 .. 2, NEW rs2 \in 0 .. 2, RegType(rd, rs1, rs2)
      PROVE  AluInv'
  <2>1. AllFit(RegTypeExec(xregs[rs1], xregs[rs2]))
    BY <1>1, RegTypeFits
  <2> QED
    BY <1>4, <1>5, <2>1 DEF RegType
<1>6. ASSUME NEW rd \in 0 .. 2, NEW rs1 \in 0 .. 2, NEW rs2 \in 0 .. 2, Rv32Type(rd, rs1, rs2)
      PROVE  AluInv'
  <2>1. AllFit(Rv32TypeExec(xregs[rs1], xregs[rs2]))
    BY <1>1, Rv32TypeFits
  <2> QED
    BY <1>4, <1>6, <2>1 DEF Rv32Type
<1>7. ASSUME NEW rd \in 0 .. 2, NEW rs1 \in 0 .. 2, NEW imm \in Imms, ImmType(rd, rs1, imm)
      PROVE  AluInv'
  <2>1. AllFit(ImmTypeExec(xregs[rs1], imm))
    BY <1>1, <1>3, ImmTypeFits
  <2> QED
    BY <1>4, <1>7, <2>1 DEF ImmType
<1>8. ASSUME NEW rd \in 0 .. 2, NEW rs1 \in 0 .. 2, NEW imm \in Imms, Imm32Type(rd, rs1, imm)
      PROVE  AluInv'
  <2>1. AllFit(Imm32TypeExec(xregs[rs1], imm))
    BY <1>1, <1>3, ImmTypeFits
  <2> QED
    BY <1>4, <1>8, <2>1 DEF Imm32Type
<1>9. ASSUME NEW rd \in 0 .. 2, NEW rs2 \in 0 .. 2, AmoTypeD(rd, rs2)
      PROVE  AluInv'
  <2>1. AllFit(AmoD(xregs[rs2], mem))
    BY <1>1, <1>2, AmoDFits
  <2>2. PICK val \in Range(AmoD(xregs[rs2], mem)) : mem' = val /\ Write(rd, mem)
    BY <1>9 DEF AmoTypeD
  <2>3. val \in Regs
    BY <2>1 DEF Range, AllFit
  <2> QED
    BY <1>2, <2>2, <2>3, WriteFits DEF AluInv
<1>10. ASSUME NEW rd \in 0 .. 2, NEW rs2 \in 0 .. 2, AmoTypeW(rd, rs2)
       PROVE  AluInv'
  <2>1. U32(mem) \in Int /\ Reg(I32(mem)) \in Regs
    BY <1>2, Types, WordFits
  <2>2. PICK val \in Range(AmoW(xregs[rs2], U32(mem))) :
          mem' = mem - U32(mem) + val /\ Write(rd, Reg(I32(mem)))
    BY <1>10 DEF AmoTypeW
  <2>3. val \in Words
    BY <1>1, <2>1, AmoWFits DEF Range
  <2>4. mem' \in Regs
    BY <1>2, <2>2, <2>3, LowWordFits
  <2> QED
    BY <2>1, <2>2, <2>4, WriteFits, Zenon DEF AluInv
<1>11. CASE UNCHANGED aluVars
  BY <1>11 DEF aluVars, AluInv
<1> QED
  BY <1>5, <1>6, <1>7, <1>8, <1>9, <1>10, <1>11 DEF AluNext

LEMMA AluOperands == AluInv => X1 \in Regs /\ X2 \in Regs /\ mem \in Regs
BY DEF AluInv, X1, X2

-----------------------------------------------------------------------------
(* Branches                                                                *)

LEMMA Difference ==
  ASSUME NEW a \in Regs, NEW b \in Regs
  PROVE  Reg(a - b) = 0 <=> a = b
<1>1. a \in Int /\ b \in Int /\ a - b \in Int
  BY Ranges
<1>2. 0 \in Regs /\ 0 \in Int
  BY Ranges DEF Regs
<1>3. ASSUME Reg(a - b) = 0 PROVE a = b
  <2>1. Cong(0, a - b, W)
    BY <1>1, <1>3, RegFacts
  <2>2. 0 - (a - b) < W /\ (a - b) - 0 < W
    BY Ranges DEF Regs
  <2>3. 0 = a - b
    BY <2>1, <2>2, Ranges, CongNear
  <2> QED
    BY <1>1, <2>3
<1>4. ASSUME a = b PROVE Reg(a - b) = 0
  <2>1. a - b = 0
    BY <1>1, <1>4
  <2>2. Cong(0, 0, W)
    BY <1>2, Ranges, CongRefl
  <2> QED
    BY <1>2, <2>1, <2>2, RegIs
<1> QED
  BY <1>3, <1>4

\* Branches decide as the comparisons of registers do (BranchesAgree), for
\* every width of a register.
THEOREM BranchesDecide == AluSpec => []BranchesAgree
<1>1. AluInv => BranchesAgree
  <2> SUFFICES ASSUME NEW a \in Regs, NEW b \in Regs, a = X1, b = X2
               PROVE  BranchesAgree
    BY AluOperands
  <2>1. /\ RegTypeExec(a, b).SLT = Bool(I64(a) < I64(b))
        /\ RegTypeExec(a, b).SLTU = Bool(a < b)
        /\ RegTypeExec(a, b).SUB = Reg(a - b)
    BY DEF RegTypeExec
  <2>2. a \in Int /\ b \in Int /\ I64(a) \in Int /\ I64(b) \in Int
    BY Ranges, Types
  <2>3. Taken("BLT", a, b) = (RegTypeExec(a, b).SLT = 1)
    BY <2>1 DEF Taken, Bool
  <2>4. Taken("BGE", a, b) = (RegTypeExec(a, b).SLT = 0)
    BY <2>1, <2>2 DEF Taken, Bool
  <2>5. Taken("BLTU", a, b) = (RegTypeExec(a, b).SLTU = 1)
    BY <2>1 DEF Taken, Bool
  <2>6. Taken("BGEU", a, b) = (RegTypeExec(a, b).SLTU = 0)
    BY <2>1, <2>2 DEF Taken, Bool
  <2>7. Taken("BEQ", a, b) = (RegTypeExec(a, b).SUB = 0)
    BY <2>1, Difference DEF Taken
  <2>8. Taken("BNE", a, b) = (RegTypeExec(a, b).SUB # 0)
    BY <2>1, Difference DEF Taken
  <2> QED
    BY <2>3, <2>4, <2>5, <2>6, <2>7, <2>8 DEF BranchesAgree
<1> QED
  BY <1>1, AluInitInv, AluNextInv, PTL DEF AluSpec

-----------------------------------------------------------------------------
(* Immediates                                                              *)

\* The widths themselves are powers of 2, so shift counts may be taken of a
\* register or of the number it stands for.
LEMMA BitsDivides == \E k \in Int : W = Bits * k
<1>1. Bits \in {4, 8, 16, 32, 64} /\ 2^1 = 2
  BY ArithmeticAssumption DEF ArithmeticAssumption, PowersOf2
<1>2. \A m, n \in 0 .. Bits : m + n <= Bits => 2^(m + n) = 2^m * 2^n
  BY ArithmeticAssumption DEF ArithmeticAssumption, PowersOf2
<1>3. \A n \in 0 .. Bits : 2^n \in Nat \ {0}
  BY ArithmeticAssumption DEF ArithmeticAssumption, PowersOf2
<1>4. 2^2 = 4
  <2>1. 1 \in 0 .. Bits /\ 1 + 1 <= Bits /\ 1 + 1 = 2
    BY <1>1
  <2> QED
    BY <1>1, <1>2, <2>1
<1>5. 2^3 = 8
  <2>1. 1 \in 0 .. Bits /\ 2 \in 0 .. Bits /\ 1 + 2 <= Bits /\ 1 + 2 = 3
    BY <1>1
  <2> QED
    BY <1>1, <1>2, <1>4, <2>1
<1>6. 2^4 = 16
  <2>1. 2 \in 0 .. Bits /\ 2 + 2 <= Bits /\ 2 + 2 = 4
    BY <1>1
  <2> QED
    BY <1>2, <1>4, <2>1
<1>7. Bits # 4 => 2^5 = 32 /\ 2^6 = 64
  <2>1. Bits # 4 => /\ 2 \in 0 .. Bits /\ 3 \in 0 .. Bits /\ 4 \in 0 .. Bits
                    /\ 2 + 3 <= Bits /\ 2 + 3 = 5 /\ 2 + 4 <= Bits /\ 2 + 4 = 6
    BY <1>1
  <2> QED
    BY <1>2, <1>4, <1>5, <1>6, <2>1
<1>8. PICK n \in 0 .. Bits : 2^n = Bits
  <2>1. \/ Bits = 2^2 /\ 2 \in 0 .. Bits
        \/ Bits = 2^3 /\ 3 \in 0 .. Bits
        \/ Bits = 2^4 /\ 4 \in 0 .. Bits
        \/ Bits = 2^5 /\ 5 \in 0 .. Bits
        \/ Bits = 2^6 /\ 6 \in 0 .. Bits
    BY <1>1, <1>4, <1>5, <1>6, <1>7
  <2> QED
    BY <2>1, Zenon
<1>9. PICK d \in 0 .. Bits : d = Bits - n /\ n + d = Bits
  BY <1>1
<1>10. 2^(n + d) = 2^n * 2^d
  BY <1>1, <1>2, <1>9
<1>11. 2^d \in Int
  BY <1>3
<1> QED
  BY <1>8, <1>9, <1>10, <1>11 DEF W

LEMMA CongDivides ==
  ASSUME NEW x, NEW y, NEW m, NEW n \in Int, NEW k \in Int, m = n * k, Cong(x, y, m)
  PROVE  Cong(x, y, n)
<1>1. PICK l \in Int : x = y + m * l
  BY DEF Cong
<1>2. PICK j \in Int : j = k * l
  OBVIOUS
<1>3. (n * k) * l = n * j
  BY <1>2
<1> QED
  BY <1>1, <1>2, <1>3 DEF Cong

LEMMA ShiftCounts ==
  ASSUME NEW x, NEW y, Cong(x, y, W)
  PROVE  x % Bits = y % Bits /\ x % Half = y % Half
<1>1. PICK m \in Nat \ {0}, n \in Nat \ {0} : m = Bits /\ n = Half /\ m = 2 * n
  BY Widths
<1>2. PICK k \in Int : W = m * k
  BY <1>1, BitsDivides, Zenon
<1>3. PICK l \in Int : l = 2 * k
  OBVIOUS
<1>4. m * k = n * l
  BY <1>1, <1>3
<1>5. Cong(x, y, m) /\ Cong(x, y, n)
  <2>1. PICK w : w = m * k /\ w = n * l /\ Cong(x, y, w)
    BY <1>2, <1>4
  <2>2. m \in Int /\ n \in Int
    OBVIOUS
  <2> QED
    BY <2>1, <2>2, CongDivides, Zenon
<1> QED
  BY <1>1, <1>5, ModCong

\* An immediate form computes what the form on registers does with the immediate
\* in a register.
LEMMA ImmediateForms ==
  ASSUME NEW a \in Regs, NEW imm \in SignedRegs, NEW c, c = Reg(imm)
  PROVE  LET r == RegTypeExec(a, c)
             i == ImmTypeExec(a, imm)
             w == Rv32TypeExec(a, c)
             j == Imm32TypeExec(a, imm)
         IN  /\ i.ADDI = r.ADD /\ i.SLTI = r.SLT /\ i.SLTIU = r.SLTU
             /\ i.XORI = r.XOR /\ i.ORI = r.OR /\ i.ANDI = r.AND
             /\ i.SLLI = r.SLL /\ i.SRLI = r.SRL /\ i.SRAI = r.SRA
             /\ j.ADDIW = w.ADDW /\ j.SLLIW = w.SLLW
             /\ j.SRLIW = w.SRLW /\ j.SRAIW = w.SRAW
<1>1. a \in Int /\ imm \in Int /\ c \in Int /\ Cong(c, imm, W)
  BY RegFacts, Ranges, Zenon
<1>2. Cong(imm, c, W)
  BY <1>1, Ranges, CongSym
<1>3. Reg(I64(a) + imm) = Reg(a + c)
  BY <1>1, <1>2, I64Facts, Ranges, CongAdd, RegIs
<1>4. I64(c) = imm
  BY <1>1, I64Is
<1>5. Unsigned(imm) = c
  BY DEF Unsigned
<1>6. Shamt(imm, FALSE) = c % Bits /\ Shamt(imm, TRUE) = c % Half
  BY <1>2, ShiftCounts DEF Shamt
<1>7. Word(I32(a) + imm) = Word(I32(a) + I32(c))
  <2>1. Cong(I32(c), imm, H)
    BY <1>1, CongWord, I32Facts, Ranges, CongTrans
  <2>2. Cong(I32(a), I32(a), H)
    BY <1>1, Types, Ranges, CongRefl
  <2>3. Cong(I32(a) + I32(c), I32(a) + imm, H)
    BY <2>1, <2>2, Ranges, CongAdd
  <2> QED
    BY <2>3, I32Is DEF Word
<1>8. PICK k, l : k = c % Bits /\ l = c % Half
  OBVIOUS
<1>9. LET i == ImmTypeExec(a, imm)
      IN  /\ i.ADDI = Reg(I64(a) + imm) /\ i.SLTI = Bool(I64(a) < imm) /\ i.SLTIU = Bool(a < c)
          /\ i.XORI = Xor(a, c) /\ i.ORI = Or(a, c) /\ i.ANDI = And(a, c)
          /\ i.SLLI = Reg(a * 2^k) /\ i.SRLI = a \div 2^k /\ i.SRAI = Reg(I64(a) \div 2^k)
  BY <1>5, <1>6, <1>8, ZenonT(30) DEF ImmTypeExec
<1>10. LET j == Imm32TypeExec(a, imm)
       IN  /\ j.ADDIW = Word(I32(a) + imm) /\ j.SLLIW = Word(I32(a) * 2^l)
           /\ j.SRLIW = UnsignedWord(U32(a) \div 2^l) /\ j.SRAIW = Word(I32(a) \div 2^l)
  BY <1>6, <1>8, ZenonT(30) DEF Imm32TypeExec
<1>11. LET r == RegTypeExec(a, c)
       IN  /\ r.ADD = Reg(a + c) /\ r.SLT = Bool(I64(a) < I64(c)) /\ r.SLTU = Bool(a < c)
           /\ r.XOR = Xor(a, c) /\ r.OR = Or(a, c) /\ r.AND = And(a, c)
           /\ r.SLL = Reg(a * 2^k) /\ r.SRL = a \div 2^k /\ r.SRA = Reg(I64(a) \div 2^k)
  BY <1>8, ZenonT(30) DEF RegTypeExec
<1>12. LET w == Rv32TypeExec(a, c)
       IN  /\ w.ADDW = Word(I32(a) + I32(c)) /\ w.SLLW = Word(I32(a) * 2^l)
           /\ w.SRLW = UnsignedWord(U32(a) \div 2^l) /\ w.SRAW = Word(I32(a) \div 2^l)
  BY <1>8, Zenon DEF Rv32TypeExec
<1>13. LET r == RegTypeExec(a, c)
           i == ImmTypeExec(a, imm)
       IN  /\ i.ADDI = r.ADD /\ i.SLTI = r.SLT /\ i.SLTIU = r.SLTU
           /\ i.XORI = r.XOR /\ i.ORI = r.OR /\ i.ANDI = r.AND
           /\ i.SLLI = r.SLL /\ i.SRLI = r.SRL /\ i.SRAI = r.SRA
  BY <1>3, <1>4, <1>9, <1>11, ZenonT(30)
<1>14. LET w == Rv32TypeExec(a, c)
           j == Imm32TypeExec(a, imm)
       IN  /\ j.ADDIW = w.ADDW /\ j.SLLIW = w.SLLW
           /\ j.SRLIW = w.SRLW /\ j.SRAIW = w.SRAW
  BY <1>7, <1>10, <1>12, ZenonT(30)
<1> QED
  BY <1>13, <1>14, ZenonT(30)

\* An immediate instruction computes what the instruction on registers does
\* with the immediate in a register (ImmediatesAgree).
THEOREM ImmediatesExtend == AluSpec => []ImmediatesAgree
<1>1. Imms \subseteq SignedRegs
  BY Ranges, AluAssumption, Zenon DEF AluAssumption, SignedRegs, HalfW
<1>2. AluInv => ImmediatesAgree
  <2> SUFFICES ASSUME NEW a \in Regs, a = X1, NEW imm \in Imms
               PROVE  LET r == RegTypeExec(a, Reg(imm))
                          i == ImmTypeExec(a, imm)
                          w == Rv32TypeExec(a, Reg(imm))
                          j == Imm32TypeExec(a, imm)
                      IN  /\ i.ADDI = r.ADD /\ i.SLTI = r.SLT /\ i.SLTIU = r.SLTU
                          /\ i.XORI = r.XOR /\ i.ORI = r.OR /\ i.ANDI = r.AND
                          /\ i.SLLI = r.SLL /\ i.SRLI = r.SRL /\ i.SRAI = r.SRA
                          /\ j.ADDIW = w.ADDW /\ j.SLLIW = w.SLLW
                          /\ j.SRLIW = w.SRLW /\ j.SRAIW = w.SRAW
    BY AluOperands, Zenon DEF ImmediatesAgree
  <2>1. imm \in SignedRegs
    BY <1>1
  <2> QED
    BY <2>1, ImmediateForms, ZenonT(30)
<1> QED
  BY <1>2, AluInitInv, AluNextInv, PTL DEF AluSpec

-----------------------------------------------------------------------------
(* Quotients and remainders                                                *)

\* Numbers read back from a register.
LEMMA ReadBack ==
  ASSUME NEW z \in Int
  PROVE  /\ Cong(I64(Reg(z)), z, W)
         /\ z \in SignedRegs => I64(Reg(z)) = z
         /\ z \in Regs => Reg(z) = z
<1>1. Reg(z) \in Int /\ Cong(Reg(z), z, W)
  BY RegFacts, Ranges, Zenon
<1>2. Cong(I64(Reg(z)), Reg(z), W)
  BY <1>1, I64Facts
<1>3. Cong(I64(Reg(z)), z, W)
  BY <1>1, <1>2, Ranges, CongTrans
<1>4. z \in SignedRegs => I64(Reg(z)) = z
  BY <1>1, I64Is
<1>5. z \in Regs => Reg(z) = z
  <2>1. Cong(z, z, W)
    BY Ranges, CongRefl
  <2> QED
    BY <2>1, RegIs
<1> QED
  BY <1>3, <1>4, <1>5

LEMMA WordReadBack ==
  ASSUME NEW z \in Int
  PROVE  /\ Reg(I32(z)) \in Int /\ Cong(Reg(I32(z)), z, H)
         /\ I64(Reg(I32(z))) = I32(z)
         /\ U32(Reg(I32(z))) = U32(z)
         /\ z \in SignedWords => I32(z) = z
         /\ z \in Words => U32(z) = z
<1>1. I32(z) \in SignedRegs /\ I32(z) \in Int /\ Cong(I32(z), z, H)
  BY I32Facts, Ranges, Zenon
<1>2. Reg(I32(z)) \in Int /\ Cong(Reg(I32(z)), I32(z), W)
  BY <1>1, RegFacts, Ranges, Zenon
<1>3. Cong(Reg(I32(z)), z, H)
  BY <1>1, <1>2, CongWord, Ranges, CongTrans
<1>4. I64(Reg(I32(z))) = I32(z)
  BY <1>1, ReadBack
<1>5. U32(Reg(I32(z))) = U32(z)
  BY <1>3, U32Is
<1>6. Cong(z, z, H)
  BY Ranges, CongRefl, Zenon
<1>7. z \in SignedWords => I32(z) = z
  BY <1>6, I32Is
<1>8. z \in Words => U32(z) = z
  BY <1>6, U32Is
<1> QED
  BY <1>2, <1>3, <1>4, <1>5, <1>7, <1>8

\* The quotient and the remainder of each pair of divide instructions belong
\* to one division (DivisionsAgree), by 0 and the overflow included.
THEOREM DivisionsRight == AluSpec => []DivisionsAgree
<1>1. AluInv => DivisionsAgree
  <2> SUFFICES ASSUME NEW a \in Regs, NEW b \in Regs, a = X1, b = X2
               PROVE  DivisionsAgree
    BY AluOperands
  <2>1. a \in Int /\ b \in Int /\ Least64 \in Int /\ Least32 \in Int
    BY Ranges, LeastTypes, Zenon
  <2>2. /\ RegTypeExec(a, b).DIV = Reg(Div(I64(a), I64(b), Least64))
        /\ RegTypeExec(a, b).REM = Reg(RemS(I64(a), I64(b), Least64))
        /\ RegTypeExec(a, b).DIVU = Reg(DivU(a, b))
        /\ RegTypeExec(a, b).REMU = Reg(RemU(a, b))
    BY Zenon DEF RegTypeExec
  <2>3. /\ Rv32TypeExec(a, b).DIVW = Reg(I32(Div(I32(a), I32(b), Least32)))
        /\ Rv32TypeExec(a, b).REMW = Reg(I32(RemS(I32(a), I32(b), Least32)))
        /\ Rv32TypeExec(a, b).DIVUW = Reg(I32(DivU(U32(a), U32(b))))
        /\ Rv32TypeExec(a, b).REMUW = Reg(I32(RemU(U32(a), U32(b))))
    BY Zenon DEF Rv32TypeExec, Word, UnsignedWord
  <2>4. Divides(I64(a), I64(b), I64(RegTypeExec(a, b).DIV), I64(RegTypeExec(a, b).REM), Bits)
    <3>1. PICK h \in Nat \ {0}, m \in Nat \ {0} : h = HalfW /\ m = W /\ m = 2 * h
      BY Widths
    <3>2. PICK x \in -h .. h - 1, y \in -h .. h - 1 : x = I64(a) /\ y = I64(b)
      BY <2>1, <3>1, I64Facts DEF SignedRegs
    <3>3. PICK z \in Int, r \in Int : z = Div(x, y, Least64) /\ r = RemS(x, y, Least64)
      <4>1. x \in Int /\ y \in Int
        OBVIOUS
      <4> QED
        BY <2>1, <4>1, DivisionTypes, Zenon
    <3>4. PICK q : q = I64(Reg(z)) /\ Cong(q, z, m)
      BY <3>1, ReadBack
    <3>5. m = 2^Bits /\ Least64 = -h
      BY <3>1, LeastTypes DEF W
    <3>6. r \in -h .. h - 1 /\ Divides(x, y, q, r, Bits)
      BY <3>1, <3>3, <3>4, <3>5, SignedDivision
    <3>7. I64(Reg(r)) = r
      <4>1. r \in SignedRegs
        BY <3>1, <3>6 DEF SignedRegs
      <4> QED
        BY <4>1, ReadBack
    <3> QED
      BY <2>2, <3>2, <3>3, <3>4, <3>6, <3>7
  <2>5. Divides(a, b, RegTypeExec(a, b).DIVU, RegTypeExec(a, b).REMU, Bits)
    <3>1. PICK m \in Nat \ {0} : m = W
      BY Widths
    <3>2. a \in 0 .. m - 1 /\ b \in 0 .. m - 1 /\ m = 2^Bits
      BY <3>1 DEF Regs, W
    <3>3. PICK z \in Int, r \in Int : z = DivU(a, b) /\ r = RemU(a, b)
      <4>1. a >= 0 /\ b >= 0
        BY <2>1, Types
      <4> QED
        BY <2>1, <4>1, DivisionTypes
    <3>4. PICK q : q = Reg(z) /\ Cong(q, z, m)
      BY <3>1, RegFacts
    <3>5. r \in 0 .. m - 1 /\ Divides(a, b, q, r, Bits)
      BY <3>2, <3>3, <3>4, UnsignedDivision
    <3>6. Reg(r) = r
      <4>1. r \in Regs
        BY <3>1, <3>5, Zenon DEF Regs
      <4> QED
        BY <4>1, ReadBack
    <3> QED
      BY <2>2, <3>3, <3>4, <3>5, <3>6
  <2>6. Divides(I32(a), I32(b), I64(Rv32TypeExec(a, b).DIVW), I64(Rv32TypeExec(a, b).REMW), Half)
    <3>1. PICK h \in Nat \ {0}, m \in Nat \ {0} : h = HalfH /\ m = H /\ m = 2 * h
      BY Widths
    <3>2. PICK x \in -h .. h - 1, y \in -h .. h - 1 : x = I32(a) /\ y = I32(b)
      BY <2>1, <3>1, I32Facts DEF SignedWords
    <3>3. PICK z \in Int, r \in Int : z = Div(x, y, Least32) /\ r = RemS(x, y, Least32)
      <4>1. x \in Int /\ y \in Int
        OBVIOUS
      <4> QED
        BY <2>1, <4>1, DivisionTypes, Zenon
    <3>4. PICK q : q = I64(Reg(I32(z))) /\ Cong(q, z, m)
      BY <3>1, WordReadBack, I32Facts
    <3>5. m = 2^Half /\ Least32 = -h
      BY <3>1, LeastTypes DEF H
    <3>6. r \in -h .. h - 1 /\ Divides(x, y, q, r, Half)
      BY <3>1, <3>3, <3>4, <3>5, SignedDivision
    <3>7. I64(Reg(I32(r))) = r
      <4>1. r \in SignedWords
        BY <3>1, <3>6 DEF SignedWords
      <4> QED
        BY <4>1, WordReadBack
    <3> QED
      BY <2>3, <3>2, <3>3, <3>4, <3>6, <3>7
  <2>7. Divides(U32(a), U32(b), U32(Rv32TypeExec(a, b).DIVUW), U32(Rv32TypeExec(a, b).REMUW), Half)
    <3>1. PICK m \in Nat \ {0} : m = H
      BY Widths
    <3>2. PICK x \in 0 .. m - 1, y \in 0 .. m - 1 : x = U32(a) /\ y = U32(b)
      BY <2>1, <3>1, U32Facts DEF Words
    <3>3. PICK z \in Int, r \in Int : z = DivU(x, y) /\ r = RemU(x, y)
      <4>1. x \in Int /\ y \in Int /\ x >= 0 /\ y >= 0
        OBVIOUS
      <4> QED
        BY <2>1, <4>1, DivisionTypes, Zenon
    <3>4. PICK q : q = U32(Reg(I32(z))) /\ Cong(q, z, m)
      BY <3>1, WordReadBack, U32Facts
    <3>5. m = 2^Half
      BY <3>1 DEF H
    <3>6. r \in 0 .. m - 1 /\ Divides(x, y, q, r, Half)
      BY <3>3, <3>4, <3>5, UnsignedDivision
    <3>7. U32(Reg(I32(r))) = r
      <4>1. r \in Words
        BY <3>1, <3>6 DEF Words
      <4> QED
        BY <4>1, WordReadBack
    <3> QED
      BY <2>3, <3>2, <3>3, <3>4, <3>6, <3>7
  <2> QED
    BY <2>4, <2>5, <2>6, <2>7 DEF DivisionsAgree
<1> QED
  BY <1>1, AluInitInv, AluNextInv, PTL DEF AluSpec

-----------------------------------------------------------------------------
(* Atomic operations on words                                              *)

\* A word extended to a register, and the word itself, by the sign.
LEMMA ExtendedWord ==
  ASSUME NEW x \in Int
  PROVE  /\ Reg(I32(x)) = IF I32(x) >= 0 THEN I32(x) ELSE I32(x) + W
         /\ U32(x) = IF I32(x) >= 0 THEN I32(x) ELSE I32(x) + H
<1>1. PICK i \in Int : i = I32(x) /\ i \in SignedWords
  BY I32Facts, Ranges, Zenon
<1>2. PICK w \in Nat \ {0}, h \in Nat \ {0}, t \in Nat \ {0} :
        w = W /\ h = H /\ t = HalfH /\ h = 2 * t /\ i \in -t .. t - 1 /\ h <= w
  <2>1. H <= W
    <3>1. H <= HalfW /\ W = 2 * HalfW /\ HalfW \in Nat
      BY Ranges, Widths
    <3> QED
      BY <3>1, Widths
  <2> QED
    BY <1>1, <2>1, Widths DEF SignedWords
<1>3. Cong(i, i, w) /\ Cong(i, i, h)
  BY CongRefl
<1>4. Cong(i, i + w, w) /\ Cong(i, i + h, h)
  <2>1. PICK k \in Int : k = -1
    OBVIOUS
  <2>2. i = (i + w) + w * k /\ i = (i + h) + h * k /\ i + w \in Int /\ i + h \in Int
    BY <2>1
  <2> QED
    BY <2>2, CongBy, Zenon
<1>5. /\ i >= 0 => i \in Regs /\ i \in Words
      /\ i < 0 => i + w \in Regs /\ i + h \in Words
  BY <1>2 DEF Regs, Words
<1>6. Reg(i) = IF i >= 0 THEN i ELSE i + w
  BY <1>2, <1>3, <1>4, <1>5, RegIs
<1>7. U32(i) = IF i >= 0 THEN i ELSE i + h
  BY <1>2, <1>3, <1>4, <1>5, U32Is
<1>8. U32(i) = U32(x)
  BY <1>1, I32Facts, U32Is
<1> QED
  BY <1>1, <1>2, <1>6, <1>7, <1>8

\* Sign extension keeps the unsigned order.
LEMMA ExtendedOrder ==
  ASSUME NEW x \in Int, NEW y \in Int
  PROVE  Reg(I32(x)) < Reg(I32(y)) <=> U32(x) < U32(y)
<1>1. PICK i \in Int, j \in Int, t \in Nat \ {0}, h \in Nat, w \in Nat :
        /\ i = I32(x) /\ j = I32(y) /\ t = HalfH /\ h = H /\ w = W
        /\ i \in -t .. t - 1 /\ j \in -t .. t - 1 /\ h = 2 * t /\ h <= w
  <2>1. H <= W
    <3>1. H <= HalfW /\ W = 2 * HalfW /\ HalfW \in Nat
      BY Ranges, Widths
    <3> QED
      BY <3>1, Widths
  <2>2. I32(x) \in SignedWords /\ I32(y) \in SignedWords
    BY I32Facts
  <2> QED
    BY <2>1, <2>2, Ranges, Widths, Zenon DEF SignedWords
<1>2. Reg(I32(x)) = (IF i >= 0 THEN i ELSE i + w) /\ U32(x) = IF i >= 0 THEN i ELSE i + h
  BY <1>1, ExtendedWord
<1>3. Reg(I32(y)) = (IF j >= 0 THEN j ELSE j + w) /\ U32(y) = IF j >= 0 THEN j ELSE j + h
  BY <1>1, ExtendedWord
<1> QED
  BY <1>1, <1>2, <1>3

\* An AMO on a word stores the low word of what the AMO on doublewords would
\* store for the extended operands (AmoWordsAgree).
THEOREM AmoWordsRight == AluSpec => []AmoWordsAgree
<1>1. AluInv => AmoWordsAgree
  <2> SUFFICES ASSUME NEW b \in Regs, NEW m \in Regs, b = X2, m = mem
               PROVE  AmoWordsAgree
    BY AluOperands
  <2>1. b \in Int /\ m \in Int /\ U32(m) \in Int
    BY Ranges, Types
  <2>2. PICK i \in Int, j \in Int, p \in Int, n \in Int :
          i = I32(b) /\ j = I32(m) /\ p = Reg(i) /\ n = Reg(j)
    BY <2>1, Types, WordReadBack, Zenon
  <2>3. I32(U32(m)) = j
    BY <2>1, <2>2, U32Facts, I32Is
  <2>4. U32(U32(m)) = U32(m)
    BY <2>1, U32Facts, WordReadBack
  <2>5. U32(p) = U32(b) /\ U32(n) = U32(m) /\ I64(p) = i /\ I64(n) = j
    BY <2>1, <2>2, WordReadBack
  <2>6. U32(i) = U32(b)
    BY <2>1, <2>2, I32Facts, U32Is
  <2>7. \A v \in Int : U32(Reg(v)) = U32(v)
    BY RegFacts, CongWord, U32Is
  <2>8. U32(i + j) = U32(Reg(p + n))
    <3>1. Cong(p, i, H) /\ Cong(n, j, H)
      BY <2>2, RegFacts, CongWord
    <3>2. Cong(p + n, i + j, H)
      BY <3>1, Ranges, CongAdd
    <3>3. p + n \in Int /\ U32(p + n) = U32(i + j)
      BY <3>2, U32Is
    <3> QED
      BY <2>7, <3>3
  <2>9. U32(Least(i, j)) = U32(Reg(Least(i, j))) /\ U32(Greatest(i, j)) = U32(Reg(Greatest(i, j)))
    BY <2>7 DEF Least, Greatest
  <2>10. p < n <=> U32(b) < U32(m)
    BY <2>1, <2>2, ExtendedOrder
  <2>11. n < p <=> U32(m) < U32(b)
    BY <2>1, <2>2, ExtendedOrder
  <2>12. Least(U32(b), U32(m)) = U32(Least(p, n)) /\ Greatest(U32(b), U32(m)) = U32(Greatest(p, n))
    BY <2>5, <2>10, <2>11 DEF Least, Greatest
  <2>13. AmoD(p, n) =
           [ SWAP |-> p, ADD |-> Reg(p + n), XOR |-> Xor(p, n), AND |-> And(p, n), OR |-> Or(p, n),
             MIN |-> Reg(Least(i, j)), MAX |-> Reg(Greatest(i, j)),
             MINU |-> Least(p, n), MAXU |-> Greatest(p, n) ]
    BY <2>5 DEF AmoD
  <2>14. AmoW(b, U32(m)) =
           [ SWAP |-> U32(i), ADD |-> U32(i + j), XOR |-> U32(Xor(p, n)), AND |-> U32(And(p, n)),
             OR |-> U32(Or(p, n)), MIN |-> U32(Least(i, j)), MAX |-> U32(Greatest(i, j)),
             MINU |-> Least(U32(b), U32(m)), MAXU |-> Greatest(U32(b), U32(m)) ]
    BY <2>2, <2>3, <2>4, ZenonT(30) DEF AmoW
  <2>15. \A op \in DOMAIN AmoW(b, U32(m)) : AmoW(b, U32(m))[op] = U32(AmoD(p, n)[op])
    BY <2>5, <2>6, <2>8, <2>9, <2>12, <2>13, <2>14
  <2> QED
    BY <2>2, <2>15 DEF AmoWordsAgree
<1> QED
  BY <1>1, AluInitInv, AluNextInv, PTL DEF AluSpec

-----------------------------------------------------------------------------
(* Instructions on words                                                   *)

LEMMA LowWord ==
  ASSUME NEW z \in Int
  PROVE  I32(Reg(z)) = I32(z)
BY RegFacts, CongWord, I32Is

\* The signed overflow of words is none for registers: the quotients agree in
\* their low words, the remainders agree.
LEMMA WordDivision ==
  ASSUME NEW i \in SignedWords, NEW j \in SignedWords
  PROVE  /\ Cong(Div(i, j, Least32), Div(i, j, Least64), H)
         /\ RemS(i, j, Least32) = RemS(i, j, Least64)
<1>1. PICK t \in Nat \ {0}, h \in Nat \ {0} : t = HalfH /\ h = H /\ h = 2 * t /\ Least32 = -t
  BY Widths, LeastTypes
<1>2. i \in Int /\ j \in Int /\ i \in -t .. t - 1 /\ Least64 \in Int /\ Least32 \in Int
  BY <1>1, Ranges, LeastTypes DEF SignedWords
<1>3. i # Least64
  <2>1. PICK s \in Nat : s = HalfW /\ h <= s /\ Least64 = -s
    BY <1>1, Ranges, Widths, LeastTypes
  <2> QED
    BY <1>1, <1>2, <2>1
<1>4. CASE j # 0 /\ i = Least32 /\ j = -1
  <2>1. Abs(i) = t /\ Abs(j) = 1
    <3>1. i = -t /\ i < 0 /\ -i = t
      BY <1>1, <1>4
    <3>2. j < 0 /\ -j = 1
      <4>1. j + 1 = 0
        BY <1>4
      <4> QED
        BY <1>2, <4>1
    <3> QED
      BY <3>1, <3>2 DEF Abs
  <2>2. t \div 1 = t
    OBVIOUS
  <2>3. (i < 0) = (j < 0)
    BY <1>1, <1>4
  <2>4. Quot(i, j) = t
    BY <2>1, <2>2, <2>3 DEF Quot
  <2>5. Rem(i, j) = 0
    BY <1>1, <1>4, <2>4 DEF Rem
  <2>6. Div(i, j, Least64) = t /\ RemS(i, j, Least64) = 0
    BY <1>3, <1>4, <2>4, <2>5 DEF Div, RemS
  <2>7. Div(i, j, Least32) = i /\ RemS(i, j, Least32) = 0
    BY <1>4 DEF Div, RemS
  <2>8. Cong(i, t, h)
    <3>1. PICK k \in Int : k = -1
      OBVIOUS
    <3>2. i = t + h * k /\ t \in Int
      BY <1>1, <1>4, <3>1
    <3> QED
      BY <1>2, <3>2, CongBy, Zenon
  <2> QED
    BY <1>1, <2>6, <2>7, <2>8
<1>5. CASE ~ (j # 0 /\ i = Least32 /\ j = -1)
  <2>1. Div(i, j, Least32) = Div(i, j, Least64) /\ RemS(i, j, Least32) = RemS(i, j, Least64)
    BY <1>3, <1>5 DEF Div, RemS
  <2>2. Div(i, j, Least64) \in Int
    BY <1>2, DivisionTypes
  <2>3. Cong(Div(i, j, Least64), Div(i, j, Least64), H)
    BY <2>2, Ranges, CongRefl, Zenon
  <2> QED
    BY <2>1, <2>3
<1> QED
  BY <1>4, <1>5

\* Each word instruction is the instruction on registers, narrowed and
\* sign-extended (WordsAreNarrowed).
THEOREM WordsNarrow == AluSpec => []WordsAreNarrowed
<1>1. AluInv => WordsAreNarrowed
  <2> SUFFICES ASSUME NEW a \in Regs, NEW b \in Regs, a = X1, b = X2
               PROVE  WordsAreNarrowed
    BY AluOperands
  <2>1. a \in Int /\ b \in Int /\ U32(a) \in Int /\ U32(b) \in Int /\ U32(a) >= 0 /\ U32(b) >= 0
    <3>1. a \in Int /\ b \in Int
      BY Ranges
    <3>2. U32(a) \in Nat /\ U32(b) \in Nat
      BY <3>1, Types
    <3> QED
      BY <3>1, <3>2, Types
  <2>2. PICK i \in Int, j \in Int, p \in Int, n \in Int :
          /\ i = I32(a) /\ j = I32(b) /\ p = Reg(i) /\ n = Reg(j)
          /\ i \in SignedWords /\ j \in SignedWords
    BY <2>1, Types, WordReadBack, I32Facts, ZenonT(30)
  <2>3. I64(p) = i /\ I64(n) = j
    BY <2>1, <2>2, WordReadBack
  <2>4. Cong(p, i, H) /\ Cong(n, j, H)
    BY <2>2, RegFacts, CongWord
  <2>5. I32(i + j) = I32(Reg(p + n)) /\ I32(i - j) = I32(Reg(p - n)) /\ I32(i * j) = I32(Reg(p * n))
    <3>1. Cong(p + n, i + j, H) /\ Cong(p - n, i - j, H) /\ Cong(p * n, i * j, H)
      BY <2>4, Ranges, CongAdd, CongMul, Zenon
    <3>2. I32(p + n) = I32(i + j) /\ I32(p - n) = I32(i - j) /\ I32(p * n) = I32(i * j)
      BY <3>1, I32Is
    <3>3. p + n \in Int /\ p - n \in Int /\ p * n \in Int
      BY <2>2
    <3> QED
      BY <3>2, <3>3, LowWord
  <2>6. /\ I32(Div(i, j, Least32)) = I32(Reg(Div(i, j, Least64)))
        /\ I32(RemS(i, j, Least32)) = I32(Reg(RemS(i, j, Least64)))
    <3>1. Div(i, j, Least64) \in Int /\ RemS(i, j, Least64) \in Int
      BY <2>2, LeastTypes, DivisionTypes
    <3>2. I32(Div(i, j, Least32)) = I32(Div(i, j, Least64))
      BY <2>2, WordDivision, I32Is
    <3>3. RemS(i, j, Least32) = RemS(i, j, Least64)
      BY <2>2, WordDivision
    <3> QED
      BY <3>1, <3>2, <3>3, LowWord
  <2>7. /\ I32(Reg(DivU(U32(a), U32(b)))) = I32(DivU(U32(a), U32(b)))
        /\ I32(Reg(RemU(U32(a), U32(b)))) = I32(RemU(U32(a), U32(b)))
    BY <2>1, LeastTypes, DivisionTypes, LowWord, Zenon
  <2>8. PICK k \in 0 .. Bits - 1 : k = b % Half /\ k % Bits = k
    <3>1. PICK c \in Nat \ {0} : c = Bits
      BY Widths
    <3>2. b % Half \in 0 .. c - 1
      BY <2>1, <3>1, ShiftCount
    <3>3. \A x \in 0 .. c - 1 : x % c = x
      OBVIOUS
    <3> QED
      BY <3>1, <3>2, <3>3
  <2>9. PICK c \in Int : c = 2^k
    BY Widths
  <2>10. I32(i * c) = I32(Reg(a * c))
    <3>1. Cong(i, a, H) /\ Cong(c, c, H)
      BY <2>1, <2>2, I32Facts, Ranges, CongRefl
    <3>2. Cong(i * c, a * c, H)
      BY <3>1, Ranges, CongMul
    <3>3. a * c \in Int
      BY <2>1
    <3> QED
      BY <3>2, <3>3, I32Is, LowWord
  <2>11. I32(Reg(i \div c)) = I32(i \div c)
    BY <2>2, <2>9, ShiftFits, LowWord, Zenon
  <2>12. LET w == Rv32TypeExec(a, b)
         IN  /\ w.ADDW = Reg(I32(i + j)) /\ w.SUBW = Reg(I32(i - j)) /\ w.MULW = Reg(I32(i * j))
             /\ w.DIVW = Reg(I32(Div(i, j, Least32))) /\ w.REMW = Reg(I32(RemS(i, j, Least32)))
             /\ w.DIVUW = Reg(I32(DivU(U32(a), U32(b))))
             /\ w.REMUW = Reg(I32(RemU(U32(a), U32(b))))
             /\ w.SLLW = Reg(I32(i * c)) /\ w.SRLW = Reg(I32(U32(a) \div c))
             /\ w.SRAW = Reg(I32(i \div c))
    BY <2>2, <2>8, <2>9, ZenonT(30) DEF Rv32TypeExec, Word, UnsignedWord
  <2>13. LET s == RegTypeExec(p, n)
         IN  /\ s.ADD = Reg(p + n) /\ s.SUB = Reg(p - n) /\ s.MUL = Reg(p * n)
             /\ s.DIV = Reg(Div(i, j, Least64)) /\ s.REM = Reg(RemS(i, j, Least64))
    BY <2>3, ZenonT(30) DEF RegTypeExec
  <2>14. LET u == RegTypeExec(U32(a), U32(b))
         IN  u.DIVU = Reg(DivU(U32(a), U32(b))) /\ u.REMU = Reg(RemU(U32(a), U32(b)))
    BY ZenonT(30) DEF RegTypeExec
  <2>15. /\ RegTypeExec(a, k).SLL = Reg(a * c)
         /\ RegTypeExec(U32(a), k).SRL = U32(a) \div c
         /\ RegTypeExec(p, k).SRA = Reg(i \div c)
    BY <2>3, <2>8, <2>9, ZenonT(30) DEF RegTypeExec
  <2>16. LET s == RegTypeExec(p, n)
             w == Rv32TypeExec(a, b)
         IN  /\ w.ADDW = Reg(I32(s.ADD)) /\ w.SUBW = Reg(I32(s.SUB)) /\ w.MULW = Reg(I32(s.MUL))
             /\ w.DIVW = Reg(I32(s.DIV)) /\ w.REMW = Reg(I32(s.REM))
    BY <2>5, <2>6, <2>12, <2>13, ZenonT(30)
  <2>17. LET u == RegTypeExec(U32(a), U32(b))
             w == Rv32TypeExec(a, b)
         IN  w.DIVUW = Reg(I32(u.DIVU)) /\ w.REMUW = Reg(I32(u.REMU))
    BY <2>7, <2>12, <2>14, ZenonT(30)
  <2>18. LET w == Rv32TypeExec(a, b)
         IN  /\ w.SLLW = Reg(I32(RegTypeExec(a, k).SLL))
             /\ w.SRLW = Reg(I32(RegTypeExec(U32(a), k).SRL))
             /\ w.SRAW = Reg(I32(RegTypeExec(p, k).SRA))
    BY <2>10, <2>11, <2>12, <2>15, ZenonT(30)
  <2> QED
    BY <2>2, <2>8, <2>16, <2>17, <2>18, ZenonT(30) DEF WordsAreNarrowed
<1> QED
  BY <1>1, AluInitInv, AluNextInv, PTL DEF AluSpec

-----------------------------------------------------------------------------
(* The high half of a product                                              *)

\* The columns of a product of two numbers of two digits each, to base h.
LEMMA Columns ==
  ASSUME NEW h \in Nat \ {0},
         NEW a1 \in Int, NEW a0 \in Int, NEW b1 \in Int, NEW b0 \in Int,
         NEW q1 \in Int, NEW r1 \in Int, a1 * b0 = h * q1 + r1,
         NEW q2 \in Int, NEW r2 \in Int, b1 * a0 = h * q2 + r2,
         NEW q3 \in Int, NEW r3 \in Int, a0 * b0 = h * q3 + r3,
         NEW c \in Int, NEW r4 \in Int, r1 + r2 + q3 = h * c + r4
  PROVE  (h * a1 + a0) * (h * b1 + b0) = (h * h) * (a1 * b1 + q1 + q2 + c) + (h * r4 + r3)
<1>1. (h * a1 + a0) * (h * b1 + b0)
        = (h * h) * (a1 * b1) + h * (a1 * b0) + h * (b1 * a0) + a0 * b0
  OBVIOUS
<1>2. h * (a1 * b0) = (h * h) * q1 + h * r1
  <2>1. h * (h * q1 + r1) = (h * h) * q1 + h * r1
    OBVIOUS
  <2> QED
    BY <2>1
<1>3. h * (b1 * a0) = (h * h) * q2 + h * r2
  <2>1. h * (h * q2 + r2) = (h * h) * q2 + h * r2
    OBVIOUS
  <2> QED
    BY <2>1
<1>4. h * r1 + h * r2 + h * q3 = (h * h) * c + h * r4
  <2>1. h * r1 + h * r2 + h * q3 = h * (r1 + r2 + q3)
    OBVIOUS
  <2>2. h * (h * c + r4) = (h * h) * c + h * r4
    OBVIOUS
  <2> QED
    BY <2>1, <2>2
<1>5. (h * h) * (a1 * b1 + q1 + q2 + c)
        = (h * h) * (a1 * b1) + (h * h) * q1 + (h * h) * q2 + (h * h) * c
  OBVIOUS
<1>6. PICK l \in Int, t0 \in Int, t1 \in Int, t2 \in Int, t3 \in Int, s1 \in Int, s2 \in Int,
           s3 \in Int, s4 \in Int :
        /\ l = (h * a1 + a0) * (h * b1 + b0) /\ t0 = (h * h) * (a1 * b1)
        /\ t1 = (h * h) * q1 /\ t2 = (h * h) * q2 /\ t3 = (h * h) * c
        /\ s1 = h * r1 /\ s2 = h * r2 /\ s3 = h * q3 /\ s4 = h * r4
  OBVIOUS
<1>7. l = t0 + (t1 + s1) + (t2 + s2) + (s3 + r3)
  BY <1>1, <1>2, <1>3, <1>6
<1>8. s1 + s2 + s3 = t3 + s4
  BY <1>4, <1>6
<1>9. l = (t0 + t1 + t2 + t3) + (s4 + r3)
  BY <1>7, <1>8, SMTT(30)
<1> QED
  BY <1>5, <1>6, <1>9

\* PortableMulUnsignedHi is the high half of the unsigned product
\* (PortableIsHigh): no carry between the partial products is lost.
THEOREM PortableRight == AluSpec => []PortableIsHigh
<1>1. AluInv => PortableIsHigh
  <2> SUFFICES ASSUME NEW a \in Regs, NEW b \in Regs, a = X1, b = X2
               PROVE  PortableIsHigh
    BY AluOperands
  <2>1. PICK h \in Nat \ {0}, w \in Nat \ {0} : h = 2^Half /\ w = 2^Bits /\ w = h * h /\ w = W
    BY Widths DEF H, W
  <2>2. a \in Int /\ b \in Int
    BY Ranges
  <2>3. PICK a1 \in Int, a0 \in 0 .. h - 1 : a1 = a \div h /\ a0 = a % h /\ a = h * a1 + a0
    BY <2>2, Digits
  <2>4. PICK b1 \in Int, b0 \in 0 .. h - 1 : b1 = b \div h /\ b0 = b % h /\ b = h * b1 + b0
    BY <2>2, Digits
  <2>5. PICK ab \in Int, ba \in Int, lo \in Int : ab = a1 * b0 /\ ba = b1 * a0 /\ lo = a0 * b0
    OBVIOUS
  <2>6. PICK q1 \in Int, r1 \in 0 .. h - 1 : q1 = ab \div h /\ r1 = ab % h /\ ab = h * q1 + r1
    BY Digits
  <2>7. PICK q2 \in Int, r2 \in 0 .. h - 1 : q2 = ba \div h /\ r2 = ba % h /\ ba = h * q2 + r2
    BY Digits
  <2>8. PICK q3 \in Int, r3 \in 0 .. h - 1 : q3 = lo \div h /\ r3 = lo % h /\ lo = h * q3 + r3
    BY Digits
  <2>9. PICK mid \in Int : mid = r1 + r2 + q3
    OBVIOUS
  <2>10. PICK c \in Int, r4 \in 0 .. h - 1 : c = mid \div h /\ r4 = mid % h /\ mid = h * c + r4
    BY Digits
  <2>11. PICK z \in Int, r \in Int : z = a1 * b1 + q1 + q2 + c /\ r = h * r4 + r3
    BY SMTT(30)
  <2>12. a * b = w * z + r
    <3>1. /\ a0 \in Int /\ b0 \in Int /\ r1 \in Int /\ r2 \in Int /\ r3 \in Int /\ r4 \in Int
          /\ a1 * b0 = h * q1 + r1 /\ b1 * a0 = h * q2 + r2 /\ a0 * b0 = h * q3 + r3
          /\ r1 + r2 + q3 = h * c + r4
      BY <2>5, <2>6, <2>7, <2>8, <2>9, <2>10, SMTT(30)
    <3>2. (h * a1 + a0) * (h * b1 + b0) = (h * h) * (a1 * b1 + q1 + q2 + c) + (h * r4 + r3)
      BY <3>1, Columns
    <3> QED
      BY <2>1, <2>3, <2>4, <2>11, <3>2, ZenonT(30)
  <2>13. r \in 0 .. w - 1
    <3>1. h * r4 <= h * (h - 1) /\ h * r4 >= 0
      OBVIOUS
    <3>2. h * (h - 1) = h * h - h
      OBVIOUS
    <3>3. PICK x \in Int, y \in Int : x = h * r4 /\ y = h * h
      OBVIOUS
    <3> QED
      BY <2>1, <2>11, <3>1, <3>2, <3>3
  <2>14. (w * z + r) \div w = z
    BY <2>13, Quotient
  <2>15. MulUint64Hi(a, b) = z
    BY <2>1, <2>12, <2>14 DEF MulUint64Hi
  <2>16. Reg(z) = z
    BY <2>15, MulHiFits, ReadBack
  <2>17. PortableMulUnsignedHi(a, b) = Reg(z)
    <3>1. PortableMulUnsignedHi(a, b) = Reg(a1 * b1 + q1 + q2 + c)
      BY <2>1, <2>3, <2>4, <2>5, <2>6, <2>7, <2>8, <2>9, <2>10, ZenonT(30) DEF PortableMulUnsignedHi
    <3> QED
      BY <2>11, <3>1, Zenon
  <2> QED
    BY <2>15, <2>16, <2>17 DEF PortableIsHigh
<1> QED
  BY <1>1, AluInitInv, AluNextInv, PTL DEF AluSpec

\* The product of the absolute values is the product, up to its sign.
LEMMA AbsProduct ==
  ASSUME NEW x \in Int, NEW y \in Int
  PROVE  x * y = IF (x < 0) # (y < 0) THEN -(Abs(x) * Abs(y)) ELSE Abs(x) * Abs(y)
<1>1. (-x) * y = -(x * y) /\ x * (-y) = -(x * y) /\ (-x) * (-y) = x * y
  OBVIOUS
<1>2. PICK u \in Int, v \in Int, p \in Int : u = -x /\ v = -y /\ p = x * y
  OBVIOUS
<1>3. u * y = -p /\ x * v = -p /\ u * v = p /\ -(-p) = p
  BY <1>1, <1>2
<1>4. CASE x < 0 /\ y < 0
  BY <1>2, <1>3, <1>4 DEF Abs
<1>5. CASE x < 0 /\ ~ (y < 0)
  BY <1>2, <1>3, <1>5 DEF Abs
<1>6. CASE ~ (x < 0) /\ y < 0
  BY <1>2, <1>3, <1>6 DEF Abs
<1>7. CASE ~ (x < 0) /\ ~ (y < 0)
  BY <1>7 DEF Abs
<1> QED
  BY <1>4, <1>5, <1>6, <1>7

\* The high half of a negated product: a borrow unless the low half is 0.
LEMMA NegatedHigh ==
  ASSUME NEW m \in Nat \ {0}, NEW p \in Int, NEW n \in Int, n = -p
  PROVE  /\ n \div m = IF n % m = 0 THEN -(p \div m) ELSE -(p \div m) - 1
         /\ p \div m \in Int
<1>1. PICK q \in Int, r \in 0 .. m - 1 : q = p \div m /\ r = p % m /\ p = m * q + r
  BY Digits
<1>2. PICK k \in Int, s \in 0 .. m - 1 :
        /\ k = IF r = 0 THEN -q ELSE -q - 1
        /\ s = IF r = 0 THEN 0 ELSE m - r
  <2>1. (IF r = 0 THEN -q ELSE -q - 1) \in Int
    OBVIOUS
  <2>2. (IF r = 0 THEN 0 ELSE m - r) \in 0 .. m - 1
    OBVIOUS
  <2> QED
    BY <2>1, <2>2, Zenon
<1>3. n = m * k + s
  <2>1. m * (-q) = -(m * q) /\ m * (-q - 1) = -(m * q) - m
    OBVIOUS
  <2>2. PICK x \in Int : x = m * q
    OBVIOUS
  <2>3. m * k = IF r = 0 THEN -x ELSE -x - m
    BY <1>2, <2>1, <2>2
  <2> QED
    BY <1>1, <1>2, <2>2, <2>3
<1>4. n \div m = k /\ n % m = s
  BY <1>3, Quotient
<1>5. s = 0 <=> r = 0
  BY <1>2
<1> QED
  BY <1>1, <1>2, <1>4, <1>5

\* The negated high half borrows exactly when the low half is not 0.
LEMMA MulhHigh ==
  ASSUME NEW a \in Regs, NEW b \in Regs
  PROVE  RegTypeExec(a, b).MULH = Reg((I64(a) * I64(b)) \div 2^Bits)
<1>1. a \in Int /\ b \in Int /\ I64(a) \in Int /\ I64(b) \in Int
  BY Ranges, Types
<1>2. PICK x \in Int, y \in Int : x = I64(a) /\ y = I64(b)
  BY <1>1
<1>3. Abs(x) \in Regs /\ Abs(y) \in Regs
  BY <1>1, <1>2, I64Facts, AbsFits
<1>4. PICK p \in Int, n \in Int : p = Abs(x) * Abs(y) /\ n = -p
  <2>1. Abs(x) \in Int /\ Abs(y) \in Int
    BY <1>3, Ranges, Zenon
  <2> QED
    BY <2>1
<1>5. PICK w \in Nat \ {0} : w = W /\ w = 2^Bits
  BY Widths DEF W
<1>6. PICK res \in Regs : res = p \div w /\ res = MulUint64Hi(Abs(x), Abs(y))
  BY <1>3, <1>4, <1>5, MulHiFits DEF MulUint64Hi
<1>7. x * y = IF (x < 0) # (y < 0) THEN n ELSE p
  BY <1>4, AbsProduct, ZenonT(30)
<1>8. Reg(a * b) = Reg(x * y)
  <2>1. Cong(x, a, W) /\ Cong(y, b, W)
    BY <1>1, <1>2, I64Facts
  <2>2. Cong(x * y, a * b, W)
    BY <2>1, Ranges, CongMul
  <2> QED
    BY <2>2, RegIs
<1>9. RegTypeExec(a, b).MULH = Mulh(a, b)
  BY DEF RegTypeExec
<1>10. CASE (x < 0) # (y < 0)
  <2>1. x * y = n /\ Reg(a * b) = n % w
    BY <1>5, <1>7, <1>8, <1>10 DEF Reg
  <2>2. PICK t \in {0, 1} : t = Bool(n % w = 0)
    BY BoolFits
  <2>3. Mulh(a, b) = Reg(Complement(res) + t)
    BY <1>2, <1>6, <1>10, <2>1, <2>2 DEF Mulh
  <2>4. res \in Int /\ Complement(res) = w - 1 - res
    BY <1>5, Ranges DEF Complement
  <2>5. n \div w = -res - 1 + t
    <3>1. n \div w = IF n % w = 0 THEN -res ELSE -res - 1
      <4>1. n \div w = IF n % w = 0 THEN -(p \div w) ELSE -(p \div w) - 1
        BY <1>4, NegatedHigh
      <4> QED
        BY <1>6, <4>1
    <3>2. t = IF n % w = 0 THEN 1 ELSE 0
      BY <2>2 DEF Bool
    <3> QED
      BY <2>4, <3>1, <3>2
  <2>6. PICK c \in Int, d \in Int, k \in Int :
          c = Complement(res) + t /\ d = n \div w /\ k = 1
    BY <2>4, <2>5
  <2>7. c = d + w * k
    BY <2>4, <2>5, <2>6
  <2>8. Cong(c, d, w)
    BY <2>7, CongBy, Zenon
  <2>9. Reg(c) = Reg(d)
    BY <1>5, <2>8, RegIs
  <2> QED
    BY <1>2, <1>5, <1>9, <2>1, <2>3, <2>6, <2>9, Zenon
<1>11. CASE ~ ((x < 0) # (y < 0))
  <2>1. x * y = p
    BY <1>7, <1>11
  <2>2. Mulh(a, b) = res
    BY <1>2, <1>6, <1>11 DEF Mulh
  <2>3. Reg(res) = res
    BY Ranges, ReadBack
  <2> QED
    BY <1>2, <1>5, <1>6, <1>9, <2>1, <2>2, <2>3
<1> QED
  BY <1>10, <1>11

\* MULH is the high half of the signed product (MulhIsHigh).
THEOREM MulhRight == AluSpec => []MulhIsHigh
<1>1. AluInv => MulhIsHigh
  BY AluOperands, MulhHigh DEF MulhIsHigh
<1> QED
  BY <1>1, AluInitInv, AluNextInv, PTL DEF AluSpec
=============================================================================
