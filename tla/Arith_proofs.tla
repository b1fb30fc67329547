---------------------------- MODULE Arith_proofs ----------------------------
(* Every operation that gets through the patterns means what MIR says, at every*)
(* width: first what registers do to integers, then each kind of operation,    *)
(* then the invariant that carries the kinds through the stages.               *)
EXTENDS Arith, WellFoundedInduction, TLAPS

Half(h) == h \in Nat \ {0}

(***************************************************************************)
(* Powers of two, and the bits of a register *)

Pos == Nat \ {0}
Divides(d, n) == n % d = 0
Multiple(h, g) == \E k \in 1..h : h = k * g
Width(h) == h \in Pos /\ PowerOfTwo(h)

(* A set of naturals has a least element. *)
LEMMA Least ==
  ASSUME NEW T, T \subseteq Nat, T # {}
  PROVE  \E n \in T : \A m \in T : n <= m
<1> DEFINE Less == OpToRel(<, Nat)
<1>1. IsWellFoundedOn(Less, Nat)
  BY NatLessThanWellFounded
<1>2. \A m, n \in Nat : m < n => <<m, n>> \in Less
  BY DEF OpToRel
<1> HIDE DEF Less
<1>3. \E x \in T : \A y \in T : ~ (<<y, x>> \in Less)
  BY <1>1, WFMin
<1>4. PICK x \in T : \A y \in T : ~ (<<y, x>> \in Less)
  BY <1>3
<1>5. ASSUME NEW y \in T PROVE x <= y
  <2>1. x \in Nat /\ y \in Nat /\ ~(y < x)
    BY <1>2, <1>4
  <2> QED BY <2>1
<1> QED BY <1>5

LEMMA DivideUnique ==
  ASSUME NEW d \in Pos, NEW q \in Int, NEW r \in 0..(d - 1), NEW n \in Int, n = d * q + r
  PROVE  n \div d = q /\ n % d = r
BY DEF Pos

LEMMA DivideSplit ==
  ASSUME NEW d \in Pos, NEW n \in Int
  PROVE  n \div d \in Int /\ n % d \in 0..(d - 1) /\ n = d * (n \div d) + (n % d)
<1>1. d \in Nat /\ d > 0
  BY DEF Pos
<1> QED BY <1>1

(* d divides n when n is a product of d. *)
LEMMA Factor ==
  ASSUME NEW d \in Pos, NEW n \in Pos
  PROVE  Divides(d, n) <=> \E k \in Pos : n = d * k
<1>1. ASSUME Divides(d, n) PROVE \E k \in Pos : n = d * k
  <2> DEFINE k == n \div d
  <2>1. k \in Int /\ n = d * k
    <3>1. n % d = 0 /\ k \in Int /\ n = d * k + (n % d) /\ d \in Int
      BY <1>1, DivideSplit DEF Divides, Pos
    <3> HIDE DEF k
    <3>2. d * k + 0 = d * k
      BY <3>1
    <3> QED BY <3>1, <3>2
  <2> HIDE DEF k
  <2>2. k > 0
    BY <2>1 DEF Pos
  <2>3. k \in Pos
    BY <2>1, <2>2 DEF Pos
  <2> QED BY <2>1, <2>3
<1>2. ASSUME NEW k \in Pos, n = d * k PROVE Divides(d, n)
  <2>1. n = d * k + 0 /\ 0 \in 0..(d - 1) /\ k \in Int /\ n \in Int
    BY <1>2 DEF Pos
  <2> QED BY <2>1, DivideUnique DEF Divides
<1> QED BY <1>1, <1>2

LEMMA DividesLess ==
  ASSUME NEW d \in Pos, NEW n \in Pos, Divides(d, n)
  PROVE  d <= n
<1>1. PICK k \in Pos : n = d * k
  BY Factor
<1>2. d * k >= d
  BY DEF Pos
<1>3. d * k \in Nat /\ d \in Nat /\ n \in Nat
  BY DEF Pos
<1> QED BY <1>1, <1>2, <1>3

LEMMA DividesTransitive ==
  ASSUME NEW d \in Pos, NEW n \in Pos, NEW m \in Pos, Divides(d, n), Divides(n, m)
  PROVE  Divides(d, m)
<1>1. PICK j \in Pos : n = d * j
  BY Factor
<1>2. PICK k \in Pos : m = n * k
  BY Factor
<1>3. m = d * (j * k) /\ j * k \in Pos
  <2>1. (d * j) * k = d * (j * k) /\ j * k \in Pos
    BY DEF Pos
  <2> QED BY <1>1, <1>2, <2>1
<1> QED BY <1>3, Factor

(* A divisor of a power of two is one itself. *)
LEMMA PowerDivisor ==
  ASSUME NEW h, Width(h), NEW p \in Pos, Divides(p, h)
  PROVE  Width(p)
<1>1. h \in Pos
  BY DEF Width, PowerOfTwo, Pos
<1>2. ASSUME NEW d \in 2..p, p % d = 0 PROVE d % 2 = 0
  <2>1. d \in Pos
    BY DEF Pos
  <2>2. Divides(d, h)
    BY <1>1, <1>2, <2>1, DividesTransitive DEF Divides
  <2>3. d <= h
    BY <1>1, <2>1, <2>2, DividesLess
  <2>4. d \in 2..h
    BY <1>1, <2>3 DEF Pos
  <2> QED BY <2>2, <2>4 DEF Width, PowerOfTwo, Divides
<1> QED BY <1>2 DEF Width, PowerOfTwo, Pos

(* A power of two above 1 is twice another, and their divisors are the same    *)
(* but for the larger itself.                                                  *)
LEMMA PowerHalf ==
  ASSUME NEW p, Width(p), p # 1
  PROVE  \E q \in Pos : /\ p = 2 * q /\ Width(q)
                        /\ \A d \in Pos : Divides(d, p) <=> d = p \/ Divides(d, q)
<1>1. p \in Pos /\ p \in 2..p
  BY DEF Width, PowerOfTwo, Pos
<1>2. Divides(p, p)
  <2>1. p = p * 1 /\ 1 \in Pos
    BY <1>1 DEF Pos
  <2> QED BY <1>1, <2>1, Factor
<1>3. p % 2 = 0
  BY <1>1, <1>2 DEF Width, PowerOfTwo, Divides
<1>4. 2 \in Pos
  BY DEF Pos
<1>5. PICK q \in Pos : p = 2 * q
  BY <1>1, <1>3, <1>4, Factor DEF Divides
<1>6. Divides(q, p)
  <2>1. p = q * 2
    BY <1>5 DEF Pos
  <2> QED BY <1>1, <1>4, <2>1, Factor
<1>7. Width(q)
  BY <1>6, PowerDivisor
<1>8. ASSUME NEW d \in Pos, Divides(d, p), d # p PROVE Divides(d, q)
  <2>1. PICK k \in Pos : p = d * k
    BY <1>1, <1>8, Factor
  <2>2. k # 1
    <3> SUFFICES ASSUME k = 1 PROVE FALSE
      OBVIOUS
    <3>1. d * 1 = d
      BY DEF Pos
    <3> QED BY <1>8, <2>1, <3>1
  <2>3. Divides(k, p)
    <3>1. p = k * d
      BY <2>1 DEF Pos
    <3> QED BY <1>1, <3>1, Factor
  <2>4. k <= p
    BY <1>1, <2>3, DividesLess
  <2>5. k \in 2..p
    BY <1>1, <2>2, <2>4 DEF Pos
  <2>6. k % 2 = 0
    BY <2>3, <2>5 DEF Width, PowerOfTwo, Divides
  <2>7. PICK j \in Pos : k = 2 * j
    BY <1>4, <2>6, Factor DEF Divides
  <2>8. 2 * q = 2 * (d * j)
    <3>1. d * (2 * j) = 2 * (d * j)
      BY DEF Pos
    <3> QED BY <1>5, <2>1, <2>7, <3>1
  <2>9. q = d * j
    <3>1. q \in Int /\ d * j \in Int
      BY DEF Pos
    <3> QED BY <2>8, <3>1
  <2> QED BY <2>9, Factor
<1>9. ASSUME NEW d \in Pos, Divides(d, q) PROVE Divides(d, p)
  BY <1>1, <1>6, <1>9, DividesTransitive
<1> QED BY <1>2, <1>5, <1>7, <1>8, <1>9

(* Of two powers of two the larger is a multiple of the other. *)
LEMMA PowersDivide ==
  ASSUME NEW h, Width(h), NEW g, Width(g), g <= h
  PROVE  Multiple(h, g)
<1> DEFINE Bad == {n \in Nat : /\ Width(n)
                               /\ \E k : Width(k) /\ k <= n /\ ~Divides(k, n)}
<1>1. h \in Pos /\ g \in Pos
  BY DEF Width, PowerOfTwo, Pos
<1>2. Bad = {}
  <2> SUFFICES ASSUME Bad # {} PROVE FALSE
    OBVIOUS
  <2>1. PICK n \in Bad : \A m \in Bad : n <= m
    <3>1. Bad \subseteq Nat
      OBVIOUS
    <3> HIDE DEF Bad
    <3> QED BY <3>1, Least
  <2>2. PICK k : Width(k) /\ k <= n /\ ~Divides(k, n)
    OBVIOUS
  <2>3. n \in Pos /\ k \in Pos /\ Width(n)
    BY <2>2 DEF Width, PowerOfTwo, Pos
  <2>4. k # 1
    <3>1. n = 1 * n
      BY <2>3 DEF Pos
    <3>2. 1 \in Pos
      BY DEF Pos
    <3>3. Divides(1, n)
      BY <2>3, <3>1, <3>2, Factor
    <3> QED BY <2>2, <3>3
  <2>5. n # 1
    BY <2>2, <2>3, <2>4 DEF Pos
  <2>6. PICK q \in Pos : n = 2 * q /\ Width(q)
    BY <2>3, <2>5, PowerHalf
  <2>7. PICK j \in Pos : k = 2 * j /\ Width(j)
    BY <2>2, <2>4, PowerHalf
  <2>8. j <= q /\ ~(n <= q) /\ q \in Nat
    BY <2>2, <2>6, <2>7 DEF Pos
  <2>9. Divides(j, q)
    BY <2>1, <2>6, <2>7, <2>8
  <2>10. PICK i \in Pos : q = j * i
    BY <2>9, Factor
  <2>11. n = k * i
    <3>1. 2 * (j * i) = (2 * j) * i
      BY DEF Pos
    <3> QED BY <2>6, <2>7, <2>10, <3>1
  <2>12. Divides(k, n)
    BY <2>3, <2>11, Factor
  <2> QED BY <2>2, <2>12
<1>3. Divides(g, h)
  BY <1>1, <1>2 DEF Pos
<1>4. PICK k \in Pos : h = g * k
  BY <1>1, <1>3, Factor
<1>5. h = k * g
  BY <1>1, <1>4 DEF Pos
<1>6. Divides(k, h)
  BY <1>1, <1>5, Factor
<1>7. k <= h
  BY <1>1, <1>6, DividesLess
<1> QED BY <1>1, <1>5, <1>7 DEF Multiple, Pos

(* A multiple of twice a number does not change the bit of the number. *)
LEMMA BitBelow ==
  ASSUME NEW q \in Pos, NEW d \in Pos, Divides(d, q), NEW m \in Nat
  PROVE  ((m + 2 * q) \div d) % 2 = (m \div d) % 2
<1>1. PICK k \in Pos : q = d * k
  BY Factor
<1> DEFINE a == m \div d
           r == m % d
<1>2. a \in Int /\ r \in 0..(d - 1) /\ m = d * a + r
  <2>1. m \in Int
    OBVIOUS
  <2> QED BY <2>1, DivideSplit
<1> HIDE DEF a, r
<1>3. d \in Int /\ k \in Int /\ q \in Int
  BY DEF Pos
<1>4. m + 2 * q = d * (a + 2 * k) + r
  <2>1. d * (a + 2 * k) = d * a + 2 * (d * k)
    BY <1>2, <1>3
  <2>2. d * a \in Int /\ r \in Int
    BY <1>2, <1>3
  <2> QED BY <1>1, <1>2, <1>3, <2>1, <2>2
<1>5. (m + 2 * q) \div d = a + 2 * k
  <2>1. a + 2 * k \in Int /\ m + 2 * q \in Int
    BY <1>2, <1>3
  <2> QED BY <1>2, <1>4, <2>1, DivideUnique
<1>6. (a + 2 * k) % 2 = a % 2
  BY <1>2, <1>3
<1> QED BY <1>5, <1>6 DEF a

(* Every set of bits is that of a register. *)
LEMMA BitsExist ==
  ASSUME NEW h, Width(h), NEW B, B \subseteq 1..h,
         \A p \in B : h % p = 0
  PROVE  \E n \in 0..(2 * h - 1) : Bits(n, h) = B
<1> DEFINE Divisors(p) == {d \in Pos : Divides(d, p)}
           Realised(p, C) == \E n \in 0..(2 * p - 1) :
                               \A d \in Divisors(p) : (n \div d) % 2 = 1 <=> d \in C
           Bad == {p \in Nat : Width(p) /\ ~Realised(p, B)}
<1>1. Bad = {}
  <2> SUFFICES ASSUME Bad # {} PROVE FALSE
    OBVIOUS
  <2>1. PICK p \in Bad : \A m \in Bad : p <= m
    <3>1. Bad \subseteq Nat
      OBVIOUS
    <3> HIDE DEF Bad
    <3> QED BY <3>1, Least
  <2>2. Width(p) /\ p \in Pos /\ p \in Nat
    BY DEF Width, PowerOfTwo, Pos
  <2>3. p # 1
    <3> SUFFICES ASSUME p = 1 PROVE FALSE
      OBVIOUS
    <3>1. \A d \in Divisors(1) : d = 1
      <4> SUFFICES ASSUME NEW d \in Pos, Divides(d, 1) PROVE d = 1
        OBVIOUS
      <4>1. 1 \in Pos
        BY DEF Pos
      <4>2. d <= 1
        BY <4>1, DividesLess
      <4> QED BY <4>2 DEF Pos
    <3>2. (0 \div 1) % 2 = 0 /\ (1 \div 1) % 2 = 1
      OBVIOUS
    <3>3. 0 \in 0..(2 * 1 - 1) /\ 1 \in 0..(2 * 1 - 1)
      OBVIOUS
    <3>4. Realised(1, B)
      <4> HIDE DEF Divisors
      <4>1. CASE 1 \in B
        BY <3>1, <3>2, <3>3, <4>1
      <4>2. CASE 1 \notin B
        BY <3>1, <3>2, <3>3, <4>2
      <4> QED BY <4>1, <4>2
    <3> HIDE DEF Realised
    <3> QED BY <3>4
  <2>4. PICK q \in Pos : /\ p = 2 * q /\ Width(q)
                         /\ \A d \in Pos : Divides(d, p) <=> d = p \/ Divides(d, q)
    BY <2>2, <2>3, PowerHalf
  <2>5. q \in Nat /\ q \in Int /\ ~(p <= q)
    BY <2>4 DEF Pos
  <2>6. PICK m \in 0..(2 * q - 1) :
          \A d \in Divisors(q) : (m \div d) % 2 = 1 <=> d \in B
    <3>1. q \notin Bad
      <4> HIDE DEF Bad
      <4> QED BY <2>1, <2>5
    <3> HIDE DEF Divisors
    <3> QED BY <2>4, <2>5, <3>1
  <2> DEFINE n == IF p \in B THEN m + 2 * q ELSE m
  <2>7. m \in Nat /\ m \in 0..(p - 1) /\ n \in 0..(2 * p - 1)
    BY <2>2, <2>4, <2>5
  <2>8. (n \div p) % 2 = 1 <=> p \in B
    <3>1. CASE p \in B
      <4>1. n = p * 1 + m
        BY <2>2, <2>4, <2>7, <3>1
      <4>2. n \div p = 1
        <5> HIDE DEF n
        <5>1. n \in Int
          BY <2>7
        <5> QED BY <2>2, <2>7, <4>1, <5>1, DivideUnique
      <4> HIDE DEF n
      <4> QED BY <3>1, <4>2
    <3>2. CASE p \notin B
      <4>1. n = p * 0 + m
        BY <2>2, <2>7, <3>2
      <4>2. n \div p = 0
        <5> HIDE DEF n
        <5>1. n \in Int
          BY <2>7
        <5> QED BY <2>2, <2>7, <4>1, <5>1, DivideUnique
      <4> HIDE DEF n
      <4> QED BY <3>2, <4>2
    <3> QED BY <3>1, <3>2
  <2>9. ASSUME NEW d \in Pos, Divides(d, q) PROVE (n \div d) % 2 = 1 <=> d \in B
    <3>1. (n \div d) % 2 = (m \div d) % 2
      <4>1. CASE p \in B
        BY <2>7, <2>9, <4>1, BitBelow
      <4>2. CASE p \notin B
        BY <4>2
      <4> QED BY <4>1, <4>2
    <3> HIDE DEF n
    <3> QED BY <2>6, <2>9, <3>1
  <2>10. Realised(p, B)
    <3> HIDE DEF n
    <3> QED BY <2>4, <2>7, <2>8, <2>9
  <2> HIDE DEF Realised
  <2> QED BY <2>10
<1>2. h \in Pos /\ h \in Nat
  BY DEF Width, PowerOfTwo, Pos
<1>3. PICK n \in 0..(2 * h - 1) : \A d \in Divisors(h) : (n \div d) % 2 = 1 <=> d \in B
  <2> HIDE DEF Divisors
  <2> QED BY <1>1, <1>2
<1>4. Bits(n, h) = B
  <2>1. ASSUME NEW p \in Bits(n, h) PROVE p \in B
    BY <1>3 DEF Bits, Divides, Pos
  <2>2. ASSUME NEW p \in B PROVE p \in Bits(n, h)
    BY <1>3 DEF Bits, Divides, Pos
  <2> QED BY <2>1, <2>2
<1> QED BY <1>4

(* Bits given back as a register. *)
LEMMA OfBitsRegister ==
  ASSUME NEW h, Width(h), NEW B, B \subseteq 1..h, \A p \in B : h % p = 0
  PROVE  OfBits(B, h) \in 0..(2 * h - 1)
BY BitsExist DEF OfBits

(***************************************************************************)
(* Registers: truncation, and reading a register as signed *)

(* An integer and the register it is truncated to. *)
LEMMA RegSplit ==
    ASSUME NEW n \in Int, NEW h, Half(h)
    PROVE  /\ Reg(n, h) \in 0..(2 * h - 1)
           /\ n \div (2 * h) \in Int
           /\ n = (2 * h) * (n \div (2 * h)) + Reg(n, h)
<1> DEFINE m == 2 * h
<1>1. m \in Nat /\ m > 0
  BY DEF Half
<1> HIDE DEF m
<1>2. n % m \in 0..(m - 1) /\ n \div m \in Int /\ n = m * (n \div m) + (n % m)
  BY <1>1
<1> QED
  BY <1>2 DEF Reg, m

(* ... which only one register can be. *)
LEMMA RegUnique ==
    ASSUME NEW n \in Int, NEW h, Half(h), NEW q \in Int, NEW r \in 0..(2 * h - 1),
           n = (2 * h) * q + r
    PROVE  Reg(n, h) = r /\ n \div (2 * h) = q
<1> DEFINE m == 2 * h
<1>1. m \in Nat /\ m > 0 /\ r \in 0..(m - 1) /\ n = m * q + r
  BY DEF Half
<1> HIDE DEF m
<1>2. n % m = r /\ n \div m = q
  BY <1>1
<1> QED
  BY <1>2 DEF Reg, m

(* Integers that differ by a multiple of the modulus have the same register. *)
LEMMA RegCongruent ==
    ASSUME NEW a \in Int, NEW b \in Int, NEW h, Half(h), NEW q \in Int,
           a = b + (2 * h) * q
    PROVE  Reg(a, h) = Reg(b, h)
<1> DEFINE r == Reg(b, h)
           k == b \div (2 * h)
<1>1. r \in 0..(2 * h - 1) /\ k \in Int /\ b = (2 * h) * k + r
  BY RegSplit
<1> HIDE DEF r, k
<1>2. h \in Int
  BY DEF Half
<1>3. a = (2 * h) * (k + q) + r
  BY <1>1, <1>2
<1>4. k + q \in Int
  BY <1>1
<1>5. Reg(a, h) = r
  BY <1>1, <1>3, <1>4, RegUnique
<1> QED
  BY <1>5 DEF r

(* A register's own value is not truncated. *)
LEMMA RegSmall ==
    ASSUME NEW h, Half(h), NEW n \in 0..(2 * h - 1)
    PROVE  Reg(n, h) = n
<1>1. n \in Int /\ 0 \in Int /\ h \in Int
  BY DEF Half
<1>2. n = (2 * h) * 0 + n
  BY <1>1
<1> QED
  BY <1>1, <1>2, RegUnique

(* Truncating the operands first changes no sum, difference or product. *)
LEMMA RegOperands ==
    ASSUME NEW a \in Int, NEW b \in Int, NEW h, Half(h)
    PROVE  /\ Reg(Reg(a, h) + Reg(b, h), h) = Reg(a + b, h)
           /\ Reg(Reg(a, h) - Reg(b, h), h) = Reg(a - b, h)
           /\ Reg(Reg(a, h) * Reg(b, h), h) = Reg(a * b, h)
           /\ Reg(Reg(a, h) * b, h) = Reg(a * b, h)
           /\ Reg(0 - Reg(a, h), h) = Reg(-a, h)
<1> DEFINE x == Reg(a, h)
           y == Reg(b, h)
           p == a \div (2 * h)
           q == b \div (2 * h)
           m == 2 * h
<1>1. x \in Int /\ p \in Int /\ a = m * p + x
  BY RegSplit
<1>2. y \in Int /\ q \in Int /\ b = m * q + y
  BY RegSplit
<1>3. m \in Int
  BY DEF Half
<1> SUFFICES /\ Reg(x + y, h) = Reg(a + b, h)
             /\ Reg(x - y, h) = Reg(a - b, h)
             /\ Reg(x * y, h) = Reg(a * b, h)
             /\ Reg(x * b, h) = Reg(a * b, h)
             /\ Reg(0 - x, h) = Reg(-a, h)
  OBVIOUS
<1> HIDE DEF x, y, p, q, m
<1>4. /\ \A c, d, k \in Int : c = d + m * k => Reg(c, h) = Reg(d, h)
  BY RegCongruent DEF m
<1>5. a + b = (x + y) + m * (p + q)
  BY <1>1, <1>2, <1>3
<1>6. a - b = (x - y) + m * (p - q)
  BY <1>1, <1>2, <1>3
<1>7. a * b = x * b + m * (p * b)
  BY <1>1, <1>3
<1>8. x * b = x * y + m * (x * q)
  BY <1>1, <1>2, <1>3
<1>9. -a = (0 - x) + m * (-p)
  BY <1>1, <1>3
<1>10. Reg(x * b, h) = Reg(a * b, h)
  <2>1. a * b \in Int /\ x * b \in Int /\ p * b \in Int
    BY <1>1
  <2> QED
    BY <2>1, <1>4, <1>7
<1>11. Reg(x * y, h) = Reg(x * b, h)
  <2>1. x * b \in Int /\ x * y \in Int /\ x * q \in Int
    BY <1>1, <1>2
  <2> QED
    BY <2>1, <1>4, <1>8
<1> QED
  BY <1>1, <1>2, <1>4, <1>5, <1>6, <1>9, <1>10, <1>11

(***************************************************************************)
(* Types: what a register says of a value, read with the type's sign *)

(* A register read with a type is the wrapped integer. *)
LEMMA DecodeReg ==
    ASSUME NEW t, IntType(t), NEW n \in Int
    PROVE  Decode(Reg(n, t.half), t) = Wrapped(n, t)
<1> DEFINE h == t.half
           x == Reg(n, h)
           q == n \div (2 * h)
<1>1. Half(h)
  BY DEF IntType, Half
<1>2. x \in 0..(2 * h - 1) /\ q \in Int /\ n = (2 * h) * q + x
  BY <1>1, RegSplit
<1>3. h \in Nat /\ h > 0
  BY <1>1 DEF Half
<1>4. t.class = "int" /\ t.signed \in BOOLEAN
  BY DEF IntType
<1>5. CASE ~t.signed
  <2>1. Wrapped(n, t) = x
    BY <1>2, <1>3, <1>5 DEF Wrapped, Lowest, Reg
  <2> QED
    BY <2>1, <1>5 DEF Decode
<1>6. CASE t.signed
  <2> HIDE DEF x, q, h
  <2>1. CASE x < h
    <3>1. n + h = (2 * h) * q + (x + h) /\ x + h \in 0..(2 * h - 1) /\ n + h \in Int
      BY <2>1, <1>2, <1>3
    <3>2. Reg(n + h, h) = x + h
      BY <3>1, <1>1, <1>2, RegUnique
    <3>3. Sgn(x, h) = x
      BY <2>1 DEF Sgn
    <3>4. (n + h) % (2 * h) = x + h
      BY <3>2 DEF Reg
    <3> QED
      BY <3>3, <3>4, <1>2, <1>3, <1>4, <1>6 DEF Decode, Wrapped, Lowest, x, h
  <2>2. CASE ~(x < h)
    <3>1. n + h = (2 * h) * (q + 1) + (x - h) /\ x - h \in 0..(2 * h - 1) /\ n + h \in Int
      BY <2>2, <1>2, <1>3
    <3>2. q + 1 \in Int
      BY <1>2
    <3>3. Reg(n + h, h) = x - h
      BY <3>1, <3>2, <1>1, RegUnique
    <3>4. Sgn(x, h) = x - 2 * h
      BY <2>2 DEF Sgn
    <3>5. (n + h) % (2 * h) = x - h
      BY <3>3 DEF Reg
    <3> QED
      BY <3>4, <3>5, <1>2, <1>3, <1>4, <1>6 DEF Decode, Wrapped, Lowest, x, h
  <2> QED
    BY <2>1, <2>2
<1> QED
  BY <1>4, <1>5, <1>6

(* An integer of a type is not changed by wrapping it to the type. *)
LEMMA WrappedFits ==
    ASSUME NEW t, IntType(t), NEW n \in Int, Fits(n, t)
    PROVE  Wrapped(n, t) = n
<1> DEFINE h == t.half
           k == n - Lowest(t)
<1>1. h \in Nat /\ h > 0 /\ Half(h)
  BY DEF IntType, Half
<1>2. Lowest(t) \in Int /\ k \in 0..(2 * h - 1)
  BY <1>1 DEF Fits, Lowest, Highest
<1> HIDE DEF k, h
<1>3. Reg(k, h) = k
  BY <1>1, <1>2, RegSmall
<1> QED
  BY <1>2, <1>3 DEF Wrapped, Reg, k, h

(* A register that holds a value of the type: how it is encoded and read. *)
LEMMA EncodeDecode ==
    ASSUME NEW t, IntType(t), NEW v, InType(v, t)
    PROVE  /\ v \in Int /\ Encode(v, t) = Reg(v, t.half)
           /\ Encode(v, t) \in 0..(2 * t.half - 1)
           /\ Decode(Encode(v, t), t) = v
           /\ t.signed => Sgn(Encode(v, t), t.half) = v
           /\ ~t.signed => Encode(v, t) = v
           /\ v >= 0 => Encode(v, t) = v
<1>1. v \in Int /\ Fits(v, t) /\ Half(t.half) /\ t.class = "int" /\ t.half \in Nat
  BY DEF InType, IntType, Half
<1>2. Encode(v, t) = Reg(v, t.half)
  BY <1>1 DEF Encode
<1>3. Reg(v, t.half) \in 0..(2 * t.half - 1)
  BY <1>1, RegSplit
<1>4. Decode(Reg(v, t.half), t) = v
  BY <1>1, DecodeReg, WrappedFits
<1>5. v >= 0 => Reg(v, t.half) = v
  <2> SUFFICES ASSUME v >= 0 PROVE Reg(v, t.half) = v
    OBVIOUS
  <2>1. v \in 0..(2 * t.half - 1)
    BY <1>1 DEF Fits, Highest, IntType
  <2> QED
    BY <2>1, <1>1, RegSmall
<1> QED
  BY <1>1, <1>2, <1>3, <1>4, <1>5 DEF Decode, IntType

(***************************************************************************)
(* The operations, one kind after another *)

(* The code emitted for an operation yields what the operation means. *)
Correct(o, c) ==
    Read(Run(c, Encode(o.a, o.lhs), Encode(o.b, o.rhs)), o.res) = Meaning(o)

(* Values are read with the type of the result. *)
LEMMA ReadValue == ASSUME NEW x, NEW t PROVE Read(Value(x), t) = Value(Decode(x, t))
  BY DEF Read, Value
LEMMA ReadOther ==
    ASSUME NEW s, NEW n, NEW t
    PROVE  Read(Panic, t) = Panic /\ Read(Slice(s, n), t) = Slice(s, n)
  BY DEF Read, Panic, Slice

(* Two operands of one integer type, as registers. *)
LEMMA TwoInts ==
    ASSUME NEW o, Ints(o)
    PROVE  LET x == Encode(o.a, o.lhs)
               y == Encode(o.b, o.rhs)
               h == o.lhs.half
           IN  /\ Half(h) /\ o.a \in Int /\ o.b \in Int /\ IntType(o.lhs)
               /\ InType(o.a, o.lhs) /\ InType(o.b, o.lhs)
               /\ x = Reg(o.a, h) /\ y = Reg(o.b, h)
               /\ x \in 0..(2 * h - 1) /\ y \in 0..(2 * h - 1)
               /\ Decode(x, o.lhs) = o.a /\ Decode(y, o.lhs) = o.b
               /\ o.lhs.signed => Sgn(x, h) = o.a /\ Sgn(y, h) = o.b
               /\ ~o.lhs.signed => x = o.a /\ y = o.b
               /\ o.b >= 0 => y = o.b
<1>1. IntType(o.lhs) /\ o.rhs = o.lhs /\ InType(o.a, o.lhs) /\ InType(o.b, o.lhs)
  BY DEF Ints
<1>2. Half(o.lhs.half)
  BY <1>1 DEF IntType, Half
<1> QED
  BY <1>1, <1>2, EncodeDecode

(* Sums, differences and products wrap. *)
LEMMA AddSubMulCorrect ==
    ASSUME NEW o, WellFormed(o), NEW c, c.half = o.lhs.half,
           \/ o.kind \in {"Add", "AddUnchecked"} /\ c.ins = "addi"
           \/ o.kind \in {"Sub", "SubUnchecked"} /\ c.ins = "subi"
           \/ o.kind \in {"Mul", "MulUnchecked"} /\ c.ins = "muli"
    PROVE  Correct(o, c)
<1> DEFINE x == Encode(o.a, o.lhs)
           y == Encode(o.b, o.rhs)
           h == o.lhs.half
<1>1. Ints(o) /\ o.res = o.lhs
  BY DEF WellFormed, Arithmetic, CheckedKinds, Shifts, Orders, Refused
<1>2. /\ Half(h) /\ o.a \in Int /\ o.b \in Int /\ IntType(o.lhs)
      /\ x = Reg(o.a, h) /\ y = Reg(o.b, h)
  BY <1>1, TwoInts
<1> HIDE DEF x, y
<1>3. /\ Reg(x + y, h) = Reg(o.a + o.b, h)
      /\ Reg(x - y, h) = Reg(o.a - o.b, h)
      /\ Reg(x * y, h) = Reg(o.a * o.b, h)
  BY <1>2, RegOperands
<1>4. /\ Decode(Reg(o.a + o.b, h), o.res) = Wrapped(o.a + o.b, o.res)
      /\ Decode(Reg(o.a - o.b, h), o.res) = Wrapped(o.a - o.b, o.res)
      /\ Decode(Reg(o.a * o.b, h), o.res) = Wrapped(o.a * o.b, o.res)
  <2>1. o.a + o.b \in Int /\ o.a - o.b \in Int /\ o.a * o.b \in Int
    BY <1>2
  <2> QED
    BY <1>1, <1>2, <2>1, DecodeReg
<1>5. CASE o.kind \in {"Add", "AddUnchecked"} /\ c.ins = "addi"
  <2>1. Meaning(o) = Value(Wrapped(o.a + o.b, o.res))
    BY <1>5 DEF Meaning, Orders, CheckedKinds
  <2>2. Run(c, x, y) = Value(Reg(x + y, h))
    BY <1>5 DEF Run
  <2> QED
    BY <2>1, <2>2, <1>3, <1>4, ReadValue DEF Correct, x, y
<1>6. CASE o.kind \in {"Sub", "SubUnchecked"} /\ c.ins = "subi"
  <2>1. Meaning(o) = Value(Wrapped(o.a - o.b, o.res))
    BY <1>6 DEF Meaning, Orders, CheckedKinds
  <2>2. Run(c, x, y) = Value(Reg(x - y, h))
    BY <1>6 DEF Run
  <2> QED
    BY <2>1, <2>2, <1>3, <1>4, ReadValue DEF Correct, x, y
<1>7. CASE o.kind \in {"Mul", "MulUnchecked"} /\ c.ins = "muli"
  <2>1. Meaning(o) = Value(Wrapped(o.a * o.b, o.res))
    BY <1>7 DEF Meaning, Orders, CheckedKinds
  <2>2. Run(c, x, y) = Value(Reg(x * y, h))
    BY <1>7 DEF Run
  <2> QED
    BY <2>1, <2>2, <1>3, <1>4, ReadValue DEF Correct, x, y
<1> QED
  BY <1>5, <1>6, <1>7

(* Division truncates towards zero: the magnitude of the quotient and of the   *)
(* remainder, whatever the signs.                                              *)
LEMMA TruncatedDivision ==
    ASSUME NEW a \in Int, NEW b \in Int, b # 0
    PROVE  LET k == Magnitude(a) \div Magnitude(b)
           IN  /\ k \in Nat /\ k <= Magnitude(a)
               /\ Magnitude(b) >= 2 /\ a # 0 => k < Magnitude(a)
               /\ Quotient(a, b) = IF (a < 0) = (b < 0) THEN k ELSE -k
               /\ Remainder(a, b) = IF a < 0 THEN -(Magnitude(a) % Magnitude(b))
                                    ELSE Magnitude(a) % Magnitude(b)
               /\ Magnitude(a) % Magnitude(b) \in 0..Magnitude(a)
<1> DEFINE u == Magnitude(a)
           w == Magnitude(b)
           k == u \div w
           r == u % w
<1>1. u \in Nat /\ w \in Nat /\ w > 0
  BY DEF Magnitude
<1>2. k \in Int /\ r \in 0..(w - 1) /\ u = w * k + r
  <2> HIDE DEF u, w
  <2> QED
    BY <1>1
<1>3. Quotient(a, b) = IF (a < 0) = (b < 0) THEN k ELSE -k
  BY DEF Quotient
<1>4. /\ a < 0 => a = -u
      /\ ~(a < 0) => a = u
      /\ b < 0 => b = -w
      /\ ~(b < 0) => b = w
      /\ a # 0 => u > 0
  BY DEF Magnitude
<1> HIDE DEF u, w, k, r
<1>5. k \in Nat
  <2> SUFFICES ASSUME k < 0 PROVE FALSE
    BY <1>2
  <2>1. w * k <= -w
    BY <1>1, <1>2
  <2> QED
    BY <2>1, <1>1, <1>2
<1>6. k <= u
  <2>1. w * k >= k
    BY <1>1, <1>5
  <2> QED
    BY <2>1, <1>1, <1>2, <1>5
<1>7. w >= 2 /\ a # 0 => k < u
  <2> SUFFICES ASSUME w >= 2, a # 0, k >= u PROVE FALSE
    BY <1>1, <1>5
  <2>1. k > 0 /\ w * k >= 2 * k
    BY <1>1, <1>4, <1>5
  <2> QED
    BY <2>1, <1>1, <1>2, <1>5
<1>8. Remainder(a, b) = IF a < 0 THEN -r ELSE r
  <2>1. Remainder(a, b) = a - b * Quotient(a, b)
    BY DEF Remainder
  <2>2. CASE a < 0 /\ b < 0
    BY <2>1, <2>2, <1>1, <1>2, <1>3, <1>4
  <2>3. CASE a < 0 /\ ~(b < 0)
    BY <2>1, <2>3, <1>1, <1>2, <1>3, <1>4
  <2>4. CASE ~(a < 0) /\ b < 0
    BY <2>1, <2>4, <1>1, <1>2, <1>3, <1>4
  <2>5. CASE ~(a < 0) /\ ~(b < 0)
    BY <2>1, <2>5, <1>1, <1>2, <1>3, <1>4
  <2> QED
    BY <2>2, <2>3, <2>4, <2>5
<1>9. r \in 0..u
  <2>1. w * k >= 0
    BY <1>1, <1>5
  <2> QED
    BY <2>1, <1>1, <1>2
<1> QED
  BY <1>3, <1>5, <1>6, <1>7, <1>8, <1>9 DEF u, w, k, r

(* A quotient or remainder of values of a type is one, but for the quotient of *)
(* the lowest value by -1.                                                     *)
LEMMA QuotientFits ==
    ASSUME NEW t, IntType(t), NEW a, NEW b, InType(a, t), InType(b, t), b # 0,
           ~(t.signed /\ a = Lowest(t) /\ b = -1)
    PROVE  /\ Quotient(a, b) \in Int /\ Fits(Quotient(a, b), t)
           /\ Remainder(a, b) \in Int /\ Fits(Remainder(a, b), t)
<1> DEFINE k == Magnitude(a) \div Magnitude(b)
           r == Magnitude(a) % Magnitude(b)
<1>1. a \in Int /\ b \in Int /\ t.half \in Nat /\ t.half > 0 /\ t.signed \in BOOLEAN
  BY DEF InType, IntType
<1>2. /\ k \in Nat /\ k <= Magnitude(a)
      /\ Magnitude(b) >= 2 /\ a # 0 => k < Magnitude(a)
      /\ Quotient(a, b) = IF (a < 0) = (b < 0) THEN k ELSE -k
      /\ Remainder(a, b) = IF a < 0 THEN -r ELSE r
      /\ r \in 0..Magnitude(a)
  BY <1>1, TruncatedDivision
<1>3. /\ a < 0 => Magnitude(a) = -a
      /\ ~(a < 0) => Magnitude(a) = a
      /\ b < 0 => Magnitude(b) = -b
      /\ ~(b < 0) => Magnitude(b) = b
  BY DEF Magnitude
<1>4. Quotient(a, b) \in Int /\ Remainder(a, b) \in Int
  BY <1>1, <1>2, <1>3
<1> HIDE DEF k, r
<1>5. Fits(Remainder(a, b), t)
  BY <1>1, <1>2, <1>3 DEF InType, Fits, Lowest, Highest
<1>6. Fits(Quotient(a, b), t)
  <2>1. CASE ~t.signed
    BY <2>1, <1>1, <1>2, <1>3 DEF InType, Fits, Lowest, Highest
  <2>2. CASE t.signed /\ a < 0 /\ b < 0
    <3>1. k <= t.half - 1
      BY <2>2, <1>1, <1>2, <1>3 DEF InType, Fits, Lowest, Highest
    <3> QED
      BY <3>1, <2>2, <1>1, <1>2 DEF Fits, Lowest, Highest
  <2>3. CASE t.signed /\ ~(a < 0 /\ b < 0)
    BY <2>3, <1>1, <1>2, <1>3 DEF InType, Fits, Lowest, Highest
  <2> QED
    BY <2>1, <2>2, <2>3, <1>1
<1> QED
  BY <1>4, <1>5, <1>6

(* Quotients and remainders, of registers read with the sign of their type. *)
LEMMA DivRemCorrect ==
    ASSUME NEW o, WellFormed(o), NEW c, c.half = o.lhs.half, c.signed = o.lhs.signed,
           \/ o.kind = "Div" /\ c.ins = "div"
           \/ o.kind = "Rem" /\ c.ins = "rem"
    PROVE  Correct(o, c)
<1> DEFINE x == Encode(o.a, o.lhs)
           y == Encode(o.b, o.rhs)
           h == o.lhs.half
<1>1. /\ Ints(o) /\ o.res = o.lhs /\ o.b # 0
      /\ ~(o.lhs.signed /\ o.a = Lowest(o.lhs) /\ o.b = -1)
  BY DEF WellFormed, Arithmetic, CheckedKinds, Shifts, Orders, Refused
<1>2. /\ Half(h) /\ o.a \in Int /\ o.b \in Int /\ IntType(o.lhs)
      /\ InType(o.a, o.lhs) /\ InType(o.b, o.lhs)
      /\ o.lhs.signed => Sgn(x, h) = o.a /\ Sgn(y, h) = o.b
      /\ ~o.lhs.signed => x = o.a /\ y = o.b
  BY <1>1, TwoInts
<1> HIDE DEF x, y
<1>3. /\ Quotient(o.a, o.b) \in Int /\ Fits(Quotient(o.a, o.b), o.lhs)
      /\ Remainder(o.a, o.b) \in Int /\ Fits(Remainder(o.a, o.b), o.lhs)
  BY <1>1, <1>2, QuotientFits
<1>4. /\ Decode(Reg(Quotient(o.a, o.b), h), o.lhs) = Quotient(o.a, o.b)
      /\ Decode(Reg(Remainder(o.a, o.b), h), o.lhs) = Remainder(o.a, o.b)
  BY <1>2, <1>3, DecodeReg, WrappedFits
<1>5. ~o.lhs.signed => /\ x \div y = Quotient(o.a, o.b) /\ x % y = Remainder(o.a, o.b)
                       /\ Decode(x \div y, o.lhs) = x \div y
                       /\ Decode(x % y, o.lhs) = x % y
  <2> SUFFICES ASSUME ~o.lhs.signed
               PROVE  /\ o.a \div o.b = Quotient(o.a, o.b)
                      /\ o.a % o.b = Remainder(o.a, o.b)
    BY <1>2 DEF Decode
  <2>1. ~(o.a < 0) /\ ~(o.b < 0)
    BY <1>2 DEF InType, Fits, Lowest
  <2>2. Magnitude(o.a) = o.a /\ Magnitude(o.b) = o.b
    BY <2>1, <1>2 DEF Magnitude
  <2>3. /\ Quotient(o.a, o.b) = IF (o.a < 0) = (o.b < 0)
                                THEN Magnitude(o.a) \div Magnitude(o.b)
                                ELSE -(Magnitude(o.a) \div Magnitude(o.b))
        /\ Remainder(o.a, o.b) = IF o.a < 0 THEN -(Magnitude(o.a) % Magnitude(o.b))
                                 ELSE Magnitude(o.a) % Magnitude(o.b)
    BY <1>1, <1>2, TruncatedDivision
  <2>4. (o.a < 0) = (o.b < 0)
    BY <2>1, <1>2
  <2> QED
    BY <2>1, <2>2, <2>3, <2>4
<1>6. CASE o.kind = "Div" /\ c.ins = "div"
  <2>1. Meaning(o) = Value(Quotient(o.a, o.b))
    BY <1>6 DEF Meaning, Orders, CheckedKinds
  <2>2. Run(c, x, y) = Value(IF o.lhs.signed THEN Reg(Quotient(Sgn(x, h), Sgn(y, h)), h)
                             ELSE x \div y)
    BY <1>6 DEF Run
  <2>3. Run(c, x, y) = Value(IF o.lhs.signed THEN Reg(Quotient(o.a, o.b), h) ELSE x \div y)
    BY <2>2, <1>2
  <2> QED
    BY <2>1, <2>3, <1>1, <1>4, <1>5, ReadValue DEF Correct, x, y
<1>7. CASE o.kind = "Rem" /\ c.ins = "rem"
  <2>1. Meaning(o) = Value(Remainder(o.a, o.b))
    BY <1>7 DEF Meaning, Orders, CheckedKinds
  <2>2. Run(c, x, y) = Value(IF o.lhs.signed THEN Reg(Remainder(Sgn(x, h), Sgn(y, h)), h)
                             ELSE x % y)
    BY <1>7 DEF Run
  <2>3. Run(c, x, y) = Value(IF o.lhs.signed THEN Reg(Remainder(o.a, o.b), h) ELSE x % y)
    BY <2>2, <1>2
  <2> QED
    BY <2>1, <2>3, <1>1, <1>4, <1>5, ReadValue DEF Correct, x, y
<1> QED
  BY <1>6, <1>7

(* Bitwise operations work on the same bits on both sides. *)
LEMMA BitsCorrect ==
    ASSUME NEW o, WellFormed(o), NEW c, c.half = o.lhs.half, c.ins = "bits",
           c.kind = o.kind, o.kind \in {"BitAnd", "BitOr", "BitXor"}
    PROVE  Correct(o, c)
<1> DEFINE x == Encode(o.a, o.lhs)
           y == Encode(o.b, o.rhs)
           h == o.lhs.half
           v == Bitwise(o.kind, x, y, h)
<1>1. Ints(o) /\ o.res = o.lhs
  BY DEF WellFormed, Arithmetic, CheckedKinds, Shifts, Orders, Refused
<1>2. IntType(o.lhs) /\ x = Reg(o.a, h) /\ y = Reg(o.b, h)
  BY <1>1, TwoInts
<1>3. Unsigned(o.a, h) = x /\ Unsigned(o.b, h) = y
  BY <1>2 DEF Unsigned, Reg
<1>4. Meaning(o) = Value(OfUnsigned(Bitwise(o.kind, Unsigned(o.a, h), Unsigned(o.b, h), h),
                                    o.res))
  BY DEF Meaning, Orders, CheckedKinds
<1>5. Run(c, x, y) = Value(v)
  BY DEF Run
<1> HIDE DEF x, y, v
<1>6. Decode(v, o.res) = OfUnsigned(v, o.res)
  BY <1>1, <1>2 DEF Decode, OfUnsigned, Sgn, IntType
<1> QED
  BY <1>3, <1>4, <1>5, <1>6, ReadValue DEF Correct, x, y, v

(* A shift's operands: its amount has a type of its own. *)
LEMMA ShiftOperands ==
    ASSUME NEW o, WellFormed(o), o.kind \in Shifts
    PROVE  /\ IntType(o.lhs) /\ o.res = o.lhs /\ InType(o.a, o.lhs) /\ Half(o.lhs.half)
           /\ o.a \in Int /\ 2^o.b \in Nat /\ 2^o.b >= 1
           /\ Encode(o.a, o.lhs) = Reg(o.a, o.lhs.half)
           /\ o.lhs.signed => Sgn(Encode(o.a, o.lhs), o.lhs.half) = o.a
           /\ ~o.lhs.signed => Encode(o.a, o.lhs) = o.a
           /\ Encode(o.b, o.rhs) = o.b
<1>1. /\ IntType(o.lhs) /\ IntType(o.rhs) /\ o.res = o.lhs
      /\ InType(o.a, o.lhs) /\ InType(o.b, o.rhs)
      /\ o.b >= 0 /\ 2^o.b \in 1..o.lhs.half
  BY DEF WellFormed, Arithmetic, CheckedKinds, Shifts, Orders, Refused
<1>2. Half(o.lhs.half) /\ o.lhs.half \in Nat
  BY <1>1 DEF IntType, Half
<1>3. 2^o.b \in Nat /\ 2^o.b >= 1
  <2> DEFINE p == 2^o.b
  <2>1. p \in 1..o.lhs.half
    BY <1>1
  <2> HIDE DEF p
  <2>2. p \in Nat /\ p >= 1
    BY <2>1, <1>2
  <2> QED
    BY <2>2 DEF p
<1> QED
  BY <1>1, <1>2, <1>3, EncodeDecode

(* Dividing by a power of two and rounding down does not grow an integer. *)
LEMMA FloorShrinks ==
    ASSUME NEW a \in Int, NEW p \in Nat, p >= 1
    PROVE  /\ a \div p \in Int
           /\ a >= 0 => a \div p \in 0..a
           /\ a < 0 => a \div p \in a..(-1)
<1> DEFINE k == a \div p
           r == a % p
<1>1. k \in Int /\ r \in 0..(p - 1) /\ a = p * k + r
  OBVIOUS
<1> HIDE DEF k, r
<1>2. a >= 0 => k \in 0..a
  <2> SUFFICES ASSUME a >= 0 PROVE k >= 0 /\ k <= a
    BY <1>1
  <2>1. ~(k < 0)
    <3> SUFFICES ASSUME k < 0 PROVE FALSE
      OBVIOUS
    <3>1. p * k <= -p
      BY <1>1
    <3> QED
      BY <3>1, <1>1
  <2>2. p * k >= k
    BY <2>1, <1>1
  <2> QED
    BY <2>1, <2>2, <1>1
<1>3. a < 0 => k \in a..(-1)
  <2> SUFFICES ASSUME a < 0 PROVE k >= a /\ k <= -1
    BY <1>1
  <2>1. k < 0
    <3> SUFFICES ASSUME k >= 0 PROVE FALSE
      BY <1>1
    <3>1. p * k >= 0
      BY <1>1
    <3> QED
      BY <3>1, <1>1
  <2>2. (p - 1) * (k + 1) <= 0
    BY <2>1, <1>1
  <2>3. (p - 1) * (k + 1) = p * k + p - k - 1
    BY <1>1
  <2> QED
    BY <2>1, <2>2, <2>3, <1>1
<1> QED
  BY <1>1, <1>2, <1>3 DEF k

LEMMA ShiftCorrect ==
    ASSUME NEW o, WellFormed(o), NEW c, c.half = o.lhs.half,
           \/ o.kind \in {"Shl", "ShlUnchecked"} /\ c.ins = "shli"
           \/ /\ o.kind \in {"Shr", "ShrUnchecked"} /\ c.ins = "shr"
              /\ c.signed = o.lhs.signed
    PROVE  Correct(o, c)
<1> DEFINE x == Encode(o.a, o.lhs)
           y == Encode(o.b, o.rhs)
           h == o.lhs.half
           p == 2^o.b
<1>1. /\ IntType(o.lhs) /\ o.res = o.lhs /\ InType(o.a, o.lhs) /\ Half(h)
      /\ o.a \in Int /\ p \in Nat /\ p >= 1
      /\ x = Reg(o.a, h) /\ y = o.b
      /\ o.lhs.signed => Sgn(x, h) = o.a
      /\ ~o.lhs.signed => x = o.a
  <2>1. o.kind \in Shifts
    BY DEF Shifts
  <2> QED
    BY <2>1, ShiftOperands
<1>2. CASE o.kind \in {"Shl", "ShlUnchecked"} /\ c.ins = "shli"
  <2>1. Meaning(o) = Value(Wrapped(o.a * p, o.res))
    BY <1>2 DEF Meaning, Orders, CheckedKinds
  <2>2. Run(c, x, y) = Value(Reg(x * p, h))
    BY <1>2, <1>1 DEF Run
  <2> HIDE DEF x, y, p
  <2> HIDE DEF h
  <2>3. o.a * p \in Int /\ Reg(x * p, h) = Reg(o.a * p, h)
    <3>1. o.a \in Int /\ p \in Int /\ Half(h)
      BY <1>1
    <3>2. Reg(Reg(o.a, h) * p, h) = Reg(o.a * p, h)
      BY <3>1, RegOperands
    <3>3. o.a * p \in Int
      BY <3>1
    <3> QED
      BY <3>2, <3>3, <1>1
  <2>4. Decode(Reg(o.a * p, h), o.res) = Wrapped(o.a * p, o.res)
    BY <1>1, <2>3, DecodeReg DEF h
  <2> QED
    BY <2>1, <2>2, <2>3, <2>4, ReadValue DEF Correct, x, y, h
<1>3. CASE /\ o.kind \in {"Shr", "ShrUnchecked"} /\ c.ins = "shr"
           /\ c.signed = o.lhs.signed
  <2>1. Meaning(o) = Value(o.a \div p)
    BY <1>3 DEF Meaning, Orders, CheckedKinds
  <2>2. Run(c, x, y) = Value(IF o.lhs.signed THEN Reg(Sgn(x, h) \div p, h) ELSE x \div p)
    BY <1>3, <1>1 DEF Run
  <2> HIDE DEF x, y, p
  <2>3. Run(c, x, y) = Value(IF o.lhs.signed THEN Reg(o.a \div p, h) ELSE o.a \div p)
    BY <2>2, <1>1
  <2>4. /\ o.a \div p \in Int
        /\ o.a >= 0 => o.a \div p \in 0..o.a
        /\ o.a < 0 => o.a \div p \in o.a..(-1)
    BY <1>1, FloorShrinks
  <2>5. Fits(o.a \div p, o.lhs)
    <3> DEFINE k == o.a \div p
    <3>1. /\ k \in Int /\ (o.a >= 0 => k \in 0..o.a) /\ (o.a < 0 => k \in o.a..(-1))
      BY <2>4
    <3> HIDE DEF k
    <3>2. Fits(k, o.lhs)
      BY <3>1, <1>1 DEF InType, IntType, Fits, Lowest, Highest
    <3> QED
      BY <3>2 DEF k
  <2>6. Decode(Reg(o.a \div p, h), o.lhs) = o.a \div p
    BY <1>1, <2>4, <2>5, DecodeReg, WrappedFits
  <2>7. ~o.lhs.signed => Decode(o.a \div p, o.lhs) = o.a \div p
    BY DEF Decode
  <2> QED
    BY <2>1, <2>3, <2>6, <2>7, <1>1, ReadValue DEF Correct, x, y
<1> QED
  BY <1>2, <1>3

(* An order is true or false. *)
LEMMA OrderedBoolean ==
    ASSUME NEW k \in Orders, NEW a, NEW b
    PROVE  Ordered(k, a, b) \in BOOLEAN
<1>1. CASE k = "Eq"
  BY <1>1 DEF Ordered
<1>2. CASE k = "Ne"
  BY <1>2 DEF Ordered
<1>3. CASE k = "Lt"
  BY <1>3 DEF Ordered
<1>4. CASE k = "Le"
  BY <1>4 DEF Ordered
<1>5. CASE k = "Gt"
  BY <1>5 DEF Ordered
<1>6. CASE k = "Ge"
  BY <1>6 DEF Ordered
<1> QED
  BY <1>1, <1>2, <1>3, <1>4, <1>5, <1>6 DEF Orders

(* Comparisons: of values read with their sign, and of floats, a NaN among them.*)
LEMMA CompareCorrect ==
    ASSUME NEW o, WellFormed(o), NEW c, o.kind \in Orders, c.kind = o.kind,
           \/ /\ c.ins = "cmpi" /\ c.half = o.lhs.half /\ c.signed = o.lhs.signed
              /\ o.lhs.class = "int"
           \/ c.ins = "cmpf" /\ o.lhs.class = "float"
    PROVE  Correct(o, c)
<1> DEFINE x == Encode(o.a, o.lhs)
           y == Encode(o.b, o.rhs)
           h == o.lhs.half
<1>1. (Ints(o) \/ Floats(o)) /\ o.res = Bool
  BY DEF WellFormed, Arithmetic, CheckedKinds, Shifts, Orders, Refused
<1>2. Meaning(o) = Value(Truth(IF o.lhs.class = "float" THEN FloatOrdered(o.kind, o.a, o.b)
                               ELSE Ordered(o.kind, o.a, o.b)))
  BY DEF Meaning, Orders, CheckedKinds
<1>3. \A v : Decode(v, o.res) = v
  BY <1>1 DEF Decode, Bool
<1>4. CASE /\ c.ins = "cmpi" /\ c.half = o.lhs.half /\ c.signed = o.lhs.signed
           /\ o.lhs.class = "int"
  <2>1. Ints(o)
    BY <1>1, <1>4 DEF Floats, FloatType
  <2>2. /\ o.lhs.signed => Sgn(x, h) = o.a /\ Sgn(y, h) = o.b
        /\ ~o.lhs.signed => x = o.a /\ y = o.b
    BY <2>1, TwoInts
  <2>3. CmpI(o.kind, o.lhs.signed, x, y, h) = Ordered(o.kind, o.a, o.b)
    <3> HIDE DEF x, y
    <3> QED
      BY <2>2 DEF CmpI
  <2>4. Run(c, x, y) = Value(Truth(CmpI(o.kind, o.lhs.signed, x, y, h)))
    BY <1>4 DEF Run
  <2> QED
    BY <1>2, <1>3, <1>4, <2>3, <2>4, ReadValue DEF Correct
<1>5. CASE c.ins = "cmpf" /\ o.lhs.class = "float"
  <2>1. Floats(o)
    BY <1>1, <1>5 DEF Ints, IntType
  <2>2. x = o.a /\ y = o.b /\ IsFloat(o.a) /\ IsFloat(o.b)
    BY <2>1, <1>5 DEF Floats, FloatType, Encode
  <2>3. CmpF(o.kind, o.a, o.b) = FloatOrdered(o.kind, o.a, o.b)
    <3>1. CASE o.kind = "Ne"
      BY <3>1, <2>2 DEF CmpF, FloatOrdered, Ordered, IsFloat
    <3>2. CASE o.kind # "Ne"
      <4>1. CASE o.a.nan \/ o.b.nan
        BY <3>2, <4>1, <2>2 DEF CmpF, FloatOrdered, IsFloat
      <4>2. CASE ~(o.a.nan \/ o.b.nan)
        <5>1. CmpF(o.kind, o.a, o.b) <=> Ordered(o.kind, o.a.n, o.b.n)
          BY <3>2, <4>2 DEF CmpF
        <5>2. FloatOrdered(o.kind, o.a, o.b) = Ordered(o.kind, o.a.n, o.b.n)
          BY <4>2 DEF FloatOrdered
        <5>3. Ordered(o.kind, o.a.n, o.b.n) \in BOOLEAN
          BY OrderedBoolean
        <5> QED
          BY <3>2, <4>2, <5>1, <5>2, <5>3 DEF CmpF
      <4> QED
        BY <4>1, <4>2
    <3> QED
      BY <3>1, <3>2
  <2>4. Run(c, x, y) = Value(Truth(CmpF(o.kind, x, y)))
    BY <1>5 DEF Run
  <2> QED
    BY <1>2, <1>3, <1>5, <2>2, <2>3, <2>4, ReadValue DEF Correct
<1> QED
  BY <1>4, <1>5

(***************************************************************************)
(* Overflow: the flag of a checked operation *)

(* A register read as signed, for the sum or difference of two signed values. *)
LEMMA SignedReg ==
    ASSUME NEW h, Half(h), NEW n \in (-2 * h)..(2 * h - 1)
    PROVE  Sgn(Reg(n, h), h) = IF n < -h THEN n + 2 * h
                               ELSE IF n > h - 1 THEN n - 2 * h ELSE n
<1>1. h \in Nat /\ h > 0 /\ n \in Int /\ -1 \in Int
  BY DEF Half
<1>2. CASE n >= 0
  <2>1. Reg(n, h) = n
    BY <1>1, <1>2, RegSmall
  <2> QED
    BY <2>1, <1>1, <1>2 DEF Sgn
<1>3. CASE n < 0
  <2>1. n + 2 * h \in 0..(2 * h - 1) /\ n = (2 * h) * (-1) + (n + 2 * h)
    BY <1>1, <1>3
  <2>2. Reg(n, h) = n + 2 * h
    BY <2>1, <1>1, RegUnique
  <2> QED
    BY <2>2, <1>1, <1>3 DEF Sgn
<1> QED
  BY <1>1, <1>2, <1>3

(* Sums: the sign differs from both operands', or the carry is out. *)
LEMMA AddOverflow ==
    ASSUME NEW t, IntType(t), NEW a \in Int, NEW b \in Int, InType(a, t), InType(b, t)
    PROVE  LET k == CheckedAdd(t.signed, Encode(a, t), Encode(b, t), t.half)
           IN  k.v = Reg(a + b, t.half) /\ (k.overflow <=> ~Fits(a + b, t))
<1> DEFINE x == Encode(a, t)
           y == Encode(b, t)
           h == t.half
           v == Reg(x + y, h)
<1>1. /\ a \in Int /\ b \in Int /\ Half(h) /\ h \in Nat /\ h > 0
      /\ Fits(a, t) /\ Fits(b, t) /\ t.signed \in BOOLEAN
  BY DEF InType, IntType, Half
<1>2. /\ x = Reg(a, h) /\ y = Reg(b, h)
      /\ t.signed => Sgn(x, h) = a /\ Sgn(y, h) = b
      /\ ~t.signed => x = a /\ y = b
  BY EncodeDecode
<1> HIDE DEF x, y
<1>3. v = Reg(a + b, h)
  BY <1>1, <1>2, RegOperands
<1> HIDE DEF v
<1>4. t.signed => (SignsDiffer(x, v, y, v, h) <=> ~Fits(a + b, t))
  <2> SUFFICES ASSUME t.signed PROVE SignsDiffer(x, v, y, v, h) <=> ~Fits(a + b, t)
    OBVIOUS
  <2>1. a + b \in (-2 * h)..(2 * h - 1)
    BY <1>1 DEF Fits, Lowest, Highest
  <2>2. Sgn(v, h) = IF a + b < -h THEN (a + b) + 2 * h
                    ELSE IF a + b > h - 1 THEN (a + b) - 2 * h ELSE a + b
    BY <2>1, <1>1, <1>3, SignedReg
  <2> DEFINE s == Sgn(v, h)
  <2>3. SignsDiffer(x, v, y, v, h)
        <=> /\ ~((a < 0) <=> (s < 0)) /\ ~((b < 0) <=> (s < 0))
    BY <1>2 DEF SignsDiffer, Negative
  <2>4. /\ -h <= a /\ a <= h - 1 /\ -h <= b /\ b <= h - 1
        /\ Fits(a + b, t) <=> -h <= a + b /\ a + b <= h - 1
    BY <1>1 DEF Fits, Lowest, Highest
  <2> HIDE DEF s, h
  <2>5. /\ ~((a < 0) <=> (s < 0)) /\ ~((b < 0) <=> (s < 0))
        <=> ~(-h <= a + b /\ a + b <= h - 1)
    BY <2>2, <2>4, <1>1 DEF s
  <2> QED
    BY <2>3, <2>4, <2>5
<1>5. ~t.signed => (x + y >= 2 * h <=> ~Fits(a + b, t))
  BY <1>1, <1>2 DEF Fits, Lowest, Highest
<1>6. CheckedAdd(t.signed, x, y, h).v = v
  BY DEF CheckedAdd, v
<1>7. CheckedAdd(t.signed, x, y, h).overflow =
          IF t.signed THEN SignsDiffer(x, v, y, v, h) ELSE x + y >= 2 * h
  BY DEF CheckedAdd, v
<1> QED
  BY <1>1, <1>3, <1>4, <1>5, <1>6, <1>7 DEF x, y

(* Differences: the operands' signs differ and the result's is not the         *)
(* minuend's, or the subtrahend is the larger.                                 *)
LEMMA SubOverflow ==
    ASSUME NEW t, IntType(t), NEW a \in Int, NEW b \in Int, InType(a, t), InType(b, t)
    PROVE  LET k == CheckedSub(t.signed, Encode(a, t), Encode(b, t), t.half)
           IN  k.v = Reg(a - b, t.half) /\ (k.overflow <=> ~Fits(a - b, t))
<1> DEFINE x == Encode(a, t)
           y == Encode(b, t)
           h == t.half
           v == Reg(x - y, h)
<1>1. /\ a \in Int /\ b \in Int /\ Half(h) /\ h \in Nat /\ h > 0
      /\ Fits(a, t) /\ Fits(b, t) /\ t.signed \in BOOLEAN
  BY DEF InType, IntType, Half
<1>2. /\ x = Reg(a, h) /\ y = Reg(b, h)
      /\ t.signed => Sgn(x, h) = a /\ Sgn(y, h) = b
      /\ ~t.signed => x = a /\ y = b
  BY EncodeDecode
<1> HIDE DEF x, y
<1>3. v = Reg(a - b, h)
  BY <1>1, <1>2, RegOperands
<1> HIDE DEF v
<1>4. t.signed => (SignsDiffer(x, y, x, v, h) <=> ~Fits(a - b, t))
  <2> SUFFICES ASSUME t.signed PROVE SignsDiffer(x, y, x, v, h) <=> ~Fits(a - b, t)
    OBVIOUS
  <2>1. a - b \in (-2 * h)..(2 * h - 1)
    BY <1>1 DEF Fits, Lowest, Highest
  <2>2. Sgn(v, h) = IF a - b < -h THEN (a - b) + 2 * h
                    ELSE IF a - b > h - 1 THEN (a - b) - 2 * h ELSE a - b
    BY <2>1, <1>1, <1>3, SignedReg
  <2> DEFINE s == Sgn(v, h)
  <2>3. SignsDiffer(x, y, x, v, h)
        <=> /\ ~((a < 0) <=> (b < 0)) /\ ~((a < 0) <=> (s < 0))
    BY <1>2 DEF SignsDiffer, Negative
  <2>4. /\ -h <= a /\ a <= h - 1 /\ -h <= b /\ b <= h - 1
        /\ Fits(a - b, t) <=> -h <= a - b /\ a - b <= h - 1
    BY <1>1 DEF Fits, Lowest, Highest
  <2> HIDE DEF s, h
  <2>5. /\ ~((a < 0) <=> (b < 0)) /\ ~((a < 0) <=> (s < 0))
        <=> ~(-h <= a - b /\ a - b <= h - 1)
    BY <2>2, <2>4, <1>1 DEF s
  <2> QED
    BY <2>3, <2>4, <2>5
<1>5. ~t.signed => (x < y <=> ~Fits(a - b, t))
  BY <1>1, <1>2 DEF Fits, Lowest, Highest
<1>6. CheckedSub(t.signed, x, y, h).v = v
  BY DEF CheckedSub, v
<1>7. CheckedSub(t.signed, x, y, h).overflow =
          IF t.signed THEN SignsDiffer(x, y, x, v, h) ELSE x < y
  BY DEF CheckedSub, v
<1> QED
  BY <1>1, <1>3, <1>4, <1>5, <1>6, <1>7 DEF x, y

(* A product of two values, and the quotient of it that is its high half. *)
LEMMA ProductBounds ==
    ASSUME NEW t, IntType(t), NEW a, NEW b, InType(a, t), InType(b, t),
           NEW q \in Int, NEW r \in 0..(2 * t.half - 1), a * b = (2 * t.half) * q + r
    PROVE  /\ t.signed => q \in (-t.half)..(t.half - 1)
           /\ ~t.signed => q \in 0..(2 * t.half - 1)
<1> DEFINE h == t.half
           n == a * b
<1>1. /\ a \in Int /\ b \in Int /\ h \in Nat /\ h > 0 /\ n \in Int
      /\ Fits(a, t) /\ Fits(b, t) /\ r \in Int /\ 0 <= r /\ r <= 2 * h - 1
  BY DEF InType, IntType
<1>2. n = (2 * h) * q + r
  OBVIOUS
<1>3. CASE t.signed
  <2>1. -h <= a /\ a <= h /\ -h <= b /\ b <= h
    BY <1>1, <1>3 DEF Fits, Lowest, Highest
  <2>2. n <= h * h
    <3>1. (h - a) * (h + b) >= 0 /\ (h + a) * (h - b) >= 0
      BY <2>1, <1>1
    <3>2. (h - a) * (h + b) + (h + a) * (h - b) = 2 * (h * h) - 2 * n
      BY <1>1
    <3> QED
      BY <3>1, <3>2, <1>1
  <2>3. n >= -(h * h)
    <3>1. (h - a) * (h - b) >= 0 /\ (h + a) * (h + b) >= 0
      BY <2>1, <1>1
    <3>2. (h - a) * (h - b) + (h + a) * (h + b) = 2 * (h * h) + 2 * n
      BY <1>1
    <3> QED
      BY <3>1, <3>2, <1>1
  <2> HIDE DEF h, n
  <2>4. q <= h - 1
    <3> SUFFICES ASSUME q >= h PROVE FALSE
      BY <1>1
    <3>1. h * q >= h * h /\ h * h > 0
      BY <1>1
    <3> QED
      BY <3>1, <2>2, <1>1, <1>2
  <2>5. q >= -h
    <3> SUFFICES ASSUME q <= -h - 1 PROVE FALSE
      BY <1>1
    <3>1. h * q <= h * (-h - 1) /\ h * (-h - 1) = -(h * h) - h /\ h * h > 0
      BY <1>1
    <3> QED
      BY <3>1, <2>3, <1>1, <1>2
  <2> QED
    BY <2>4, <2>5, <1>1, <1>3 DEF h
<1>4. CASE ~t.signed
  <2>1. 0 <= a /\ a <= 2 * h - 1 /\ 0 <= b /\ b <= 2 * h - 1
    BY <1>1, <1>4 DEF Fits, Lowest, Highest
  <2>2. n >= 0
    BY <2>1, <1>1
  <2>3. n <= (2 * h) * (2 * h - 1)
    <3>1. a * b <= (2 * h) * b /\ (2 * h) * b <= (2 * h) * (2 * h - 1)
      BY <2>1, <1>1
    <3> QED
      BY <3>1, <1>1
  <2> HIDE DEF h, n
  <2>4. q <= 2 * h - 1
    <3> SUFFICES ASSUME q >= 2 * h PROVE FALSE
      BY <1>1
    <3>1. (2 * h) * q >= (2 * h) * (2 * h)
      BY <1>1
    <3> QED
      BY <3>1, <2>3, <1>1, <1>2
  <2>5. q >= 0
    <3> SUFFICES ASSUME q <= -1 PROVE FALSE
      BY <1>1
    <3>1. (2 * h) * q <= -(2 * h)
      BY <1>1
    <3> QED
      BY <3>1, <2>2, <1>1, <1>2
  <2> QED
    BY <2>4, <2>5, <1>1, <1>4 DEF h
<1> QED
  BY <1>3, <1>4 DEF IntType

(* Products: the high half is not the fill of the low half's sign, or not zero.*)
LEMMA MulOverflow ==
    ASSUME NEW t, IntType(t), NEW a \in Int, NEW b \in Int, InType(a, t), InType(b, t)
    PROVE  LET k == CheckedMul(t.signed, Encode(a, t), Encode(b, t), t.half)
           IN  k.v = Reg(a * b, t.half) /\ (k.overflow <=> ~Fits(a * b, t))
<1> DEFINE x == Encode(a, t)
           y == Encode(b, t)
           h == t.half
           n == a * b
           low == Reg(n, h)
           q == n \div (2 * h)
           high == Reg(q, h)
           fill == IF Negative(low, h) THEN 2 * h - 1 ELSE 0
<1>1. /\ a \in Int /\ b \in Int /\ Half(h) /\ h \in Nat /\ h > 0 /\ n \in Int
      /\ t.signed \in BOOLEAN
  BY DEF InType, IntType, Half
<1>2. n = IF t.signed THEN Sgn(x, h) * Sgn(y, h) ELSE x * y
  BY EncodeDecode
<1>3. CheckedMul(t.signed, x, y, h) =
          [v |-> low, overflow |-> high # (IF t.signed THEN fill ELSE 0)]
  BY <1>2 DEF CheckedMul
<1>4. low \in 0..(2 * h - 1) /\ q \in Int /\ n = (2 * h) * q + low
  BY <1>1, RegSplit
<1>5. /\ t.signed => q \in (-h)..(h - 1)
      /\ ~t.signed => q \in 0..(2 * h - 1)
  BY <1>4, ProductBounds
<1>6. high = IF q < 0 THEN q + 2 * h ELSE q
  <2> HIDE DEF h, q
  <2>1. CASE q < 0
    <3> DEFINE z == q + 2 * h
               k == -1
    <3>1. /\ z \in 0..(2 * h - 1) /\ q = (2 * h) * k + z
          /\ k \in Int /\ q \in Int /\ Half(h)
      BY <2>1, <1>1, <1>4, <1>5
    <3> HIDE DEF z, k
    <3>2. Reg(q, h) = z
      BY <3>1, RegUnique
    <3> QED
      BY <3>2, <2>1 DEF z
  <2>2. CASE ~(q < 0)
    <3>1. q \in 0..(2 * h - 1)
      BY <2>2, <1>1, <1>4, <1>5
    <3> QED
      BY <3>1, <2>2, <1>1, RegSmall
  <2> QED
    BY <2>1, <2>2
<1>7. fill = IF low < h THEN 0 ELSE 2 * h - 1
  <2> HIDE DEF low, h
  <2> QED
    BY <1>1, <1>4 DEF Negative, Sgn
<1>8. high # (IF t.signed THEN fill ELSE 0) <=> ~Fits(n, t)
  <2>1. q >= 1 => n >= 2 * h
    <3> HIDE DEF n, q, low, h
    <3> SUFFICES ASSUME q >= 1 PROVE n >= 2 * h
      OBVIOUS
    <3>1. (2 * h) * q >= 2 * h
      BY <1>1, <1>4
    <3> QED
      BY <3>1, <1>1, <1>4
  <2>2. q <= -2 => n < -h
    <3> HIDE DEF n, q, low, h
    <3> SUFFICES ASSUME q <= -2 PROVE n < -h
      OBVIOUS
    <3>1. (2 * h) * q <= (2 * h) * (-2)
      BY <1>1, <1>4
    <3> QED
      BY <3>1, <1>1, <1>4
  <2>3. q = 0 => n = low
    BY <1>1, <1>4
  <2>4. q = -1 => n = low - 2 * h
    BY <1>1, <1>4
  <2>5. /\ t.signed => (Fits(n, t) <=> -h <= n /\ n <= h - 1)
        /\ ~t.signed => (Fits(n, t) <=> 0 <= n /\ n <= 2 * h - 1)
    BY DEF Fits, Lowest, Highest
  <2> HIDE DEF n, q, low, h, high, fill
  <2>6. CASE t.signed
    <3>1. CASE q >= 1
      BY <3>1, <2>1, <2>5, <2>6, <1>1, <1>4, <1>5, <1>6, <1>7
    <3>2. CASE q <= -2
      BY <3>2, <2>2, <2>5, <2>6, <1>1, <1>4, <1>5, <1>6, <1>7
    <3>3. CASE q = 0
      BY <3>3, <2>3, <2>5, <2>6, <1>1, <1>4, <1>6, <1>7
    <3>4. CASE q = -1
      BY <3>4, <2>4, <2>5, <2>6, <1>1, <1>4, <1>6, <1>7
    <3> QED
      BY <3>1, <3>2, <3>3, <3>4, <1>4
  <2>7. CASE ~t.signed
    <3>1. CASE q >= 1
      BY <3>1, <2>1, <2>5, <2>7, <1>1, <1>4, <1>6
    <3>2. CASE q = 0
      BY <3>2, <2>3, <2>5, <2>7, <1>1, <1>4, <1>6
    <3> QED
      BY <3>1, <3>2, <2>7, <1>1, <1>4, <1>5
  <2> QED
    BY <2>6, <2>7
<1>9. /\ CheckedMul(t.signed, x, y, h).v = low
      /\ CheckedMul(t.signed, x, y, h).overflow = (high # (IF t.signed THEN fill ELSE 0))
  BY <1>3
<1> HIDE DEF high, fill
<1> QED
  BY <1>8, <1>9

LEMMA IntegersClosed ==
    ASSUME NEW a \in Int, NEW b \in Int
    PROVE  a + b \in Int /\ a - b \in Int /\ a * b \in Int
OBVIOUS

(* A checked operation is the exact result, or the abort of its assertion. *)
LEMMA CheckedCorrect ==
    ASSUME NEW o, WellFormed(o), NEW c, c.half = o.lhs.half, c.signed = o.lhs.signed,
           \/ o.kind = "CheckedAdd" /\ c.ins = "add checked"
           \/ o.kind = "CheckedSub" /\ c.ins = "sub checked"
           \/ o.kind = "CheckedMul" /\ c.ins = "mul checked"
    PROVE  Correct(o, c)
<1> DEFINE x == Encode(o.a, o.lhs)
           y == Encode(o.b, o.rhs)
           h == o.lhs.half
           e == Exact(o.kind, o.a, o.b)
<1>1. Ints(o) /\ o.res = o.lhs
  BY DEF WellFormed, Arithmetic, CheckedKinds, Shifts, Orders, Refused
<1>2. /\ IntType(o.lhs) /\ o.a \in Int /\ o.b \in Int /\ o.rhs = o.lhs
      /\ InType(o.a, o.lhs) /\ InType(o.b, o.lhs)
  BY <1>1, TwoInts DEF Ints
<1> DEFINE add == CheckedAdd(o.lhs.signed, x, y, h)
           sub == CheckedSub(o.lhs.signed, x, y, h)
           mul == CheckedMul(o.lhs.signed, x, y, h)
<1>8. /\ o.a + o.b \in Int /\ add.v = Reg(o.a + o.b, h)
      /\ add.overflow <=> ~Fits(o.a + o.b, o.lhs)
      /\ o.a - o.b \in Int /\ sub.v = Reg(o.a - o.b, h)
      /\ sub.overflow <=> ~Fits(o.a - o.b, o.lhs)
      /\ o.a * o.b \in Int /\ mul.v = Reg(o.a * o.b, h)
      /\ mul.overflow <=> ~Fits(o.a * o.b, o.lhs)
  <2> DEFINE t == o.lhs
             a == o.a
             b == o.b
  <2>1. IntType(t) /\ InType(a, t) /\ InType(b, t) /\ o.rhs = t /\ a \in Int /\ b \in Int
    BY <1>2
  <2> HIDE DEF t, a, b
  <2>2. /\ CheckedAdd(t.signed, Encode(a, t), Encode(b, t), t.half).v = Reg(a + b, t.half)
        /\ CheckedAdd(t.signed, Encode(a, t), Encode(b, t), t.half).overflow
               <=> ~Fits(a + b, t)
    BY <2>1, AddOverflow
  <2>3. /\ CheckedSub(t.signed, Encode(a, t), Encode(b, t), t.half).v = Reg(a - b, t.half)
        /\ CheckedSub(t.signed, Encode(a, t), Encode(b, t), t.half).overflow
               <=> ~Fits(a - b, t)
    BY <2>1, SubOverflow
  <2>4. /\ CheckedMul(t.signed, Encode(a, t), Encode(b, t), t.half).v = Reg(a * b, t.half)
        /\ CheckedMul(t.signed, Encode(a, t), Encode(b, t), t.half).overflow
               <=> ~Fits(a * b, t)
    BY <2>1, MulOverflow
  <2>5. a + b \in Int /\ a - b \in Int /\ a * b \in Int
    BY <2>1, IntegersClosed
  <2> QED
    BY <2>1, <2>2, <2>3, <2>4, <2>5 DEF t, a, b
<1>3. Meaning(o) = IF Fits(e, o.lhs) THEN Value(e) ELSE Panic
  <2>1. o.kind \in CheckedKinds
    BY DEF CheckedKinds
  <2> QED
    BY <2>1, <1>1 DEF Meaning, Orders, CheckedKinds
<1>4. ASSUME NEW k, NEW n \in Int, e = n, Run(c, x, y) = Asserted(k),
             k.v = Reg(n, h), k.overflow <=> ~Fits(n, o.lhs)
      PROVE  Correct(o, c)
  <2>1. Fits(n, o.lhs) => Decode(Reg(n, h), o.lhs) = n
    BY <1>2, DecodeReg, WrappedFits
  <2>2. CASE Fits(n, o.lhs)
    <3>1. Run(c, x, y) = Value(Reg(n, h)) /\ Meaning(o) = Value(n)
      BY <1>3, <1>4, <2>2 DEF Asserted
    <3> QED
      BY <3>1, <2>1, <2>2, <1>1, ReadValue DEF Correct
  <2>3. CASE ~Fits(n, o.lhs)
    <3>1. Run(c, x, y) = Panic /\ Meaning(o) = Panic
      BY <1>3, <1>4, <2>3 DEF Asserted
    <3> QED
      BY <3>1, ReadOther DEF Correct
  <2> QED
    BY <2>2, <2>3
<1>5. CASE o.kind = "CheckedAdd" /\ c.ins = "add checked"
  <2>1. e = o.a + o.b /\ Run(c, x, y) = Asserted(add)
    BY <1>5 DEF Exact, Run
  <2> HIDE DEF x, y, h, e, add, sub, mul
  <2> QED
    BY <2>1, <1>4, <1>8
<1>6. CASE o.kind = "CheckedSub" /\ c.ins = "sub checked"
  <2>1. e = o.a - o.b /\ Run(c, x, y) = Asserted(sub)
    BY <1>6 DEF Exact, Run
  <2> HIDE DEF x, y, h, e, add, sub, mul
  <2> QED
    BY <2>1, <1>4, <1>8
<1>7. CASE o.kind = "CheckedMul" /\ c.ins = "mul checked"
  <2>1. e = o.a * o.b /\ Run(c, x, y) = Asserted(mul)
    BY <1>7 DEF Exact, Run
  <2> HIDE DEF x, y, h, e, add, sub, mul
  <2> QED
    BY <2>1, <1>4, <1>8
<1> QED
  BY <1>5, <1>6, <1>7

(* Negation, and the complement of every bit. *)
LEMMA UnaryCorrect ==
    ASSUME NEW o, WellFormed(o), NEW c, c.half = o.lhs.half, o.lhs.class = "int",
           \/ o.kind = "Neg" /\ c.ins = "neg"
           \/ o.kind = "Not" /\ c.ins = "not"
    PROVE  Correct(o, c)
<1> DEFINE x == Encode(o.a, o.lhs)
           y == Encode(o.b, o.rhs)
           h == o.lhs.half
           q == o.a \div (2 * h)
<1>1. o.res = o.lhs /\ IntType(o.lhs) /\ InType(o.a, o.lhs)
  BY DEF WellFormed, Arithmetic, CheckedKinds, Shifts, Orders, Refused, FloatType
<1>2. Half(h) /\ o.a \in Int /\ h \in Nat /\ x = Reg(o.a, h)
  BY <1>1, EncodeDecode DEF IntType, Half
<1>3. Reg(0 - x, h) = Reg(-o.a, h)
  BY <1>2, RegOperands
<1>4. (2 * h - 1) - x = Reg(-1 - o.a, h)
  <2>1. x \in 0..(2 * h - 1) /\ q \in Int /\ o.a = (2 * h) * q + x
    BY <1>2, RegSplit
  <2> DEFINE z == (2 * h - 1) - x
             k == -q - 1
             n == -1 - o.a
  <2> HIDE DEF x, q, h
  <2>2. z \in 0..(2 * h - 1) /\ k \in Int /\ n \in Int /\ n = (2 * h) * k + z
    BY <2>1, <1>2
  <2> HIDE DEF z, k, n
  <2>3. Reg(n, h) = z
    BY <2>2, <1>2, RegUnique
  <2> QED
    BY <2>3 DEF z, n
<1>5. /\ Decode(Reg(-o.a, h), o.lhs) = Wrapped(-o.a, o.lhs)
      /\ Decode(Reg(-1 - o.a, h), o.lhs) = Wrapped(-1 - o.a, o.lhs)
  <2>1. -o.a \in Int /\ -1 - o.a \in Int
    BY <1>2
  <2> QED
    BY <2>1, <1>1, DecodeReg
<1> HIDE DEF x, y
<1>6. CASE o.kind = "Neg" /\ c.ins = "neg"
  <2>1. Meaning(o) = Value(Wrapped(-o.a, o.res))
    BY <1>6 DEF Meaning, Orders, CheckedKinds
  <2>2. Run(c, x, y) = Value(Reg(0 - x, h))
    BY <1>6 DEF Run
  <2> QED
    BY <2>1, <2>2, <1>1, <1>3, <1>5, ReadValue DEF Correct, x, y
<1>7. CASE o.kind = "Not" /\ c.ins = "not"
  <2>1. Meaning(o) = Value(Wrapped(-1 - o.a, o.res))
    BY <1>7 DEF Meaning, Orders, CheckedKinds
  <2>2. Run(c, x, y) = Value((2 * h - 1) - x)
    BY <1>7 DEF Run
  <2> QED
    BY <2>1, <2>2, <1>1, <1>4, <1>5, ReadValue DEF Correct, x, y
<1> QED
  BY <1>6, <1>7

(* The sign of a float. *)
LEMMA FloatNegCorrect ==
    ASSUME NEW o, WellFormed(o), NEW c, o.kind = "Neg", c.ins = "negf",
           o.lhs.class = "float"
    PROVE  Correct(o, c)
<1>1. o.res = o.lhs
  BY DEF WellFormed, Arithmetic, CheckedKinds, Shifts, Orders, Refused
<1>2. Meaning(o) = Value([o.a EXCEPT !.n = -@])
  BY DEF Meaning, Orders, CheckedKinds
<1>3. Encode(o.a, o.lhs) = o.a
  BY DEF Encode
<1>4. Run(c, o.a, Encode(o.b, o.rhs)) = Value([o.a EXCEPT !.n = -@])
  BY DEF Run
<1>5. Decode([o.a EXCEPT !.n = -@], o.res) = [o.a EXCEPT !.n = -@]
  BY <1>1 DEF Decode
<1> QED
  BY <1>2, <1>3, <1>4, <1>5, ReadValue DEF Correct

(* An integer cut to a width and then to one that divides it is cut once. *)
LEMMA RegNarrower ==
    ASSUME NEW n \in Int, NEW h, Half(h), NEW g, Half(g), Multiple(h, g)
    PROVE  Reg(Reg(n, h), g) = Reg(n, g)
<1> DEFINE x == Reg(n, h)
           q == n \div (2 * h)
<1>1. PICK k \in 1..h : h = k * g
  BY DEF Multiple
<1>2. x \in 0..(2 * h - 1) /\ q \in Int /\ n = (2 * h) * q + x
  BY RegSplit
<1>3. h \in Nat /\ g \in Nat
  BY DEF Half
<1> HIDE DEF x, q
<1>4. k \in Int /\ k * q \in Int /\ x \in Int
  BY <1>1, <1>2, <1>3
<1>5. (2 * h) * q = (2 * g) * (k * q)
  <2>1. (2 * (k * g)) * q = (2 * g) * (k * q)
    BY <1>2, <1>3, <1>4
  <2> QED
    BY <2>1, <1>1
<1>6. n = x + (2 * g) * (k * q)
  BY <1>2, <1>3, <1>4, <1>5
<1>7. Reg(n, g) = Reg(x, g)
  BY <1>3, <1>4, <1>6, RegCongruent
<1> QED
  BY <1>7 DEF x

(* A literal, extended or cut from its attribute, or cut to the width before it*)
(* is negated.                                                                 *)
LEMMA LiteralCut ==
    ASSUME NEW n \in Int, NEW h, Half(h), Half(AttrHalf),
           AttrHalf < h \/ Multiple(AttrHalf, h),
           ~(n < 0 /\ InAttr(n) /\ AttrHalf < h)
    PROVE  Literal(n, h) = Reg(n, h)
<1> DEFINE m == Magnitude(n)
<1>1. CASE InAttr(n) /\ n >= 0
  <2>1. n \in 0..(2 * AttrHalf - 1)
    BY <1>1 DEF InAttr, Half
  <2>2. Reg(n, AttrHalf) = n
    BY <2>1, RegSmall
  <2> QED
    BY <1>1, <2>2 DEF Literal
<1>2. CASE InAttr(n) /\ n < 0
  BY <1>2, RegNarrower DEF Literal
<1>3. CASE ~InAttr(n) /\ n < 0
  <2>1. m = -n /\ m \in Int /\ -m = n
    BY <1>3 DEF Magnitude
  <2>2. Reg(m, h) \in Int
    BY <2>1, RegSplit
  <2>3. -Reg(m, h) = 0 - Reg(m, h)
    BY <2>2
  <2>4. Reg(0 - Reg(m, h), h) = Reg(-m, h)
    BY <2>1, RegOperands
  <2> QED
    BY <2>1, <2>3, <2>4, <1>3 DEF Literal
<1>4. CASE ~InAttr(n) /\ n >= 0
  BY <1>4 DEF Literal, Magnitude
<1> QED
  BY <1>1, <1>2, <1>3, <1>4

LEMMA ConstCorrect ==
    ASSUME NEW o, WellFormed(o), NEW c, o.kind = "Const", c.ins = "const",
           c.half = o.res.half, c.literal = o.a, ~Misread(o)
    PROVE  Correct(o, c)
<1> DEFINE h == o.res.half
<1>1. IntType(o.res) /\ InType(o.a, o.res)
  BY DEF WellFormed, Arithmetic, CheckedKinds, Shifts, Orders, Refused
<1>2. /\ o.a \in Int /\ Half(h)
      /\ Encode(o.a, o.res) = Reg(o.a, h)
      /\ Decode(Encode(o.a, o.res), o.res) = o.a
  BY <1>1, EncodeDecode DEF IntType, Half
<1>3. Literal(o.a, h) = Reg(o.a, h)
  <2>1. /\ Half(AttrHalf) /\ (AttrHalf < h \/ Multiple(AttrHalf, h))
        /\ ~(o.a < 0 /\ InAttr(o.a) /\ AttrHalf < h)
    <3>1. Width(AttrHalf) /\ Width(h)
      BY <1>1, AttributeAssumption DEF Width, Pos, IntType
    <3>2. AttrHalf < h \/ Multiple(AttrHalf, h)
      BY <3>1, PowersDivide DEF Width, Pos
    <3> QED
      BY <3>1, <3>2 DEF Width, Half, Pos, Misread
  <2> QED
    BY <1>2, <2>1, LiteralCut
<1>4. Meaning(o) = Value(o.a)
  BY DEF Meaning, Orders, CheckedKinds
<1>5. \A x, y : Run(c, x, y) = Value(Literal(o.a, h))
  BY DEF Run
<1> QED
  BY <1>2, <1>3, <1>4, <1>5, ReadValue DEF Correct

(* Integer casts: truncation, or extension with the sign of what is extended. *)
LEMMA IntCastCorrect ==
    ASSUME NEW o, WellFormed(o), NEW c, o.kind = "IntToInt", c.ins = "cast",
           c.half = o.lhs.half, c.out = o.res.half, c.signed = o.lhs.signed
    PROVE  Correct(o, c)
<1> DEFINE x == Encode(o.a, o.lhs)
           y == Encode(o.b, o.rhs)
           h == o.lhs.half
           g == o.res.half
<1>1. IntType(o.lhs) /\ IntType(o.res) /\ InType(o.a, o.lhs)
  BY DEF WellFormed, Arithmetic, CheckedKinds, Shifts, Orders, Refused
<1>2. /\ o.a \in Int /\ Half(h) /\ Half(g) /\ h \in Nat /\ g \in Nat
      /\ x = Reg(o.a, h)
      /\ o.lhs.signed => Sgn(x, h) = o.a
      /\ ~o.lhs.signed => x = o.a
  BY <1>1, EncodeDecode DEF IntType, Half
<1>3. CastInt(o.lhs.signed, x, h, g) = Reg(o.a, g)
  <2>1. CASE h < g
    BY <2>1, <1>2 DEF CastInt
  <2>2. CASE ~(h < g)
    <3>1. Multiple(h, g)
      BY <2>2, <1>1, <1>2, PowersDivide DEF Width, Pos, IntType
    <3> QED
      BY <2>2, <3>1, <1>2, RegNarrower DEF CastInt
  <2> QED
    BY <2>1, <2>2
<1>4. Decode(Reg(o.a, g), o.res) = Wrapped(o.a, o.res)
  BY <1>1, <1>2, DecodeReg
<1>5. Meaning(o) = Value(Wrapped(o.a, o.res))
  BY DEF Meaning, Orders, CheckedKinds
<1>6. Run(c, x, y) = Value(CastInt(o.lhs.signed, x, h, g))
  BY DEF Run
<1> QED
  BY <1>3, <1>4, <1>5, <1>6, ReadValue DEF Correct

(* An integer as a float, with the sign of its type. *)
LEMMA IntToFloatCorrect ==
    ASSUME NEW o, WellFormed(o), NEW c, o.kind = "IntToFloat", c.ins = "itofp",
           c.half = o.lhs.half, c.signed = o.lhs.signed
    PROVE  Correct(o, c)
<1> DEFINE x == Encode(o.a, o.lhs)
           y == Encode(o.b, o.rhs)
           h == o.lhs.half
<1>1. IntType(o.lhs) /\ InType(o.a, o.lhs) /\ o.res.class = "float"
  BY DEF WellFormed, Arithmetic, CheckedKinds, Shifts, Orders, Refused, FloatType
<1>2. (IF o.lhs.signed THEN Sgn(x, h) ELSE x) = o.a
  BY <1>1, EncodeDecode
<1>3. Meaning(o) = Value(FromInt(o.a))
  BY DEF Meaning, Orders, CheckedKinds
<1>4. Run(c, x, y) = Value(FromInt(IF o.lhs.signed THEN Sgn(x, h) ELSE x))
  BY DEF Run
<1>5. Decode(FromInt(o.a), o.res) = FromInt(o.a)
  BY <1>1 DEF Decode
<1> QED
  BY <1>2, <1>3, <1>4, <1>5, ReadValue DEF Correct

(* Halves cut to integers: truncation towards zero. *)
LEMMA HalfQuotient ==
    ASSUME NEW n \in Int
    PROVE  /\ Quotient(n, 2) \in Int
           /\ n >= 0 => Quotient(n, 2) >= 0 /\ 2 * Quotient(n, 2) <= n
                            /\ n <= 2 * Quotient(n, 2) + 1
           /\ n < 0 => Quotient(n, 2) <= 0 /\ 2 * Quotient(n, 2) >= n
                            /\ n >= 2 * Quotient(n, 2) - 1
<1>1. CASE n >= 0
  <2>1. Quotient(n, 2) = n \div 2
    BY <1>1 DEF Quotient, Magnitude
  <2> QED
    BY <2>1, <1>1
<1>2. CASE n < 0
  <2>1. Quotient(n, 2) = -((-n) \div 2)
    BY <1>2 DEF Quotient, Magnitude
  <2> QED
    BY <2>1, <1>2
<1> QED
  BY <1>1, <1>2

(* Float casts: the thresholds cut off exactly what does not fit. *)
LEMMA FloatToIntCorrect ==
    ASSUME NEW o, WellFormed(o), NEW c, o.kind = "FloatToInt", c.ins = "fptoi",
           c.half = o.res.half, c.signed = o.res.signed
    PROVE  Correct(o, c)
<1> DEFINE t == o.res
           h == t.half
           f == o.a
           y == Encode(o.b, o.rhs)
           z == Quotient(f.n, 2)
           bound == Highest(t) + 1
<1>1. FloatType(o.lhs) /\ IntType(t) /\ IsFloat(f)
  BY DEF WellFormed, Arithmetic, CheckedKinds, Shifts, Orders, Refused
<1>2. /\ h \in Nat /\ h > 0 /\ t.signed \in BOOLEAN
      /\ f.nan \in BOOLEAN /\ f.n \in Int /\ Encode(f, o.lhs) = f
  BY <1>1 DEF IntType, IsFloat, FloatType, Encode
<1>3. /\ z \in Int
      /\ f.n >= 0 => z >= 0 /\ 2 * z <= f.n /\ f.n <= 2 * z + 1
      /\ f.n < 0 => z <= 0 /\ 2 * z >= f.n /\ f.n >= 2 * z - 1
  BY <1>2, HalfQuotient
<1>4. /\ Lowest(t) \in Int /\ Highest(t) \in Int
      /\ Lowest(t) = (IF t.signed THEN -h ELSE 0)
      /\ bound = (IF t.signed THEN h ELSE 2 * h)
      /\ Lowest(t) <= 0 /\ 0 <= Highest(t)
  BY <1>2 DEF Lowest, Highest
<1>5. \A n \in Int : Fits(n, t) => Decode(Reg(n, h), t) = n
  BY <1>1, DecodeReg, WrappedFits
<1>6. Fits(0, t) /\ Fits(Lowest(t), t) /\ Fits(Highest(t), t)
  BY <1>4 DEF Fits
<1>7. Meaning(o) = Value(Saturated(f, t))
  BY DEF Meaning, Orders, CheckedKinds
<1>8. Run(c, f, y) = Value(FloatToInt(t.signed, f, h))
  BY DEF Run
<1>9. Decode(FloatToInt(t.signed, f, h), t) = Saturated(f, t)
  <2>1. CASE f.nan
    <3>1. FloatToInt(t.signed, f, h) = 0 /\ Saturated(f, t) = 0
      BY <2>1 DEF FloatToInt, Saturated
    <3>2. Decode(0, t) = 0
      BY <1>2 DEF Decode, Sgn
    <3> QED
      BY <3>1, <3>2
  <2>2. CASE ~f.nan /\ f.n >= 2 * bound
    <3>1. FloatToInt(t.signed, f, h) = Reg(Highest(t), h)
      <4>1. bound - 1 = Highest(t)
        BY <1>4
      <4> QED
        BY <2>2, <4>1, <1>4 DEF FloatToInt
    <3>2. z > Highest(t) /\ ~(z < Lowest(t))
      BY <2>2, <1>3, <1>4, <1>2
    <3>3. Saturated(f, t) = Highest(t)
      BY <2>2, <3>2 DEF Saturated
    <3> QED
      BY <3>1, <3>3, <1>4, <1>5, <1>6
  <2>3. CASE ~f.nan /\ ~(f.n >= 2 * bound) /\ f.n <= 2 * Lowest(t)
    <3>1. FloatToInt(t.signed, f, h) = Reg(Lowest(t), h)
      BY <2>3, <1>4 DEF FloatToInt
    <3>2. z <= Lowest(t) /\ ~(z > Highest(t))
      BY <2>3, <1>2, <1>3, <1>4
    <3>3. Saturated(f, t) = Lowest(t)
      BY <2>3, <3>2, <1>3, <1>4 DEF Saturated
    <3> QED
      BY <3>1, <3>3, <1>4, <1>5, <1>6
  <2>4. CASE ~f.nan /\ ~(f.n >= 2 * bound) /\ ~(f.n <= 2 * Lowest(t))
    <3>1. FloatToInt(t.signed, f, h) = Reg(z, h)
      BY <2>4, <1>4 DEF FloatToInt
    <3>2. ~(z < Lowest(t)) /\ ~(z > Highest(t))
      BY <2>4, <1>2, <1>3, <1>4
    <3>3. Saturated(f, t) = z /\ Fits(z, t)
      BY <2>4, <3>2, <1>3, <1>4 DEF Saturated, Fits
    <3> QED
      BY <3>1, <3>3, <1>3, <1>5
  <2> QED
    BY <2>1, <2>2, <2>3, <2>4
<1> QED
  BY <1>2, <1>7, <1>8, <1>9, ReadValue DEF Correct

(* Range indexing: the asserted comparisons are core's bounds, and no bound or *)
(* length wraps.                                                               *)
LEMMA RangeCorrect ==
    ASSUME NEW o, WellFormed(o), NEW c, o.kind = "Range", c.ins = "range",
           c.half = o.lhs.half, c.form = o.form, c.len = o.len
    PROVE  /\ Correct(o, c)
           /\ Meaning(o) = Panic \/ \E s, n \in Nat : Meaning(o) = Slice(s, n)
                                                  /\ s + n <= o.len
<1> DEFINE h == o.lhs.half
           a == o.a
           b == o.b
           len == o.len
<1>1. Ints(o) /\ ~o.lhs.signed /\ o.form \in RangeForms /\ InType(len, o.lhs)
  BY DEF WellFormed, Arithmetic, CheckedKinds, Shifts, Orders, Refused
<1>2. /\ Half(h) /\ h \in Nat /\ h > 0 /\ a \in Int /\ b \in Int /\ len \in Int
      /\ Encode(a, o.lhs) = a /\ Encode(b, o.rhs) = b
      /\ 0 <= a /\ a <= 2 * h - 1 /\ 0 <= b /\ b <= 2 * h - 1
      /\ 0 <= len /\ len <= 2 * h - 1
  <2>1. /\ Half(h) /\ a \in Int /\ b \in Int /\ InType(a, o.lhs) /\ InType(b, o.lhs)
        /\ Encode(a, o.lhs) = a /\ Encode(b, o.rhs) = b
    BY <1>1, TwoInts
  <2> QED
    BY <2>1, <1>1 DEF InType, Fits, Lowest, Highest, Half
<1>3. Meaning(o) = Ranged(o) /\ Run(c, a, b) = RangeCode(o.form, a, b, len, h)
  <2>1. Meaning(o) = Ranged(o)
    BY DEF Meaning, Orders, CheckedKinds
  <2>2. Run(c, a, b) = RangeCode(o.form, a, b, len, h)
    BY DEF Run
  <2> QED
    BY <2>1, <2>2
<1> DEFINE first == IF o.form \in {"FromTo", "From", "FromToInclusive"} THEN a ELSE 0
           past  == CASE o.form \in {"FromTo", "To"} -> b
                      [] o.form \in {"FromToInclusive", "ToInclusive"} -> b + 1
                      [] OTHER -> len
           empty == o.form = "FromToInclusive" /\ first = past
<1>4. Ranged(o) = IF first > past \/ past > len \/ empty THEN Panic
                  ELSE Slice(first, past - first)
  BY DEF Ranged
<1>5. \A n \in 0..(2 * h - 1) : Reg(n, h) = n
  BY <1>2, RegSmall
<1>6. \A p, q \in Int :
                /\ CmpI("Le", FALSE, p, q, h) <=> p <= q
                /\ CmpI("Lt", FALSE, p, q, h) <=> p < q
  BY DEF CmpI, Ordered
<1>7. RangeCode(o.form, a, b, len, h) = Ranged(o)
  <2>1. CASE o.form = "Full"
    <3>1. first = 0 /\ past = len /\ ~empty /\ len - 0 = len
      BY <2>1, <1>2
    <3>2. RangeCode(o.form, a, b, len, h) = Slice(0, len)
      BY <2>1 DEF RangeCode
    <3> QED
      BY <3>1, <3>2, <1>2, <1>4
  <2>2. CASE o.form = "FromTo"
    <3>1. first = a /\ past = b /\ ~empty
      BY <2>2
    <3>2. RangeCode(o.form, a, b, len, h) =
              IF CmpI("Le", FALSE, a, b, h) /\ CmpI("Le", FALSE, b, len, h)
              THEN Slice(a, Reg(b - a, h)) ELSE Panic
      BY <2>2 DEF RangeCode
    <3>3. a <= b => Reg(b - a, h) = b - a
      BY <1>2, <1>5
    <3> HIDE DEF first, past, empty, a, b, len, h
    <3>4. RangeCode(o.form, a, b, len, h) = IF a <= b /\ b <= len THEN Slice(a, b - a) ELSE Panic
      BY <3>2, <3>3, <1>2, <1>6
    <3>5. Ranged(o) = IF a <= b /\ b <= len THEN Slice(a, b - a) ELSE Panic
      BY <3>1, <1>2, <1>4
    <3> QED
      BY <3>4, <3>5
  <2>3. CASE o.form = "From"
    <3>1. first = a /\ past = len /\ ~empty
      BY <2>3
    <3>2. RangeCode(o.form, a, b, len, h) =
              IF CmpI("Le", FALSE, a, len, h) THEN Slice(a, Reg(len - a, h)) ELSE Panic
      BY <2>3 DEF RangeCode
    <3>3. a <= len => Reg(len - a, h) = len - a
      BY <1>2, <1>5
    <3> HIDE DEF first, past, empty, a, b, len, h
    <3>4. RangeCode(o.form, a, b, len, h) = IF a <= len THEN Slice(a, len - a) ELSE Panic
      BY <3>2, <3>3, <1>2, <1>6
    <3>5. Ranged(o) = IF a <= len THEN Slice(a, len - a) ELSE Panic
      BY <3>1, <1>2, <1>4
    <3> QED
      BY <3>4, <3>5
  <2>4. CASE o.form = "To"
    <3>1. first = 0 /\ past = b /\ ~empty /\ b - 0 = b
      BY <2>4, <1>2
    <3>2. RangeCode(o.form, a, b, len, h) =
              IF CmpI("Le", FALSE, b, len, h) THEN Slice(0, b) ELSE Panic
      BY <2>4 DEF RangeCode
    <3> HIDE DEF first, past, empty, a, b, len, h
    <3>4. RangeCode(o.form, a, b, len, h) = IF b <= len THEN Slice(0, b) ELSE Panic
      BY <3>2, <1>2, <1>6
    <3>5. Ranged(o) = IF b <= len THEN Slice(0, b) ELSE Panic
      BY <3>1, <1>2, <1>4
    <3> QED
      BY <3>4, <3>5
  <2>5. CASE o.form = "FromToInclusive"
    <3>1. first = a /\ past = b + 1 /\ (empty <=> a = b + 1)
      BY <2>5
    <3>2. RangeCode(o.form, a, b, len, h) =
              IF CmpI("Le", FALSE, a, b, h) /\ CmpI("Lt", FALSE, b, len, h)
              THEN Slice(a, Reg(Reg(b - a, h) + 1, h)) ELSE Panic
      BY <2>5 DEF RangeCode
    <3>3. a <= b /\ b < len => Reg(Reg(b - a, h) + 1, h) = (b + 1) - a
      <4> SUFFICES ASSUME a <= b, b < len PROVE Reg(Reg(b - a, h) + 1, h) = (b + 1) - a
        OBVIOUS
      <4>1. Reg(b - a, h) = b - a
        BY <1>2, <1>5
      <4>2. Reg((b - a) + 1, h) = (b - a) + 1
        BY <1>2, <1>5
      <4> QED
        BY <4>1, <4>2, <1>2
    <3> HIDE DEF first, past, empty, a, b, len, h
    <3>4. RangeCode(o.form, a, b, len, h) = IF a <= b /\ b < len THEN Slice(a, (b + 1) - a) ELSE Panic
      BY <3>2, <3>3, <1>2, <1>6
    <3>5. Ranged(o) = IF a <= b /\ b < len THEN Slice(a, (b + 1) - a) ELSE Panic
      BY <3>1, <1>2, <1>4
    <3> QED
      BY <3>4, <3>5
  <2>6. CASE o.form = "ToInclusive"
    <3>1. first = 0 /\ past = b + 1 /\ ~empty /\ (b + 1) - 0 = b + 1
      BY <2>6, <1>2
    <3>2. RangeCode(o.form, a, b, len, h) =
              IF CmpI("Lt", FALSE, b, len, h) THEN Slice(0, Reg(b + 1, h)) ELSE Panic
      BY <2>6 DEF RangeCode
    <3>3. b < len => Reg(b + 1, h) = b + 1
      BY <1>2, <1>5
    <3> HIDE DEF first, past, empty, a, b, len, h
    <3>4. RangeCode(o.form, a, b, len, h) = IF b < len THEN Slice(0, b + 1) ELSE Panic
      BY <3>2, <3>3, <1>2, <1>6
    <3>5. Ranged(o) = IF b < len THEN Slice(0, b + 1) ELSE Panic
      BY <3>1, <1>2, <1>4
    <3> QED
      BY <3>4, <3>5
  <2> QED
    BY <2>1, <2>2, <2>3, <2>4, <2>5, <2>6, <1>1 DEF RangeForms
<1>8. Ranged(o) = Panic \/ \E s, n \in Nat : Ranged(o) = Slice(s, n) /\ s + n <= len
  <2>1. first \in Nat /\ past \in Int
    BY <1>1, <1>2 DEF RangeForms
  <2> HIDE DEF first, past, empty, len
  <2>2. CASE first > past \/ past > len \/ empty
    BY <2>2, <1>4
  <2>3. CASE ~(first > past \/ past > len \/ empty)
    <3> DEFINE k == past - first
    <3>1. k \in Nat /\ first + k <= len
      BY <2>1, <2>3, <1>2
    <3>2. Ranged(o) = Slice(first, k)
      BY <2>3, <1>4
    <3> HIDE DEF k
    <3> QED
      BY <3>1, <3>2, <2>1
  <2> QED
    BY <2>2, <2>3
<1>9. Correct(o, c)
  <2>1. Read(Ranged(o), o.res) = Ranged(o)
    <3> HIDE DEF len
    <3> QED
      BY <1>8, ReadOther
  <2> QED
    BY <1>2, <1>3, <1>7, <2>1 DEF Correct
<1> QED
  BY <1>3, <1>8, <1>9

(***************************************************************************)
(* The operation on its way: what holds at each stage *)

(* What an operation means: a value, or a panic for a checked operation, or    *)
(* what its range says.                                                        *)
LEMMA MeaningShapes ==
    ASSUME NEW o, WellFormed(o), o.kind \notin Refused
    PROVE  \/ o.kind = "Range" /\ Meaning(o) = Ranged(o)
           \/ Meaning(o) = Panic
           \/ \E v : Meaning(o) = Value(v)
<1>1. CASE o.kind = "Range"
  BY <1>1 DEF Meaning, Orders, CheckedKinds
<1>2. CASE o.kind \in CheckedKinds
  <2>1. Meaning(o) = IF Fits(Exact(o.kind, o.a, o.b), o.res)
                     THEN Value(Exact(o.kind, o.a, o.b)) ELSE Panic
    BY <1>2 DEF Meaning, Orders, CheckedKinds
  <2> QED
    BY <2>1
<1>3. CASE o.kind \in Orders
  BY <1>3 DEF Meaning, Orders, CheckedKinds
<1>4. CASE o.kind \in Arithmetic
  BY <1>4 DEF Meaning, Orders, CheckedKinds, Arithmetic
<1>5. CASE o.kind \in Shifts \cup {"Div", "Rem"}
  BY <1>5 DEF Meaning, Orders, CheckedKinds, Shifts
<1>6. CASE o.kind \in {"Neg", "Not", "Const", "IntToInt", "FloatToInt", "IntToFloat"}
  BY <1>6 DEF Meaning, Orders, CheckedKinds
<1> QED
  BY <1>1, <1>2, <1>3, <1>4, <1>5, <1>6 DEF WellFormed, Refused

(* ... never that it is pending, *)
LEMMA MeaningIsOutcome ==
    ASSUME NEW o, WellFormed(o), o.kind \notin Refused
    PROVE  Meaning(o) # Pending
<1>1. /\ Panic # Pending
      /\ \A v : Value(v) # Pending
      /\ \A s, n : Slice(s, n) # Pending
  BY DEF Value, Panic, Slice, Pending
<1> QED
  BY <1>1, MeaningShapes DEF Ranged

(* and a slice only for a range. *)
LEMMA OnlyRangesSlice ==
    ASSUME NEW o, WellFormed(o), o.kind \notin Refused, Meaning(o).ends = "slice"
    PROVE  o.kind = "Range"
BY MeaningShapes DEF Value, Panic

(* What the patterns emit: the code c for the operation o. *)
Emits(o, c) ==
    \/ /\ c.half = o.lhs.half
       /\ \/ o.kind \in {"Add", "AddUnchecked"} /\ c.ins = "addi"
          \/ o.kind \in {"Sub", "SubUnchecked"} /\ c.ins = "subi"
          \/ o.kind \in {"Mul", "MulUnchecked"} /\ c.ins = "muli"
          \/ o.kind \in {"Shl", "ShlUnchecked"} /\ c.ins = "shli"
          \/ /\ o.kind \in {"BitAnd", "BitOr", "BitXor"}
             /\ c.ins = "bits" /\ c.kind = o.kind
          \/ /\ o.kind \in Orders /\ o.lhs.class = "int"
             /\ c.ins = "cmpi" /\ c.kind = o.kind /\ c.signed = o.lhs.signed
          \/ /\ o.kind \in Orders /\ o.lhs.class = "float"
             /\ c.ins = "cmpf" /\ c.kind = o.kind
          \/ o.kind = "Neg" /\ o.lhs.class = "int" /\ c.ins = "neg"
          \/ o.kind = "Not" /\ o.lhs.class = "int" /\ c.ins = "not"
          \/ o.kind = "Neg" /\ o.lhs.class = "float" /\ c.ins = "negf"
          \/ /\ o.kind = "IntToInt" /\ c.ins = "cast" /\ c.out = o.res.half
             /\ c.signed = o.lhs.signed
          \/ o.kind = "Range" /\ c.ins = "range" /\ c.form = o.form /\ c.len = o.len
    \/ /\ c.half = o.lhs.half /\ c.signed = o.lhs.signed
       /\ \/ o.kind = "Div" /\ c.ins = "div"
          \/ o.kind = "Rem" /\ c.ins = "rem"
          \/ o.kind \in {"Shr", "ShrUnchecked"} /\ c.ins = "shr"
          \/ o.kind = "CheckedAdd" /\ c.ins = "add checked"
          \/ o.kind = "CheckedSub" /\ c.ins = "sub checked"
          \/ o.kind = "CheckedMul" /\ c.ins = "mul checked"
          \/ o.kind = "IntToFloat" /\ c.ins = "itofp"
    \/ /\ o.kind = "Const" /\ c.ins = "const" /\ c.half = o.res.half
       /\ c.literal = o.a
    \/ /\ o.kind = "FloatToInt" /\ c.ins = "fptoi" /\ c.half = o.res.half
       /\ c.signed = o.res.signed

LEMMA ConvertEmits ==
    ASSUME Convert
    PROVE  /\ stage = "typed" /\ stage' = "arith" /\ Emits(op, code')
           /\ op' = op /\ result' = result
<1>1. CASE ConvertSimpleBinary
  <2>1. CASE op.kind \in DOMAIN SimpleBinary /\ Emit(Plain(SimpleBinary[op.kind]))
    <3>1. /\ stage = "typed" /\ stage' = "arith" /\ op' = op /\ result' = result
          /\ code'.ins = SimpleBinary[op.kind] /\ code'.half = op.lhs.half
      BY <2>1 DEF Emit, Plain
    <3>2. \/ op.kind \in {"Add", "AddUnchecked"} /\ code'.ins = "addi"
          \/ op.kind \in {"Sub", "SubUnchecked"} /\ code'.ins = "subi"
          \/ op.kind \in {"Mul", "MulUnchecked"} /\ code'.ins = "muli"
          \/ op.kind \in {"Shl", "ShlUnchecked"} /\ code'.ins = "shli"
      BY <2>1, <3>1 DEF SimpleBinary
    <3> QED
      BY <3>1, <3>2 DEF Emits
  <2>2. CASE /\ op.kind \in {"BitAnd", "BitOr", "BitXor"}
             /\ Emit([ins |-> "bits", half |-> op.lhs.half, kind |-> op.kind])
    <3>1. /\ stage = "typed" /\ stage' = "arith" /\ op' = op /\ result' = result
          /\ code'.ins = "bits" /\ code'.half = op.lhs.half /\ code'.kind = op.kind
      BY <2>2 DEF Emit
    <3> QED
      BY <2>2, <3>1 DEF Emits
  <2> QED
    BY <1>1, <2>1, <2>2 DEF ConvertSimpleBinary
<1>2. CASE ConvertDiv \/ ConvertRem
  <2>1. /\ stage = "typed" /\ stage' = "arith" /\ op' = op /\ result' = result
        /\ code'.half = op.lhs.half /\ code'.signed = op.lhs.signed
        /\ \/ op.kind = "Div" /\ code'.ins = "div"
           \/ op.kind = "Rem" /\ code'.ins = "rem"
    BY <1>2 DEF ConvertDiv, ConvertRem, Emit, BySign
  <2> QED
    BY <2>1 DEF Emits
<1>3. CASE ConvertShr
  <2>1. /\ stage = "typed" /\ stage' = "arith" /\ op' = op /\ result' = result
        /\ op.kind \in {"Shr", "ShrUnchecked"} /\ code'.ins = "shr"
        /\ code'.half = op.lhs.half /\ code'.signed = op.lhs.signed
    BY <1>3 DEF ConvertShr, Emit, BySign
  <2> QED
    BY <2>1 DEF Emits
<1>4. CASE ConvertCompare
  <2>1. /\ stage = "typed" /\ stage' = "arith" /\ op' = op /\ result' = result
        /\ op.kind \in Orders /\ code'.kind = op.kind /\ code'.ins = "cmpi"
        /\ code'.half = op.lhs.half /\ code'.signed = op.lhs.signed
        /\ op.lhs.class = "int"
    BY <1>4 DEF ConvertCompare, LowerableCompare, SameInt, Emit
  <2> QED
    BY <2>1 DEF Emits
<1>5. CASE ConvertFloatCompare
  <2>1. /\ stage = "typed" /\ stage' = "arith" /\ op' = op /\ result' = result
        /\ op.kind \in Orders /\ code'.kind = op.kind /\ code'.ins = "cmpf"
        /\ code'.half = op.lhs.half
        /\ op.lhs.class = "float"
    BY <1>5 DEF ConvertFloatCompare, LowerableFloatCompare, SameFloat, Emit
  <2> QED
    BY <2>1 DEF Emits
<1>6. CASE ConvertChecked
  <2>1. /\ stage = "typed" /\ stage' = "arith" /\ op' = op /\ result' = result
        /\ code'.half = op.lhs.half /\ code'.signed = op.lhs.signed
        /\ code'.ins = CheckedName[op.kind] /\ op.kind \in CheckedKinds
    BY <1>6 DEF ConvertChecked, Emit, BySign
  <2>2. \/ op.kind = "CheckedAdd" /\ code'.ins = "add checked"
        \/ op.kind = "CheckedSub" /\ code'.ins = "sub checked"
        \/ op.kind = "CheckedMul" /\ code'.ins = "mul checked"
    <3>1. /\ CheckedName["CheckedAdd"] = "add checked"
          /\ CheckedName["CheckedSub"] = "sub checked"
          /\ CheckedName["CheckedMul"] = "mul checked"
      BY DEF CheckedName
    <3> QED
      BY <2>1, <3>1 DEF CheckedKinds
  <2> QED
    BY <2>1, <2>2 DEF Emits
<1>7. CASE ConvertNeg \/ ConvertNot
  <2>1. /\ stage = "typed" /\ stage' = "arith" /\ op' = op /\ result' = result
        /\ code'.half = op.lhs.half /\ op.lhs.class = "int"
        /\ \/ op.kind = "Neg" /\ code'.ins = "neg"
           \/ op.kind = "Not" /\ code'.ins = "not"
    BY <1>7 DEF ConvertNeg, ConvertNot, SameInt, Emit, Plain
  <2> QED
    BY <2>1 DEF Emits
<1>8. CASE ConvertFloatNeg
  <2>1. /\ stage = "typed" /\ stage' = "arith" /\ op' = op /\ result' = result
        /\ op.lhs.class = "float" /\ op.kind = "Neg" /\ code'.ins = "negf"
        /\ code'.half = op.lhs.half
    BY <1>8 DEF ConvertFloatNeg, SameFloat, Emit, Plain
  <2> QED
    BY <2>1 DEF Emits
<1>9. CASE ConvertConst
  <2>1. /\ stage = "typed" /\ stage' = "arith" /\ op' = op /\ result' = result
        /\ op.kind = "Const" /\ code'.ins = "const" /\ code'.half = op.res.half
        /\ code'.literal = op.a
    BY <1>9 DEF ConvertConst, Emit
  <2> QED
    BY <2>1 DEF Emits
<1>10. CASE ConvertIntCast
  <2>1. /\ stage = "typed" /\ stage' = "arith" /\ op' = op /\ result' = result
        /\ op.kind = "IntToInt" /\ code'.ins = "cast" /\ code'.half = op.lhs.half
        /\ code'.out = op.res.half /\ code'.signed = op.lhs.signed
    BY <1>10 DEF ConvertIntCast, Emit
  <2> QED
    BY <2>1 DEF Emits
<1>11. CASE ConvertFloatToInt
  <2>1. /\ stage = "typed" /\ stage' = "arith" /\ op' = op /\ result' = result
        /\ op.kind = "FloatToInt" /\ code'.ins = "fptoi" /\ code'.half = op.res.half
        /\ code'.signed = op.res.signed
    BY <1>11 DEF ConvertFloatToInt, Emit
  <2> QED
    BY <2>1 DEF Emits
<1>12. CASE ConvertIntToFloat
  <2>1. /\ stage = "typed" /\ stage' = "arith" /\ op' = op /\ result' = result
        /\ op.kind = "IntToFloat" /\ code'.ins = "itofp" /\ code'.half = op.lhs.half
        /\ code'.signed = op.lhs.signed
    BY <1>12 DEF ConvertIntToFloat, Emit, BySign
  <2> QED
    BY <2>1 DEF Emits
<1>13. CASE ConvertRange
  <2>1. /\ stage = "typed" /\ stage' = "arith" /\ op' = op /\ result' = result
        /\ op.kind = "Range" /\ code'.ins = "range" /\ code'.half = op.lhs.half
        /\ code'.form = op.form /\ code'.len = op.len
    BY <1>13 DEF ConvertRange, Emit
  <2> QED
    BY <2>1 DEF Emits
<1> QED
  BY <1>1, <1>2, <1>3, <1>4, <1>5, <1>6, <1>7, <1>8, <1>9, <1>10, <1>11, <1>12,
     <1>13 DEF Convert

(* Whatever pattern matches, the code it emits is correct, but for constants   *)
(* that are misread.                                                           *)
Emitted(o, c) == IF Misread(o) THEN c.ins = "const" ELSE Correct(o, c)

LEMMA EmitsCorrect ==
    ASSUME NEW o, WellFormed(o), NEW c, Emits(o, c) PROVE Emitted(o, c)
<1>1. CASE Misread(o)
  BY <1>1 DEF Emitted, Misread, Emits, Orders
<1>2. CASE ~Misread(o)
  <2>1. Correct(o, c)
    BY <1>2, AddSubMulCorrect, ShiftCorrect, BitsCorrect, CompareCorrect,
       UnaryCorrect, FloatNegCorrect, IntCastCorrect, RangeCorrect, DivRemCorrect,
       CheckedCorrect, IntToFloatCorrect, ConstCorrect, FloatToIntCorrect
       DEF Emits
  <2> QED
    BY <1>2, <2>1 DEF Emitted
<1> QED
  BY <1>1, <1>2

(* What the code yields is a panic, a slice, or a value, in a register of the  *)
(* result's width if the result is an integer.                                 *)
InRegister(v, t) == t.class = "int" => v \in 0..(2 * t.half - 1)
Yields(r, t) ==
    \/ r.ends \in {"panic", "slice"}
    \/ r.ends = "value" /\ InRegister(r.v, t)

LEMMA YieldsReg ==
    ASSUME NEW t, Half(t.half), NEW n \in Int, NEW v, v = Reg(n, t.half)
    PROVE  Yields(Value(v), t)
BY RegSplit DEF Yields, InRegister, Value

LEMMA YieldsRegister ==
    ASSUME NEW t, NEW v \in 0..(2 * t.half - 1) PROVE Yields(Value(v), t)
BY DEF Yields, InRegister, Value

LEMMA YieldsChecked ==
    ASSUME NEW t, NEW k, k.v \in 0..(2 * t.half - 1) PROVE Yields(Asserted(k), t)
BY DEF Yields, InRegister, Value, Asserted, Panic

LEMMA EmitsYield ==
    ASSUME NEW o, WellFormed(o), NEW c, Emits(o, c)
    PROVE  Yields(Run(c, Encode(o.a, o.lhs), Encode(o.b, o.rhs)), o.res)
<1> DEFINE x == Encode(o.a, o.lhs)
           y == Encode(o.b, o.rhs)
           h == o.lhs.half
           t == o.res
           r == Run(c, x, y)
<1> SUFFICES Yields(r, t)
  OBVIOUS
<1>1. CASE o.kind \in Arithmetic \cup CheckedKinds \cup {"Div", "Rem"}
  <2>1. /\ Ints(o) /\ t = o.lhs
        /\ o.kind \in {"Div", "Rem"} =>
             o.b # 0 /\ ~(o.lhs.signed /\ o.a = Lowest(o.lhs) /\ o.b = -1)
    BY <1>1 DEF WellFormed, Arithmetic, CheckedKinds, Shifts, Orders, Refused
  <2>2. /\ Half(h) /\ o.a \in Int /\ o.b \in Int /\ IntType(o.lhs)
        /\ InType(o.a, o.lhs) /\ InType(o.b, o.lhs)
        /\ x \in 0..(2 * h - 1) /\ y \in 0..(2 * h - 1)
        /\ o.lhs.signed => Sgn(x, h) = o.a /\ Sgn(y, h) = o.b
        /\ ~o.lhs.signed => x = o.a /\ y = o.b
    BY <2>1, TwoInts
  <2>3. x \in Int /\ y \in Int /\ h \in Nat
    BY <2>2 DEF Half
  <2> HIDE DEF x, y
  <2>4. x + y \in Int /\ x - y \in Int /\ x * y \in Int
    BY <2>3
  <2>5. CASE c.ins \in {"addi", "subi", "muli"} /\ c.half = h
    <3>1. \/ r = Value(Reg(x + y, h))
          \/ r = Value(Reg(x - y, h))
          \/ r = Value(Reg(x * y, h))
      BY <2>5 DEF Run
    <3> QED
      BY <2>1, <2>2, <2>4, <3>1, YieldsReg
  <2>6. CASE c.ins = "bits" /\ c.half = h
    <3>1. r = Value(Bitwise(c.kind, x, y, h))
      BY <2>6 DEF Run
    <3>2. Bitwise(c.kind, x, y, h) \in 0..(2 * h - 1)
      BY <2>2, OfBitsRegister DEF Bitwise, Bits, Width, IntType, Pos
    <3> QED
      BY <2>1, <3>1, <3>2, YieldsRegister
  <2>7. CASE c.ins = "div" /\ c.half = h /\ c.signed = o.lhs.signed /\ o.kind = "Div"
    <3>1. CASE o.lhs.signed
      <4>1. r = Value(Reg(Quotient(o.a, o.b), h))
        BY <2>2, <2>7, <3>1 DEF Run
      <4>2. Quotient(o.a, o.b) \in Int
        BY <2>1, <2>2, <2>7, QuotientFits
      <4> QED
        BY <2>1, <2>2, <4>1, <4>2, YieldsReg
    <3>2. CASE ~o.lhs.signed
      <4>1. r = Value(x \div y)
        BY <2>7, <3>2 DEF Run
      <4>2. x >= 0 /\ y \in Nat /\ y >= 1
        BY <2>1, <2>2, <2>3, <2>7, <3>2
      <4>3. x \div y \in 0..x
        BY <2>3, <4>2, FloorShrinks
      <4>4. x \div y \in 0..(2 * h - 1)
        BY <2>2, <2>3, <4>3
      <4> QED
        BY <2>1, <4>1, <4>4, YieldsRegister
    <3> QED
      BY <3>1, <3>2
  <2>8. CASE c.ins = "rem" /\ c.half = h /\ c.signed = o.lhs.signed /\ o.kind = "Rem"
    <3>1. CASE o.lhs.signed
      <4>1. r = Value(Reg(Remainder(o.a, o.b), h))
        BY <2>2, <2>8, <3>1 DEF Run
      <4>2. Remainder(o.a, o.b) \in Int
        BY <2>1, <2>2, <2>8, QuotientFits
      <4> QED
        BY <2>1, <2>2, <4>1, <4>2, YieldsReg
    <3>2. CASE ~o.lhs.signed
      <4>1. r = Value(x % y)
        BY <2>8, <3>2 DEF Run
      <4>2. y \in Pos
        BY <2>1, <2>2, <2>3, <2>8, <3>2 DEF Pos
      <4>3. x % y \in 0..(y - 1)
        BY <2>3, <4>2, DivideSplit
      <4>4. x % y \in 0..(2 * h - 1)
        <5>1. \A n \in 0..(y - 1) : n \in 0..(2 * h - 1)
          BY <2>2, <2>3
        <5> QED
          BY <4>3, <5>1
      <4> QED
        BY <2>1, <4>1, <4>4, YieldsRegister
    <3> QED
      BY <3>1, <3>2
  <2>9. CASE c.ins \in {"add checked", "sub checked", "mul checked"} /\ c.half = h
             /\ c.signed = o.lhs.signed
    <3> DEFINE s == o.lhs.signed
               sum == CheckedAdd(s, x, y, h)
               difference == CheckedSub(s, x, y, h)
               product == CheckedMul(s, x, y, h)
    <3>1. r = Asserted(sum) \/ r = Asserted(difference) \/ r = Asserted(product)
      BY <2>9 DEF Run
    <3>2. sum.v = Reg(x + y, h) /\ difference.v = Reg(x - y, h)
      BY DEF CheckedAdd, CheckedSub
    <3>3. \E n \in Int : product.v = Reg(n, h)
      <4> DEFINE n == IF s THEN Sgn(x, h) * Sgn(y, h) ELSE x * y
      <4>1. n \in Int
        <5>1. s => Sgn(x, h) * Sgn(y, h) = o.a * o.b
          BY <2>2
        <5>2. o.a * o.b \in Int
          BY <2>2
        <5> QED
          BY <2>4, <5>1, <5>2
      <4>2. product.v = Reg(n, h)
        BY DEF CheckedMul
      <4> QED
        BY <4>1, <4>2
    <3> HIDE DEF sum, difference, product
    <3>4. \A n \in Int : Reg(n, h) \in 0..(2 * h - 1)
      BY <2>2, RegSplit
    <3> QED
      BY <2>1, <2>4, <3>1, <3>2, <3>3, <3>4, YieldsChecked
  <2> QED
    BY <1>1, <2>5, <2>6, <2>7, <2>8, <2>9
       DEF Emits, Arithmetic, CheckedKinds, Orders
<1>2. CASE o.kind \in Shifts
  <2>1. /\ IntType(o.lhs) /\ t = o.lhs /\ InType(o.a, o.lhs) /\ Half(h)
        /\ o.a \in Int /\ 2^o.b \in Nat /\ 2^o.b >= 1
        /\ x = Reg(o.a, h)
        /\ o.lhs.signed => Sgn(x, h) = o.a
        /\ ~o.lhs.signed => x = o.a
        /\ y = o.b
    BY <1>2, ShiftOperands
  <2>2. x \in 0..(2 * h - 1) /\ x \in Int /\ h \in Nat
    BY <2>1, RegSplit DEF Half
  <2> HIDE DEF x, y
  <2> DEFINE p == 2^o.b
  <2>3. p \in Nat /\ p >= 1 /\ p = 2^y
    BY <2>1
  <2> HIDE DEF p
  <2>4. CASE c.ins = "shli" /\ c.half = h
    <3>1. r = Value(Reg(x * p, h))
      BY <2>3, <2>4 DEF Run
    <3>2. x * p \in Int
      BY <2>2, <2>3
    <3> QED
      BY <2>1, <3>1, <3>2, YieldsReg
  <2>5. CASE c.ins = "shr" /\ c.half = h /\ c.signed = o.lhs.signed
    <3>1. CASE o.lhs.signed
      <4>1. r = Value(Reg(o.a \div p, h))
        BY <2>1, <2>3, <2>5, <3>1 DEF Run
      <4>2. o.a \div p \in Int
        BY <2>1, <2>3, FloorShrinks
      <4> QED
        BY <2>1, <4>1, <4>2, YieldsReg
    <3>2. CASE ~o.lhs.signed
      <4>1. r = Value(x \div p)
        BY <2>3, <2>5, <3>2 DEF Run
      <4>2. x \div p \in 0..x
        BY <2>2, <2>3, FloorShrinks
      <4>3. x \div p \in 0..(2 * h - 1)
        BY <2>2, <4>2
      <4> QED
        BY <2>1, <4>1, <4>3, YieldsRegister
    <3> QED
      BY <3>1, <3>2
  <2> QED
    BY <1>2, <2>4, <2>5 DEF Emits, Shifts, Orders
<1>3. CASE o.kind \in Orders
  <2>1. t = Bool
    BY <1>3 DEF WellFormed, Arithmetic, CheckedKinds, Shifts, Orders, Refused
  <2>2. \A q : Truth(q) \in 0..1
    BY DEF Truth
  <2>3. c.ins \in {"cmpi", "cmpf"}
    BY <1>3 DEF Emits, Orders
  <2>4. \E q : r = Value(Truth(q))
    BY <2>3 DEF Run
  <2>5. 2 * t.half - 1 = 1
    BY <2>1 DEF Bool
  <2> QED
    BY <2>2, <2>4, <2>5, YieldsRegister
<1>4. CASE o.kind \in {"Neg", "Not"} /\ o.lhs.class = "int"
  <2>1. t = o.lhs /\ IntType(o.lhs) /\ InType(o.a, o.lhs)
    BY <1>4 DEF WellFormed, Arithmetic, CheckedKinds, Shifts, Orders, Refused, FloatType
  <2>2. Half(h) /\ h \in Nat /\ o.a \in Int /\ x = Reg(o.a, h)
    BY <2>1, EncodeDecode DEF IntType, Half
  <2>3. x \in 0..(2 * h - 1) /\ x \in Int
    BY <2>2, RegSplit
  <2> HIDE DEF x, y
  <2>4. CASE c.ins = "neg" /\ c.half = h
    <3>1. r = Value(Reg(0 - x, h)) /\ 0 - x \in Int
      BY <2>3, <2>4 DEF Run
    <3> QED
      BY <2>1, <2>2, <3>1, YieldsReg
  <2>5. CASE c.ins = "not" /\ c.half = h
    <3>1. r = Value((2 * h - 1) - x) /\ (2 * h - 1) - x \in 0..(2 * h - 1)
      BY <2>2, <2>3, <2>5 DEF Run
    <3> QED
      BY <2>1, <3>1, YieldsRegister
  <2> QED
    BY <1>4, <2>4, <2>5 DEF Emits, Orders
<1>5. CASE o.kind \in {"Neg", "Not"} /\ o.lhs.class # "int"
  <2>1. c.ins = "negf" /\ t = o.lhs
    BY <1>5 DEF Emits, Orders, WellFormed, Arithmetic, CheckedKinds, Shifts, Refused
  <2>2. \E v : r = Value(v)
    BY <2>1 DEF Run
  <2> QED
    BY <1>5, <2>1, <2>2 DEF Yields, InRegister, Value
<1>6. CASE o.kind = "Const"
  <2>1. IntType(t) /\ InType(o.a, t) /\ c.ins = "const" /\ c.half = t.half
        /\ c.literal = o.a
    BY <1>6 DEF WellFormed, Arithmetic, CheckedKinds, Shifts, Orders, Refused, Emits
  <2>2. r = Value(Literal(o.a, t.half))
    BY <2>1 DEF Run
  <2>3. o.a \in Int /\ Half(t.half) /\ Half(AttrHalf)
    BY <2>1, AttributeAssumption DEF IntType, InType, Half
  <2>4. \E n \in Int : Literal(o.a, t.half) = Reg(n, t.half)
    <3>1. Magnitude(o.a) \in Int
      BY <2>3 DEF Magnitude
    <3>2. /\ Reg(Magnitude(o.a), t.half) \in Int /\ Reg(o.a, AttrHalf) \in Int
          /\ -Reg(Magnitude(o.a), t.half) \in Int
      BY <2>3, <3>1, RegSplit
    <3> QED
      BY <3>1, <3>2 DEF Literal
  <2> QED
    BY <2>2, <2>3, <2>4, YieldsReg
<1>7. CASE o.kind = "IntToInt"
  <2>1. IntType(o.lhs) /\ IntType(t) /\ InType(o.a, o.lhs)
    BY <1>7 DEF WellFormed, Arithmetic, CheckedKinds, Shifts, Orders, Refused
  <2>2. c.ins = "cast" /\ c.half = h /\ c.out = t.half /\ c.signed = o.lhs.signed
    BY <1>7 DEF Emits, Orders
  <2>3. /\ o.a \in Int /\ Half(h) /\ Half(t.half) /\ x = Reg(o.a, h)
        /\ o.lhs.signed => Sgn(x, h) = o.a
    BY <2>1, EncodeDecode DEF IntType, Half
  <2>4. x \in Int
    BY <2>3, RegSplit
  <2> HIDE DEF x, y
  <2>5. \E n \in Int : CastInt(o.lhs.signed, x, h, t.half) = Reg(n, t.half)
    BY <2>3, <2>4 DEF CastInt
  <2>6. r = Value(CastInt(o.lhs.signed, x, h, t.half))
    BY <2>2 DEF Run
  <2> QED
    BY <2>3, <2>5, <2>6, YieldsReg
<1>8. CASE o.kind = "FloatToInt"
  <2>1. FloatType(o.lhs) /\ IntType(t) /\ IsFloat(o.a) /\ x = o.a
    BY <1>8 DEF WellFormed, Arithmetic, CheckedKinds, Shifts, Orders, Refused,
                FloatType, Encode
  <2>2. c.ins = "fptoi" /\ c.half = t.half /\ c.signed = t.signed
    BY <1>8 DEF Emits, Orders
  <2>3. r = Value(FloatToInt(t.signed, o.a, t.half))
    BY <2>1, <2>2 DEF Run
  <2>4. FloatToInt(t.signed, o.a, t.half) \in 0..(2 * t.half - 1)
    <3> DEFINE f == o.a
               k == t.half
               lowest == IF t.signed THEN -k ELSE 0
               bound == IF t.signed THEN k ELSE 2 * k
               safe == IF f.nan \/ (~f.nan /\ f.n <= 2 * lowest)
                          \/ (~f.nan /\ f.n >= 2 * bound) THEN 0 ELSE f.n
    <3>1. Half(k) /\ k \in Nat /\ f.n \in Int
      BY <2>1 DEF IntType, Half, IsFloat
    <3>2. lowest \in Int /\ bound - 1 \in Int /\ safe \in Int
      BY <3>1
    <3>3. /\ Reg(lowest, k) \in 0..(2 * k - 1)
          /\ Reg(bound - 1, k) \in 0..(2 * k - 1)
      BY <3>1, <3>2, RegSplit
    <3>4. Reg(Quotient(safe, 2), k) \in 0..(2 * k - 1)
      <4> HIDE DEF safe
      <4>1. Quotient(safe, 2) \in Int
        BY <3>2, HalfQuotient
      <4> QED
        BY <3>1, <4>1, RegSplit
    <3>5. 0 \in 0..(2 * k - 1)
      BY <3>1 DEF Half
    <3>6. \/ FloatToInt(t.signed, f, k) = 0
          \/ FloatToInt(t.signed, f, k) = Reg(bound - 1, k)
          \/ FloatToInt(t.signed, f, k) = Reg(lowest, k)
          \/ FloatToInt(t.signed, f, k) = Reg(Quotient(safe, 2), k)
      BY DEF FloatToInt
    <3> HIDE DEF lowest, bound, safe
    <3> QED
      BY <3>3, <3>4, <3>5, <3>6
  <2> QED
    BY <2>3, <2>4, YieldsRegister
<1>9. CASE o.kind = "IntToFloat"
  <2>1. t.class # "int" /\ c.ins = "itofp"
    BY <1>9 DEF WellFormed, Arithmetic, CheckedKinds, Shifts, Orders, Refused,
                FloatType, Emits
  <2>2. \E v : r = Value(v)
    BY <2>1 DEF Run
  <2> QED
    BY <2>1, <2>2 DEF Yields, InRegister, Value
<1>10. CASE o.kind = "Range"
  <2>1. c.ins = "range"
    BY <1>10 DEF Emits, Orders
  <2>2. o.form \in RangeForms /\ c.form = o.form
    BY <1>10 DEF WellFormed, Arithmetic, CheckedKinds, Shifts, Orders, Refused, Emits
  <2>3. r = RangeCode(c.form, x, y, c.len, c.half)
    BY <2>1 DEF Run
  <2>4. r = Panic \/ \E u, n : r = Slice(u, n)
    BY <2>2, <2>3 DEF RangeCode, RangeForms
  <2> HIDE DEF r
  <2> QED
    BY <2>4 DEF Yields, Panic, Slice
<1> QED
  BY <1>1, <1>2, <1>3, <1>4, <1>5, <1>6, <1>7, <1>8, <1>9, <1>10
     DEF Emits, Arithmetic, Shifts, CheckedKinds

(* An operation no pattern matches. *)
LEMMA UnmatchedIsMixedShift ==
    ASSUME WellFormed(op), op.kind \notin Refused, ~Matched
    PROVE  op.kind \in Shifts /\ op.rhs.half # op.lhs.half
<1>1. CASE op.kind \in Shifts
  BY <1>1 DEF WellFormed, Arithmetic, CheckedKinds, Shifts, Orders, Refused, IntType,
              Matched, LowerableBinary, SameInt
<1>2. CASE op.kind \in Orders
  <2>1. (Ints(op) \/ Floats(op)) /\ op.res = Bool
    BY <1>2 DEF WellFormed, Arithmetic, CheckedKinds, Shifts, Orders, Refused
  <2>2. SameInt(op.res, Bool)
    BY <2>1 DEF SameInt, Bool
  <2>3. LowerableCompare \/ LowerableFloatCompare
    BY <2>1, <2>2 DEF Ints, Floats, IntType, FloatType, SameInt, SameFloat,
                      LowerableCompare, LowerableFloatCompare
  <2> QED
    BY <1>2, <2>3 DEF Matched
<1>3. CASE op.kind \in Arithmetic \cup CheckedKinds \cup {"Div", "Rem"}
  <2>1. Ints(op) /\ op.res = op.lhs
    BY <1>3 DEF WellFormed, Arithmetic, CheckedKinds, Shifts, Orders, Refused
  <2> QED
    BY <1>3, <2>1 DEF Ints, IntType, Matched, LowerableBinary, SameInt
<1>4. CASE op.kind \in {"Neg", "Not", "Const", "IntToInt", "FloatToInt", "IntToFloat",
                        "Range"}
  BY <1>4 DEF WellFormed, Arithmetic, CheckedKinds, Shifts, Orders, Refused, IntType,
              FloatType, Matched, SameInt, SameFloat
<1> QED
  BY <1>1, <1>2, <1>3, <1>4 DEF WellFormed

(* An emitted code is not the one there is before, *)
LEMMA EmitsSome ==
    ASSUME NEW o, NEW c, Emits(o, c) PROVE c # NoCode
<1>1. c.ins # "none"
  BY DEF Emits
<1> QED
  BY <1>1 DEF NoCode

(* and what it yields is not pending. *)
LEMMA YieldsSome ==
    ASSUME NEW r, NEW t, Yields(r, t) PROVE r # Pending
BY DEF Yields, Pending

(* The code is one a pattern emits, what ran yielded the meaning in a register,*)
(* nothing else has run, and what is left behind is a mixed shift.             *)
Inv ==
    /\ WellFormed(op)
    /\ stage \in {"mir", "refused", "typed", "left", "arith", "done"}
    /\ stage \in {"typed", "left", "arith", "done"} => op.kind \notin Refused
    /\ stage \in {"arith", "done"} => Emits(op, code)
    /\ stage \notin {"arith", "done"} => code = NoCode
    /\ stage = "done" =>
           /\ Yields(result, op.res)
           /\ IF Misread(op) THEN result.ends = "value" ELSE Seen = Meaning(op)
    /\ stage # "done" => result = Pending
    /\ OnlyMixedShiftsLeft

LEMMA ExecuteYields ==
    ASSUME Execute, WellFormed(op), Emits(op, code)
    PROVE  /\ Yields(result', op.res)
           /\ IF Misread(op) THEN result'.ends = "value" ELSE Seen' = Meaning(op)
<1>1. Emitted(op, code)
  BY EmitsCorrect
<1>2. Yields(result', op.res)
  BY EmitsYield DEF Execute
<1>3. CASE Misread(op)
  BY <1>1, <1>2, <1>3 DEF Execute, Emitted, Run, Value
<1>4. CASE ~Misread(op)
  BY <1>1, <1>2, <1>4 DEF Execute, Emitted, Seen, Correct
<1> QED
  BY <1>3, <1>4

LEMMA InvInit == Init => Inv
BY OperationsAssumption DEF Init, Inv, OnlyMixedShiftsLeft

LEMMA InvNext == Inv /\ [Next]_vars => Inv'
<1> SUFFICES ASSUME Inv, [Next]_vars PROVE Inv'
  OBVIOUS
<1>1. CASE Lift
  BY <1>1 DEF Lift, Inv, OnlyMixedShiftsLeft
<1>2. CASE Convert
  <2>1. /\ stage = "typed" /\ stage' = "arith" /\ Emits(op, code')
        /\ op' = op /\ result' = result
    BY <1>2, ConvertEmits
  <2>2. Emits(op', code')
    BY <2>1
  <2> QED
    BY <2>1, <2>2 DEF Inv, OnlyMixedShiftsLeft
<1>3. CASE Leave
  <2>1. op.kind \in Shifts /\ op.rhs.half # op.lhs.half
    BY <1>3, UnmatchedIsMixedShift DEF Leave, Inv
  <2> QED
    BY <1>3, <2>1 DEF Leave, Inv, OnlyMixedShiftsLeft
<1>4. CASE Execute
  <2>1. /\ Yields(result', op.res) /\ Emits(op, code)
        /\ IF Misread(op) THEN result'.ends = "value" ELSE Seen' = Meaning(op)
    BY <1>4, ExecuteYields DEF Execute, Inv
  <2>2. /\ stage' = "done" /\ op' = op /\ code' = code
        /\ Yields(result', op'.res) /\ Emits(op', code')
        /\ (IF Misread(op) THEN result.ends = "value" ELSE Seen = Meaning(op))'
    BY <1>4, <2>1 DEF Execute, Misread, InAttr
  <2> QED
    BY <1>4, <2>2 DEF Execute, Inv, OnlyMixedShiftsLeft
<1>5. CASE UNCHANGED vars
  BY <1>5 DEF vars, Inv, OnlyMixedShiftsLeft, Seen
<1> QED
  BY <1>1, <1>2, <1>3, <1>4, <1>5 DEF Next

LEMMA InvAlways == Spec => []Inv
BY InvInit, InvNext, PTL DEF Spec

(* An integer result is in a register of its type's width, whatever the        *)
(* operation and the width, and there is a code and a result exactly when there*)
(* should be.                                                                  *)
THEOREM TypeCorrect == Spec => []TypeOK
<1>1. Inv => TypeOK
  <2> SUFFICES ASSUME Inv PROVE TypeOK
    OBVIOUS
  <2>1. (code = NoCode) <=> stage \notin {"arith", "done"}
    BY EmitsSome DEF Inv
  <2>2. (result = Pending) <=> stage # "done"
    BY YieldsSome DEF Inv
  <2>3. result.ends = "value" /\ op.res.class = "int" =>
            result.v \in 0..(2 * op.res.half - 1)
    BY DEF Inv, Yields, InRegister, Pending
  <2> QED
    BY <2>1, <2>2, <2>3 DEF Inv, TypeOK
<1> QED
  BY <1>1, InvAlways, PTL

(* Only shifts by an amount of another width are left behind by the patterns of*)
(* RustTypedToArith, whatever the operations.                                  *)
THEOREM MixedShiftsTheorem == Spec => []OnlyMixedShiftsLeft
<1>1. Inv => OnlyMixedShiftsLeft
  BY DEF Inv
<1> QED
  BY <1>1, InvAlways, PTL

(* A checked addition, subtraction or multiplication aborts exactly when the   *)
(* mathematical result does not fit, at every width and sign.                  *)
THEOREM CheckedTheorem == Spec => []CheckedExact
<1>1. Inv => CheckedExact
  <2> SUFFICES ASSUME Inv, stage = "done", op.kind \in CheckedKinds PROVE CheckedExact
    BY DEF CheckedExact
  <2> DEFINE e == Exact(op.kind, op.a, op.b)
  <2>1. Read(result, op.res) = IF Fits(e, op.res) THEN Value(e) ELSE Panic
    <3>1. Meaning(op) = IF Fits(e, op.res) THEN Value(e) ELSE Panic
      BY DEF Meaning, Orders, CheckedKinds
    <3>2. ~Misread(op)
      BY DEF Misread, CheckedKinds
    <3> QED
      BY <3>1, <3>2 DEF Inv, Seen
  <2>2. CASE result.ends = "value"
    <3>1. Read(result, op.res) = Value(Decode(result.v, op.res))
      BY <2>2 DEF Read
    <3>2. Value(Decode(result.v, op.res)) # Panic
      BY DEF Value, Panic
    <3>3. Fits(e, op.res) /\ Decode(result.v, op.res) = e
      BY <2>1, <3>1, <3>2 DEF Value
    <3> QED
      BY <2>2, <3>3 DEF CheckedExact
  <2>3. CASE result.ends # "value"
    <3>1. Read(result, op.res) = result
      BY <2>3 DEF Read
    <3>2. ~Fits(e, op.res) /\ result = Panic
      BY <2>1, <2>3, <3>1 DEF Value
    <3> QED
      BY <3>2 DEF CheckedExact
  <2> QED
    BY <2>2, <2>3
<1> QED
  BY <1>1, InvAlways, PTL

(* A slice made by range indexing lies inside its receiver, at every width of  *)
(* usize.                                                                      *)
THEOREM SliceTheorem == Spec => []SliceInside
<1>1. Inv => SliceInside
  <2> SUFFICES ASSUME Inv, stage = "done", result.ends = "slice"
               PROVE  /\ result.start >= 0 /\ result.len >= 0
                      /\ result.start + result.len <= op.len
    BY DEF SliceInside
  <2>1. result = Meaning(op) /\ WellFormed(op) /\ op.kind \notin Refused
    BY DEF Inv, Seen, Read
  <2>2. op.kind = "Range"
    BY <2>1, OnlyRangesSlice
  <2> DEFINE c == [ins |-> "range", half |-> op.lhs.half, form |-> op.form, len |-> op.len]
  <2>3. Meaning(op) = Panic \/ \E s, n \in Nat : Meaning(op) = Slice(s, n)
                                                /\ s + n <= op.len
    <3>1. c.ins = "range" /\ c.half = op.lhs.half /\ c.form = op.form /\ c.len = op.len
      OBVIOUS
    <3> HIDE DEF c
    <3> QED
      BY <2>1, <2>2, <3>1, RangeCorrect
  <2>4. PICK s \in Nat, n \in Nat : result = Slice(s, n) /\ s + n <= op.len
    BY <2>1, <2>3 DEF Panic
  <2> QED
    BY <2>4 DEF Slice
<1> QED
  BY <1>1, InvAlways, PTL

(* The lowering implements RustArith: an operation is evaluated at most once   *)
(* and yields what MIR says it means, at every width.                          *)
THEOREM RefinementTheorem == Spec => KeepsRustMeaning
<1>1. Init => R!Init
  BY OperationsAssumption DEF Init, R!Init, Outcome, Pending
<1>2. Inv /\ [Next]_vars => [R!Evaluate]_R!vars
  <2> SUFFICES ASSUME Inv, [Next]_vars PROVE [R!Evaluate]_R!vars
    OBVIOUS
  <2>1. CASE Lift
    BY <2>1 DEF Lift, R!vars, Outcome
  <2>2. CASE Convert
    <3>1. stage = "typed" /\ stage' = "arith" /\ op' = op
      BY <2>2, ConvertEmits DEF Inv
    <3> QED
      BY <3>1 DEF R!vars, Outcome
  <2>3. CASE Leave
    BY <2>3 DEF Leave, R!vars, Outcome
  <2>4. CASE Execute
    <3>1. /\ stage = "arith" /\ stage' = "done" /\ op' = op
          /\ op.kind \notin Refused /\ WellFormed(op)
      BY <2>4 DEF Execute, Inv
    <3>2. CASE Misread(op)
      <4>1. Misread(op')
        BY <3>1, <3>2
      <4> QED
        BY <3>1, <3>2, <4>1 DEF R!vars, Outcome, Misread
    <3>3. CASE ~Misread(op)
      <4>1. Seen' = Meaning(op)
        BY <2>4, <3>3, ExecuteYields DEF Inv, Execute
      <4>2. Meaning(op) # Pending
        BY <3>1, MeaningIsOutcome
      <4>3. Outcome = Pending /\ Outcome' = Meaning(op)
        BY <3>1, <3>3, <4>1 DEF Outcome, Misread
      <4> QED
        BY <3>1, <4>2, <4>3 DEF R!Evaluate
    <3> QED
      BY <3>2, <3>3
  <2>5. CASE UNCHANGED vars
    BY <2>5 DEF vars, R!vars, Outcome, Seen
  <2> QED
    BY <2>1, <2>2, <2>3, <2>4, <2>5 DEF Next
<1> QED
  BY <1>1, <1>2, InvAlways, PTL DEF Spec, KeepsRustMeaning, R!Spec
=============================================================================
