----------------------------- MODULE BuddyProofs -----------------------------
(***************************************************************************)
(* That the buddy manager implements Arena and loses nothing of what is    *)
(* freed, for every size of the memory, of the blocks and of the headers.  *)
(* The blocks in use and in the lists tile the memory, each aligned to its *)
(* size; so at the address of a buddy a block starts, and the header that  *)
(* freeMemory reads there is never one that a holder of memory wrote.      *)
(***************************************************************************)
EXTENDS BuddyMemory, SequenceTheorems, WellFoundedInduction, TLAPS

(* A set of naturals has a least element.                                  *)
LEMMA LeastNatural ==
  ASSUME NEW S, S \subseteq Nat, S # {}
  PROVE  \E x \in S : \A y \in S : x <= y
<1>. DEFINE R == OpToRel(<, Nat)
<1>1. R = {ss \in Nat \X Nat : ss[1] < ss[2]}
  BY DEF OpToRel
<1>2. IsWellFoundedOn(R, Nat)
  BY NatLessThanWellFounded
<1>. HIDE DEF R
<1>3. PICK x \in S : \A y \in S : ~(<<y, x>> \in R)
  BY <1>2, WFMin
<1>4. ASSUME NEW y \in S PROVE x <= y
  <2>1. x \in Nat /\ y \in Nat
    OBVIOUS
  <2>2. ~(y < x)
    BY <1>1, <1>3, <2>1
  <2>. QED  BY <2>1, <2>2
<1>. QED  BY <1>4

-----------------------------------------------------------------------------
(* Multiples of powers of two.                                             *)
Multiple(a, n) == \E k \in Nat : a = k * n

(* A smaller power of two divides a larger one.                            *)
LEMMA PowersDivide ==
  ASSUME BuddyAssumption, NEW e \in 0 .. MaxExp, NEW d \in 0 .. e
  PROVE  /\ 2^e \in Nat \ {0} /\ 2^d \in Nat \ {0} /\ Multiple(2^e, 2^d)
         /\ d < e => d + 1 \in 0 .. e /\ 2^(d + 1) = 2 * 2^d
<1>1. MaxExp \in Nat /\ \A x \in 0 .. MaxExp : 2^x \in Nat \ {0} /\ 2^(x + 1) = 2 * 2^x
  BY DEF BuddyAssumption
<1>. DEFINE S == {x \in d .. MaxExp : ~Multiple(2^x, 2^d)}
<1>2. CASE S = {}
  <2>1. e \in d .. MaxExp /\ d \in 0 .. MaxExp
    BY <1>1
  <2>2. Multiple(2^e, 2^d)
    BY <1>2, <2>1
  <2>. QED  BY <1>1, <2>1, <2>2
<1>3. CASE S # {}
  <2>1. S \subseteq Nat
    BY <1>1
  <2>2. PICK x \in S : \A y \in S : x <= y
    <3>. HIDE DEF S
    <3>. QED  BY <1>3, <2>1, LeastNatural
  <2>3. x \in d .. MaxExp /\ ~Multiple(2^x, 2^d)
    BY <2>2
  <2>4. 2^d \in Nat \ {0} /\ 2^x \in Nat \ {0}
    BY <1>1, <2>3
  <2>5. x # d
    <3>1. 2^d = 1 * 2^d
      BY <2>4
    <3>. QED  BY <2>3, <3>1 DEF Multiple
  <2>6. x - 1 \in d .. MaxExp /\ ~(x <= x - 1) /\ x = (x - 1) + 1 /\ x - 1 \in 0 .. MaxExp
    BY <1>1, <2>3, <2>5
  <2>7. Multiple(2^(x - 1), 2^d)
    BY <2>2, <2>6
  <2>8. PICK k \in Nat : 2^(x - 1) = k * 2^d
    BY <2>7 DEF Multiple
  <2>9. 2^x = 2 * 2^(x - 1)
    BY <1>1, <2>6
  <2>. DEFINE n == 2^d
  <2>10. n \in Nat /\ 2^x = 2 * (k * n)
    BY <2>4, <2>8, <2>9
  <2>. HIDE DEF n
  <2>11. 2 * (k * n) = (2 * k) * n /\ 2 * k \in Nat
    BY <2>10
  <2>. QED  BY <2>3, <2>10, <2>11 DEF Multiple, n
<1>. QED  BY <1>2, <1>3

(* Zero and n are multiples of n.                                          *)
LEMMA SelfMultiple == ASSUME NEW n \in Nat PROVE Multiple(0, n) /\ Multiple(n, n)
<1>1. 0 = 0 * n /\ n = 1 * n
  OBVIOUS
<1>2. 0 \in Nat /\ 1 \in Nat
  OBVIOUS
<1>. QED  BY <1>1, <1>2 DEF Multiple

(* Multiples of n lie n apart, and add and subtract.                       *)
LEMMA Multiples ==
  ASSUME NEW n \in Nat \ {0}, NEW a \in Nat, NEW b \in Nat, Multiple(a, n), Multiple(b, n)
  PROVE  /\ a < b => a + n <= b
         /\ Multiple(a + b, n) /\ (b <= a => Multiple(a - b, n))
<1>1. PICK i \in Nat : a = i * n
  BY DEF Multiple
<1>2. PICK j \in Nat : b = j * n
  BY DEF Multiple
<1>3. a + b = (i + j) * n /\ i + j \in Nat
  BY <1>1, <1>2
<1>4. a < b => i < j
  <2>1. ASSUME a < b, j <= i PROVE FALSE
    <3>1. PICK k \in Nat : i = j + k
      <4>1. i - j \in Nat /\ i = j + (i - j)
        BY <2>1
      <4>. QED  BY <4>1
    <3>2. a = (j * n) + (k * n) /\ k * n \in Nat
      BY <1>1, <3>1
    <3>. QED  BY <1>2, <2>1, <3>2
  <2>. QED  BY <2>1
<1>5. a < b => a + n <= b
  <2>1. ASSUME i < j PROVE a + n <= b
    <3>1. PICK k \in Nat : j = i + 1 + k
      <4>1. j - (i + 1) \in Nat /\ j = i + 1 + (j - (i + 1))
        BY <2>1
      <4>. QED  BY <4>1
    <3>2. b = (i * n) + n + (k * n) /\ k * n \in Nat /\ i * n \in Nat
      BY <1>2, <3>1
    <3>. QED  BY <1>1, <3>2
  <2>. QED  BY <1>4, <2>1
<1>6. ASSUME b <= a PROVE Multiple(a - b, n)
  <2>1. j <= i
    <3>1. ASSUME i < j PROVE FALSE
      <4>1. PICK k \in Nat : j = i + 1 + k
        <5>1. j - (i + 1) \in Nat /\ j = i + 1 + (j - (i + 1))
          BY <3>1
        <5>. QED  BY <5>1
      <4>2. b = (i * n) + n + (k * n) /\ k * n \in Nat /\ i * n \in Nat
        BY <1>2, <4>1
      <4>. QED  BY <1>1, <1>6, <4>2
    <3>. QED  BY <3>1
  <2>2. i - j \in Nat /\ a - b = (i - j) * n
    BY <1>1, <1>2, <2>1
  <2>. QED  BY <2>2 DEF Multiple
<1>. QED  BY <1>3, <1>5, <1>6 DEF Multiple

(* A multiple of a multiple.                                               *)
LEMMA MultiplesChain ==
  ASSUME NEW n \in Nat, NEW m \in Nat, NEW a \in Nat, Multiple(a, m), Multiple(m, n)
  PROVE  Multiple(a, n)
<1>1. PICK i \in Nat : a = i * m
  BY DEF Multiple
<1>2. PICK j \in Nat : m = j * n
  BY DEF Multiple
<1>3. a = (i * j) * n /\ i * j \in Nat
  BY <1>1, <1>2
<1>. QED  BY <1>3 DEF Multiple

(* What % and \div give, and the multiples by them.                        *)
LEMMA Remainder ==
  ASSUME NEW n \in Nat \ {0}, NEW a \in Nat
  PROVE  /\ a \div n \in Nat /\ a % n \in 0 .. n - 1 /\ a = (a \div n) * n + (a % n)
         /\ a % n = 0 <=> Multiple(a, n)
         /\ \A k \in Nat : a = k * n => a \div n = k
<1>1. a \div n \in Nat /\ a % n \in 0 .. n - 1 /\ a = ((a \div n) * n) + (a % n)
  OBVIOUS
<1>2. a % n = 0 => a = (a \div n) * n
  <2>. DEFINE q == (a \div n) * n
  <2>1. q \in Nat
    BY <1>1
  <2>. HIDE DEF q
  <2>2. a = q + (a % n)
    BY <1>1 DEF q
  <2>3. a % n = 0 => a = q
    BY <2>1, <2>2
  <2>. QED  BY <2>3 DEF q
<1>3. ASSUME NEW k \in Nat, a = k * n PROVE a % n = 0 /\ a \div n = k
  <2>. DEFINE q == a \div n
              r == a % n
  <2>1. q \in Nat /\ r \in 0 .. n - 1 /\ k * n = (q * n) + r
    BY <1>1, <1>3
  <2>. HIDE DEF q, r
  <2>2. CASE q < k
    <3>1. PICK j \in Nat : k = q + 1 + j
      <4>1. k - (q + 1) \in Nat /\ k = q + 1 + (k - (q + 1))
        BY <2>1, <2>2
      <4>. QED  BY <4>1
    <3>2. k * n = (q * n) + n + (j * n) /\ j * n \in Nat /\ q * n \in Nat
      BY <2>1, <3>1
    <3>. QED  BY <2>1, <3>2
  <2>3. CASE k < q
    <3>1. PICK j \in Nat : q = k + 1 + j
      <4>1. q - (k + 1) \in Nat /\ q = k + 1 + (q - (k + 1))
        BY <2>1, <2>3
      <4>. QED  BY <4>1
    <3>2. q * n = (k * n) + n + (j * n) /\ j * n \in Nat /\ k * n \in Nat
      BY <2>1, <3>1
    <3>. QED  BY <2>1, <3>2
  <2>4. CASE q = k
    <3>1. q * n \in Nat
      BY <2>1
    <3>. QED  BY <2>1, <2>4, <3>1 DEF q, r
  <2>. QED  BY <2>1, <2>2, <2>3, <2>4
<1>. QED  BY <1>1, <1>2, <1>3 DEF Multiple

-----------------------------------------------------------------------------
(* Blocks: m is a byte of the block of 2^e bytes at a.                     *)
Within(m, a, e) == a <= m /\ m < a + 2^e

(* A block aligned to its size lies on one side of an aligned address of a *)
(* larger size, never across.                                              *)
LEMMA Nest ==
  ASSUME BuddyAssumption, NEW e \in 0 .. MaxExp, NEW d \in 0 .. e, NEW a \in Nat,
         NEW b \in Nat, Multiple(a, 2^e), Multiple(b, 2^d)
  PROVE  /\ Multiple(a, 2^d) /\ Multiple(a + 2^e, 2^d)
         /\ b < a => b + 2^d <= a
         /\ b < a + 2^e => b + 2^d <= a + 2^e
<1>1. 2^e \in Nat \ {0} /\ 2^d \in Nat \ {0} /\ Multiple(2^e, 2^d)
  BY PowersDivide
<1>. DEFINE n == 2^d
            m == 2^e
<1>2. n \in Nat \ {0} /\ m \in Nat \ {0} /\ Multiple(m, n) /\ Multiple(a, m) /\ Multiple(b, n)
  BY <1>1
<1>. HIDE DEF n, m
<1>3. Multiple(a, n)
  BY <1>2, MultiplesChain
<1>4. Multiple(a + m, n) /\ a + m \in Nat
  BY <1>2, <1>3, Multiples
<1>5. (b < a => b + n <= a) /\ (b < a + m => b + n <= a + m)
  BY <1>2, <1>3, <1>4, Multiples
<1>. QED  BY <1>3, <1>4, <1>5 DEF n, m

(* BlockAt rounds down: the one aligned block of its size that an address  *)
(* lies in.                                                                *)
LEMMA Down ==
  ASSUME BuddyAssumption, NEW e \in 0 .. MaxExp, NEW a \in Nat
  PROVE  /\ BlockAt(a, e) \in Nat /\ Multiple(BlockAt(a, e), 2^e)
         /\ Within(a, BlockAt(a, e), e)
         /\ \A b \in Nat : Multiple(b, 2^e) /\ Within(a, b, e) => b = BlockAt(a, e)
<1>1. 2^e \in Nat \ {0}
  BY PowersDivide, 0 \in 0 .. e
<1>. DEFINE n == 2^e
            c == BlockAt(a, e)
<1>2. n \in Nat \ {0} /\ c = a - (a % n)
  BY <1>1 DEF BlockAt
<1>3. \A x \in Nat : Within(a, x, e) <=> x <= a /\ a < x + n
  BY DEF Within
<1>. HIDE DEF n, c
<1>4. a \div n \in Nat /\ a % n \in 0 .. n - 1 /\ a = ((a \div n) * n) + (a % n)
  BY <1>2, Remainder
<1>5. c = (a \div n) * n /\ c \in Nat /\ c <= a /\ a < c + n
  <2>. DEFINE q == (a \div n) * n
              r == a % n
  <2>1. q \in Nat /\ r \in 0 .. n - 1 /\ a = q + r /\ c = a - r
    BY <1>2, <1>4
  <2>. HIDE DEF q, r
  <2>2. c = q /\ c \in Nat /\ c <= a /\ a < c + n
    BY <1>2, <2>1
  <2>. QED  BY <2>2 DEF q
<1>6. Multiple(c, n)
  BY <1>4, <1>5 DEF Multiple
<1>7. ASSUME NEW b \in Nat, Multiple(b, n), b <= a, a < b + n PROVE b = c
  BY <1>2, <1>5, <1>6, <1>7, Multiples
<1>. QED  BY <1>3, <1>5, <1>6, <1>7 DEF n, c

(* Larger exponents, larger blocks.                                        *)
LEMMA PowersGrow ==
  ASSUME BuddyAssumption, NEW e \in 0 .. MaxExp, NEW d \in 0 .. e
  PROVE  /\ 2^d \in Nat \ {0} /\ 2^e \in Nat \ {0} /\ 2^d <= 2^e
         /\ d < e => 2 * 2^d <= 2^e /\ 2^(d + 1) = 2 * 2^d
<1>1. ASSUME NEW x \in 0 .. e PROVE 2^x \in Nat \ {0} /\ 2^x <= 2^e
  <2>1. 2^e \in Nat \ {0} /\ 2^x \in Nat \ {0} /\ Multiple(2^e, 2^x)
    BY PowersDivide
  <2>. DEFINE n == 2^x
              m == 2^e
  <2>2. PICK k \in Nat : m = k * n
    BY <2>1 DEF Multiple
  <2>3. m \in Nat \ {0} /\ n \in Nat \ {0}
    BY <2>1
  <2>. HIDE DEF n, m
  <2>4. k # 0
    BY <2>2, <2>3
  <2>5. PICK j \in Nat : k = j + 1
    <3>1. k - 1 \in Nat /\ k = (k - 1) + 1
      BY <2>4
    <3>. QED  BY <3>1
  <2>6. m = (j * n) + n /\ j * n \in Nat
    BY <2>2, <2>3, <2>5
  <2>7. n <= m
    BY <2>3, <2>6
  <2>. QED  BY <2>1, <2>7 DEF n, m
<1>2. ASSUME d < e PROVE 2 * 2^d <= 2^e /\ 2^(d + 1) = 2 * 2^d
  <2>1. d + 1 \in 0 .. e /\ 2^(d + 1) = 2 * 2^d
    BY <1>2, PowersDivide
  <2>. QED  BY <1>1, <2>1
<1>3. d \in 0 .. e /\ e \in 0 .. e
  OBVIOUS
<1>. QED  BY <1>1, <1>2, <1>3

(* Of two aligned blocks with a byte in common the larger one contains the *)
(* other.                                                                  *)
LEMMA Inside ==
  ASSUME BuddyAssumption, NEW e \in 0 .. MaxExp, NEW d \in 0 .. e, NEW a \in Nat,
         NEW b \in Nat, Multiple(a, 2^e), Multiple(b, 2^d),
         NEW m \in Nat, Within(m, a, e), Within(m, b, d)
  PROVE  /\ a <= b /\ b + 2^d <= a + 2^e
         /\ \A x \in Nat : Within(x, b, d) => Within(x, a, e)
<1>1. 2^e \in Nat \ {0} /\ 2^d \in Nat \ {0}
  BY PowersGrow
<1>2. (b < a => b + 2^d <= a) /\ (b < a + 2^e => b + 2^d <= a + 2^e)
  BY Nest
<1>3. a <= m /\ m < a + 2^e /\ b <= m /\ m < b + 2^d
  BY DEF Within
<1>4. a <= b /\ b + 2^d <= a + 2^e
  BY <1>1, <1>2, <1>3
<1>. QED  BY <1>1, <1>4 DEF Within

(* The two halves b and c of the block f.                                  *)
AreHalves(f, e, b, c) ==
  /\ b \in Nat /\ c \in Nat /\ f \in Nat /\ b # c
  /\ Multiple(b, 2^e) /\ Multiple(c, 2^e) /\ Multiple(f, 2^(e + 1))
  /\ (f = c /\ b = f + 2^e) \/ (f = b /\ c = f + 2^e)
  /\ \A m \in Nat : Within(m, f, e + 1) <=> Within(m, c, e) \/ Within(m, b, e)

(* A block and its buddy are the halves of the block above them.           *)
LEMMA Halves ==
  ASSUME BuddyAssumption, NEW e \in 0 .. MaxExp, e < MaxExp, NEW a \in Nat
  PROVE  AreHalves(BlockAt(a, e + 1), e, Buddy(BlockAt(a, e), e), BlockAt(a, e))
<1>. DEFINE c == BlockAt(a, e)
            b == Buddy(c, e)
            f == BlockAt(a, e + 1)
            n == 2^e
<1>1. /\ n \in Nat \ {0} /\ 2^(e + 1) = 2 * n /\ e + 1 \in 0 .. MaxExp
      /\ 2 * n \in Nat \ {0}
  BY DEF BuddyAssumption
<1>2. /\ c \in Nat /\ Multiple(c, n) /\ c <= a /\ a < c + n
      /\ f \in Nat /\ Multiple(f, 2 * n) /\ f <= a /\ a < f + 2 * n
      /\ \A x \in Nat : Multiple(x, 2 * n) /\ x <= a /\ a < x + 2 * n => x = f
  <2>1. c \in Nat /\ Multiple(c, 2^e) /\ Within(a, c, e)
    BY Down
  <2>2. /\ f \in Nat /\ Multiple(f, 2^(e + 1)) /\ Within(a, f, e + 1)
        /\ \A x \in Nat : Multiple(x, 2^(e + 1)) /\ Within(a, x, e + 1) => x = f
    BY <1>1, Down
  <2>3. \A x \in Nat : Within(a, x, e + 1) <=> x <= a /\ a < x + 2 * n
    BY <1>1 DEF Within
  <2>4. c <= a /\ a < c + n
    BY <2>1 DEF Within
  <2>. HIDE DEF c, f, n
  <2>5. f <= a /\ a < f + 2 * n /\ Multiple(f, 2 * n)
    BY <1>1, <2>2, <2>3
  <2>6. \A x \in Nat : Multiple(x, 2 * n) /\ x <= a /\ a < x + 2 * n => x = f
    BY <1>1, <2>2, <2>3
  <2>. QED  BY <2>1, <2>2, <2>4, <2>5, <2>6 DEF n
<1>3. b = IF (c \div n) % 2 = 0 THEN c + n ELSE c - n
  BY DEF Buddy
<1>4. \A m, x \in Nat : /\ Within(m, x, e) <=> x <= m /\ m < x + n
                        /\ Within(m, x, e + 1) <=> x <= m /\ m < x + 2 * n
  BY <1>1 DEF Within
<1>. HIDE DEF c, b, f, n
<1>5. PICK k \in Nat : c = k * n
  BY <1>2 DEF Multiple
<1>6. c \div n = k
  BY <1>1, <1>2, <1>5, Remainder
<1>7. k % 2 \in {0, 1} /\ k \div 2 \in Nat /\ k = 2 * (k \div 2) + (k % 2)
  OBVIOUS
<1>. DEFINE j == k \div 2
<1>8. CASE k % 2 = 0
  <2>1. b = c + n /\ j \in Nat /\ k = 2 * j
    BY <1>3, <1>6, <1>7, <1>8
  <2>. HIDE DEF j
  <2>2. c = j * (2 * n)
    BY <1>1, <1>5, <2>1
  <2>3. Multiple(c, 2 * n)
    BY <2>1, <2>2 DEF Multiple
  <2>4. c = f
    BY <1>1, <1>2, <2>3
  <2>5. b \in Nat /\ b # c
    BY <1>1, <1>2, <2>1
  <2>6. b = (k + 1) * n /\ k + 1 \in Nat
    BY <1>1, <1>5, <2>1
  <2>7. Multiple(b, n)
    BY <2>6 DEF Multiple
  <2>8. \A m \in Nat : Within(m, f, e + 1) <=> Within(m, c, e) \/ Within(m, b, e)
    BY <1>1, <1>2, <1>4, <2>1, <2>4, <2>5
  <2>9. AreHalves(f, e, b, c)
    BY <1>1, <1>2, <2>1, <2>4, <2>5, <2>7, <2>8 DEF n, AreHalves
  <2>. QED  BY <2>9 DEF c, b, f
<1>9. CASE k % 2 = 1
  <2>1. b = c - n /\ j \in Nat /\ k = 2 * j + 1
    BY <1>3, <1>6, <1>7, <1>9
  <2>. HIDE DEF j
  <2>2. c = (j * (2 * n)) + n /\ j * (2 * n) \in Nat
    BY <1>1, <1>5, <2>1
  <2>3. b = j * (2 * n) /\ b \in Nat /\ b # c /\ c = b + n
    BY <1>1, <2>1, <2>2
  <2>4. Multiple(b, 2 * n)
    BY <2>1, <2>3 DEF Multiple
  <2>5. b = f
    BY <1>1, <1>2, <2>3, <2>4
  <2>6. b = (2 * j) * n /\ 2 * j \in Nat
    BY <1>1, <2>1, <2>3
  <2>7. Multiple(b, n)
    BY <2>6 DEF Multiple
  <2>8. \A m \in Nat : Within(m, f, e + 1) <=> Within(m, c, e) \/ Within(m, b, e)
    BY <1>1, <1>2, <1>4, <2>3, <2>5
  <2>9. AreHalves(f, e, b, c)
    BY <1>1, <1>2, <2>3, <2>5, <2>7, <2>8 DEF n, AreHalves
  <2>. QED  BY <2>9 DEF c, b, f
<1>. QED  BY <1>7, <1>8, <1>9

-----------------------------------------------------------------------------
(* The blocks that start at the members of B, block a of 2^x[a] bytes,     *)
(* cover the memory without overlapping.                                   *)
Tiling(B, x) ==
  /\ B \subseteq Nat /\ x \in [B -> Exps]
  /\ \A a \in B : Multiple(a, 2^x[a]) /\ a + 2^x[a] <= 2^MaxExp
  /\ \A a, b \in B : a < b => a + 2^x[a] <= b
  /\ \A m \in Memory : \E a \in B : Within(m, a, x[a])

(* The exponents.                                                          *)
LEMMA ExpsFacts ==
  ASSUME BuddyAssumption
  PROVE  /\ MaxExp \in Nat /\ MIN_EXP \in Nat /\ Exps \subseteq 0 .. MaxExp
            /\ 2^MaxExp \in Nat \ {0}
         /\ \A e \in Exps : 2^e \in Nat \ {0} /\ e \in Nat /\ MIN_EXP <= e /\ e <= MaxExp
BY DEF BuddyAssumption, Exps

(* No byte is in two blocks of a tiling.                                   *)
LEMMA OneCovers ==
  ASSUME BuddyAssumption, NEW B, NEW x, Tiling(B, x), NEW a \in B, NEW b \in B,
         NEW m \in Nat, Within(m, a, x[a]), Within(m, b, x[b])
  PROVE  a = b
<1>1. a \in Nat /\ b \in Nat /\ 2^x[a] \in Nat /\ 2^x[b] \in Nat
  BY ExpsFacts DEF Tiling
<1>. QED  BY <1>1 DEF Tiling, Within

(* Blocks R make way for blocks N that cover the same bytes.               *)
MakeWay(B, x, R, N, C, z) ==
  /\ R \subseteq B /\ N \subseteq Nat /\ C = (B \ R) \cup N /\ z \in [C -> Exps]
  /\ \A c \in B \ R : z[c] = x[c]
  /\ \A a \in N : Multiple(a, 2^z[a]) /\ a + 2^z[a] <= 2^MaxExp
  /\ \A a, b \in N : a < b => a + 2^z[a] <= b
  /\ \A a \in R : \A m \in Nat : Within(m, a, x[a]) => \E b \in N : Within(m, b, z[b])
  /\ \A b \in N : \A m \in Nat : Within(m, b, z[b]) => \E a \in R : Within(m, a, x[a])

(* And when it is put in the place of R the memory is still tiled.         *)
LEMMA Replaced ==
  ASSUME BuddyAssumption, NEW B, NEW x, Tiling(B, x), NEW R, NEW N, NEW C, NEW z,
         MakeWay(B, x, R, N, C, z)
  PROVE  Tiling(C, z)
<1>. /\ R \subseteq B /\ N \subseteq Nat /\ C = (B \ R) \cup N /\ z \in [C -> Exps]
     /\ \A c \in B \ R : z[c] = x[c]
     /\ \A a \in N : Multiple(a, 2^z[a]) /\ a + 2^z[a] <= 2^MaxExp
     /\ \A a, b \in N : a < b => a + 2^z[a] <= b
     /\ \A a \in R : \A m \in Nat : Within(m, a, x[a]) => \E b \in N : Within(m, b, z[b])
     /\ \A b \in N : \A m \in Nat : Within(m, b, z[b]) => \E a \in R : Within(m, a, x[a])
  BY DEF MakeWay
<1>1. /\ \A a \in B : a \in Nat /\ x[a] \in Exps /\ 2^x[a] \in Nat \ {0}
      /\ \A a \in N : a \in Nat /\ z[a] \in Exps /\ 2^z[a] \in Nat \ {0}
  BY ExpsFacts DEF Tiling
<1>2. \A a \in C : Multiple(a, 2^z[a]) /\ a + 2^z[a] <= 2^MaxExp
  BY DEF Tiling
<1>3. ASSUME NEW a \in N, NEW b \in B \ R
      PROVE  /\ a < b => a + 2^z[a] <= b
             /\ b < a => b + 2^z[b] <= a
  <2>1. ASSUME NEW m \in Nat, Within(m, a, z[a]), Within(m, b, x[b]) PROVE FALSE
    <3>1. PICK r \in R : Within(m, r, x[r])
      BY <2>1
    <3>2. r = b
      BY <2>1, <3>1, OneCovers
    <3>. QED  BY <3>2
  <2>2. ASSUME a < b, ~(a + 2^z[a] <= b) PROVE FALSE
    <3>1. Within(b, a, z[a]) /\ Within(b, b, x[b])
      BY <1>1, <2>2 DEF Within
    <3>. QED  BY <1>1, <2>1, <3>1
  <2>3. ASSUME b < a, ~(b + 2^z[b] <= a) PROVE FALSE
    <3>1. Within(a, a, z[a]) /\ Within(a, b, x[b])
      BY <1>1, <2>3 DEF Within
    <3>. QED  BY <1>1, <2>1, <3>1
  <2>. QED  BY <2>2, <2>3
<1>4. \A a, b \in C : a < b => a + 2^z[a] <= b
  <2>1. \A a, b \in B \ R : a < b => a + 2^z[a] <= b
    BY DEF Tiling
  <2>. QED  BY <1>3, <2>1
<1>5. ASSUME NEW m \in Memory PROVE \E a \in C : Within(m, a, z[a])
  <2>1. PICK a \in B : Within(m, a, x[a])
    BY DEF Tiling
  <2>2. m \in Nat
    BY ExpsFacts DEF Memory
  <2>. QED  BY <2>1, <2>2
<1>6. C \subseteq Nat
  BY <1>1
<1>. QED  BY <1>2, <1>4, <1>5, <1>6 DEF Tiling

-----------------------------------------------------------------------------
(* The lists of free blocks.                                               *)
Once(s) == \A i, j \in DOMAIN s : s[i] = s[j] => i = j

(* What Tail leaves of a list without repetitions,                         *)
LEMMA TakeFirst ==
  ASSUME NEW T, NEW s \in Seq(T), Once(s), s # <<>>
  PROVE  /\ Head(s) \in ToSet(s) /\ Tail(s) \in Seq(T) /\ Once(Tail(s))
         /\ ToSet(Tail(s)) = ToSet(s) \ {Head(s)}
<1>1. /\ Len(s) \in Nat \ {0} /\ DOMAIN s = 1 .. Len(s) /\ Head(s) = s[1]
      /\ Tail(s) \in Seq(T) /\ DOMAIN Tail(s) = 1 .. Len(s) - 1
      /\ \A i \in DOMAIN Tail(s) : Tail(s)[i] = s[i + 1] /\ i + 1 \in DOMAIN s
  OBVIOUS
<1>2. Once(Tail(s))
  BY <1>1 DEF Once
<1>3. ASSUME NEW x \in ToSet(s), x # Head(s) PROVE x \in ToSet(Tail(s))
  <2>1. PICK i \in DOMAIN s : x = s[i]
    BY DEF ToSet
  <2>2. i - 1 \in DOMAIN Tail(s) /\ i = (i - 1) + 1
    BY <1>1, <1>3, <2>1
  <2>. QED  BY <1>1, <2>1, <2>2 DEF ToSet
<1>4. ASSUME NEW x \in ToSet(Tail(s)) PROVE x \in ToSet(s) /\ x # Head(s)
  <2>1. PICK i \in DOMAIN Tail(s) : x = Tail(s)[i]
    BY DEF ToSet
  <2>2. x = s[i + 1] /\ i + 1 \in DOMAIN s /\ i + 1 # 1 /\ 1 \in DOMAIN s
    BY <1>1, <2>1
  <2>. QED  BY <1>1, <2>2 DEF ToSet, Once
<1>5. Head(s) \in ToSet(s)
  <2>1. 1 \in DOMAIN s
    BY <1>1
  <2>. QED  BY <1>1, <2>1 DEF ToSet
<1>. QED  BY <1>1, <1>2, <1>3, <1>4, <1>5

(* what a block put first makes of it,                                     *)
LEMMA PutFirst ==
  ASSUME NEW T, NEW s \in Seq(T), Once(s), NEW x \in T, x \notin ToSet(s)
  PROVE  /\ <<x>> \o s \in Seq(T) /\ Once(<<x>> \o s)
         /\ ToSet(<<x>> \o s) = ToSet(s) \cup {x}
<1>. DEFINE t == <<x>> \o s
<1>1. /\ Len(s) \in Nat /\ DOMAIN s = 1 .. Len(s) /\ t \in Seq(T)
      /\ DOMAIN t = 1 .. Len(s) + 1 /\ t[1] = x
      /\ \A i \in DOMAIN s : t[i + 1] = s[i] /\ i + 1 \in DOMAIN t
      /\ \A i \in DOMAIN t : i # 1 => i - 1 \in DOMAIN s /\ t[i] = s[i - 1]
  OBVIOUS
<1>. HIDE DEF t
<1>2. \A i \in DOMAIN s : s[i] # x
  BY DEF ToSet
<1>3. ASSUME NEW i \in DOMAIN t, NEW j \in DOMAIN t, t[i] = t[j] PROVE i = j
  <2>1. CASE i = 1 \/ j = 1
    BY <1>1, <1>2, <1>3, <2>1
  <2>2. CASE i # 1 /\ j # 1
    <3>1. i - 1 = j - 1
      BY <1>1, <1>3, <2>2 DEF Once
    <3>. QED  BY <1>1, <3>1
  <2>. QED  BY <2>1, <2>2
<1>4. 1 \in DOMAIN t
  BY <1>1
<1>5. ASSUME NEW y PROVE y \in ToSet(t) <=> y \in ToSet(s) \cup {x}
  <2>1. ASSUME NEW i \in DOMAIN t, y = t[i] PROVE y \in ToSet(s) \cup {x}
    BY <1>1, <2>1 DEF ToSet
  <2>2. ASSUME NEW i \in DOMAIN s, y = s[i] PROVE y \in ToSet(t)
    BY <1>1, <2>2 DEF ToSet
  <2>3. x \in ToSet(t)
    BY <1>1, <1>4 DEF ToSet
  <2>. QED  BY <2>1, <2>2, <2>3 DEF ToSet
<1>6. Once(t)
  BY <1>3 DEF Once
<1>7. ToSet(t) = ToSet(s) \cup {x}
  BY <1>5
<1>. QED  BY <1>1, <1>6, <1>7 DEF t

(* and what removeMemoryBlock leaves.                                      *)
LEMMA TakeOut ==
  ASSUME NEW T, NEW s \in Seq(T), Once(s), NEW x \in ToSet(s)
  PROVE  /\ RemoveBlock(s, x) \in Seq(T) /\ Once(RemoveBlock(s, x))
         /\ ToSet(RemoveBlock(s, x)) = ToSet(s) \ {x}
<1>. DEFINE k == CHOOSE i \in 1 .. Len(s) : s[i] = x
            t == RemoveBlock(s, x)
<1>1. Len(s) \in Nat /\ DOMAIN s = 1 .. Len(s)
  OBVIOUS
<1>2. k \in 1 .. Len(s) /\ s[k] = x
  <2>1. \E i \in 1 .. Len(s) : s[i] = x
    BY <1>1 DEF ToSet
  <2>. QED  BY <2>1
<1>3. t = SubSeq(s, 1, k - 1) \o SubSeq(s, k + 1, Len(s))
  BY DEF RemoveBlock, RemoveAt
<1>. HIDE DEF k, t
<1>4. /\ SubSeq(s, 1, k - 1) \in Seq(T) /\ Len(SubSeq(s, 1, k - 1)) = k - 1
      /\ SubSeq(s, k + 1, Len(s)) \in Seq(T) /\ Len(SubSeq(s, k + 1, Len(s))) = Len(s) - k
      /\ \A i \in 1 .. k - 1 : SubSeq(s, 1, k - 1)[i] = s[i]
      /\ \A i \in 1 .. Len(s) - k : SubSeq(s, k + 1, Len(s))[i] = s[k + i]
  <2>1. /\ SubSeq(s, 1, k - 1) \in Seq(T) /\ Len(SubSeq(s, 1, k - 1)) = k - 1
        /\ \A i \in 1 .. k - 1 : SubSeq(s, 1, k - 1)[i] = s[i]
    BY <1>1, <1>2, SubSeqProperties
  <2>2. /\ SubSeq(s, k + 1, Len(s)) \in Seq(T) /\ Len(SubSeq(s, k + 1, Len(s))) = Len(s) - k
        /\ \A i \in 1 .. Len(s) - k : SubSeq(s, k + 1, Len(s))[i] = s[k + i]
    <3>1. k + 1 \in Int /\ Len(s) \in Int /\ \A i \in k + 1 .. Len(s) : s[i] \in T
      BY <1>1, <1>2
    <3>2. /\ SubSeq(s, k + 1, Len(s)) \in Seq(T)
          /\ Len(SubSeq(s, k + 1, Len(s))) =
               IF k + 1 <= Len(s) THEN Len(s) - (k + 1) + 1 ELSE 0
          /\ \A i \in 1 .. Len(s) - (k + 1) + 1 :
               SubSeq(s, k + 1, Len(s))[i] = s[(k + 1) + i - 1]
      BY <3>1, SubSeqProperties
    <3>3. /\ Len(s) - (k + 1) + 1 = Len(s) - k /\ (~(k + 1 <= Len(s)) => Len(s) - k = 0)
          /\ \A i \in 1 .. Len(s) - k : (k + 1) + i - 1 = k + i
      <4>. DEFINE n == Len(s)
      <4>1. n \in Nat /\ k \in 1 .. n
        BY <1>1, <1>2
      <4>. HIDE DEF n
      <4>2. n - (k + 1) + 1 = n - k /\ (~(k + 1 <= n) => n - k = 0)
        BY <4>1
      <4>3. \A i \in 1 .. n - k : (k + 1) + i - 1 = k + i
        BY <4>1
      <4>. QED  BY <4>2, <4>3 DEF n
    <3>. QED  BY <3>2, <3>3
  <2>. QED  BY <2>1, <2>2
<1>5. /\ t \in Seq(T) /\ DOMAIN t = 1 .. Len(s) - 1
      /\ \A i \in DOMAIN t : t[i] = IF i < k THEN s[i] ELSE s[i + 1]
  <2>. DEFINE l == SubSeq(s, 1, k - 1)
              r == SubSeq(s, k + 1, Len(s))
  <2>1. /\ l \in Seq(T) /\ Len(l) = k - 1 /\ r \in Seq(T) /\ Len(r) = Len(s) - k
        /\ \A i \in 1 .. k - 1 : l[i] = s[i]
        /\ \A i \in 1 .. Len(s) - k : r[i] = s[k + i]
    BY <1>4
  <2>2. t = l \o r
    BY <1>3
  <2>. HIDE DEF l, r
  <2>3. /\ t \in Seq(T) /\ DOMAIN t = 1 .. Len(s) - 1
        /\ \A i \in 1 .. Len(s) - 1 : t[i] = IF i < k THEN l[i] ELSE r[i - (k - 1)]
    <3>1. /\ t \in Seq(T) /\ Len(t) = Len(l) + Len(r)
          /\ \A i \in 1 .. Len(l) + Len(r) :
               t[i] = IF i <= Len(l) THEN l[i] ELSE r[i - Len(l)]
      BY <2>1, <2>2, ConcatProperties
    <3>2. Len(l) + Len(r) = Len(s) - 1 /\ DOMAIN t = 1 .. Len(t)
          /\ \A i \in 1 .. Len(s) - 1 : i <= k - 1 <=> i < k
      BY <1>1, <1>2, <2>1, <3>1
    <3>. QED  BY <2>1, <3>1, <3>2
  <2>4. ASSUME NEW i \in 1 .. Len(s) - 1, ~(i < k) PROVE r[i - (k - 1)] = s[i + 1]
    <3>1. i - (k - 1) \in 1 .. Len(s) - k /\ k + (i - (k - 1)) = i + 1
      BY <1>1, <1>2, <2>4
    <3>. QED  BY <2>1, <3>1
  <2>5. ASSUME NEW i \in 1 .. Len(s) - 1, i < k PROVE l[i] = s[i]
    BY <1>1, <1>2, <2>1, <2>5
  <2>. QED  BY <2>3, <2>4, <2>5
<1>6. \A i \in DOMAIN t : /\ i < k => i \in DOMAIN s
                          /\ i >= k => i + 1 \in DOMAIN s /\ i + 1 # k
  BY <1>1, <1>2, <1>5
<1>7. ASSUME NEW i \in DOMAIN t, NEW j \in DOMAIN t, t[i] = t[j] PROVE i = j
  <2>1. i \in Nat /\ j \in Nat /\ k \in Nat
    BY <1>1, <1>2, <1>5
  <2>. DEFINE f(n) == IF n < k THEN n ELSE n + 1
  <2>2. s[f(i)] = s[f(j)] /\ f(i) \in DOMAIN s /\ f(j) \in DOMAIN s
    BY <1>5, <1>6, <1>7, <2>1
  <2>3. f(i) = f(j)
    BY <2>2 DEF Once
  <2>. QED  BY <2>1, <2>3
<1>8. Once(t)
  BY <1>7 DEF Once
<1>9. ASSUME NEW y \in ToSet(t) PROVE y \in ToSet(s) /\ y # x
  <2>1. PICK i \in DOMAIN t : y = t[i]
    BY DEF ToSet
  <2>2. PICK j \in DOMAIN s : y = s[j] /\ j # k
    BY <1>1, <1>2, <1>5, <1>6, <2>1
  <2>3. k \in DOMAIN s
    BY <1>1, <1>2
  <2>. QED  BY <1>2, <2>2, <2>3 DEF ToSet, Once
<1>10. ASSUME NEW y \in ToSet(s), y # x PROVE y \in ToSet(t)
  <2>1. PICK i \in DOMAIN s : y = s[i]
    BY DEF ToSet
  <2>2. CASE i < k
    <3>1. i \in DOMAIN t /\ y = t[i]
      BY <1>1, <1>2, <1>5, <2>1, <2>2
    <3>. QED  BY <3>1 DEF ToSet
  <2>3. CASE i > k
    <3>1. i - 1 \in DOMAIN t /\ ~(i - 1 < k) /\ (i - 1) + 1 = i
      BY <1>1, <1>2, <1>5, <2>1, <2>3
    <3>2. y = t[i - 1]
      BY <1>5, <2>1, <3>1
    <3>. QED  BY <3>1, <3>2 DEF ToSet
  <2>4. i # k
    BY <1>2, <1>10, <2>1
  <2>. QED  BY <1>1, <1>2, <2>1, <2>2, <2>3, <2>4
<1>. QED  BY <1>5, <1>8, <1>9, <1>10 DEF t

-----------------------------------------------------------------------------
(* What the manager keeps: the header of a block in use says so, and that  *)
(* of one in a list says which; each piece has a block that holds it; and  *)
(* these blocks tile the memory.  And no two halves of a block are free.   *)
Starts(lists, pieces) ==
  {p.ptr - HeaderSize : p \in pieces} \cup UNION {ToSet(lists[e]) : e \in Exps}
Levels(headers, B) == [a \in B |-> headers[a].exp]
Kept(headers, lists, pieces) ==
  /\ headers \in [Addresses -> [exp : Exps, used : BOOLEAN]]
  /\ lists \in [Exps -> Seq(Nat)]
  /\ \A e \in Exps : Once(lists[e]) /\ \A a \in ToSet(lists[e]) : headers[a] = CreateBlock(e)
  /\ \A p \in pieces :
       /\ p \in [ptr : Nat, size : Sizes] /\ p.ptr - HeaderSize \in Nat
       /\ headers[p.ptr - HeaderSize].used
       /\ p.size + HeaderSize <= 2^headers[p.ptr - HeaderSize].exp
  /\ \A p, q \in pieces : p.ptr = q.ptr => p = q
  /\ Tiling(Starts(lists, pieces), Levels(headers, Starts(lists, pieces)))
NoTwins(lists) ==
  \A e \in Exps, f \in Nat :
    e < MaxExp /\ Multiple(f, 2^(e + 1)) => ~{f, f + 2^e} \subseteq ToSet(lists[e])

(* A block of the memory starts at an address that has a header.           *)
LEMMA Aligned ==
  ASSUME BuddyAssumption, NEW e \in Exps, NEW a \in Nat, Multiple(a, 2^e), a + 2^e <= 2^MaxExp
  PROVE  a \in Addresses
<1>1. e \in 0 .. MaxExp /\ MIN_EXP \in 0 .. e /\ 2^e \in Nat \ {0} /\ 2^MaxExp \in Nat
  BY ExpsFacts
<1>2. 2^MIN_EXP \in Nat \ {0} /\ Multiple(2^e, 2^MIN_EXP)
  BY <1>1, PowersDivide
<1>. DEFINE n == 2^MIN_EXP
            m == 2^e
<1>3. n \in Nat \ {0} /\ m \in Nat /\ Multiple(a, m) /\ Multiple(m, n)
  BY <1>1, <1>2
<1>. HIDE DEF n, m
<1>4. Multiple(a, n)
  BY <1>3, MultiplesChain
<1>5. a % n = 0
  BY <1>3, <1>4, Remainder
<1>. QED  BY <1>1, <1>5 DEF n, Addresses, Memory

(* What a header at a block's start says is so.                            *)
LEMMA StartFacts ==
  ASSUME BuddyAssumption, NEW headers, NEW lists, NEW pieces, Kept(headers, lists, pieces),
         NEW a \in Starts(lists, pieces)
  PROVE  /\ a \in Addresses /\ a \in Nat /\ headers[a].exp \in Exps
         /\ Multiple(a, 2^headers[a].exp) /\ a + 2^headers[a].exp <= 2^MaxExp
         /\ Within(a, a, headers[a].exp)
         /\ headers[a].used => \E p \in pieces : a = p.ptr - HeaderSize
         /\ ~headers[a].used => a \in ToSet(lists[headers[a].exp])
<1>. DEFINE B == Starts(lists, pieces)
            e == headers[a].exp
<1>1. /\ a \in Nat /\ Levels(headers, B) \in [B -> Exps] /\ Levels(headers, B)[a] = e
      /\ Multiple(a, 2^Levels(headers, B)[a]) /\ a + 2^Levels(headers, B)[a] <= 2^MaxExp
  BY DEF Kept, Tiling, Levels
<1>2. e \in Exps /\ Multiple(a, 2^e) /\ a + 2^e <= 2^MaxExp
  BY <1>1
<1>3. 2^e \in Nat \ {0}
  BY <1>2, ExpsFacts
<1>8. a \in Addresses
  BY <1>1, <1>2, Aligned
<1>9. Within(a, a, e)
  BY <1>1, <1>3 DEF Within
<1>10. headers[a].used => \E p \in pieces : a = p.ptr - HeaderSize
  <2>1. \A d \in Exps : \A x \in ToSet(lists[d]) : ~headers[x].used
    <3>1. \A d \in Exps : ~CreateBlock(d).used
      BY DEF CreateBlock
    <3>. QED  BY <3>1 DEF Kept
  <2>. QED  BY <2>1 DEF Starts
<1>11. ~headers[a].used => a \in ToSet(lists[e])
  <2>1. ASSUME ~headers[a].used PROVE a \in ToSet(lists[e])
    <3>1. \A p \in pieces : a # p.ptr - HeaderSize
      BY <2>1 DEF Kept
    <3>2. PICK d \in Exps : a \in ToSet(lists[d])
      BY <3>1 DEF Starts
    <3>3. headers[a] = CreateBlock(d)
      BY <3>2 DEF Kept
    <3>. QED  BY <3>2, <3>3 DEF CreateBlock
  <2>. QED  BY <2>1
<1>. QED  BY <1>1, <1>2, <1>8, <1>9, <1>10, <1>11

(* A block is in one list, or in use, and not both.                        *)
LEMMA OncePlaced ==
  ASSUME BuddyAssumption, NEW headers, NEW lists, NEW pieces, Kept(headers, lists, pieces)
  PROVE  /\ \A e \in Exps : \A a \in ToSet(lists[e]) :
              /\ a \in Starts(lists, pieces) /\ headers[a].exp = e /\ ~headers[a].used
              /\ \A d \in Exps : a \in ToSet(lists[d]) => d = e
              /\ \A p \in pieces : a # p.ptr - HeaderSize
         /\ \A p \in pieces : /\ p.ptr - HeaderSize \in Starts(lists, pieces)
                             /\ p.ptr - HeaderSize \in Nat
                             /\ p.ptr = (p.ptr - HeaderSize) + HeaderSize
                             /\ headers[p.ptr - HeaderSize].used
<1>1. \A e \in Exps : CreateBlock(e).exp = e /\ ~CreateBlock(e).used
  BY DEF CreateBlock
<1>2. \A e \in Exps : \A a \in ToSet(lists[e]) : headers[a].exp = e /\ ~headers[a].used
  BY <1>1 DEF Kept
<1>3. \A p \in pieces : headers[p.ptr - HeaderSize].used
  BY DEF Kept
<1>4. ASSUME NEW p \in pieces
      PROVE  /\ p.ptr - HeaderSize \in Starts(lists, pieces) /\ p.ptr - HeaderSize \in Nat
             /\ p.ptr = (p.ptr - HeaderSize) + HeaderSize
  <2>1. p \in [ptr : Nat, size : Sizes] /\ p.ptr - HeaderSize \in Nat /\ HeaderSize \in Nat
    BY DEF Kept, BuddyAssumption
  <2>2. p.ptr \in Nat
    BY <2>1
  <2>3. p.ptr = (p.ptr - HeaderSize) + HeaderSize
    BY <2>1, <2>2
  <2>. QED  BY <2>1, <2>3 DEF Starts
<1>5. \A e \in Exps : \A a \in ToSet(lists[e]) : a \in Starts(lists, pieces)
  BY DEF Starts
<1>6. ASSUME NEW e \in Exps, NEW a \in ToSet(lists[e])
      PROVE  /\ \A d \in Exps : a \in ToSet(lists[d]) => d = e
             /\ \A p \in pieces : a # p.ptr - HeaderSize
  BY <1>2, <1>3
<1>7. \A p \in pieces : /\ p.ptr - HeaderSize \in Starts(lists, pieces)
                        /\ p.ptr - HeaderSize \in Nat
                        /\ p.ptr = (p.ptr - HeaderSize) + HeaderSize
                        /\ headers[p.ptr - HeaderSize].used
  BY <1>3, <1>4
<1>. HIDE DEF Kept, Starts
<1>. QED  BY <1>2, <1>5, <1>6, <1>7

-----------------------------------------------------------------------------
(* allocMemory.  No request is larger than the memory: one that is stops   *)
(* the loop at the largest block and is given that, too small as it is.    *)
Requests == \A size \in Sizes : size \in Nat /\ size + HeaderSize <= 2^MaxExp

(* The block that allocMemory looks for holds the request and its header.  *)
LEMMA ExpForFits ==
  ASSUME BuddyAssumption, Requests, NEW size \in Sizes
  PROVE  ExpFor(size) \in Exps /\ size + HeaderSize <= 2^ExpFor(size)
<1>. DEFINE n == size + HeaderSize
            S == {e \in Exps : 2^e >= n \/ e = MaxExp}
<1>1. n \in Nat /\ n <= 2^MaxExp /\ \A e \in Exps : 2^e \in Nat
  BY ExpsFacts DEF Requests, BuddyAssumption
<1>. HIDE DEF n
<1>2. S \subseteq Nat /\ MaxExp \in S
  <2>1. MaxExp \in Exps /\ Exps \subseteq Nat
    BY DEF BuddyAssumption, Exps
  <2>. QED  BY <2>1
<1>3. PICK x \in S : \A y \in S : x <= y
  <2>. HIDE DEF S
  <2>. QED  BY <1>2, LeastNatural
<1>4. ASSUME NEW d \in MIN_EXP .. x - 1 PROVE 2^d < n
  <2>1. d \in Exps /\ ~(x <= d)
    BY <1>3, ExpsFacts DEF Exps
  <2>2. d \notin S
    BY <1>3, <2>1
  <2>. QED  BY <1>1, <2>1, <2>2
<1>5. \E e \in Exps : /\ 2^e >= n \/ e = MaxExp
                     /\ \A d \in MIN_EXP .. e - 1 : 2^d < n
  BY <1>3, <1>4
<1>6. /\ ExpFor(size) \in Exps
      /\ 2^ExpFor(size) >= n \/ ExpFor(size) = MaxExp
  BY <1>5 DEF ExpFor, n
<1>. QED  BY <1>1, <1>6 DEF n

(* The pieces that are split off the block b of 2^from bytes: one of 2^low *)
(* at b and one of 2^e at b + 2^e for each e from low on.                  *)
LEMMA SplitCovers ==
  ASSUME BuddyAssumption, NEW from \in Exps, NEW low \in Exps, low <= from,
         NEW b \in Nat, Multiple(b, 2^from)
  PROVE  /\ Multiple(b, 2^low) /\ 2^low <= 2^from
         /\ \A e \in low .. from - 1 :
              /\ e \in Exps /\ b + 2^e \in Nat /\ Multiple(b + 2^e, 2^e) /\ 2^low <= 2^e
              /\ (b + 2^e) + 2^e <= b + 2^from
              /\ \A d \in low .. from - 1 : d < e => (b + 2^d) + 2^d <= b + 2^e
         /\ \A m \in Nat : Within(m, b, from) =>
              Within(m, b, low) \/ \E e \in low .. from - 1 : Within(m, b + 2^e, e)
<1>1. /\ from \in 0 .. MaxExp /\ low \in 0 .. from /\ MIN_EXP \in Nat /\ MaxExp \in Nat
      /\ \A e \in low .. from - 1 : /\ e \in Exps /\ e \in 0 .. MaxExp /\ e \in 0 .. from
                                    /\ low \in 0 .. e /\ e < from /\ e \in low .. from
  <2>1. /\ MIN_EXP \in Nat /\ MaxExp \in Nat /\ from \in Nat /\ low \in Nat
        /\ MIN_EXP <= low /\ from <= MaxExp
    BY ExpsFacts
  <2>2. from \in 0 .. MaxExp /\ low \in 0 .. from
    BY <2>1
  <2>3. ASSUME NEW e \in low .. from - 1
        PROVE  /\ e \in MIN_EXP .. MaxExp /\ e \in 0 .. MaxExp /\ e \in 0 .. from
               /\ low \in 0 .. e /\ e < from /\ e \in low .. from
    BY <2>1
  <2>. QED  BY <2>1, <2>2, <2>3 DEF Exps
<1>2. Multiple(b, 2^low) /\ 2^low <= 2^from /\ 2^low \in Nat \ {0} /\ 2^from \in Nat \ {0}
  <2>1. 2^low \in Nat \ {0} /\ 2^from \in Nat \ {0} /\ 2^low <= 2^from
    BY <1>1, PowersGrow
  <2>2. 0 \in Nat /\ Multiple(0, 2^low)
    BY <2>1, SelfMultiple
  <2>3. Multiple(b, 2^low)
    BY <1>1, <2>2, Nest
  <2>. QED  BY <2>1, <2>3
<1>3. ASSUME NEW e \in low .. from - 1
      PROVE  /\ 2^e \in Nat \ {0} /\ 2^low <= 2^e /\ 2 * 2^e <= 2^from /\ Multiple(b, 2^e)
             /\ \A d \in low .. from - 1 : d < e => 2 * 2^d <= 2^e
  <2>1. 2^e \in Nat \ {0} /\ 2 * 2^e <= 2^from
    BY <1>1, PowersGrow
  <2>2. 2^low <= 2^e
    BY <1>1, PowersGrow
  <2>3. ASSUME NEW d \in low .. from - 1, d < e PROVE 2 * 2^d <= 2^e
    <3>1. d \in Nat /\ e \in Nat
      BY <1>1
    <3>2. d \in 0 .. e
      BY <2>3, <3>1
    <3>. QED  BY <1>1, <2>3, <3>2, PowersGrow
  <2>4. Multiple(b, 2^e)
    <3>1. 0 \in Nat /\ Multiple(0, 2^e)
      BY <2>1, SelfMultiple
    <3>. QED  BY <1>1, <3>1, Nest
  <2>. QED  BY <2>1, <2>2, <2>3, <2>4
<1>4. ASSUME NEW e \in low .. from - 1
      PROVE  /\ b + 2^e \in Nat /\ Multiple(b + 2^e, 2^e) /\ (b + 2^e) + 2^e <= b + 2^from
             /\ \A d \in low .. from - 1 : d < e => (b + 2^d) + 2^d <= b + 2^e
  <2>1. Multiple(2^e, 2^e)
    BY <1>3, SelfMultiple
  <2>2. Multiple(b + 2^e, 2^e)
    <3>. DEFINE n == 2^e
    <3>1. n \in Nat \ {0} /\ Multiple(n, n) /\ Multiple(b, n)
      BY <1>3, <2>1
    <3>. HIDE DEF n
    <3>2. Multiple(b + n, n)
      BY <3>1, Multiples
    <3>. QED  BY <3>2 DEF n
  <2>3. ASSUME NEW d \in low .. from - 1, d < e PROVE (b + 2^d) + 2^d <= b + 2^e
    <3>. DEFINE x == 2^d
                y == 2^e
    <3>1. x \in Nat /\ y \in Nat /\ 2 * x <= y
      BY <1>3, <2>3
    <3>. HIDE DEF x, y
    <3>2. (b + x) + x <= b + y
      BY <3>1
    <3>. QED  BY <3>2 DEF x, y
  <2>4. b + 2^e \in Nat /\ (b + 2^e) + 2^e <= b + 2^from
    <3>. DEFINE x == 2^e
                y == 2^from
    <3>1. x \in Nat /\ y \in Nat /\ 2 * x <= y
      BY <1>2, <1>3
    <3>. HIDE DEF x, y
    <3>2. b + x \in Nat /\ (b + x) + x <= b + y
      BY <3>1
    <3>. QED  BY <3>2 DEF x, y
  <2>. QED  BY <2>2, <2>3, <2>4
<1>5. ASSUME NEW m \in Nat, Within(m, b, from), ~Within(m, b, low)
      PROVE  \E e \in low .. from - 1 : Within(m, b + 2^e, e)
  <2>. DEFINE S == {e \in low .. from : m < b + 2^e}
  <2>1. b <= m /\ m < b + 2^from /\ ~(m < b + 2^low)
    BY <1>2, <1>5 DEF Within
  <2>2. S \subseteq Nat /\ from \in S
    <3>1. low \in Nat /\ from \in Nat /\ low <= from
      BY <1>1
    <3>2. from \in low .. from /\ low .. from \subseteq Nat
      BY <3>1
    <3>. QED  BY <2>1, <3>2
  <2>3. PICK x \in S : \A y \in S : x <= y
    <3>. HIDE DEF S
    <3>. QED  BY <2>2, LeastNatural
  <2>4. x \in low .. from /\ m < b + 2^x /\ x # low
    BY <2>1, <2>3
  <2>5. x - 1 \in low .. from - 1 /\ x - 1 \in low .. from /\ ~(x <= x - 1) /\ x = (x - 1) + 1
        /\ x - 1 \in 0 .. MaxExp
    <3>1. low \in Nat /\ from \in Nat /\ from <= MaxExp /\ MaxExp \in Nat
      BY <1>1
    <3>2. x \in low .. from /\ x # low
      BY <2>4
    <3>. HIDE DEF S
    <3>. QED  BY <3>1, <3>2
  <2>6. ~(m < b + 2^(x - 1))
    BY <2>3, <2>5
  <2>7. 2^x = 2 * 2^(x - 1) /\ 2^(x - 1) \in Nat
    BY <2>5 DEF BuddyAssumption
  <2>. DEFINE n == 2^(x - 1)
  <2>8. n \in Nat /\ ~(m < b + n) /\ m < b + 2 * n
    BY <2>4, <2>6, <2>7
  <2>. HIDE DEF n
  <2>9. b + n <= m /\ m < (b + n) + n
    BY <2>8
  <2>10. Within(m, b + 2^(x - 1), x - 1)
    BY <2>9 DEF Within, n
  <2>. QED  BY <2>5, <2>10
<1>. QED  BY <1>1, <1>2, <1>3, <1>4, <1>5

(* allocMemory keeps the invariant, and the block it takes was nobody's.   *)
LEMMA SplitKeeps ==
  ASSUME BuddyAssumption, Requests, Kept(header, free, handed), NoTwins(free),
         NEW size \in Sizes, NEW low, low = ExpFor(size), NEW from \in SplitFrom(low),
         NEW garbage \in Garbage, AfterSplit(from, low, garbage),
         handed' = handed \cup {[ptr |-> Head(free[from]) + HeaderSize, size |-> size]}
  PROVE  /\ Kept(header', free', handed') /\ NoTwins(free')
         /\ \A p \in handed : p.ptr # Head(free[from]) + HeaderSize
<1>. DEFINE b == Head(free[from])
            halves == low .. from - 1
            B == Starts(free, handed)
            C == Starts(free', handed')
            N == {b} \cup {b + 2^e : e \in halves}
            new == [ptr |-> b + HeaderSize, size |-> size]
<1>1. /\ low \in Exps /\ size \in Nat /\ size + HeaderSize <= 2^low
      /\ from \in Exps /\ low <= from /\ free[from] # <<>>
      /\ \A d \in halves : free[d] = <<>>
  BY ExpForFits DEF SplitFrom, Requests
<1>2. /\ free \in [Exps -> Seq(Nat)] /\ \A e \in Exps : Once(free[e])
      /\ \A e \in Exps : \A a \in ToSet(free[e]) : header[a] = CreateBlock(e)
      /\ header \in [Addresses -> [exp : Exps, used : BOOLEAN]]
      /\ \A p, q \in handed : p.ptr = q.ptr => p = q
      /\ Tiling(B, Levels(header, B))
  BY DEF Kept
<1>3. /\ b \in ToSet(free[from]) /\ Tail(free[from]) \in Seq(Nat) /\ Once(Tail(free[from]))
      /\ ToSet(Tail(free[from])) = ToSet(free[from]) \ {b}
  BY <1>1, <1>2, TakeFirst
<1>4. /\ b \in B /\ header[b].exp = from /\ ~header[b].used /\ b \in Addresses /\ b \in Nat
      /\ Multiple(b, 2^from) /\ b + 2^from <= 2^MaxExp
      /\ \A d \in Exps : b \in ToSet(free[d]) => d = from
      /\ \A p \in handed : b # p.ptr - HeaderSize
  <2>1. /\ b \in B /\ header[b].exp = from /\ ~header[b].used
        /\ \A d \in Exps : b \in ToSet(free[d]) => d = from
        /\ \A p \in handed : b # p.ptr - HeaderSize
    <3>. HIDE DEF b
    <3>. QED  BY <1>1, <1>3, OncePlaced
  <2>2. b \in Addresses /\ b \in Nat /\ Multiple(b, 2^header[b].exp)
        /\ b + 2^header[b].exp <= 2^MaxExp
    <3>. HIDE DEF b
    <3>. QED  BY <2>1, StartFacts
  <2>. HIDE DEF b, B
  <2>. QED  BY <2>1, <2>2
<1>5. /\ header' = [a \in Addresses |->
          IF a = b THEN [exp |-> low, used |-> TRUE]
          ELSE IF a \in b + 1 .. b + 2^low - 1 THEN garbage
          ELSE IF \E e \in halves : a = b + 2^e
               THEN CreateBlock(CHOOSE e \in halves : a = b + 2^e)
               ELSE header[a]]
      /\ free' = [e \in Exps |-> CASE e = from -> Tail(free[e])
                                   [] e \in halves -> <<b + 2^e>>
                                   [] OTHER -> free[e]]
      /\ handed' = handed \cup {new}
  BY DEF AfterSplit
<1>. HIDE DEF b
<1>6. /\ Multiple(b, 2^low) /\ 2^low <= 2^from
      /\ \A e \in halves :
           /\ e \in Exps /\ b + 2^e \in Nat /\ Multiple(b + 2^e, 2^e) /\ 2^low <= 2^e
           /\ (b + 2^e) + 2^e <= b + 2^from
           /\ \A d \in halves : d < e => (b + 2^d) + 2^d <= b + 2^e
  BY <1>1, <1>4, SplitCovers
<1>7. \A m \in Nat : Within(m, b, from) =>
        Within(m, b, low) \/ \E e \in halves : Within(m, b + 2^e, e)
  BY <1>1, <1>4, SplitCovers
<1>8. /\ \A e \in Exps : 2^e \in Nat \ {0} /\ e \in Nat
      /\ 2^MaxExp \in Nat /\ HeaderSize \in Nat /\ MaxExp \in Nat
  BY ExpsFacts DEF BuddyAssumption
<1>9. \A d, e \in halves : b + 2^d = b + 2^e => d = e
  <2>1. ASSUME NEW d \in halves, NEW e \in halves, d < e PROVE b + 2^d # b + 2^e
    <3>1. (b + 2^d) + 2^d <= b + 2^e /\ 2^d \in Nat \ {0} /\ 2^e \in Nat
      BY <1>6, <1>8, <2>1
    <3>. QED  BY <1>4, <3>1
  <2>2. \A d \in halves : d \in Nat
    BY <1>6, <1>8
  <2>. QED  BY <2>1, <2>2
<1>10. ASSUME NEW e \in halves
       PROVE  /\ b + 2^e \in Addresses /\ header'[b + 2^e] = CreateBlock(e)
              /\ b + 2^e # b /\ Within(b + 2^e, b, from)
  <2>1. /\ e \in Exps /\ b + 2^e \in Nat /\ Multiple(b + 2^e, 2^e) /\ 2^low <= 2^e
        /\ (b + 2^e) + 2^e <= b + 2^from
    BY <1>6
  <2>2. 2^e \in Nat \ {0} /\ 2^low \in Nat /\ 2^from \in Nat
    BY <1>1, <1>8, <2>1
  <2>3. (b + 2^e) + 2^e <= 2^MaxExp /\ b + 2^e # b /\ b + 2^e \notin b + 1 .. b + 2^low - 1
        /\ b <= b + 2^e /\ b + 2^e < b + 2^from
    <3>. DEFINE x == 2^e
                y == 2^low
                z == 2^from
                M == 2^MaxExp
    <3>1. /\ x \in Nat \ {0} /\ y \in Nat /\ z \in Nat /\ M \in Nat /\ b \in Nat /\ y <= x
          /\ (b + x) + x <= b + z /\ b + z <= M
      BY <1>4, <1>8, <2>1, <2>2
    <3>. HIDE DEF x, y, z, M
    <3>2. (b + x) + x <= M /\ b + x # b /\ b + x \notin b + 1 .. b + y - 1
          /\ b <= b + x /\ b + x < b + z
      BY <3>1
    <3>. QED  BY <3>2 DEF x, y, z, M
  <2>4. b + 2^e \in Addresses
    BY <2>1, <2>3, Aligned
  <2>5. (CHOOSE d \in halves : b + 2^e = b + 2^d) = e
    BY <1>9
  <2>6. header'[b + 2^e] = CreateBlock(CHOOSE d \in halves : b + 2^e = b + 2^d)
    BY <1>5, <2>3, <2>4
  <2>. QED  BY <2>3, <2>4, <2>5, <2>6 DEF Within
<1>11. header'[b] = [exp |-> low, used |-> TRUE]
  BY <1>4, <1>5
<1>12. ASSUME NEW a \in Addresses, ~Within(a, b, from) PROVE header'[a] = header[a]
  <2>1. a \in Nat /\ 2^low \in Nat \ {0} /\ 2^from \in Nat \ {0}
    BY <1>1, <1>8 DEF Addresses, Memory
  <2>2. a # b /\ a \notin b + 1 .. b + 2^low - 1
    <3>1. ~(b <= a /\ a < b + 2^from) /\ 2^low <= 2^from
      BY <1>6, <1>12 DEF Within
    <3>. QED  BY <1>4, <2>1, <3>1
  <2>3. \A e \in halves : a # b + 2^e
    BY <1>10, <1>12
  <2>. QED  BY <1>5, <2>2, <2>3
<1>13. header' \in [Addresses -> [exp : Exps, used : BOOLEAN]]
  <2>1. \A e \in Exps : CreateBlock(e) \in [exp : Exps, used : BOOLEAN]
    BY DEF CreateBlock
  <2>2. garbage \in [exp : Exps, used : BOOLEAN]
    BY <2>1 DEF Garbage
  <2>3. [exp |-> low, used |-> TRUE] \in [exp : Exps, used : BOOLEAN]
    BY <1>1
  <2>4. ASSUME NEW a \in Addresses PROVE header'[a] \in [exp : Exps, used : BOOLEAN]
    <3>1. CASE \E e \in halves : a = b + 2^e
      BY <1>6, <1>10, <2>1, <3>1
    <3>2. CASE a = b
      BY <1>11, <2>3, <3>2
    <3>3. CASE a # b /\ ~\E e \in halves : a = b + 2^e
      BY <1>2, <1>5, <2>2, <3>3
    <3>. QED  BY <3>1, <3>2, <3>3
  <2>. QED  BY <1>5, <2>4
<1>14. ASSUME NEW c \in B, c # b
       PROVE  /\ header'[c] = header[c] /\ c \in Addresses /\ c \in Nat /\ ~Within(c, b, from)
  <2>1. c \in Addresses /\ c \in Nat /\ Within(c, c, header[c].exp)
    BY StartFacts
  <2>2. Levels(header, B)[c] = header[c].exp /\ Levels(header, B)[b] = from
    BY <1>4 DEF Levels
  <2>3. ~Within(c, b, from)
    <3>. HIDE DEF B
    <3>. QED  BY <1>2, <1>4, <1>14, <2>1, <2>2, OneCovers
  <2>. QED  BY <1>12, <2>1, <2>3
<1>15. /\ free' \in [Exps -> Seq(Nat)] /\ ToSet(free'[from]) = ToSet(free[from]) \ {b}
       /\ \A e \in halves : ToSet(free'[e]) = {b + 2^e} /\ ToSet(free[e]) = {} /\ e # from
       /\ \A e \in Exps : e # from /\ e \notin halves => free'[e] = free[e]
       /\ \A e \in Exps : Once(free'[e])
  <2>1. \A e \in halves : e \in Exps /\ e # from /\ from \in Nat
    BY <1>1, <1>6, <1>8
  <2>2. /\ free'[from] = Tail(free[from])
        /\ \A e \in halves : free'[e] = <<b + 2^e>>
        /\ \A e \in Exps : e # from /\ e \notin halves => free'[e] = free[e]
    <3>. HIDE DEF halves
    <3>. QED  BY <1>1, <1>5, <2>1
  <2>3. \A e \in halves : /\ <<b + 2^e>> \in Seq(Nat) /\ Once(<<b + 2^e>>)
                         /\ ToSet(<<b + 2^e>>) = {b + 2^e} /\ ToSet(free[e]) = {}
    <3>1. \A x \in Nat : <<x>> \in Seq(Nat) /\ Once(<<x>>) /\ ToSet(<<x>>) = {x}
      BY DEF Once, ToSet
    <3>2. ToSet(<<>>) = {}
      BY DEF ToSet
    <3>. QED  BY <1>1, <1>6, <3>1, <3>2
  <2>4. \A e \in Exps : free'[e] \in Seq(Nat) /\ Once(free'[e])
    <3>1. ASSUME NEW e \in Exps PROVE free'[e] \in Seq(Nat) /\ Once(free'[e])
      <4>1. CASE e = from
        BY <1>3, <2>2, <4>1
      <4>2. CASE e \in halves
        BY <2>2, <2>3, <4>2
      <4>3. CASE e # from /\ e \notin halves
        BY <1>2, <2>2, <4>3
      <4>. QED  BY <4>1, <4>2, <4>3
    <3>. QED  BY <3>1
  <2>5. free' = [e \in Exps |-> free'[e]]
    BY <1>5
  <2>. QED  BY <1>3, <2>1, <2>2, <2>3, <2>4, <2>5
<1>16. new.ptr - HeaderSize = b /\ new \in [ptr : Nat, size : Sizes] /\ new.size = size
  <2>1. (b + HeaderSize) - HeaderSize = b /\ b + HeaderSize \in Nat
    BY <1>4, <1>8
  <2>. QED  BY <2>1
<1>17. C = (B \ {b}) \cup N
  <2>1. ASSUME NEW x \in C PROVE x \in (B \ {b}) \cup N
    <3>1. CASE \E p \in handed' : x = p.ptr - HeaderSize
      <4>1. PICK p \in handed' : x = p.ptr - HeaderSize
        BY <3>1
      <4>2. CASE p \in handed
        <5>1. x \in B
          BY <4>1, <4>2 DEF Starts
        <5>. QED  BY <1>4, <4>1, <4>2, <5>1
      <4>3. CASE p = new
        BY <1>16, <4>1, <4>3
      <4>. QED  BY <1>5, <4>2, <4>3
    <3>2. CASE \E e \in Exps : x \in ToSet(free'[e])
      <4>1. PICK e \in Exps : x \in ToSet(free'[e])
        BY <3>2
      <4>2. CASE e \in halves
        BY <1>15, <4>1, <4>2
      <4>3. CASE e \notin halves
        <5>1. x \in ToSet(free[e]) /\ (e = from => x # b)
          BY <1>15, <4>1, <4>3
        <5>2. x # b
          BY <1>4, <5>1
        <5>. QED  BY <5>1, <5>2 DEF Starts
      <4>. QED  BY <4>2, <4>3
    <3>. QED  BY <3>1, <3>2 DEF Starts
  <2>2. ASSUME NEW x \in B, x # b PROVE x \in C
    <3>1. CASE \E p \in handed : x = p.ptr - HeaderSize
      BY <1>5, <3>1 DEF Starts
    <3>2. CASE \E e \in Exps : x \in ToSet(free[e])
      <4>1. PICK e \in Exps : x \in ToSet(free[e])
        BY <3>2
      <4>2. x \in ToSet(free'[e])
        BY <1>15, <2>2, <4>1
      <4>. QED  BY <4>1, <4>2 DEF Starts
    <3>. QED  BY <3>1, <3>2 DEF Starts
  <2>3. b \in C
    BY <1>5, <1>16 DEF Starts
  <2>4. ASSUME NEW e \in halves PROVE b + 2^e \in C
    <3>1. e \in Exps /\ b + 2^e \in ToSet(free'[e])
      BY <1>6, <1>15
    <3>. QED  BY <3>1 DEF Starts
  <2>. QED  BY <2>1, <2>2, <2>3, <2>4
<1>18. Tiling(C, Levels(header', C))
  <2>. DEFINE x == Levels(header, B)
              z == Levels(header', C)
  <2>1. \A a \in C : z[a] = header'[a].exp
    BY DEF Levels
  <2>2. z[b] = low /\ \A e \in halves : z[b + 2^e] = e
    <3>1. \A e \in halves : CreateBlock(e).exp = e
      BY DEF CreateBlock
    <3>2. b \in C /\ \A e \in halves : b + 2^e \in C
      BY <1>17
    <3>. HIDE DEF z, C
    <3>3. z[b] = low
      BY <1>11, <2>1, <3>2
    <3>4. ASSUME NEW e \in halves PROVE z[b + 2^e] = e
      BY <1>10, <2>1, <3>1, <3>2
    <3>. QED  BY <3>3, <3>4
  <2>3. \A c \in B \ {b} : z[c] = x[c]
    <3>1. \A c \in B : x[c] = header[c].exp
      BY DEF Levels
    <3>. HIDE DEF x, z, B, C
    <3>. QED  BY <1>14, <1>17, <2>1, <3>1
  <2>4. x[b] = from
    BY <1>4 DEF Levels
  <2>5. z \in [C -> Exps]
    <3>1. ASSUME NEW c \in C PROVE header'[c].exp \in Exps
      <4>1. c \in Addresses
        BY <1>4, <1>10, <1>14, <1>17
      <4>. QED  BY <1>13, <4>1
    <3>. QED  BY <3>1 DEF Levels
  <2>. HIDE DEF x, z, B, C
  <2>6. \A a \in N : Multiple(a, 2^z[a]) /\ a + 2^z[a] <= 2^MaxExp
    <3>1. Multiple(b, 2^low) /\ b + 2^low <= 2^MaxExp
      <4>1. 2^low \in Nat /\ 2^from \in Nat
        BY <1>1, <1>8
      <4>. QED  BY <1>4, <1>6, <1>8, <4>1
    <3>2. ASSUME NEW e \in halves PROVE Multiple(b + 2^e, 2^e) /\ (b + 2^e) + 2^e <= 2^MaxExp
      <4>1. 2^e \in Nat /\ 2^from \in Nat
        BY <1>1, <1>6, <1>8
      <4>. QED  BY <1>4, <1>6, <1>8, <4>1
    <3>. QED  BY <2>2, <3>1, <3>2
  <2>7. \A a, c \in N : a < c => a + 2^z[a] <= c
    <3>1. ASSUME NEW e \in halves PROVE ~(b + 2^e < b) /\ b + 2^low <= b + 2^e
      <4>1. 2^e \in Nat /\ 2^low \in Nat /\ 2^low <= 2^e
        BY <1>1, <1>6, <1>8
      <4>. QED  BY <1>4, <4>1
    <3>2. ASSUME NEW d \in halves, NEW e \in halves, b + 2^d < b + 2^e
          PROVE  (b + 2^d) + 2^d <= b + 2^e
      <4>1. d \in Nat /\ e \in Nat /\ 2^d \in Nat /\ 2^e \in Nat
        BY <1>6, <1>8
      <4>2. d # e
        BY <1>4, <3>2, <4>1
      <4>3. CASE d < e
        BY <1>6, <4>3
      <4>4. CASE e < d
        <5>1. (b + 2^e) + 2^e <= b + 2^d
          BY <1>6, <4>4
        <5>. QED  BY <1>4, <3>2, <4>1, <5>1
      <4>. QED  BY <4>1, <4>2, <4>3, <4>4
    <3>3. ~(b < b)
      BY <1>4
    <3>. QED  BY <2>2, <3>1, <3>2, <3>3
  <2>8. \A m \in Nat : Within(m, b, x[b]) => \E c \in N : Within(m, c, z[c])
    <3>1. ASSUME NEW m \in Nat, Within(m, b, from) PROVE \E c \in N : Within(m, c, z[c])
      <4>1. CASE Within(m, b, low)
        BY <2>2, <4>1
      <4>2. CASE \E e \in halves : Within(m, b + 2^e, e)
        BY <2>2, <4>2
      <4>. QED  BY <1>7, <3>1, <4>1, <4>2
    <3>. QED  BY <2>4, <3>1
  <2>9. \A c \in N : \A m \in Nat : Within(m, c, z[c]) => Within(m, b, x[b])
    <3>1. ASSUME NEW m \in Nat, Within(m, b, low) PROVE Within(m, b, from)
      <4>1. 2^low \in Nat /\ 2^from \in Nat /\ 2^low <= 2^from
        BY <1>1, <1>6, <1>8
      <4>. QED  BY <1>4, <3>1, <4>1 DEF Within
    <3>2. ASSUME NEW e \in halves, NEW m \in Nat, Within(m, b + 2^e, e)
          PROVE  Within(m, b, from)
      <4>1. 2^e \in Nat /\ 2^from \in Nat /\ (b + 2^e) + 2^e <= b + 2^from
        BY <1>1, <1>6, <1>8
      <4>. QED  BY <1>4, <3>2, <4>1 DEF Within
    <3>. QED  BY <2>2, <2>4, <3>1, <3>2
  <2>10. N \in SUBSET Nat /\ {b} \in SUBSET B
    BY <1>4, <1>6
  <2>11. Tiling(B, x)
    BY <1>2 DEF x
  <2>. HIDE DEF N
  <2>. DEFINE R == {b}
  <2>12. /\ R \in SUBSET B /\ C = (B \ R) \cup N /\ \A c \in B \ R : z[c] = x[c]
         /\ \A a \in R : \A m \in Nat : Within(m, a, x[a]) => \E c \in N : Within(m, c, z[c])
         /\ \A c \in N : \A m \in Nat : Within(m, c, z[c]) => \E a \in R : Within(m, a, x[a])
    BY <1>17, <2>3, <2>8, <2>9, <2>10
  <2>. HIDE DEF R
  <2>13. MakeWay(B, x, R, N, C, z)
    BY <2>5, <2>6, <2>7, <2>10, <2>12 DEF MakeWay
  <2>14. Tiling(C, z)
    BY <2>11, <2>13, Replaced
  <2>. QED  BY <2>14 DEF z
<1>19. \A e \in Exps : \A a \in ToSet(free'[e]) : header'[a] = CreateBlock(e)
  <2>1. ASSUME NEW e \in Exps, NEW a \in ToSet(free'[e]) PROVE header'[a] = CreateBlock(e)
    <3>1. CASE e \in halves
      BY <1>10, <1>15, <3>1
    <3>2. CASE e \notin halves
      <4>1. a \in ToSet(free[e]) /\ a # b
        BY <1>4, <1>15, <3>2
      <4>2. a \in B
        BY <4>1 DEF Starts
      <4>. QED  BY <1>2, <1>14, <4>1, <4>2
    <3>. QED  BY <3>1, <3>2
  <2>. QED  BY <2>1
<1>20. \A p \in handed' :
         /\ p \in [ptr : Nat, size : Sizes] /\ p.ptr - HeaderSize \in Nat
         /\ header'[p.ptr - HeaderSize].used
         /\ p.size + HeaderSize <= 2^header'[p.ptr - HeaderSize].exp
  <2>1. ASSUME NEW p \in handed
        PROVE  /\ p \in [ptr : Nat, size : Sizes] /\ p.ptr - HeaderSize \in Nat
               /\ header'[p.ptr - HeaderSize].used
               /\ p.size + HeaderSize <= 2^header'[p.ptr - HeaderSize].exp
    <3>1. p.ptr - HeaderSize \in B /\ p.ptr - HeaderSize # b
      BY <1>4, OncePlaced
    <3>2. header'[p.ptr - HeaderSize] = header[p.ptr - HeaderSize]
      BY <1>14, <3>1
    <3>3. /\ p \in [ptr : Nat, size : Sizes] /\ p.ptr - HeaderSize \in Nat
          /\ header[p.ptr - HeaderSize].used
          /\ p.size + HeaderSize <= 2^header[p.ptr - HeaderSize].exp
      BY DEF Kept
    <3>. QED  BY <3>2, <3>3
  <2>2. new.size + HeaderSize <= 2^header'[b].exp /\ header'[b].used
    BY <1>1, <1>11, <1>16
  <2>. HIDE DEF new
  <2>. QED  BY <1>4, <1>5, <1>16, <2>1, <2>2
<1>21. \A p \in handed : p.ptr # b + HeaderSize
  <2>1. ASSUME NEW p \in handed, p.ptr = b + HeaderSize PROVE FALSE
    <3>1. p.ptr - HeaderSize = b
      BY <1>16, <2>1
    <3>. QED  BY <1>4, <3>1
  <2>. QED  BY <2>1
<1>22. \A p, q \in handed' : p.ptr = q.ptr => p = q
  BY <1>2, <1>5, <1>21
<1>23. NoTwins(free')
  <2>1. ASSUME NEW e \in Exps, NEW f \in Nat, e < MaxExp, Multiple(f, 2^(e + 1)),
               {f, f + 2^e} \subseteq ToSet(free'[e])
        PROVE  FALSE
    <3>1. CASE e \in halves
      <4>1. f = b + 2^e /\ f + 2^e = b + 2^e /\ 2^e \in Nat \ {0}
        BY <1>8, <1>15, <2>1, <3>1
      <4>. QED  BY <2>1, <4>1
    <3>2. CASE e \notin halves
      <4>1. ToSet(free'[e]) \subseteq ToSet(free[e])
        BY <1>15, <3>2
      <4>. QED  BY <2>1, <4>1 DEF NoTwins
    <3>. QED  BY <3>1, <3>2
  <2>. QED  BY <2>1 DEF NoTwins
<1>24. Kept(header', free', handed')
  BY <1>13, <1>15, <1>18, <1>19, <1>20, <1>22 DEF Kept
<1>. QED  BY <1>21, <1>23, <1>24 DEF b

-----------------------------------------------------------------------------
(* freeMemory: how far its loop goes.                                      *)
LEMMA MergedFacts ==
  ASSUME BuddyAssumption, NEW a \in Nat, NEW low \in Exps, NEW top, top = MergedExp(a, low)
  PROVE  /\ top \in low .. MaxExp /\ (top = MaxExp \/ ~Merges(a, top))
         /\ \A d \in low .. top - 1 : Merges(a, d)
<1>. DEFINE S == {e \in low .. MaxExp : e = MaxExp \/ ~Merges(a, e)}
<1>1. low \in Nat /\ MaxExp \in Nat /\ low <= MaxExp
  BY ExpsFacts
<1>2. S \subseteq Nat /\ MaxExp \in S
  BY <1>1
<1>3. PICK x \in S : \A y \in S : x <= y
  <2>. HIDE DEF S
  <2>. QED  BY <1>2, LeastNatural
<1>4. ASSUME NEW d \in low .. x - 1 PROVE Merges(a, d)
  <2>1. x \in low .. MaxExp
    BY <1>3
  <2>2. d \in low .. MaxExp /\ ~(x <= d) /\ d # MaxExp
    BY <1>1, <2>1
  <2>. QED  BY <1>3, <2>2
<1>5. \E e \in low .. MaxExp : /\ e = MaxExp \/ ~Merges(a, e)
                              /\ \A d \in low .. e - 1 : Merges(a, d)
  BY <1>3, <1>4
<1>. QED  BY <1>5 DEF MergedExp

(* The blocks that are merged on the way from a up to 2^top bytes.         *)
LEMMA MergeCovers ==
  ASSUME BuddyAssumption, NEW low \in Exps, NEW top \in low .. MaxExp,
         NEW a \in Nat, Multiple(a, 2^low), a < 2^MaxExp
  PROVE  /\ BlockAt(a, low) = a /\ BlockAt(a, top) \in Nat /\ Multiple(BlockAt(a, top), 2^top)
         /\ BlockAt(a, top) + 2^top <= 2^MaxExp /\ Within(a, BlockAt(a, top), top)
         /\ \A e \in low .. top : \A m \in Nat :
              Within(m, BlockAt(a, e), e) => Within(m, BlockAt(a, top), top)
         /\ \A e \in low .. top - 1 : \A m \in Nat :
              Within(m, Buddy(BlockAt(a, e), e), e) => Within(m, BlockAt(a, top), top)
         /\ \A m \in Nat : Within(m, BlockAt(a, top), top) =>
              Within(m, a, low)
                \/ \E e \in low .. top - 1 : Within(m, Buddy(BlockAt(a, e), e), e)
<1>1. /\ low \in Nat /\ top \in Nat /\ low <= top /\ top <= MaxExp /\ MaxExp \in Nat
      /\ 2^MaxExp \in Nat
  BY ExpsFacts
<1>2. /\ low \in 0 .. MaxExp /\ top \in 0 .. MaxExp /\ MaxExp \in 0 .. MaxExp
      /\ low \in low .. top /\ top \in low .. top
  BY <1>1
<1>3. ASSUME NEW e \in low .. top
      PROVE  /\ e \in 0 .. MaxExp /\ e \in 0 .. top /\ e \in Nat /\ BlockAt(a, e) \in Nat
             /\ Multiple(BlockAt(a, e), 2^e) /\ Within(a, BlockAt(a, e), e)
  <2>1. e \in 0 .. MaxExp /\ e \in 0 .. top /\ e \in Nat
    BY <1>1
  <2>. QED  BY <2>1, Down
<1>4. BlockAt(a, low) = a
  <2>1. 2^low \in Nat \ {0}
    BY ExpsFacts
  <2>2. Within(a, a, low)
    BY <2>1 DEF Within
  <2>. QED  BY <1>2, <2>2, Down
<1>5. ASSUME NEW e \in low .. top, NEW m \in Nat, Within(m, BlockAt(a, e), e)
      PROVE  Within(m, BlockAt(a, top), top)
  <2>. DEFINE c == BlockAt(a, e)
              f == BlockAt(a, top)
  <2>1. /\ c \in Nat /\ f \in Nat /\ Multiple(c, 2^e) /\ Multiple(f, 2^top)
        /\ Within(a, c, e) /\ Within(a, f, top) /\ e \in 0 .. top
    BY <1>2, <1>3
  <2>. HIDE DEF c, f
  <2>2. \A x \in Nat : Within(x, c, e) => Within(x, f, top)
    BY <1>2, <2>1, Inside
  <2>. QED  BY <1>5, <2>2 DEF c, f
<1>6. ASSUME NEW e \in low .. top - 1
      PROVE  /\ e \in low .. top /\ e + 1 \in low .. top
             /\ AreHalves(BlockAt(a, e + 1), e, Buddy(BlockAt(a, e), e), BlockAt(a, e))
  <2>1. e \in low .. top /\ e + 1 \in low .. top /\ e \in 0 .. MaxExp /\ e < MaxExp
    BY <1>1
  <2>. QED  BY <2>1, Halves
<1>7. ASSUME NEW e \in low .. top - 1, NEW m \in Nat, Within(m, Buddy(BlockAt(a, e), e), e)
      PROVE  Within(m, BlockAt(a, top), top)
  <2>1. Within(m, BlockAt(a, e + 1), e + 1)
    BY <1>6, <1>7 DEF AreHalves
  <2>. QED  BY <1>5, <1>6, <2>1
<1>8. ASSUME NEW m \in Nat, Within(m, BlockAt(a, top), top), ~Within(m, a, low)
      PROVE  \E e \in low .. top - 1 : Within(m, Buddy(BlockAt(a, e), e), e)
  <2>. DEFINE S == {e \in low .. top : Within(m, BlockAt(a, e), e)}
  <2>1. S \subseteq Nat /\ top \in S
    BY <1>1, <1>2, <1>8
  <2>2. PICK x \in S : \A y \in S : x <= y
    <3>. HIDE DEF S
    <3>. QED  BY <2>1, LeastNatural
  <2>3. x \in low .. top /\ Within(m, BlockAt(a, x), x) /\ x # low
    BY <1>4, <1>8, <2>2
  <2>4. x - 1 \in low .. top - 1 /\ x - 1 \in low .. top /\ ~(x <= x - 1) /\ (x - 1) + 1 = x
    <3>1. x \in low .. top /\ x # low
      BY <2>3
    <3>. HIDE DEF S
    <3>. QED  BY <1>1, <3>1
  <2>5. ~Within(m, BlockAt(a, x - 1), x - 1)
    BY <2>2, <2>4
  <2>6. Within(m, BlockAt(a, (x - 1) + 1), (x - 1) + 1)
    BY <2>3, <2>4
  <2>7. Within(m, Buddy(BlockAt(a, x - 1), x - 1), x - 1)
    BY <1>6, <2>4, <2>5, <2>6 DEF AreHalves
  <2>. QED  BY <2>4, <2>7
<1>9. BlockAt(a, top) + 2^top <= 2^MaxExp
  <2>. DEFINE f == BlockAt(a, top)
  <2>1. f \in Nat /\ Multiple(f, 2^top) /\ Within(a, f, top)
    BY <1>2, <1>3
  <2>. HIDE DEF f
  <2>2. f < 0 + 2^MaxExp /\ 0 + 2^MaxExp = 2^MaxExp
    BY <1>1, <2>1 DEF Within
  <2>3. 0 \in Nat /\ Multiple(0, 2^MaxExp) /\ top \in 0 .. MaxExp
    BY <1>1, <1>2, SelfMultiple
  <2>4. f + 2^top <= 0 + 2^MaxExp
    BY <1>2, <2>1, <2>2, <2>3, Nest
  <2>. QED  BY <2>2, <2>4 DEF f
<1>. QED  BY <1>2, <1>3, <1>4, <1>5, <1>7, <1>8, <1>9

(* A buddy whose header says that it is free and of the same size is: what *)
(* its header says is what the list says, no stale header is met.          *)
LEMMA BuddyIsFree ==
  ASSUME BuddyAssumption, Kept(header, free, handed), NEW a \in Starts(free, handed),
         header[a].used, NEW d \in Exps, header[a].exp <= d, Merges(a, d)
  PROVE  Buddy(BlockAt(a, d), d) \in ToSet(free[d])
<1>. DEFINE B == Starts(free, handed)
            low == header[a].exp
            c == BlockAt(a, d)
            b == Buddy(c, d)
            f == BlockAt(a, d + 1)
<1>1. /\ a \in Nat /\ low \in Exps /\ Multiple(a, 2^low) /\ a + 2^low <= 2^MaxExp
      /\ Within(a, a, low) /\ low <= d
  BY StartFacts
<1>2. d < MaxExp /\ header[b] = CreateBlock(d)
  BY DEF Merges
<1>3. /\ d \in 0 .. MaxExp /\ d + 1 \in 0 .. MaxExp /\ d + 1 \in low .. MaxExp /\ d \in Nat
      /\ low \in Nat /\ MaxExp \in Nat /\ 2^MaxExp \in Nat /\ 2^low \in Nat \ {0}
      /\ 2^d \in Nat \ {0}
  BY <1>1, <1>2, ExpsFacts
<1>. HIDE DEF B, low
<1>4. AreHalves(f, d, b, c)
  BY <1>1, <1>2, <1>3, Halves
<1>5. f + 2^(d + 1) <= 2^MaxExp /\ Within(a, f, d + 1) /\ f \in Nat /\ Multiple(f, 2^(d + 1))
  <2>1. a < 2^MaxExp
    BY <1>1, <1>3
  <2>. QED  BY <1>1, <1>3, <2>1, MergeCovers
<1>. HIDE DEF f, b, c
<1>6. b \in Nat /\ Multiple(b, 2^d) /\ Within(b, f, d + 1) /\ Within(b, b, d)
  <2>1. b \in Nat /\ Multiple(b, 2^d) /\ Within(b, b, d)
    BY <1>3, <1>4 DEF AreHalves, Within
  <2>. QED  BY <1>4, <2>1 DEF AreHalves
<1>7. b \in Memory
  <2>1. 2^(d + 1) \in Nat
    BY <1>3 DEF BuddyAssumption
  <2>2. b < 2^MaxExp
    BY <1>3, <1>5, <1>6, <2>1 DEF Within
  <2>. QED  BY <1>3, <1>6, <2>2 DEF Memory
<1>8. Tiling(B, Levels(header, B)) /\ \A s \in B : Levels(header, B)[s] = header[s].exp
  BY DEF Kept, Levels, B
<1>9. PICK s \in B : Within(b, s, header[s].exp)
  BY <1>7, <1>8 DEF Tiling
<1>. DEFINE x == header[s].exp
<1>10. /\ s \in Nat /\ x \in Exps /\ Multiple(s, 2^x)
       /\ ~header[s].used => s \in ToSet(free[header[s].exp])
  BY <1>9, StartFacts DEF B
<1>11. x \in Nat /\ x \in 0 .. MaxExp
  BY <1>3, <1>10, ExpsFacts
<1>12. CASE x <= d
  <2>1. x \in 0 .. d
    BY <1>3, <1>11, <1>12
  <2>2. s < b => s + 2^x <= b
    BY <1>3, <1>6, <1>10, <2>1, Nest
  <2>3. s <= b /\ b < s + 2^x
    BY <1>9 DEF Within
  <2>4. 2^x \in Nat
    BY <1>10, ExpsFacts
  <2>5. s = b
    BY <1>6, <1>10, <2>2, <2>3, <2>4
  <2>6. ~header[s].used /\ header[s].exp = d
    BY <1>2, <2>5 DEF CreateBlock, b
  <2>7. s \in ToSet(free[d])
    BY <1>10, <2>6
  <2>. QED  BY <2>5, <2>7 DEF b, c
<1>13. CASE d < x
  <2>1. d + 1 \in 0 .. x
    BY <1>3, <1>11, <1>13
  <2>2. Within(a, s, x)
    BY <1>1, <1>5, <1>6, <1>9, <1>10, <1>11, <2>1, Inside
  <2>3. a = s
    <3>1. a \in B /\ s \in B /\ a \in Nat /\ Within(a, a, header[a].exp)
          /\ Within(a, s, header[s].exp)
      BY <1>1, <1>9, <2>2 DEF B, low
    <3>. QED  BY <1>8, <3>1, OneCovers
  <2>4. x = low
    BY <2>3 DEF low
  <2>. QED  BY <1>1, <1>3, <1>11, <1>13, <2>4
<1>. QED  BY <1>3, <1>11, <1>12, <1>13

(* freeMemory keeps the invariant: every buddy it joins is a whole free    *)
(* block.                                                                  *)
LEMMA MergeKeeps ==
  ASSUME BuddyAssumption, Kept(header, free, handed), NoTwins(free),
         NEW piece \in handed, FreeMemory(piece)
  PROVE  Kept(header', free', handed') /\ NoTwins(free') /\ handed' = handed \ {piece}
<1>. DEFINE a == piece.ptr - HeaderSize
            low == header[a].exp
            top == MergedExp(a, low)
            at(e) == BlockAt(a, e)
            buddy(e) == Buddy(BlockAt(a, e), e)
            block == BlockAt(a, top)
            merged == low .. top - 1
            B == Starts(free, handed)
            C == Starts(free', handed')
            R == {a} \cup {buddy(e) : e \in merged}
            N == {block}
<1>1. /\ header' = [x \in Addresses |->
           IF {e \in low .. top : x = at(e)} = {} THEN header[x]
           ELSE CreateBlock(Max({e \in low .. top : x = at(e)}))]
      /\ free' = [e \in Exps |->
           CASE e \in merged -> RemoveBlock(free[e], buddy(e))
             [] e = top -> <<block>> \o free[e]
             [] OTHER -> free[e]]
      /\ handed' = handed \ {piece}
  BY DEF FreeMemory
<1>2. /\ free \in [Exps -> Seq(Nat)] /\ \A e \in Exps : Once(free[e])
      /\ \A e \in Exps : \A x \in ToSet(free[e]) : header[x] = CreateBlock(e)
      /\ header \in [Addresses -> [exp : Exps, used : BOOLEAN]]
      /\ \A p, q \in handed : p.ptr = q.ptr => p = q
      /\ Tiling(B, Levels(header, B))
  BY DEF Kept
<1>3. a \in B /\ header[a].used /\ a \in Nat
  BY OncePlaced
<1>4. /\ low \in Exps /\ Multiple(a, 2^low) /\ a + 2^low <= 2^MaxExp /\ Within(a, a, low)
      /\ 2^low \in Nat \ {0} /\ low \in Nat /\ MaxExp \in Nat /\ 2^MaxExp \in Nat
      /\ a < 2^MaxExp
  <2>1. low \in Exps /\ Multiple(a, 2^low) /\ a + 2^low <= 2^MaxExp /\ Within(a, a, low)
    BY <1>3, StartFacts
  <2>2. 2^low \in Nat \ {0} /\ low \in Nat /\ MaxExp \in Nat /\ 2^MaxExp \in Nat
    BY <2>1, ExpsFacts
  <2>3. a < 2^MaxExp
    <3>. HIDE DEF a, low
    <3>. QED  BY <1>3, <2>1, <2>2
  <2>. QED  BY <2>1, <2>2, <2>3
<1>5. /\ top \in low .. MaxExp /\ top \in Exps /\ top \in Nat /\ top \in low .. top
      /\ top = MaxExp \/ ~Merges(a, top)
      /\ \A d \in merged : /\ Merges(a, d) /\ d \in Exps /\ low <= d /\ d # top
                           /\ d \in low .. top
  <2>1. /\ top \in low .. MaxExp /\ (top = MaxExp \/ ~Merges(a, top))
        /\ \A d \in merged : Merges(a, d)
    BY <1>3, <1>4, MergedFacts
  <2>. HIDE DEF a, low, top
  <2>2. \A d \in low .. top : d \in Exps
    BY <1>4, <2>1, ExpsFacts DEF Exps
  <2>3. top \in Nat /\ top \in low .. top
    BY <1>4, <2>1
  <2>4. \A d \in merged : low <= d /\ d # top /\ d \in low .. top
    BY <1>4, <2>3
  <2>. QED  BY <2>1, <2>2, <2>3, <2>4
<1>6. \A d \in merged : buddy(d) \in ToSet(free[d])
  BY <1>3, <1>5, BuddyIsFree
<1>7. /\ at(low) = a /\ block \in Nat /\ Multiple(block, 2^top) /\ block + 2^top <= 2^MaxExp
      /\ Within(a, block, top)
      /\ \A e \in low .. top : \A m \in Nat : Within(m, at(e), e) => Within(m, block, top)
      /\ \A e \in merged : \A m \in Nat : Within(m, buddy(e), e) => Within(m, block, top)
      /\ \A m \in Nat : Within(m, block, top) =>
           Within(m, a, low) \/ \E e \in merged : Within(m, buddy(e), e)
  <2>. HIDE DEF a, low, top
  <2>. QED  BY <1>3, <1>4, <1>5, MergeCovers
<1>8. \A e \in low .. top : at(e) \in Nat /\ Within(at(e), at(e), e)
  <2>1. ASSUME NEW e \in low .. top PROVE at(e) \in Nat /\ Within(at(e), at(e), e)
    <3>. HIDE DEF a, low, top
    <3>1. e \in 0 .. MaxExp /\ e \in Exps
      BY <1>4, <1>5, ExpsFacts DEF Exps
    <3>2. at(e) \in Nat
      BY <1>3, <3>1, Down
    <3>3. 2^e \in Nat \ {0}
      BY <3>1, ExpsFacts
    <3>. HIDE DEF at
    <3>. QED  BY <3>2, <3>3 DEF Within
  <2>. QED  BY <2>1
<1>9. \A d \in merged : /\ buddy(d) \in B /\ header[buddy(d)].exp = d
                           /\ ~header[buddy(d)].used
                        /\ \A e \in Exps : buddy(d) \in ToSet(free[e]) => e = d
                        /\ \A p \in handed : buddy(d) # p.ptr - HeaderSize
  <2>. HIDE DEF buddy, merged, B
  <2>. QED  BY <1>5, <1>6, OncePlaced DEF B
<1>10. /\ \A p \in handed : p # piece => p.ptr - HeaderSize # a
       /\ \A e \in Exps : a \notin ToSet(free[e])
  <2>1. ASSUME NEW p \in handed, p.ptr - HeaderSize = a PROVE p = piece
    <3>1. p.ptr = piece.ptr
      <4>1. p.ptr = (p.ptr - HeaderSize) + HeaderSize /\ piece.ptr = a + HeaderSize
        BY OncePlaced
      <4>. QED  BY <2>1, <4>1
    <3>. QED  BY <1>2, <3>1
  <2>2. \A e \in Exps : a \notin ToSet(free[e])
    BY OncePlaced
  <2>. QED  BY <2>1, <2>2
<1>. HIDE DEF a, low, top, at, buddy, block
<1>11. \A c \in B : Levels(header, B)[c] = header[c].exp
  BY DEF Levels
<1>12. \A c \in B : /\ c \in Addresses /\ c \in Nat /\ header[c].exp \in Exps
                    /\ Within(c, c, header[c].exp)
  BY StartFacts
<1>. HIDE DEF B
<1>13. ASSUME NEW c \in B, Within(c, block, top) PROVE c \in R
  <2>1. CASE Within(c, a, low)
    <3>1. c = a
      BY <1>2, <1>3, <1>11, <1>12, <2>1, OneCovers DEF low
    <3>. QED  BY <3>1
  <2>2. CASE \E e \in merged : Within(c, buddy(e), e)
    <3>1. PICK e \in merged : Within(c, buddy(e), e)
      BY <2>2
    <3>2. c = buddy(e)
      BY <1>2, <1>9, <1>11, <1>12, <3>1, OneCovers
    <3>. QED  BY <3>1, <3>2
  <2>. QED  BY <1>7, <1>12, <1>13, <2>1, <2>2
<1>14. ASSUME NEW c \in B, c \notin R PROVE header'[c] = header[c] /\ c \in Addresses
              /\ c # block
  <2>1. ASSUME NEW e \in low .. top, c = at(e) PROVE FALSE
    <3>1. Within(c, block, top)
      BY <1>7, <1>8, <1>12, <2>1
    <3>. QED  BY <1>13, <1>14, <3>1
  <2>2. c # block
    BY <1>5, <2>1 DEF block, at
  <2>3. {e \in low .. top : c = at(e)} = {}
    BY <2>1
  <2>. QED  BY <1>1, <1>12, <2>2, <2>3
<1>15. block \in Addresses
  BY <1>5, <1>7, Aligned
<1>16. header'[block] = CreateBlock(top)
  <2>. DEFINE S == {e \in low .. top : block = at(e)}
  <2>1. top \in S /\ S \subseteq low .. top
    BY <1>5 DEF block, at
  <2>2. \A e \in S : e \in Nat /\ e <= top
    BY <1>4, <1>5, <2>1
  <2>. HIDE DEF S
  <2>3. Max(S) = top
    <3>1. top \in S /\ \A y \in S : top >= y
      BY <2>1, <2>2
    <3>2. \A x \in S : (\A y \in S : x >= y) => x = top
      BY <1>5, <2>1, <2>2
    <3>. QED  BY <3>1, <3>2 DEF Max
  <2>4. header'[block] = IF S = {} THEN header[block] ELSE CreateBlock(Max(S))
    BY <1>1, <1>15 DEF S
  <2>. QED  BY <2>1, <2>3, <2>4
<1>17. header' \in [Addresses -> [exp : Exps, used : BOOLEAN]]
  <2>1. \A e \in Exps : CreateBlock(e) \in [exp : Exps, used : BOOLEAN]
    BY DEF CreateBlock
  <2>2. ASSUME NEW x \in Addresses PROVE header'[x] \in [exp : Exps, used : BOOLEAN]
    <3>. DEFINE S == {e \in low .. top : x = at(e)}
    <3>1. S \subseteq low .. top /\ \A e \in low .. top : e \in Exps /\ e \in Nat
      BY <1>4, <1>5, ExpsFacts DEF Exps
    <3>2. header'[x] = IF S = {} THEN header[x] ELSE CreateBlock(Max(S))
      BY <1>1
    <3>. HIDE DEF S
    <3>3. S # {} => Max(S) \in S
      <4>1. ASSUME S # {} PROVE \E y \in S : \A z \in S : y >= z
        <5>. DEFINE T == {top - e : e \in S}
        <5>1. T \subseteq Nat /\ T # {}
          <6>1. \A e \in low .. top : top - e \in Nat
            BY <1>4, <1>5
          <6>. QED  BY <3>1, <4>1, <6>1
        <5>2. PICK t \in T : \A u \in T : t <= u
          <6>. HIDE DEF T
          <6>. QED  BY <5>1, LeastNatural
        <5>3. PICK y \in S : t = top - y
          BY <5>2
        <5>4. ASSUME NEW z \in S PROVE y >= z
          <6>1. top - z \in T
            OBVIOUS
          <6>2. top - y <= top - z
            BY <5>2, <5>3, <6>1
          <6>3. y \in Nat /\ z \in Nat /\ top \in Nat
            BY <1>5, <3>1, <5>3
          <6>. HIDE DEF T
          <6>. QED  BY <6>2, <6>3
        <5>. QED  BY <5>4
      <4>. QED  BY <4>1 DEF Max
    <3>4. S # {} => Max(S) \in Exps
      BY <3>1, <3>3
    <3>. HIDE DEF Max
    <3>5. S # {} => CreateBlock(Max(S)) \in [exp : Exps, used : BOOLEAN]
      BY <2>1, <3>4
    <3>. QED  BY <1>2, <3>2, <3>5
  <2>. QED  BY <1>1, <2>2
<1>18. block \notin ToSet(free[top])
  <2>1. ASSUME block \in ToSet(free[top]) PROVE FALSE
    <3>1. block \in B /\ header[block].exp = top /\ ~header[block].used
      BY <1>5, <2>1, OncePlaced DEF B
    <3>2. a = block
      BY <1>2, <1>3, <1>4, <1>7, <1>11, <3>1, OneCovers DEF low
    <3>. QED  BY <1>3, <3>1, <3>2
  <2>. QED  BY <2>1
<1>19. /\ free' \in [Exps -> Seq(Nat)] /\ \A e \in Exps : Once(free'[e])
       /\ \A e \in merged : ToSet(free'[e]) = ToSet(free[e]) \ {buddy(e)}
       /\ ToSet(free'[top]) = ToSet(free[top]) \cup {block}
       /\ \A e \in Exps : e # top /\ e \notin merged => free'[e] = free[e]
  <2>. HIDE DEF merged
  <2>1. /\ \A e \in merged : free'[e] = RemoveBlock(free[e], buddy(e))
        /\ free'[top] = <<block>> \o free[top]
        /\ \A e \in Exps : e # top /\ e \notin merged => free'[e] = free[e]
    BY <1>1, <1>5
  <2>2. \A e \in merged : /\ free'[e] \in Seq(Nat) /\ Once(free'[e])
                         /\ ToSet(free'[e]) = ToSet(free[e]) \ {buddy(e)}
    <3>1. ASSUME NEW e \in merged
          PROVE  /\ free'[e] \in Seq(Nat) /\ Once(free'[e])
                 /\ ToSet(free'[e]) = ToSet(free[e]) \ {buddy(e)}
      <4>1. free[e] \in Seq(Nat) /\ Once(free[e]) /\ buddy(e) \in ToSet(free[e])
        BY <1>2, <1>5, <1>6
      <4>2. free'[e] = RemoveBlock(free[e], buddy(e))
        BY <2>1
      <4>. QED  BY <4>1, <4>2, TakeOut
    <3>. QED  BY <3>1
  <2>3. /\ free'[top] \in Seq(Nat) /\ Once(free'[top])
        /\ ToSet(free'[top]) = ToSet(free[top]) \cup {block}
    <3>1. free[top] \in Seq(Nat) /\ Once(free[top])
      BY <1>2, <1>5
    <3>. QED  BY <1>7, <1>18, <2>1, <3>1, PutFirst
  <2>4. \A e \in Exps : free'[e] \in Seq(Nat) /\ Once(free'[e])
    BY <1>2, <2>1, <2>2, <2>3
  <2>5. free' = [e \in Exps |-> free'[e]]
    BY <1>1
  <2>. QED  BY <2>1, <2>2, <2>3, <2>4, <2>5

<1>20. C = (B \ R) \cup N
  <2>1. ASSUME NEW x \in C PROVE x \in (B \ R) \cup N
    <3>1. CASE \E p \in handed' : x = p.ptr - HeaderSize
      <4>1. PICK p \in handed : p # piece /\ x = p.ptr - HeaderSize
        BY <1>1, <3>1
      <4>2. x \in B
        BY <4>1 DEF Starts, B
      <4>3. x # a
        BY <1>10, <4>1
      <4>4. \A e \in merged : x # buddy(e)
        BY <1>9, <4>1
      <4>. QED  BY <4>2, <4>3, <4>4
    <3>2. CASE \E e \in Exps : x \in ToSet(free'[e])
      <4>1. PICK e \in Exps : x \in ToSet(free'[e])
        BY <3>2
      <4>2. CASE x = block
        BY <4>2
      <4>3. CASE x # block
        <5>1. x \in ToSet(free[e]) /\ (e \in merged => x # buddy(e))
          BY <1>19, <4>1, <4>3
        <5>2. x \in B /\ x # a
          BY <1>10, <5>1 DEF Starts, B
        <5>3. \A d \in merged : x # buddy(d)
          BY <1>9, <5>1
        <5>. QED  BY <5>2, <5>3
      <4>. QED  BY <4>2, <4>3
    <3>. QED  BY <3>1, <3>2 DEF Starts
  <2>2. ASSUME NEW x \in B, x \notin R PROVE x \in C
    <3>1. CASE \E p \in handed : x = p.ptr - HeaderSize
      <4>1. PICK p \in handed : x = p.ptr - HeaderSize
        BY <3>1
      <4>2. p # piece
        BY <2>2, <4>1 DEF a
      <4>. QED  BY <1>1, <4>1, <4>2 DEF Starts
    <3>2. CASE \E e \in Exps : x \in ToSet(free[e])
      <4>1. PICK e \in Exps : x \in ToSet(free[e])
        BY <3>2
      <4>2. x \in ToSet(free'[e])
        BY <1>19, <2>2, <4>1
      <4>. QED  BY <4>1, <4>2 DEF Starts
    <3>. QED  BY <3>1, <3>2 DEF Starts, B
  <2>3. block \in C
    <3>1. block \in ToSet(free'[top])
      BY <1>19
    <3>. QED  BY <1>5, <3>1 DEF Starts
  <2>. QED  BY <2>1, <2>2, <2>3
<1>21. Tiling(C, Levels(header', C))
  <2>. DEFINE x == Levels(header, B)
              z == Levels(header', C)
  <2>1. \A c \in C : z[c] = header'[c].exp
    BY DEF Levels
  <2>2. block \in C /\ \A c \in B \ R : c \in C
    BY <1>20
  <2>3. x[a] = low /\ \A e \in merged : x[buddy(e)] = e
    BY <1>3, <1>9, <1>11 DEF low
  <2>4. z \in [C -> Exps]
    <3>1. ASSUME NEW c \in C PROVE header'[c].exp \in Exps
      <4>1. c \in Addresses
        BY <1>12, <1>15, <1>20
      <4>. QED  BY <1>17, <4>1
    <3>. QED  BY <3>1 DEF Levels
  <2>. HIDE DEF x, z, C
  <2>5. z[block] = top
    <3>1. CreateBlock(top).exp = top
      BY DEF CreateBlock
    <3>. QED  BY <1>16, <2>1, <2>2, <3>1
  <2>6. \A c \in B \ R : z[c] = x[c]
    <3>1. ASSUME NEW c \in B, c \notin R PROVE z[c] = x[c]
      <4>1. c \in C
        BY <2>2, <3>1
      <4>2. header'[c] = header[c] /\ x[c] = header[c].exp
        BY <1>11, <1>14, <3>1 DEF x
      <4>. QED  BY <2>1, <4>1, <4>2
    <3>. QED  BY <3>1
  <2>7. \A c \in R : \A m \in Nat : Within(m, c, x[c]) => \E b \in N : Within(m, b, z[b])
    <3>1. \A m \in Nat : Within(m, a, x[a]) => Within(m, block, top)
      <4>1. \A m \in Nat : Within(m, at(low), low) => Within(m, block, top)
        <5>1. low \in low .. top
          BY <1>4, <1>5
        <5>. QED  BY <1>7, <5>1
      <4>. QED  BY <1>7, <2>3, <4>1
    <3>2. \A e \in merged : \A m \in Nat : Within(m, buddy(e), x[buddy(e)])
                                         => Within(m, block, top)
      BY <1>7, <2>3
    <3>. QED  BY <2>5, <3>1, <3>2
  <2>8. \A b \in N : \A m \in Nat : Within(m, b, z[b]) => \E c \in R : Within(m, c, x[c])
    <3>1. ASSUME NEW m \in Nat, Within(m, block, top) PROVE \E c \in R : Within(m, c, x[c])
      <4>1. CASE Within(m, a, low)
        BY <2>3, <4>1
      <4>2. CASE \E e \in merged : Within(m, buddy(e), e)
        BY <2>3, <4>2
      <4>. QED  BY <1>7, <3>1, <4>1, <4>2
    <3>. QED  BY <2>5, <3>1
  <2>9. R \subseteq B /\ N \subseteq Nat
    BY <1>3, <1>7, <1>9
  <2>10. \A c \in N : Multiple(c, 2^z[c]) /\ c + 2^z[c] <= 2^MaxExp
    BY <1>7, <2>5
  <2>11. \A c, b \in N : c < b => c + 2^z[c] <= b
    BY <1>7
  <2>12. Tiling(B, x)
    BY <1>2 DEF x
  <2>. HIDE DEF R, N
  <2>13. MakeWay(B, x, R, N, C, z)
    BY <1>20, <2>4, <2>6, <2>7, <2>8, <2>9, <2>10, <2>11 DEF MakeWay
  <2>14. Tiling(C, z)
    BY <2>12, <2>13, Replaced
  <2>. QED  BY <2>14 DEF z
<1>22. \A e \in Exps : \A x \in ToSet(free'[e]) : header'[x] = CreateBlock(e)
  <2>1. ASSUME NEW e \in Exps, NEW x \in ToSet(free'[e]) PROVE header'[x] = CreateBlock(e)
    <3>1. CASE e = top /\ x = block
      BY <1>16, <3>1
    <3>2. CASE ~(e = top /\ x = block)
      <4>1. x \in ToSet(free[e]) /\ (e \in merged => x # buddy(e))
        BY <1>19, <2>1, <3>2
      <4>2. x \in B
        BY <4>1 DEF Starts, B
      <4>3. x \notin R
        BY <1>9, <1>10, <4>1
      <4>. QED  BY <1>2, <1>14, <4>1, <4>2, <4>3
    <3>. QED  BY <3>1, <3>2
  <2>. QED  BY <2>1
<1>23. \A p \in handed' :
         /\ p \in [ptr : Nat, size : Sizes] /\ p.ptr - HeaderSize \in Nat
         /\ header'[p.ptr - HeaderSize].used
         /\ p.size + HeaderSize <= 2^header'[p.ptr - HeaderSize].exp
  <2>1. ASSUME NEW p \in handed, p # piece
        PROVE  header'[p.ptr - HeaderSize] = header[p.ptr - HeaderSize]
    <3>1. p.ptr - HeaderSize \in B
      BY OncePlaced DEF B
    <3>2. p.ptr - HeaderSize \notin R
      BY <1>9, <1>10, <2>1
    <3>. QED  BY <1>14, <3>1, <3>2
  <2>2. \A p \in handed :
         /\ p \in [ptr : Nat, size : Sizes] /\ p.ptr - HeaderSize \in Nat
         /\ header[p.ptr - HeaderSize].used
         /\ p.size + HeaderSize <= 2^header[p.ptr - HeaderSize].exp
    BY DEF Kept
  <2>. QED  BY <1>1, <2>1, <2>2
<1>24. NoTwins(free')
  <2>1. ASSUME NEW e \in Exps, NEW f \in Nat, e < MaxExp, Multiple(f, 2^(e + 1)),
               {f, f + 2^e} \subseteq ToSet(free'[e])
        PROVE  FALSE
    <3>1. CASE e # top \/ block \notin {f, f + 2^e}
      <4>1. {f, f + 2^e} \subseteq ToSet(free[e])
        BY <1>19, <2>1, <3>1
      <4>. QED  BY <2>1, <4>1 DEF NoTwins
    <3>2. CASE e = top /\ block \in {f, f + 2^e}
      <4>. DEFINE g == BlockAt(a, top + 1)
                  b == Buddy(block, top)
      <4>1. /\ top \in 0 .. MaxExp /\ top < MaxExp /\ top + 1 \in 0 .. MaxExp
            /\ 2^(top + 1) = 2 * 2^top /\ 2^top \in Nat \ {0}
        <5>1. top \in 0 .. MaxExp /\ top < MaxExp /\ top + 1 \in 0 .. MaxExp
          BY <1>4, <1>5, <2>1, <3>2
        <5>. QED  BY <5>1 DEF BuddyAssumption
      <4>2. AreHalves(g, top, b, block)
        BY <1>3, <4>1, Halves DEF block
      <4>3. b \notin ToSet(free[top])
        <5>1. header[b] # CreateBlock(top)
          BY <1>5, <4>1 DEF Merges, block
        <5>. QED  BY <1>2, <1>5, <5>1
      <4>. HIDE DEF b
      <4>4. Within(a, f, top + 1)
        <5>1. f <= block /\ block + 2^top <= f + 2 * 2^top
          BY <1>7, <2>1, <3>2, <4>1
        <5>. QED  BY <1>3, <1>7, <2>1, <4>1, <5>1 DEF Within
      <4>5. f = g
        BY <1>3, <2>1, <3>2, <4>1, <4>4, Down
      <4>. HIDE DEF g
      <4>6. b \in {f, f + 2^top} /\ b # block
        BY <4>2, <4>5 DEF AreHalves
      <4>7. b \in ToSet(free'[top])
        BY <2>1, <3>2, <4>6
      <4>. QED  BY <1>19, <4>3, <4>6, <4>7
    <3>. QED  BY <3>1, <3>2
  <2>. QED  BY <2>1 DEF NoTwins
<1>25. \A p, q \in handed' : p.ptr = q.ptr => p = q
  BY <1>1, <1>2
<1>26. Kept(header', free', handed')
  BY <1>17, <1>19, <1>21, <1>22, <1>23, <1>25 DEF Kept
<1>. QED  BY <1>1, <1>24, <1>26

-----------------------------------------------------------------------------
(* createMemoryManager: one block, the whole of the memory.                *)
LEMMA BuddyStarts == ASSUME BuddyAssumption, Init PROVE Kept(header, free, handed)
                            /\ NoTwins(free)
<1>1. /\ MaxExp \in Exps /\ MIN_EXP \in Exps /\ MaxExp \in Nat /\ 2^MaxExp \in Nat \ {0}
      /\ \A e \in Exps : e \in Nat /\ 2^e \in Nat \ {0}
  <2>1. MaxExp \in Exps /\ MIN_EXP \in Exps
    BY DEF BuddyAssumption, Exps
  <2>. QED  BY <2>1, ExpsFacts
<1>2. Multiple(0, 2^MaxExp) /\ 0 + 2^MaxExp = 2^MaxExp /\ 0 + 2^MaxExp <= 2^MaxExp
  BY <1>1, SelfMultiple
<1>3. 0 \in Addresses
  BY <1>1, <1>2, Aligned
<1>4. \A e \in Exps : CreateBlock(e) \in [exp : Exps, used : BOOLEAN]
      /\ CreateBlock(e).exp = e
  BY DEF CreateBlock
<1>5. header \in [Addresses -> [exp : Exps, used : BOOLEAN]]
      /\ header[0] = CreateBlock(MaxExp)
  BY <1>1, <1>3, <1>4 DEF Init
<1>6. /\ free \in [Exps -> Seq(Nat)] /\ ToSet(free[MaxExp]) = {0}
      /\ \A e \in Exps : Once(free[e]) /\ (e # MaxExp => ToSet(free[e]) = {})
  <2>1. <<0>> \in Seq(Nat) /\ Once(<<0>>) /\ ToSet(<<0>>) = {0}
    BY DEF Once, ToSet
  <2>2. <<>> \in Seq(Nat) /\ Once(<<>>) /\ ToSet(<<>>) = {}
    BY DEF Once, ToSet
  <2>3. /\ free = [e \in Exps |-> IF e = MaxExp THEN <<0>> ELSE <<>>]
        /\ \A e \in Exps : free[e] = IF e = MaxExp THEN <<0>> ELSE <<>>
    BY DEF Init
  <2>4. free \in [Exps -> Seq(Nat)]
    BY <2>1, <2>2, <2>3
  <2>. QED  BY <1>1, <2>1, <2>2, <2>3, <2>4
<1>7. Starts(free, handed) = {0}
  BY <1>1, <1>6 DEF Starts, Init
<1>8. Tiling({0}, Levels(header, {0}))
  <2>1. Levels(header, {0})[0] = MaxExp /\ Levels(header, {0}) \in [{0} -> Exps]
    BY <1>1, <1>4, <1>5 DEF Levels
  <2>2. ASSUME NEW m \in Memory PROVE Within(m, 0, MaxExp)
    BY <1>1 DEF Memory, Within
  <2>3. \A a, b \in {0} : ~(a < b)
    OBVIOUS
  <2>. QED  BY <1>2, <2>1, <2>2, <2>3 DEF Tiling
<1>9. \A e \in Exps : \A a \in ToSet(free[e]) : header[a] = CreateBlock(e)
  BY <1>1, <1>5, <1>6
<1>10. Kept(header, free, handed)
  BY <1>5, <1>6, <1>7, <1>8, <1>9 DEF Kept, Init
<1>11. ASSUME NEW e \in Exps, NEW f \in Nat, e < MaxExp PROVE f \notin ToSet(free[e])
  BY <1>1, <1>6, <1>11
<1>. QED  BY <1>10, <1>11 DEF NoTwins

(* Two pieces are in two blocks, and blocks have no byte in common.        *)
LEMMA PiecesLieApart ==
  ASSUME BuddyAssumption, Requests, NEW headers, NEW lists, NEW pieces,
         Kept(headers, lists, pieces), NEW p \in pieces
  PROVE  /\ WithHeader(p) = [ptr |-> p.ptr - HeaderSize, size |-> p.size + HeaderSize]
         /\ p.size \in Sizes /\ AsArena!Bytes(WithHeader(p)) \subseteq Memory
         /\ \A q \in pieces \ {p} : /\ p.ptr - HeaderSize # q.ptr - HeaderSize
                                    /\ AsArena!Apart(WithHeader(p), WithHeader(q))
<1>. DEFINE a(q) == q.ptr - HeaderSize
            n(q) == q.size + HeaderSize
            B == Starts(lists, pieces)
            x == Levels(headers, B)
<1>1. HeaderSize \in Nat /\ 2^MaxExp \in Nat
  BY ExpsFacts DEF BuddyAssumption
<1>2. ASSUME NEW q \in pieces
      PROVE  /\ a(q) \in B /\ a(q) \in Nat /\ n(q) \in Nat /\ q.size \in Sizes
             /\ 2^x[a(q)] \in Nat /\ n(q) <= 2^x[a(q)] /\ a(q) + 2^x[a(q)] <= 2^MaxExp
             /\ q.ptr = a(q) + HeaderSize
             /\ AsArena!Bytes(WithHeader(q)) = a(q) .. a(q) + n(q) - 1
  <2>1. a(q) \in B /\ a(q) \in Nat /\ q.ptr = a(q) + HeaderSize
    BY OncePlaced
  <2>2. q \in [ptr : Nat, size : Sizes] /\ q.size + HeaderSize <= 2^headers[a(q)].exp
    BY DEF Kept
  <2>3. q.size \in Sizes /\ q.size \in Nat
    BY <2>2 DEF Requests
  <2>4. x[a(q)] = headers[a(q)].exp
    BY <2>1 DEF Levels
  <2>5. headers[a(q)].exp \in Exps /\ a(q) + 2^headers[a(q)].exp <= 2^MaxExp
    <3>. DEFINE c == a(q)
    <3>1. c \in Starts(lists, pieces)
      BY <2>1
    <3>. HIDE DEF c
    <3>2. headers[c].exp \in Exps /\ c + 2^headers[c].exp <= 2^MaxExp
      BY <3>1, StartFacts
    <3>. QED  BY <3>2 DEF c
  <2>6. 2^headers[a(q)].exp \in Nat
    BY <2>5, ExpsFacts
  <2>7. AsArena!Bytes(WithHeader(q)) = a(q) .. a(q) + n(q) - 1
    BY DEF AsArena!Bytes, WithHeader
  <2>8. n(q) \in Nat
    BY <1>1, <2>3
  <2>. HIDE DEF a, x, B
  <2>. QED  BY <2>1, <2>2, <2>3, <2>4, <2>5, <2>6, <2>7, <2>8
<1>3. Tiling(B, x) /\ \A q, r \in pieces : q.ptr = r.ptr => q = r
  BY DEF Kept
<1>. HIDE DEF a, n, B, x
<1>4. AsArena!Bytes(WithHeader(p)) \subseteq Memory
  <2>. DEFINE b == a(p)
              m == n(p)
              k == 2^x[a(p)]
              M == 2^MaxExp
  <2>1. /\ b \in Nat /\ m \in Nat /\ k \in Nat /\ M \in Nat /\ m <= k /\ b + k <= M
        /\ AsArena!Bytes(WithHeader(p)) = b .. b + m - 1
    BY <1>1, <1>2
  <2>. HIDE DEF b, m, k, M
  <2>2. b .. b + m - 1 \subseteq 0 .. M - 1
    BY <2>1
  <2>. QED  BY <2>1, <2>2 DEF M, Memory
<1>5. ASSUME NEW q \in pieces \ {p}
      PROVE  a(p) # a(q) /\ AsArena!Apart(WithHeader(p), WithHeader(q))
  <2>1. a(p) # a(q)
    BY <1>2, <1>3
  <2>. DEFINE b == a(p)
              c == a(q)
              i == AsArena!Bytes(WithHeader(p))
              j == AsArena!Bytes(WithHeader(q))
              v == n(p)
              w == n(q)
              k == 2^x[b]
              l == 2^x[c]
  <2>2. (b < c => b + k <= c) /\ (c < b => c + l <= b)
    BY <1>2, <1>3 DEF Tiling
  <2>3. /\ i = b .. b + v - 1 /\ j = c .. c + w - 1 /\ v <= k /\ w <= l /\ b # c
        /\ b \in Nat /\ c \in Nat /\ v \in Nat /\ w \in Nat /\ k \in Nat /\ l \in Nat
    BY <1>2, <2>1
  <2>. HIDE DEF b, c, i, j, v, w, k, l
  <2>4. ASSUME NEW y \in i, y \in j PROVE FALSE
    BY <2>2, <2>3, <2>4
  <2>. QED  BY <2>1, <2>4 DEF AsArena!Apart, i, j
<1>. QED  BY <1>2, <1>4, <1>5 DEF WithHeader, a

(* Both together, and that each is a step of Arena.                        *)
LEMMA BuddyStep ==
  ASSUME BuddyAssumption, Requests, Kept(header, free, handed), NoTwins(free), Next
  PROVE  Kept(header', free', handed') /\ NoTwins(free') /\ AsArena!Next
<1>1. CASE Alloc
  <2>1. PICK size \in Sizes : AllocMemory(size)
    BY <1>1 DEF Alloc
  <2>2. PICK from \in SplitFrom(ExpFor(size)), garbage \in Garbage :
          /\ AfterSplit(from, ExpFor(size), garbage)
          /\ handed' = handed \cup {[ptr |-> Head(free[from]) + HeaderSize, size |-> size]}
    BY <2>1 DEF AllocMemory
  <2>. DEFINE piece == [ptr |-> Head(free[from]) + HeaderSize, size |-> size]
              w == WithHeader(piece)
  <2>3. /\ Kept(header', free', handed') /\ NoTwins(free')
        /\ \A p \in handed : p.ptr # Head(free[from]) + HeaderSize
    BY <2>2, SplitKeeps
  <2>4. piece \in handed' /\ handed' = handed \cup {piece} /\ piece.size = size
    BY <2>2
  <2>5. piece \notin handed
    BY <2>3
  <2>. HIDE DEF piece
  <2>6. /\ w = [ptr |-> piece.ptr - HeaderSize, size |-> piece.size + HeaderSize]
        /\ AsArena!Bytes(w) \subseteq Memory
        /\ \A q \in handed' \ {piece} : /\ piece.ptr - HeaderSize # q.ptr - HeaderSize
                                        /\ AsArena!Apart(w, WithHeader(q))
    BY <2>3, <2>4, PiecesLieApart
  <2>7. Mapped' = Mapped \cup {w}
    BY <2>4 DEF Mapped
  <2>8. \A m \in Mapped : AsArena!Apart(w, m) /\ m.ptr # w.ptr
    <3>1. ASSUME NEW q \in handed PROVE AsArena!Apart(w, WithHeader(q))
                 /\ WithHeader(q).ptr # w.ptr
      <4>1. /\ piece.ptr - HeaderSize # q.ptr - HeaderSize /\ AsArena!Apart(w, WithHeader(q))
            /\ w.ptr = piece.ptr - HeaderSize
        BY <2>4, <2>5, <2>6
      <4>2. WithHeader(q).ptr = q.ptr - HeaderSize
        BY DEF WithHeader
      <4>. QED  BY <4>1, <4>2
    <3>. HIDE DEF w
    <3>. QED  BY <3>1 DEF Mapped
  <2>9. w.size \in {s + HeaderSize : s \in Sizes}
    BY <2>4, <2>6
  <2>. HIDE DEF w
  <2>10. w \notin Mapped
    BY <2>8
  <2>11. AsArena!Alloc(w)
    BY <2>6, <2>7, <2>8, <2>9 DEF AsArena!Alloc
  <2>. QED  BY <2>3, <2>7, <2>10, <2>11 DEF AsArena!Next
<1>2. CASE Free
  <2>1. PICK piece \in handed : FreeMemory(piece)
    BY <1>2 DEF Free
  <2>2. Kept(header', free', handed') /\ NoTwins(free') /\ handed' = handed \ {piece}
    BY <2>1, MergeKeeps
  <2>. DEFINE w == WithHeader(piece)
  <2>3. \A q \in handed \ {piece} : WithHeader(q) # w
    <3>1. \A q \in handed \ {piece} : piece.ptr - HeaderSize # q.ptr - HeaderSize
      BY PiecesLieApart
    <3>. QED  BY <3>1 DEF WithHeader
  <2>4. Mapped' = Mapped \ {w} /\ w \in Mapped
    BY <2>2, <2>3 DEF Mapped
  <2>. HIDE DEF w
  <2>5. AsArena!Free(w) /\ w \in Mapped \ Mapped'
    BY <2>4 DEF AsArena!Free
  <2>. QED  BY <2>2, <2>5 DEF AsArena!Next
<1>. QED  BY <1>1, <1>2 DEF Next

(* Where no piece lies every block is free, and merging has left one that  *)
(* is large enough: of the smallest ones there the buddy would be free.    *)
LEMMA BuddyServes ==
  ASSUME BuddyAssumption, Requests, Kept(header, free, handed), NoTwins(free)
  PROVE  BuddyTypeOK /\ ServesWhenRoom
<1>. DEFINE B == Starts(free, handed)
            x == Levels(header, B)
<1>1. Tiling(B, x)
  BY DEF Kept
<1>2. \A s \in B : /\ s \in Nat /\ x[s] \in Exps /\ Multiple(s, 2^x[s]) /\ Within(s, s, x[s])
                  /\ (header[s].used => s \in {p.ptr - HeaderSize : p \in handed})
                  /\ (~header[s].used => s \in ToSet(free[x[s]]))
                  /\ x[s] = header[s].exp /\ 2^x[s] \in Nat
  <2>1. \A s \in B : x[s] = header[s].exp
    BY DEF Levels
  <2>. HIDE DEF x
  <2>. QED  BY <2>1, StartFacts, ExpsFacts
<1>3. BuddyTypeOK
  <2>1. header \in [Addresses -> [exp : Exps, used : BOOLEAN]]
    BY DEF Kept
  <2>2. ASSUME NEW e \in Exps, NEW a \in ToSet(free[e])
        PROVE  a \in Addresses /\ a % 2^e = 0 /\ header[a] = CreateBlock(e)
    <3>1. a \in Starts(free, handed) /\ header[a].exp = e
      BY OncePlaced
    <3>2. a \in Addresses /\ a \in Nat /\ Multiple(a, 2^header[a].exp)
      BY <3>1, StartFacts
    <3>3. a % 2^e = 0
      BY <3>1, <3>2, ExpsFacts, Remainder
    <3>4. header[a] = CreateBlock(e)
      BY DEF Kept
    <3>. QED  BY <3>2, <3>3, <3>4
  <2>. QED  BY <2>1, <2>2 DEF BuddyTypeOK
<1>. HIDE DEF B, x
<1>4. ASSUME NEW size \in Sizes, NEW a \in Memory, a % 2^ExpFor(size) = 0,
             (a .. a + 2^ExpFor(size) - 1) \cap Occupied = {}
      PROVE  SplitFrom(ExpFor(size)) # {}
  <2>. DEFINE e == ExpFor(size)
  <2>1. e \in Exps
    BY ExpForFits
  <2>. HIDE DEF e
  <2>2. /\ e \in 0 .. MaxExp /\ e \in Nat /\ MaxExp \in Nat /\ 2^e \in Nat \ {0}
        /\ 2^MaxExp \in Nat /\ MaxExp \in 0 .. MaxExp
    BY <2>1, ExpsFacts
  <2>3. a \in Nat /\ a < 2^MaxExp /\ Multiple(a, 2^e)
    <3>1. a \in Nat /\ a < 2^MaxExp
      BY <2>2 DEF Memory
    <3>. QED  BY <1>4, <2>2, <3>1, Remainder DEF e
  <2>4. a + 2^e <= 2^MaxExp
    <3>1. 0 \in Nat /\ Multiple(0, 2^MaxExp) /\ a < 0 + 2^MaxExp
      BY <2>2, <2>3, SelfMultiple
    <3>2. a + 2^e <= 0 + 2^MaxExp
      BY <2>2, <2>3, <3>1, Nest
    <3>. QED  BY <2>2, <3>2
  <2>5. ASSUME NEW m \in Nat, Within(m, a, e), NEW s \in B, Within(m, s, x[s])
        PROVE  s \in ToSet(free[x[s]])
    <3>1. ASSUME header[s].used PROVE FALSE
      <4>. DEFINE A == {p.ptr - HeaderSize : p \in handed}
      <4>1. s \in A
        BY <1>2, <3>1
      <4>2. Occupied = UNION {b .. b + 2^header[b].exp - 1 : b \in A}
        BY DEF Occupied
      <4>. HIDE DEF A
      <4>3. m \in s .. s + 2^header[s].exp - 1
        <5>1. s \in Nat /\ x[s] = header[s].exp /\ 2^x[s] \in Nat
          BY <1>2
        <5>. QED  BY <2>5, <5>1 DEF Within
      <4>4. m \in Occupied
        BY <4>1, <4>2, <4>3
      <4>5. m \in a .. a + 2^e - 1
        BY <2>2, <2>3, <2>5 DEF Within
      <4>. QED  BY <1>4, <4>4, <4>5 DEF e
    <3>. QED  BY <1>2, <3>1
  <2>6. ASSUME NEW y \in Exps, y >= e, ToSet(free[y]) # {} PROVE SplitFrom(e) # {}
    <3>. DEFINE S == {k \in Exps : k >= e /\ free[k] # <<>>}
    <3>1. free[y] # <<>>
      BY <2>6 DEF ToSet
    <3>2. S \subseteq Nat /\ y \in S
      BY <2>6, <3>1, ExpsFacts
    <3>3. PICK k \in S : \A l \in S : k <= l
      <4>. HIDE DEF S
      <4>. QED  BY <3>2, LeastNatural
    <3>4. ASSUME NEW d \in e .. k - 1 PROVE free[d] = <<>>
      <4>1. k \in Exps /\ k \in Nat /\ k <= MaxExp /\ MIN_EXP <= e /\ MIN_EXP \in Nat
        BY <2>1, <3>3, ExpsFacts
      <4>2. d \in Exps /\ d >= e /\ ~(k <= d)
        BY <2>2, <4>1 DEF Exps
      <4>3. d \notin S
        BY <3>3, <4>2
      <4>. QED  BY <4>2, <4>3
    <3>. QED  BY <3>3, <3>4 DEF SplitFrom
  <2>7. PICK s \in B : Within(a, s, x[s])
    BY <1>1 DEF Tiling
  <2>8. s \in ToSet(free[x[s]])
    <3>1. Within(a, a, e)
      BY <2>2, <2>3 DEF Within
    <3>. QED  BY <2>3, <2>5, <2>7, <3>1
  <2>9. x[s] \in Exps /\ x[s] \in Nat /\ s \in Nat
    BY <1>2, ExpsFacts
  <2>10. CASE x[s] >= e
    BY <2>6, <2>8, <2>9, <2>10 DEF e
  <2>11. CASE x[s] < e
    <3>. DEFINE T == {x[r] : r \in {b \in B : Within(b, a, e) /\ x[b] < e}}
    <3>1. s = a
      <4>1. x[s] \in 0 .. e /\ Multiple(s, 2^x[s]) /\ 2^x[s] \in Nat
        BY <1>2, <2>2, <2>9, <2>11
      <4>2. s < a => s + 2^x[s] <= a
        BY <2>2, <2>3, <2>9, <4>1, Nest
      <4>. QED  BY <2>3, <2>7, <2>9, <4>1, <4>2 DEF Within
    <3>2. x[s] \in T /\ T \subseteq Nat
      <4>1. Within(s, a, e)
        BY <2>2, <2>3, <3>1 DEF Within
      <4>2. \A r \in B : x[r] \in Nat
        BY <1>2, ExpsFacts
      <4>. QED  BY <2>11, <4>1, <4>2
    <3>3. PICK d \in T : \A y \in T : d <= y
      <4>. HIDE DEF T
      <4>. QED  BY <3>2, LeastNatural
    <3>4. PICK r \in B : Within(r, a, e) /\ x[r] < e /\ d = x[r]
      BY <3>3
    <3>5. \A y \in B : Within(y, a, e) /\ x[y] < e => d <= x[y]
      BY <3>3
    <3>. HIDE DEF T
    <3>6. r \in Nat /\ d \in Exps /\ Multiple(r, 2^d) /\ Within(r, r, d)
          /\ r \in ToSet(free[d])
      BY <1>2, <2>5, <3>4
    <3>. DEFINE f == BlockAt(r, d + 1)
                b == Buddy(BlockAt(r, d), d)
    <3>7. d \in 0 .. MaxExp /\ d < MaxExp /\ d \in Nat /\ d + 1 \in 0 .. e
          /\ 2^d \in Nat \ {0}
      BY <2>2, <3>4, <3>6, ExpsFacts
    <3>8. BlockAt(r, d) = r
      BY <3>6, <3>7, Down
    <3>9. AreHalves(f, d, b, r)
      BY <3>6, <3>7, <3>8, Halves
    <3>. HIDE DEF f, b
    <3>10. /\ b \in Nat /\ f \in Nat /\ Multiple(b, 2^d) /\ Multiple(f, 2^(d + 1))
           /\ Within(r, f, d + 1) /\ Within(b, f, d + 1) /\ {f, f + 2^d} = {b, r}
      <4>1. b \in Nat /\ Within(b, b, d)
        BY <3>7, <3>9 DEF AreHalves, Within
      <4>. QED  BY <3>6, <3>9, <4>1 DEF AreHalves
    <3>11. Within(b, a, e)
      <4>1. \A y \in Nat : Within(y, f, d + 1) => Within(y, a, e)
        BY <2>2, <2>3, <3>4, <3>6, <3>7, <3>10, Inside
      <4>. QED  BY <3>10, <4>1
    <3>12. b \in Memory
      BY <2>2, <2>3, <2>4, <3>10, <3>11 DEF Within, Memory
    <3>13. PICK t \in B : Within(b, t, x[t])
      BY <1>1, <3>12 DEF Tiling
    <3>14. /\ t \in ToSet(free[x[t]]) /\ t \in Nat /\ x[t] \in Exps /\ Multiple(t, 2^x[t])
           /\ x[t] \in Nat /\ x[t] \in 0 .. MaxExp /\ 2^x[t] \in Nat
      BY <1>2, <2>5, <3>10, <3>11, <3>13, ExpsFacts
    <3>15. CASE x[t] <= d
      <4>1. x[t] \in 0 .. d
        BY <3>7, <3>14, <3>15
      <4>2. t < b => t + 2^x[t] <= b
        BY <3>7, <3>10, <3>14, <4>1, Nest
      <4>3. t = b
        BY <3>10, <3>13, <3>14, <4>2 DEF Within
      <4>4. x[t] = d
        BY <2>2, <3>4, <3>5, <3>7, <3>11, <3>14, <3>15, <4>3
      <4>5. {f, f + 2^d} \subseteq ToSet(free[d])
        BY <3>6, <3>10, <3>14, <4>3, <4>4
      <4>. QED  BY <3>6, <3>7, <3>10, <4>5 DEF NoTwins
    <3>16. CASE d < x[t]
      <4>1. d + 1 \in 0 .. x[t]
        BY <3>7, <3>14, <3>16
      <4>2. Within(r, t, x[t])
        BY <3>6, <3>10, <3>13, <3>14, <4>1, Inside
      <4>3. r = t
        BY <1>1, <3>4, <3>6, <4>2, OneCovers
      <4>. QED  BY <3>4, <3>7, <3>14, <3>16, <4>3
    <3>. QED  BY <3>7, <3>14, <3>15, <3>16
  <2>. QED  BY <2>2, <2>9, <2>10, <2>11
<1>5. ServesWhenRoom
  BY <1>4 DEF ServesWhenRoom
<1>. QED  BY <1>3, <1>5

-----------------------------------------------------------------------------
BuddyInv == Kept(header, free, handed) /\ NoTwins(free)

LEMMA BuddyStays == ASSUME BuddyInv, UNCHANGED vars PROVE BuddyInv'
<1>1. header' = header /\ free' = free /\ handed' = handed
  BY DEF vars
<1>. HIDE DEF Kept, NoTwins
<1>. QED  BY <1>1 DEF BuddyInv

(* Whatever is allocated and freed in whatever order, and whatever holders *)
(* write over old headers, pieces lie in the memory and apart, with their  *)
(* headers: the manager implements Arena.                                  *)
THEOREM BuddyImplementsArena ==
  ASSUME BuddyAssumption, Requests
  PROVE  Spec => ImplementsArena
<1>1. Init => BuddyInv /\ AsArena!Init
  BY BuddyStarts DEF BuddyInv, Init, AsArena!Init, Mapped
<1>2. BuddyInv /\ [Next]_vars => BuddyInv' /\ [AsArena!Next]_Mapped
  <2>1. BuddyInv /\ Next => BuddyInv' /\ AsArena!Next
    BY BuddyStep DEF BuddyInv
  <2>2. UNCHANGED vars => Mapped' = Mapped
    BY DEF vars, Mapped
  <2>. QED  BY <2>1, <2>2, BuddyStays
<1>. HIDE DEF BuddyInv, Init, Next, vars, Mapped
<1>. QED  BY <1>1, <1>2, PTL DEF Spec, ImplementsArena, AsArena!Spec

(* Merging is complete, so what has been freed is never lost to it: where  *)
(* a block that fits could lie a request is served.                        *)
THEOREM BuddyServesWhenRoom ==
  ASSUME BuddyAssumption, Requests
  PROVE  Spec => [](BuddyTypeOK /\ ServesWhenRoom)
<1>1. Init => BuddyInv
  BY BuddyStarts DEF BuddyInv
<1>2. BuddyInv /\ [Next]_vars => BuddyInv'
  <2>1. BuddyInv /\ Next => BuddyInv'
    BY BuddyStep DEF BuddyInv
  <2>. QED  BY <2>1, BuddyStays
<1>3. BuddyInv => BuddyTypeOK /\ ServesWhenRoom
  BY BuddyServes DEF BuddyInv
<1>. HIDE DEF BuddyInv, Init, Next, vars, BuddyTypeOK, ServesWhenRoom
<1>. QED  BY <1>1, <1>2, <1>3, PTL DEF Spec
=============================================================================
