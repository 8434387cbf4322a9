---------------------------- MODULE ShamirProofs ------------------------------
(* Proofs about the sharing of a byte over GF(2^8), for every secret, every   *)
(* polynomial and every set of shares.                                        *)
EXTENDS Shamir, FiniteSetTheorems, WellFoundedInduction, TLAPS

--------------------------------------------------------------------------------
(* Numbers, and what is filled from the front.                                *)

\* A set of numbers that is not empty has a smallest one.
LEMMA Smallest ==
  ASSUME NEW T, T # {}, T \subseteq Nat
  PROVE  \E m \in T : \A x \in T : m <= x
<1>1. PICK m \in T : \A x \in T : <<x, m>> \notin OpToRel(<, Nat)
  BY NatLessThanWellFounded, WFMin, Zenon
<1>2. \A x \in T : m <= x
  <2> SUFFICES ASSUME NEW x \in T, x < m PROVE FALSE
    OBVIOUS
  <2>1. x \in Nat /\ m \in Nat
    OBVIOUS
  <2>2. <<x, m>> \in OpToRel(<, Nat)
    BY <2>1, Zenon DEF OpToRel
  <2> QED
    BY <1>1, <2>2
<1> QED
  BY <1>2

\* Tables and accumulators filled from the front.
LEMMA FilledFrom ==
  ASSUME NEW S, NEW k \in Nat, NEW f, f[0] \in S,
         \A n \in 1 .. k : f[n - 1] \in S => f[n] \in S
  PROVE  \A n \in 0 .. k : f[n] \in S
<1> DEFINE T == {n \in 0 .. k : f[n] \notin S}
<1> SUFFICES ASSUME T # {} PROVE FALSE
  OBVIOUS
<1>1. PICK m \in T : \A x \in T : m <= x
  <2> T \subseteq Nat
    OBVIOUS
  <2> QED
    BY Smallest
<1>2. m \in 1 .. k /\ m - 1 \in 0 .. k
  OBVIOUS
<1> QED
  BY <1>1, <1>2

\* f[0] is base, and step says what f[n] is from what f[n - 1] is.
Fills(f, base, step, k) == f = [n \in 0 .. k |-> IF n = 0 THEN base ELSE step[<<n, f[n - 1]>>]]

LEMMA FillingExists ==
  ASSUME NEW S, NEW base \in S, NEW k \in Nat, NEW step \in [(1 .. k) \X S -> S]
  PROVE  \E f : Fills(f, base, step, k) /\ \A n \in 0 .. k : f[n] \in S
<1> DEFINE Filled(f, m) == f = [n \in 0 .. m |-> IF n = 0 THEN base ELSE step[<<n, f[n - 1]>>]]
           T == {m \in 0 .. k : ~ \E f : Filled(f, m)}
<1>0. SUFFICES T = {}
  <2>1. PICK f : Filled(f, k)
    BY <1>0
  <2>2. f[0] = base /\ \A n \in 1 .. k : f[n] = step[<<n, f[n - 1]>>]
    BY <2>1
  <2>3. \A n \in 1 .. k : f[n - 1] \in S => f[n] \in S
    BY <2>2
  <2>4. \A n \in 0 .. k : f[n] \in S
    BY <2>2, <2>3, FilledFrom
  <2> QED
    BY <2>1, <2>4 DEF Fills
<1> SUFFICES ASSUME T # {} PROVE FALSE
  OBVIOUS
<1>1. PICK m \in T : \A x \in T : m <= x
  <2> T \subseteq Nat
    OBVIOUS
  <2> QED
    BY Smallest
<1>2. m \in 1 .. k
  <2>1. Filled([n \in 0 .. 0 |-> base], 0)
    OBVIOUS
  <2>2. \E f : Filled(f, 0)
    BY <2>1
  <2> HIDE DEF Filled
  <2> QED
    BY <1>1, <2>2
<1>3. PICK f : Filled(f, m - 1)
  BY <1>1, <1>2
<1> DEFINE g == [n \in 0 .. m |-> IF n = m THEN step[<<m, f[m - 1]>>] ELSE f[n]]
<1>4. \A n \in 1 .. m : g[n - 1] = f[n - 1] /\ n - 1 \in 0 .. m - 1
  BY <1>2
<1>5. \A n \in 0 .. m - 1 : f[n] = IF n = 0 THEN base ELSE step[<<n, f[n - 1]>>]
  BY <1>3
<1>6. \A n \in 0 .. m : g[n] = IF n = 0 THEN base ELSE step[<<n, g[n - 1]>>]
  <2> SUFFICES ASSUME NEW n \in 0 .. m PROVE g[n] = IF n = 0 THEN base ELSE step[<<n, g[n - 1]>>]
    OBVIOUS
  <2>1. CASE n = m
    <3>1. g[m] = step[<<m, f[m - 1]>>] /\ m # 0
      BY <1>2
    <3>2. g[m - 1] = f[m - 1]
      BY <1>2, <1>4
    <3> HIDE DEF g
    <3> QED
      BY <2>1, <3>1, <3>2
  <2>2. CASE n # m
    <3>1. n \in 0 .. m - 1 /\ g[n] = f[n]
      BY <2>2
    <3>2. n # 0 => g[n - 1] = f[n - 1]
      BY <1>4
    <3> QED
      BY <3>1, <3>2, <1>5
  <2> QED
    BY <2>1, <2>2
<1>7. Filled(g, m)
  <2> g = [n \in 0 .. m |-> g[n]]
    OBVIOUS
  <2> HIDE DEF g
  <2> QED
    BY <1>6
<1> QED
  BY <1>1, <1>7

\* The arithmetic of bytes yields bytes.
LEMMA NibbleIs == ASSUME NEW x \in 0 .. 15, NEW y \in 0 .. 15 PROVE Nibbles[<<x, y>>] \in 0 .. 15
<1> DEFINE bit(i) == ((Bit(x, i) + Bit(y, i)) % 2) * 2^i
<1>1. \A u \in 0 .. 15, i \in 0 .. 3 : Bit(u, i) \in {0, 1}
  <2>1. 2^0 = 1 /\ 2^1 = 2 /\ 2^2 = 4 /\ 2^3 = 8
    OBVIOUS
  <2> SUFFICES ASSUME NEW u \in 0 .. 15, NEW i \in 0 .. 3 PROVE Bit(u, i) \in {0, 1}
    OBVIOUS
  <2>2. i = 0 \/ i = 1 \/ i = 2 \/ i = 3
    OBVIOUS
  <2> QED
    BY <2>1, <2>2 DEF Bit
<1>2. Nibbles[<<x, y>>] = bit(0) + bit(1) + bit(2) + bit(3)
  BY DEF Nibbles
<1>3. bit(0) \in 0 .. 1 /\ bit(1) \in {0, 2} /\ bit(2) \in {0, 4} /\ bit(3) \in {0, 8}
  <2>1. 2^0 = 1 /\ 2^1 = 2 /\ 2^2 = 4 /\ 2^3 = 8
    OBVIOUS
  <2>2. \A i \in 0 .. 3 : (Bit(x, i) + Bit(y, i)) % 2 \in {0, 1}
    BY <1>1
  <2> QED
    BY <2>1, <2>2
<1> HIDE DEF bit
<1> QED
  BY <1>2, <1>3

LEMMA XorIsByte == ASSUME NEW a \in Byte, NEW b \in Byte PROVE Xor(a, b) \in Byte
<1>3. a \div 16 \in 0 .. 15 /\ a % 16 \in 0 .. 15 /\ b \div 16 \in 0 .. 15 /\ b % 16 \in 0 .. 15
  BY DEF Byte
<1>4. Nibbles[<<a \div 16, b \div 16>>] \in 0 .. 15 /\ Nibbles[<<a % 16, b % 16>>] \in 0 .. 15
  BY <1>3, NibbleIs
<1> QED
  BY <1>4 DEF Xor, Byte

LEMMA TwiceIsByte == ASSUME NEW x \in Byte PROVE Twice(x) \in Byte
<1>1. CASE x >= 128
  <2>1. (2 * x) % 256 \in Byte /\ 27 \in Byte
    BY DEF Byte
  <2> QED
    BY <1>1, <2>1, XorIsByte DEF Twice
<1>2. CASE ~ x >= 128
  BY <1>2 DEF Twice, Byte
<1> QED
  BY <1>1, <1>2

\* Each power is the one before it times the generator.
LEMMA PowersTriple ==
  Power[0] = 1 /\ \A n \in 1 .. 254 : Power[n] = Xor(Twice(Power[n - 1]), Power[n - 1])
<1> DEFINE step == [p \in (1 .. 254) \X Byte |-> Xor(Twice(p[2]), p[2])]
           e(f, n) == IF n = 0 THEN 1 ELSE Xor(Twice(f[n - 1]), f[n - 1])
<1>1. step \in [(1 .. 254) \X Byte -> Byte]
  <2>1. \A p \in (1 .. 254) \X Byte : Xor(Twice(p[2]), p[2]) \in Byte
    BY TwiceIsByte, XorIsByte
  <2> QED
    BY <2>1
<1>2. 254 \in Nat /\ 1 \in Byte
  BY DEF Byte
<1>3. \A n \in 1 .. 254, x \in Byte : step[<<n, x>>] = Xor(Twice(x), x)
  OBVIOUS
<1> HIDE DEF step
<1>4. PICK f : Fills(f, 1, step, 254) /\ \A n \in 0 .. 254 : f[n] \in Byte
  <2> HIDE DEF Fills
  <2>1. \A k \in Nat : \A g \in [(1 .. k) \X Byte -> Byte] :
            \E f : Fills(f, 1, g, k) /\ \A n \in 0 .. k : f[n] \in Byte
    BY <1>2, FillingExists, Zenon
  <2> QED
    BY <1>1, <1>2, <2>1, Zenon
<1>5. \A n \in 0 .. 254 : (IF n = 0 THEN 1 ELSE step[<<n, f[n - 1]>>]) = e(f, n)
  <2> SUFFICES ASSUME NEW n \in 0 .. 254, n # 0 PROVE step[<<n, f[n - 1]>>] = e(f, n)
    BY Zenon
  <2>1. n \in 1 .. 254 /\ n - 1 \in 0 .. 254
    OBVIOUS
  <2> QED
    BY <1>3, <1>4, <2>1
<1>6. f = [n \in 0 .. 254 |-> e(f, n)]
  <2> HIDE DEF e
  <2> QED
    BY <1>4, <1>5, Zenon DEF Fills
<1>7. Power = [n \in 0 .. 254 |-> e(Power, n)]
  BY <1>6, Zenon DEF Power
<1>8. \A n \in 0 .. 254 : Power[n] = e(Power, n)
  <2> HIDE DEF e
  <2> QED
    BY <1>7
<1>9. 0 \in 0 .. 254 /\ \A n \in 1 .. 254 : n \in 0 .. 254 /\ n # 0
  OBVIOUS
<1> QED
  BY <1>8, <1>9, Zenon

\* Places of the table, exponents below the group's order, and sums of two of these.
Slot     == 0 .. 511
Exponent == 0 .. 254
Sum2     == 0 .. 509

LEMMA PowersAreBytes == EXP[0] = 1 /\ \A i \in 0 .. 511 : EXP[i] \in Byte
<1>1. \A n \in 0 .. 254 : Power[n] \in Byte
  <2>1. 254 \in Nat /\ 1 \in Byte
    BY DEF Byte
  <2>2. \A n \in 1 .. 254 : Power[n - 1] \in Byte => Power[n] \in Byte
    BY PowersTriple, TwiceIsByte, XorIsByte, Zenon
  <2>3. Power[0] \in Byte
    BY <2>1, PowersTriple
  <2> QED
    BY <2>1, <2>2, <2>3, FilledFrom, Zenon
<1>2. \A i \in 0 .. 511 : i % 255 \in 0 .. 254
  OBVIOUS
<1>3. EXP[0] = 1
  <2>1. 0 \in 0 .. 511 /\ 0 % 255 = 0
    OBVIOUS
  <2> QED
    BY <2>1, PowersTriple DEF EXP
<1> QED
  BY <1>1, <1>2, <1>3 DEF EXP

LEMMA LogIsExponent == ASSUME NEW x \in Byte PROVE LOG[x] \in 0 .. 254
<1>1. LOG[x] = IF \E i \in 0 .. 254 : EXP[i] = x THEN CHOOSE i \in 0 .. 254 : EXP[i] = x ELSE 0
  BY Zenon DEF LOG
<1>2. CASE \E i \in 0 .. 254 : EXP[i] = x
  BY <1>1, <1>2, Zenon
<1>3. CASE ~ \E i \in 0 .. 254 : EXP[i] = x
  BY <1>1, <1>3
<1> QED
  BY <1>2, <1>3

LEMMA MulIsByte == ASSUME NEW a \in Byte, NEW b \in Byte PROVE mul(a, b) \in Byte
<1>1. LOG[a] + LOG[b] \in 0 .. 511
  <2>1. LOG[a] \in Exponent /\ LOG[b] \in Exponent
    BY LogIsExponent DEF Exponent
  <2>2. \A i, j \in Exponent : i + j \in Slot
    BY DEF Exponent, Slot
  <2> QED
    BY <2>1, <2>2, Zenon DEF Slot
<1>2. 0 \in Byte
  BY DEF Byte
<1> QED
  BY <1>1, <1>2, PowersAreBytes DEF mul

\* The loop of split: what it has added up, and the power of x it has come to.
AddsUp(acc, secret, coef, x, k) ==
    /\ acc[0] = <<secret, 1>>
    /\ \A d \in 1 .. k :
        acc[d] = <<Xor(acc[d - 1][1], mul(coef[d], mul(acc[d - 1][2], x))), mul(acc[d - 1][2], x)>>
    /\ \A d \in 0 .. k : acc[d] \in Byte \X Byte

LEMMA ShareAddsUp ==
  ASSUME NEW secret \in Byte, NEW k \in Nat, NEW coef \in [1 .. k -> Byte], NEW x \in Byte
  PROVE  \E acc : shareAt(secret, coef, x) = acc[k][1] /\ AddsUp(acc, secret, coef, x, k)
<1> DEFINE S == Byte \X Byte
           e(f, d) == IF d = 0 THEN <<secret, 1>>
                      ELSE LET xp == mul(f[d - 1][2], x)
                           IN  <<Xor(f[d - 1][1], mul(coef[d], xp)), xp>>
           step == [p \in (1 .. k) \X S |->
                       <<Xor(p[2][1], mul(coef[p[1]], mul(p[2][2], x))), mul(p[2][2], x)>>]
           acc == CHOOSE f : f = [d \in 0 .. Len(coef) |-> e(f, d)]
<1>1. Len(coef) = k
  OBVIOUS
<1>2. shareAt(secret, coef, x) = acc[k][1]
  BY <1>1, Zenon DEF shareAt
<1>3. <<secret, 1>> \in S
  <2>1. 1 \in Byte
    BY DEF Byte
  <2> QED
    BY <2>1
<1>4. step \in [(1 .. k) \X S -> S]
  <2>1. ASSUME NEW p \in (1 .. k) \X S
        PROVE  <<Xor(p[2][1], mul(coef[p[1]], mul(p[2][2], x))), mul(p[2][2], x)>> \in S
    <3>1. p[1] \in 1 .. k /\ p[2][1] \in Byte /\ p[2][2] \in Byte
      BY <2>1
    <3>2. mul(p[2][2], x) \in Byte
      BY <3>1, MulIsByte
    <3>3. coef[p[1]] \in Byte
      BY <3>1
    <3>4. Xor(p[2][1], mul(coef[p[1]], mul(p[2][2], x))) \in Byte
      BY <3>1, <3>2, <3>3, MulIsByte, XorIsByte
    <3> QED
      BY <3>2, <3>4
  <2> HIDE DEF S
  <2> QED
    BY <2>1
<1>5. \A d \in 1 .. k, v \in S :
        step[<<d, v>>] = <<Xor(v[1], mul(coef[d], mul(v[2], x))), mul(v[2], x)>>
  OBVIOUS
<1> HIDE DEF step
<1>6. PICK f : Fills(f, <<secret, 1>>, step, k) /\ \A n \in 0 .. k : f[n] \in S
  <2> HIDE DEF S
  <2> QED
    BY <1>3, <1>4, FillingExists
<1>9. \A n \in 0 .. k : (IF n = 0 THEN <<secret, 1>> ELSE step[<<n, f[n - 1]>>]) = e(f, n)
  <2> SUFFICES ASSUME NEW n \in 0 .. k
               PROVE  (IF n = 0 THEN <<secret, 1>> ELSE step[<<n, f[n - 1]>>]) = e(f, n)
    OBVIOUS
  <2>1. CASE n = 0
    BY <2>1, Zenon
  <2>2. CASE n # 0
    <3>1. n \in 1 .. k /\ n - 1 \in 0 .. k
      BY <2>2
    <3>2. step[<<n, f[n - 1]>>]
            = <<Xor(f[n - 1][1], mul(coef[n], mul(f[n - 1][2], x))), mul(f[n - 1][2], x)>>
      <4> HIDE DEF S
      <4> QED
        BY <1>5, <1>6, <3>1
    <3> QED
      BY <2>2, <3>2, Zenon
  <2> QED
    BY <2>1, <2>2
<1>10. f = [n \in 0 .. k |-> e(f, n)]
  <2> HIDE DEF e
  <2> QED
    BY <1>6, <1>9, Zenon DEF Fills
<1>11. acc = [d \in 0 .. k |-> e(acc, d)]
  BY <1>1, <1>10, Zenon
<1> HIDE DEF acc
<1>12. \A d \in 0 .. k : acc[d] = e(acc, d)
  <2> HIDE DEF e
  <2> QED
    BY <1>11
<1>13. acc[0] = <<secret, 1>>
  <2>1. 0 \in 0 .. k
    OBVIOUS
  <2> QED
    BY <1>12, <2>1, Zenon
<1>14. ASSUME NEW d \in 1 .. k
       PROVE  acc[d] = <<Xor(acc[d - 1][1], mul(coef[d], mul(acc[d - 1][2], x))), mul(acc[d - 1][2], x)>>
  <2>1. d \in 0 .. k /\ d # 0
    OBVIOUS
  <2> QED
    BY <1>12, <2>1, Zenon
<1> HIDE DEF S, e
<1>15. \A d \in 1 .. k : acc[d - 1] \in S => acc[d] \in S
  <2> SUFFICES ASSUME NEW d \in 1 .. k, acc[d - 1] \in S PROVE acc[d] \in S
    OBVIOUS
  <2>1. acc[d] = step[<<d, acc[d - 1]>>]
    BY <1>5, <1>14
  <2> QED
    BY <1>4, <2>1
<1>16. \A d \in 0 .. k : acc[d] \in S
  BY <1>3, <1>13, <1>15, FilledFrom, Zenon
<1> QED
  BY <1>2, <1>13, <1>14, <1>16, Zenon DEF S, AddsUp

LEMMA ShareIsByte ==
  ASSUME NEW secret \in Byte, NEW k \in Nat, NEW coef \in [1 .. k -> Byte], NEW x \in Byte
  PROVE  shareAt(secret, coef, x) \in Byte
<1>1. PICK acc : shareAt(secret, coef, x) = acc[k][1] /\ AddsUp(acc, secret, coef, x, k)
  BY ShareAddsUp
<1>2. acc[k] \in Byte \X Byte
  BY <1>1 DEF AddsUp
<1> QED
  BY <1>1, <1>2

--------------------------------------------------------------------------------
(* Bits: a byte is its eight bits, and ^ and doubling act on them.            *)

LEMMA PowersOfTwo ==
  /\ 2^0 = 1 /\ 2^1 = 2 /\ 2^2 = 4 /\ 2^3 = 8
  /\ 2^4 = 16 /\ 2^5 = 32 /\ 2^6 = 64 /\ 2^7 = 128
  OBVIOUS

LEMMA BitsOf ==
  ASSUME NEW a \in Nat
  PROVE  /\ Bit(a, 0) = a % 2 /\ Bit(a, 1) = (a \div 2) % 2
         /\ Bit(a, 2) = (a \div 4) % 2 /\ Bit(a, 3) = (a \div 8) % 2
         /\ Bit(a, 4) = (a \div 16) % 2 /\ Bit(a, 5) = (a \div 32) % 2
         /\ Bit(a, 6) = (a \div 64) % 2 /\ Bit(a, 7) = (a \div 128) % 2
         /\ \A i \in 0 .. 7 : Bit(a, i) \in {0, 1}
<1>1. /\ Bit(a, 0) = a % 2 /\ Bit(a, 1) = (a \div 2) % 2
      /\ Bit(a, 2) = (a \div 4) % 2 /\ Bit(a, 3) = (a \div 8) % 2
      /\ Bit(a, 4) = (a \div 16) % 2 /\ Bit(a, 5) = (a \div 32) % 2
      /\ Bit(a, 6) = (a \div 64) % 2 /\ Bit(a, 7) = (a \div 128) % 2
  BY PowersOfTwo DEF Bit
<1>2. /\ a % 2 \in {0, 1} /\ (a \div 2) % 2 \in {0, 1} /\ (a \div 4) % 2 \in {0, 1}
      /\ (a \div 8) % 2 \in {0, 1} /\ (a \div 16) % 2 \in {0, 1} /\ (a \div 32) % 2 \in {0, 1}
      /\ (a \div 64) % 2 \in {0, 1} /\ (a \div 128) % 2 \in {0, 1}
  OBVIOUS
<1>3. \A i \in 0 .. 7 : i = 0 \/ i = 1 \/ i = 2 \/ i = 3 \/ i = 4 \/ i = 5 \/ i = 6 \/ i = 7
  OBVIOUS
<1>4. /\ Bit(a, 0) \in {0, 1} /\ Bit(a, 1) \in {0, 1} /\ Bit(a, 2) \in {0, 1}
      /\ Bit(a, 3) \in {0, 1} /\ Bit(a, 4) \in {0, 1} /\ Bit(a, 5) \in {0, 1}
      /\ Bit(a, 6) \in {0, 1} /\ Bit(a, 7) \in {0, 1}
  BY <1>1, <1>2
<1>5. \A i \in 0 .. 7 : Bit(a, i) \in {0, 1}
  BY <1>3, <1>4
<1> QED
  BY <1>1, <1>5

LEMMA BitsSum ==
  ASSUME NEW a \in Byte
  PROVE  a = Bit(a, 0) + 2 * Bit(a, 1) + 4 * Bit(a, 2) + 8 * Bit(a, 3)
             + 16 * Bit(a, 4) + 32 * Bit(a, 5) + 64 * Bit(a, 6) + 128 * Bit(a, 7)
<1>1. a \in Nat /\ a < 256
  BY DEF Byte
<1>2. /\ a = 2 * (a \div 2) + (a % 2)
      /\ a \div 2 = 2 * (a \div 4) + ((a \div 2) % 2)
      /\ a \div 4 = 2 * (a \div 8) + ((a \div 4) % 2)
      /\ a \div 8 = 2 * (a \div 16) + ((a \div 8) % 2)
  BY <1>1
<1>3. /\ a \div 16 = 2 * (a \div 32) + ((a \div 16) % 2)
      /\ a \div 32 = 2 * (a \div 64) + ((a \div 32) % 2)
      /\ a \div 64 = 2 * (a \div 128) + ((a \div 64) % 2)
      /\ a \div 128 = (a \div 128) % 2
  BY <1>1
<1>4. /\ a \div 2 \in Nat /\ a \div 4 \in Nat /\ a \div 8 \in Nat /\ a \div 16 \in Nat
      /\ a \div 32 \in Nat /\ a \div 64 \in Nat /\ a \div 128 \in Nat
  BY <1>1
<1> DEFINE b(i) == Bit(a, i)
<1>5. /\ b(0) = a % 2 /\ b(1) = (a \div 2) % 2 /\ b(2) = (a \div 4) % 2 /\ b(3) = (a \div 8) % 2
      /\ b(4) = (a \div 16) % 2 /\ b(5) = (a \div 32) % 2
      /\ b(6) = (a \div 64) % 2 /\ b(7) = (a \div 128) % 2
  BY <1>1, BitsOf
<1>6. /\ b(0) \in Nat /\ b(1) \in Nat /\ b(2) \in Nat /\ b(3) \in Nat
      /\ b(4) \in Nat /\ b(5) \in Nat /\ b(6) \in Nat /\ b(7) \in Nat
  BY <1>1, <1>5
<1> HIDE DEF b
<1>7. a = b(0) + 2 * b(1) + 4 * b(2) + 8 * b(3)
          + 16 * b(4) + 32 * b(5) + 64 * b(6) + 128 * b(7)
  BY <1>1, <1>2, <1>3, <1>4, <1>5, <1>6
<1> QED
  BY <1>7 DEF b

LEMMA BitsMake ==
  ASSUME NEW p \in {0, 1}, NEW q \in {0, 1}, NEW r \in {0, 1}, NEW s \in {0, 1},
         NEW t \in {0, 1}, NEW u \in {0, 1}, NEW v \in {0, 1}, NEW w \in {0, 1},
         NEW n, n = p + 2 * q + 4 * r + 8 * s + 16 * t + 32 * u + 64 * v + 128 * w
  PROVE  /\ n \in Byte
         /\ Bit(n, 0) = p /\ Bit(n, 1) = q /\ Bit(n, 2) = r /\ Bit(n, 3) = s
         /\ Bit(n, 4) = t /\ Bit(n, 5) = u /\ Bit(n, 6) = v /\ Bit(n, 7) = w
<1>1. n \in Byte /\ n \in Nat
  BY DEF Byte
<1>2. n \div 2 = q + 2 * r + 4 * s + 8 * t + 16 * u + 32 * v + 64 * w /\ n % 2 = p
  OBVIOUS
<1>3. n \div 4 = r + 2 * s + 4 * t + 8 * u + 16 * v + 32 * w /\ (n \div 2) % 2 = q
  BY <1>2
<1>4. n \div 8 = s + 2 * t + 4 * u + 8 * v + 16 * w /\ (n \div 4) % 2 = r
  BY <1>3
<1>5. n \div 16 = t + 2 * u + 4 * v + 8 * w /\ (n \div 8) % 2 = s
  BY <1>4
<1>6. n \div 32 = u + 2 * v + 4 * w /\ (n \div 16) % 2 = t
  BY <1>5
<1>7. n \div 64 = v + 2 * w /\ (n \div 32) % 2 = u
  BY <1>6
<1>8. n \div 128 = w /\ (n \div 64) % 2 = v /\ (n \div 128) % 2 = w
  BY <1>7
<1>9. /\ Bit(n, 0) = n % 2 /\ Bit(n, 1) = (n \div 2) % 2
      /\ Bit(n, 2) = (n \div 4) % 2 /\ Bit(n, 3) = (n \div 8) % 2
      /\ Bit(n, 4) = (n \div 16) % 2 /\ Bit(n, 5) = (n \div 32) % 2
      /\ Bit(n, 6) = (n \div 64) % 2 /\ Bit(n, 7) = (n \div 128) % 2
  BY <1>1, BitsOf
<1>10. /\ n % 2 = p /\ (n \div 2) % 2 = q /\ (n \div 4) % 2 = r /\ (n \div 8) % 2 = s
       /\ (n \div 16) % 2 = t /\ (n \div 32) % 2 = u
       /\ (n \div 64) % 2 = v /\ (n \div 128) % 2 = w
  BY <1>2, <1>3, <1>4, <1>5, <1>6, <1>7, <1>8
<1> QED
  BY <1>1, <1>9, <1>10

\* A byte is known by its bits.
LEMMA SameBits ==
  ASSUME NEW a \in Byte, NEW b \in Byte, \A i \in 0 .. 7 : Bit(a, i) = Bit(b, i)
  PROVE  a = b
<1>1. /\ 0 \in 0 .. 7 /\ 1 \in 0 .. 7 /\ 2 \in 0 .. 7 /\ 3 \in 0 .. 7
      /\ 4 \in 0 .. 7 /\ 5 \in 0 .. 7 /\ 6 \in 0 .. 7 /\ 7 \in 0 .. 7
  OBVIOUS
<1>2. /\ Bit(a, 0) = Bit(b, 0) /\ Bit(a, 1) = Bit(b, 1) /\ Bit(a, 2) = Bit(b, 2)
      /\ Bit(a, 3) = Bit(b, 3) /\ Bit(a, 4) = Bit(b, 4) /\ Bit(a, 5) = Bit(b, 5)
      /\ Bit(a, 6) = Bit(b, 6) /\ Bit(a, 7) = Bit(b, 7)
  BY <1>1, Zenon
<1> QED
  BY <1>2, BitsSum, Zenon

LEMMA XorBits ==
  ASSUME NEW a \in Byte, NEW b \in Byte
  PROVE  \A i \in 0 .. 7 : Bit(Xor(a, b), i) = (Bit(a, i) + Bit(b, i)) % 2
<1> DEFINE m(i) == (Bit(a, i) + Bit(b, i)) % 2
           h(x) == x \div 16
           l(x) == x % 16
<1>1. \A x \in Byte :
         /\ Bit(h(x), 0) = Bit(x, 4) /\ Bit(h(x), 1) = Bit(x, 5) /\ Bit(h(x), 2) = Bit(x, 6)
         /\ Bit(h(x), 3) = Bit(x, 7)
         /\ Bit(l(x), 0) = Bit(x, 0) /\ Bit(l(x), 1) = Bit(x, 1) /\ Bit(l(x), 2) = Bit(x, 2)
         /\ Bit(l(x), 3) = Bit(x, 3)
  <2> SUFFICES ASSUME NEW x \in Byte
               PROVE  /\ Bit(h(x), 0) = Bit(x, 4) /\ Bit(h(x), 1) = Bit(x, 5)
                      /\ Bit(h(x), 2) = Bit(x, 6) /\ Bit(h(x), 3) = Bit(x, 7)
                      /\ Bit(l(x), 0) = Bit(x, 0) /\ Bit(l(x), 1) = Bit(x, 1)
                      /\ Bit(l(x), 2) = Bit(x, 2) /\ Bit(l(x), 3) = Bit(x, 3)
    OBVIOUS
  <2>1. h(x) \in Nat /\ l(x) \in Nat /\ x \in Nat
    BY DEF Byte
  <2>2. h(x) \div 2 = x \div 32 /\ h(x) \div 4 = x \div 64 /\ h(x) \div 8 = x \div 128
    BY <2>1
  <2>3. /\ l(x) % 2 = x % 2 /\ (l(x) \div 2) % 2 = (x \div 2) % 2
        /\ (l(x) \div 4) % 2 = (x \div 4) % 2 /\ (l(x) \div 8) % 2 = (x \div 8) % 2
    BY <2>1
  <2>4. /\ Bit(h(x), 0) = h(x) % 2 /\ Bit(h(x), 1) = (h(x) \div 2) % 2
        /\ Bit(h(x), 2) = (h(x) \div 4) % 2 /\ Bit(h(x), 3) = (h(x) \div 8) % 2
    BY <2>1, BitsOf
  <2>5. /\ Bit(l(x), 0) = l(x) % 2 /\ Bit(l(x), 1) = (l(x) \div 2) % 2
        /\ Bit(l(x), 2) = (l(x) \div 4) % 2 /\ Bit(l(x), 3) = (l(x) \div 8) % 2
    BY <2>1, BitsOf
  <2>6. /\ Bit(x, 0) = x % 2 /\ Bit(x, 1) = (x \div 2) % 2
        /\ Bit(x, 2) = (x \div 4) % 2 /\ Bit(x, 3) = (x \div 8) % 2
        /\ Bit(x, 4) = (x \div 16) % 2 /\ Bit(x, 5) = (x \div 32) % 2
        /\ Bit(x, 6) = (x \div 64) % 2 /\ Bit(x, 7) = (x \div 128) % 2
    <3>1. x \in Nat
      BY <2>1
    <3> QED
      BY <3>1, BitsOf
  <2> QED
    BY <2>2, <2>3, <2>4, <2>5, <2>6
<1>2. ASSUME NEW x \in 0 .. 15, NEW y \in 0 .. 15
      PROVE  Nibbles[<<x, y>>] = ((Bit(x, 0) + Bit(y, 0)) % 2) + 2 * ((Bit(x, 1) + Bit(y, 1)) % 2)
                                 + 4 * ((Bit(x, 2) + Bit(y, 2)) % 2) + 8 * ((Bit(x, 3) + Bit(y, 3)) % 2)
  <2> DEFINE k(i) == (Bit(x, i) + Bit(y, i)) % 2
  <2>1. Nibbles[<<x, y>>] = k(0) * 2^0 + k(1) * 2^1 + k(2) * 2^2 + k(3) * 2^3
    BY DEF Nibbles
  <2>2. \A i \in 0 .. 3 : k(i) \in Nat
    <3>1. x \in Nat /\ y \in Nat
      OBVIOUS
    <3>2. \A i \in 0 .. 7 : Bit(x, i) \in {0, 1} /\ Bit(y, i) \in {0, 1}
      BY <3>1, BitsOf
    <3> QED
      BY <3>2
  <2> HIDE DEF k
  <2>3. Nibbles[<<x, y>>] = k(0) + 2 * k(1) + 4 * k(2) + 8 * k(3)
    BY <2>1, <2>2, PowersOfTwo
  <2> QED
    BY <2>3 DEF k
<1>3. h(a) \in 0 .. 15 /\ l(a) \in 0 .. 15 /\ h(b) \in 0 .. 15 /\ l(b) \in 0 .. 15
  BY DEF Byte
<1>4. Xor(a, b) = 16 * Nibbles[<<h(a), h(b)>>] + Nibbles[<<l(a), l(b)>>]
  BY DEF Xor
<1> HIDE DEF h, l
<1>5. Nibbles[<<h(a), h(b)>>] = m(4) + 2 * m(5) + 4 * m(6) + 8 * m(7)
  BY <1>1, <1>2, <1>3
<1>6. Nibbles[<<l(a), l(b)>>] = m(0) + 2 * m(1) + 4 * m(2) + 8 * m(3)
  BY <1>1, <1>2, <1>3
<1>7. \A i \in 0 .. 7 : m(i) \in {0, 1}
  <2>1. a \in Nat /\ b \in Nat
    BY DEF Byte
  <2>2. \A i \in 0 .. 7 : Bit(a, i) \in {0, 1} /\ Bit(b, i) \in {0, 1}
    BY <2>1, BitsOf
  <2> QED
    BY <2>2
<1> HIDE DEF m
<1>8. /\ m(0) \in {0, 1} /\ m(1) \in {0, 1} /\ m(2) \in {0, 1} /\ m(3) \in {0, 1}
      /\ m(4) \in {0, 1} /\ m(5) \in {0, 1} /\ m(6) \in {0, 1} /\ m(7) \in {0, 1}
  BY <1>7
<1>9. Xor(a, b) = m(0) + 2 * m(1) + 4 * m(2) + 8 * m(3) + 16 * m(4) + 32 * m(5) + 64 * m(6) + 128 * m(7)
  BY <1>4, <1>5, <1>6, <1>8
<1>10. /\ Bit(Xor(a, b), 0) = m(0) /\ Bit(Xor(a, b), 1) = m(1) /\ Bit(Xor(a, b), 2) = m(2)
       /\ Bit(Xor(a, b), 3) = m(3) /\ Bit(Xor(a, b), 4) = m(4) /\ Bit(Xor(a, b), 5) = m(5)
       /\ Bit(Xor(a, b), 6) = m(6) /\ Bit(Xor(a, b), 7) = m(7)
  BY <1>8, <1>9, BitsMake
<1>11. \A i \in 0 .. 7 : i = 0 \/ i = 1 \/ i = 2 \/ i = 3 \/ i = 4 \/ i = 5 \/ i = 6 \/ i = 7
  OBVIOUS
<1>12. \A i \in 0 .. 7 : Bit(Xor(a, b), i) = m(i)
  BY <1>10, <1>11, Zenon
<1> QED
  BY <1>12 DEF m

\* The bytes are a group under ^, in which each is its own inverse.
LEMMA XorLaws ==
  ASSUME NEW a \in Byte, NEW b \in Byte, NEW c \in Byte
  PROVE  /\ Xor(a, b) = Xor(b, a) /\ Xor(Xor(a, b), c) = Xor(a, Xor(b, c))
         /\ Xor(a, 0) = a /\ Xor(0, a) = a /\ Xor(a, a) = 0
<1>1. 0 \in Byte /\ \A i \in 0 .. 7 : Bit(0, i) = 0
  <2>1. /\ 0 % 2 = 0 /\ (0 \div 2) % 2 = 0 /\ (0 \div 4) % 2 = 0 /\ (0 \div 8) % 2 = 0
        /\ (0 \div 16) % 2 = 0 /\ (0 \div 32) % 2 = 0 /\ (0 \div 64) % 2 = 0 /\ (0 \div 128) % 2 = 0
    OBVIOUS
  <2>2. 0 \in Nat /\ \A i \in 0 .. 7 : i = 0 \/ i = 1 \/ i = 2 \/ i = 3 \/ i = 4 \/ i = 5 \/ i = 6 \/ i = 7
    OBVIOUS
  <2> QED
    BY <2>1, <2>2, BitsOf DEF Byte
<1>2. \A x \in Byte : \A i \in 0 .. 7 : Bit(x, i) \in {0, 1}
  <2>1. \A x \in Byte : x \in Nat
    BY DEF Byte
  <2> QED
    BY <2>1, BitsOf
<1>3. \A x, y \in Byte : Xor(x, y) \in Byte
  BY XorIsByte
<1>4. \A x, y \in Byte : \A i \in 0 .. 7 : Bit(Xor(x, y), i) = (Bit(x, i) + Bit(y, i)) % 2
  BY XorBits
<1>5. \A p, q, r \in {0, 1} : /\ (p + q) % 2 = (q + p) % 2
                             /\ (((p + q) % 2) + r) % 2 = (p + ((q + r) % 2)) % 2
                             /\ (p + 0) % 2 = p /\ (0 + p) % 2 = p /\ (p + p) % 2 = 0
  OBVIOUS
<1>6. \A i \in 0 .. 7 : Bit(Xor(a, b), i) = Bit(Xor(b, a), i)
  BY <1>2, <1>4, <1>5
<1>7. ASSUME NEW i \in 0 .. 7 PROVE Bit(Xor(Xor(a, b), c), i) = Bit(Xor(a, Xor(b, c)), i)
  <2>1. Xor(a, b) \in Byte /\ Xor(b, c) \in Byte
    BY <1>3
  <2>2. Bit(Xor(Xor(a, b), c), i) = (((Bit(a, i) + Bit(b, i)) % 2) + Bit(c, i)) % 2
    <3>1. Bit(Xor(Xor(a, b), c), i) = (Bit(Xor(a, b), i) + Bit(c, i)) % 2
      BY <1>4, <2>1
    <3> QED
      BY <1>4, <3>1
  <2>3. Bit(Xor(a, Xor(b, c)), i) = (Bit(a, i) + ((Bit(b, i) + Bit(c, i)) % 2)) % 2
    <3>1. Bit(Xor(a, Xor(b, c)), i) = (Bit(a, i) + Bit(Xor(b, c), i)) % 2
      BY <1>4, <2>1
    <3> QED
      BY <1>4, <3>1
  <2> DEFINE p == Bit(a, i)
             q == Bit(b, i)
             r == Bit(c, i)
  <2>4. p \in {0, 1} /\ q \in {0, 1} /\ r \in {0, 1}
    BY <1>2
  <2> HIDE DEF p, q, r
  <2>5. (((p + q) % 2) + r) % 2 = (p + ((q + r) % 2)) % 2
    BY <1>5, <2>4
  <2> QED
    BY <2>2, <2>3, <2>5, Zenon DEF p, q, r
<1>8. \A i \in 0 .. 7 : /\ Bit(Xor(a, 0), i) = Bit(a, i) /\ Bit(Xor(0, a), i) = Bit(a, i)
                        /\ Bit(Xor(a, a), i) = Bit(0, i)
  BY <1>1, <1>2, <1>4, <1>5
<1> QED
  BY <1>1, <1>3, <1>6, <1>7, <1>8, SameBits

\* a ^ (a ^ b) is b.
LEMMA XorUndone == ASSUME NEW a \in Byte, NEW b \in Byte PROVE Xor(a, Xor(a, b)) = b
<1>1. Xor(Xor(a, a), b) = Xor(a, Xor(a, b))
  BY XorLaws
<1>2. Xor(a, a) = 0 /\ Xor(0, b) = b
  BY XorLaws
<1> QED
  BY <1>1, <1>2

LEMMA XorSwap ==
  ASSUME NEW a \in Byte, NEW b \in Byte, NEW c \in Byte, NEW d \in Byte
  PROVE  Xor(Xor(a, b), Xor(c, d)) = Xor(Xor(a, c), Xor(b, d))
<1>1. Xor(c, d) \in Byte /\ Xor(b, d) \in Byte
  BY XorIsByte
<1>2. Xor(Xor(a, b), Xor(c, d)) = Xor(a, Xor(b, Xor(c, d)))
  BY <1>1, XorLaws
<1>3. Xor(Xor(a, c), Xor(b, d)) = Xor(a, Xor(c, Xor(b, d)))
  BY <1>1, XorLaws
<1>4. Xor(b, Xor(c, d)) = Xor(Xor(b, c), d) /\ Xor(c, Xor(b, d)) = Xor(Xor(c, b), d)
  BY XorLaws
<1>5. Xor(b, c) = Xor(c, b)
  BY XorLaws
<1> QED
  BY <1>2, <1>3, <1>4, <1>5, Zenon

LEMMA TwiceBits ==
  ASSUME NEW a \in Byte
  PROVE  /\ Bit(Twice(a), 0) = Bit(a, 7) /\ Bit(Twice(a), 1) = (Bit(a, 0) + Bit(a, 7)) % 2
         /\ Bit(Twice(a), 2) = Bit(a, 1) /\ Bit(Twice(a), 3) = (Bit(a, 2) + Bit(a, 7)) % 2
         /\ Bit(Twice(a), 4) = (Bit(a, 3) + Bit(a, 7)) % 2 /\ Bit(Twice(a), 5) = Bit(a, 4)
         /\ Bit(Twice(a), 6) = Bit(a, 5) /\ Bit(Twice(a), 7) = Bit(a, 6)
<1>0. a \in Nat /\ a < 256
  BY DEF Byte
<1>1. PICK p \in {0, 1}, q \in {0, 1}, r \in {0, 1}, s \in {0, 1},
           t \in {0, 1}, u \in {0, 1}, v \in {0, 1}, w \in {0, 1} :
        /\ Bit(a, 0) = p /\ Bit(a, 1) = q /\ Bit(a, 2) = r /\ Bit(a, 3) = s
        /\ Bit(a, 4) = t /\ Bit(a, 5) = u /\ Bit(a, 6) = v /\ Bit(a, 7) = w
  <2>1. /\ Bit(a, 0) \in {0, 1} /\ Bit(a, 1) \in {0, 1} /\ Bit(a, 2) \in {0, 1}
        /\ Bit(a, 3) \in {0, 1} /\ Bit(a, 4) \in {0, 1} /\ Bit(a, 5) \in {0, 1}
        /\ Bit(a, 6) \in {0, 1} /\ Bit(a, 7) \in {0, 1}
    BY <1>0, BitsOf
  <2> QED
    BY <2>1
<1>2. a = p + 2 * q + 4 * r + 8 * s + 16 * t + 32 * u + 64 * v + 128 * w
  BY <1>1, BitsSum
<1> DEFINE n == 2 * p + 4 * q + 8 * r + 16 * s + 32 * t + 64 * u + 128 * v
<1>3. /\ n \in Byte /\ Bit(n, 0) = 0 /\ Bit(n, 1) = p /\ Bit(n, 2) = q /\ Bit(n, 3) = r
      /\ Bit(n, 4) = s /\ Bit(n, 5) = t /\ Bit(n, 6) = u /\ Bit(n, 7) = v
  <2>1. n = 0 + 2 * p + 4 * q + 8 * r + 16 * s + 32 * t + 64 * u + 128 * v /\ 0 \in {0, 1}
    OBVIOUS
  <2> HIDE DEF n
  <2> QED
    BY <2>1, BitsMake
<1>4. CASE w = 1
  <2>1. a >= 128 /\ (2 * a) % 256 = n
    BY <1>2, <1>4
  <2>2. /\ 27 \in Byte /\ Bit(27, 0) = 1 /\ Bit(27, 1) = 1 /\ Bit(27, 2) = 0 /\ Bit(27, 3) = 1
        /\ Bit(27, 4) = 1 /\ Bit(27, 5) = 0 /\ Bit(27, 6) = 0 /\ Bit(27, 7) = 0
    <3>1. 27 = 1 + 2 * 1 + 4 * 0 + 8 * 1 + 16 * 1 + 32 * 0 + 64 * 0 + 128 * 0
      OBVIOUS
    <3>2. 0 \in {0, 1} /\ 1 \in {0, 1}
      OBVIOUS
    <3> QED
      BY <3>1, <3>2, BitsMake
  <2> HIDE DEF n
  <2>3. Twice(a) = Xor(n, 27)
    BY <2>1 DEF Twice
  <2>4. \A i \in 0 .. 7 : Bit(Twice(a), i) = (Bit(n, i) + Bit(27, i)) % 2
    BY <1>3, <2>2, <2>3, XorBits
  <2>5. /\ Bit(Twice(a), 0) = (0 + 1) % 2 /\ Bit(Twice(a), 1) = (p + 1) % 2
        /\ Bit(Twice(a), 2) = (q + 0) % 2 /\ Bit(Twice(a), 3) = (r + 1) % 2
        /\ Bit(Twice(a), 4) = (s + 1) % 2 /\ Bit(Twice(a), 5) = (t + 0) % 2
        /\ Bit(Twice(a), 6) = (u + 0) % 2 /\ Bit(Twice(a), 7) = (v + 0) % 2
    BY <1>3, <2>2, <2>4
  <2>6. \A x \in {0, 1} : (x + 0) % 2 = x
    OBVIOUS
  <2>7. (0 + 1) % 2 = 1
    OBVIOUS
  <2> QED
    BY <1>1, <1>4, <2>5, <2>6, <2>7
<1>5. CASE w = 0
  <2>1. ~ a >= 128 /\ 2 * a = n
    BY <1>2, <1>5
  <2> HIDE DEF n
  <2>2. Twice(a) = n
    BY <2>1 DEF Twice
  <2>3. \A x \in {0, 1} : (x + 0) % 2 = x
    OBVIOUS
  <2> QED
    BY <1>1, <1>3, <1>5, <2>2, <2>3
<1> QED
  BY <1>4, <1>5

\* The generator times x.
Triple(x) == Xor(Twice(x), x)

LEMMA TripleIsByte == ASSUME NEW x \in Byte PROVE Triple(x) \in Byte
  BY TwiceIsByte, XorIsByte DEF Triple

LEMMA TwiceAdds ==
  ASSUME NEW a \in Byte, NEW b \in Byte
  PROVE  Twice(Xor(a, b)) = Xor(Twice(a), Twice(b))
<1> DEFINE c == Xor(a, b)
<1>1. c \in Byte /\ Twice(a) \in Byte /\ Twice(b) \in Byte
  BY XorIsByte, TwiceIsByte
<1>2. Twice(c) \in Byte /\ Xor(Twice(a), Twice(b)) \in Byte
  BY <1>1, XorIsByte, TwiceIsByte
<1>3. \A i \in 0 .. 7 : /\ Bit(c, i) = (Bit(a, i) + Bit(b, i)) % 2
                        /\ Bit(a, i) \in {0, 1} /\ Bit(b, i) \in {0, 1}
  <2>1. a \in Nat /\ b \in Nat
    BY DEF Byte
  <2>2. \A i \in 0 .. 7 : Bit(a, i) \in {0, 1} /\ Bit(b, i) \in {0, 1}
    BY <2>1, BitsOf
  <2>3. \A i \in 0 .. 7 : Bit(c, i) = (Bit(a, i) + Bit(b, i)) % 2
    BY XorBits
  <2> QED
    BY <2>2, <2>3, Zenon
<1> HIDE DEF c
<1>4. \A i \in 0 .. 7 : Bit(Xor(Twice(a), Twice(b)), i) = (Bit(Twice(a), i) + Bit(Twice(b), i)) % 2
  BY <1>1, XorBits
<1>5. /\ Bit(c, 0) = (Bit(a, 0) + Bit(b, 0)) % 2 /\ Bit(c, 1) = (Bit(a, 1) + Bit(b, 1)) % 2
      /\ Bit(c, 2) = (Bit(a, 2) + Bit(b, 2)) % 2 /\ Bit(c, 3) = (Bit(a, 3) + Bit(b, 3)) % 2
      /\ Bit(c, 4) = (Bit(a, 4) + Bit(b, 4)) % 2 /\ Bit(c, 5) = (Bit(a, 5) + Bit(b, 5)) % 2
      /\ Bit(c, 6) = (Bit(a, 6) + Bit(b, 6)) % 2 /\ Bit(c, 7) = (Bit(a, 7) + Bit(b, 7)) % 2
  BY <1>3
<1>6. /\ Bit(a, 0) \in {0, 1} /\ Bit(b, 0) \in {0, 1} /\ Bit(a, 2) \in {0, 1} /\ Bit(b, 2) \in {0, 1}
      /\ Bit(a, 3) \in {0, 1} /\ Bit(b, 3) \in {0, 1} /\ Bit(a, 7) \in {0, 1} /\ Bit(b, 7) \in {0, 1}
  BY <1>3
<1>7. \A p, q, r, s \in {0, 1} :
        (((p + q) % 2) + ((r + s) % 2)) % 2 = (((p + r) % 2) + ((q + s) % 2)) % 2
  OBVIOUS
<1> DEFINE e(i) == Bit(Xor(Twice(a), Twice(b)), i)
<1>8. Bit(Twice(c), 0) = e(0) /\ Bit(Twice(c), 2) = e(2) /\ Bit(Twice(c), 5) = e(5)
      /\ Bit(Twice(c), 6) = e(6) /\ Bit(Twice(c), 7) = e(7)
  BY <1>1, <1>4, <1>5, TwiceBits
<1>9. ASSUME NEW i \in 0 .. 7, NEW j \in 0 .. 7, Bit(a, j) \in {0, 1}, Bit(b, j) \in {0, 1},
             \A x \in Byte : Bit(Twice(x), i) = (Bit(x, j) + Bit(x, 7)) % 2
      PROVE  Bit(Twice(c), i) = e(i)
  <2>1. Bit(Twice(c), i) = (((Bit(a, j) + Bit(b, j)) % 2) + ((Bit(a, 7) + Bit(b, 7)) % 2)) % 2
    BY <1>1, <1>3, <1>5, <1>9
  <2>2. e(i) = (((Bit(a, j) + Bit(a, 7)) % 2) + ((Bit(b, j) + Bit(b, 7)) % 2)) % 2
    BY <1>4, <1>9
  <2> QED
    BY <1>6, <1>7, <1>9, <2>1, <2>2
<1>10. \A x \in Byte : /\ Bit(Twice(x), 1) = (Bit(x, 0) + Bit(x, 7)) % 2
                       /\ Bit(Twice(x), 3) = (Bit(x, 2) + Bit(x, 7)) % 2
                       /\ Bit(Twice(x), 4) = (Bit(x, 3) + Bit(x, 7)) % 2
  BY TwiceBits
<1>11. Bit(Twice(c), 1) = e(1) /\ Bit(Twice(c), 3) = e(3) /\ Bit(Twice(c), 4) = e(4)
  BY <1>6, <1>9, <1>10
<1>12. \A i \in 0 .. 7 : i = 0 \/ i = 1 \/ i = 2 \/ i = 3 \/ i = 4 \/ i = 5 \/ i = 6 \/ i = 7
  OBVIOUS
<1> HIDE DEF e
<1>13. \A i \in 0 .. 7 : Bit(Twice(c), i) = e(i)
  BY <1>8, <1>11, <1>12, Zenon
<1>14. Twice(c) = Xor(Twice(a), Twice(b))
  BY <1>2, <1>13, SameBits DEF e
<1> QED
  BY <1>14 DEF c

LEMMA TripleAdds ==
  ASSUME NEW a \in Byte, NEW b \in Byte
  PROVE  Triple(Xor(a, b)) = Xor(Triple(a), Triple(b))
<1>1. Twice(a) \in Byte /\ Twice(b) \in Byte
  BY TwiceIsByte
<1> QED
  BY <1>1, TwiceAdds, XorSwap DEF Triple

LEMMA MulOne == ASSUME NEW x \in Byte \ {0} PROVE mul(1, x) = x
<1>1. EXP[LOG[x]] = x
  BY GeneratorAssumption
<1>2. LOG[1] = 0
  <2>1. EXP[0] = 1
    BY PowersAreBytes
  <2>2. LOG[EXP[0]] = 0
    BY GeneratorAssumption
  <2> QED
    BY <2>1, <2>2
<1>3. LOG[x] \in 0 .. 254
  BY LogIsExponent
<1>4. 0 + LOG[x] = LOG[x]
  BY <1>3
<1> QED
  BY <1>1, <1>2, <1>4 DEF mul

\* The powers come again after 255 of them.
Agree(n, m) == n = m \/ n = m + 255 \/ m = n + 255

LEMMA PowersRecur ==
  ASSUME NEW n \in Slot, NEW m \in Slot, Agree(n, m)
  PROVE  EXP[n] = EXP[m]
<1>1. n % 255 = m % 255
  BY DEF Slot, Agree
<1>2. EXP[n] = Power[n % 255]
  BY DEF EXP, Slot
<1>3. EXP[m] = Power[m % 255]
  BY DEF EXP, Slot
<1> QED
  BY <1>1, <1>2, <1>3

LEMMA PowersReduce ==
  ASSUME NEW n \in Sum2
  PROVE  \E m \in Exponent : EXP[n] = EXP[m] /\ Agree(n, m)
<1>1. CASE n < 255
  BY <1>1 DEF Sum2, Exponent, Agree
<1>2. CASE n >= 255
  <2> DEFINE m == n - 255
  <2>1. m \in Exponent /\ m \in Slot /\ n \in Slot /\ Agree(n, m)
    BY <1>2 DEF Sum2, Exponent, Slot, Agree
  <2> HIDE DEF m
  <2>2. EXP[n] = EXP[m]
    BY <2>1, PowersRecur
  <2> QED
    BY <2>1, <2>2
<1> QED
  BY <1>1, <1>2 DEF Sum2

LEMMA DivUndone == ASSUME NEW x \in Byte \ {0}, NEW z \in Byte PROVE mul(div(z, x), x) = z
<1>1. CASE z = 0
  BY <1>1 DEF mul, div
<1>2. CASE z # 0
  <2>1. PICK p \in 0 .. 254, q \in 0 .. 254 : LOG[z] = p /\ LOG[x] = q
    BY LogIsExponent
  <2>2. EXP[p] = z
    BY <1>2, <2>1, GeneratorAssumption
  <2> DEFINE i == p + 255 - q
  <2>3. i \in Sum2
    BY <2>1 DEF Sum2
  <2> HIDE DEF i
  <2>4. PICK j \in Exponent : EXP[i] = EXP[j] /\ Agree(i, j)
    BY <2>3, PowersReduce
  <2> DEFINE e == j + q
  <2>5. e \in Slot /\ p \in Slot /\ Agree(e, p)
    BY <2>1, <2>4 DEF i, Slot, Exponent, Agree
  <2> HIDE DEF e
  <2>6. EXP[e] = EXP[p]
    BY <2>5, PowersRecur
  <2>7. div(z, x) = EXP[j]
    BY <1>2, <2>1, <2>4 DEF div, i
  <2>8. EXP[j] # 0 /\ LOG[EXP[j]] = j
    BY <2>4, GeneratorAssumption DEF Exponent
  <2>9. mul(EXP[j], x) = EXP[e]
    BY <2>1, <2>8 DEF mul, e
  <2> QED
    BY <2>2, <2>6, <2>7, <2>9
<1> QED
  BY <1>1, <1>2

LEMMA DivIsByte == ASSUME NEW x \in Byte \ {0}, NEW z \in Byte PROVE div(z, x) \in Byte
<1>1. LOG[x] \in Exponent /\ LOG[z] \in Exponent
  BY LogIsExponent DEF Exponent
<1>2. \A p, q \in Exponent : p + 255 - q \in Slot
  BY DEF Exponent, Slot
<1>3. LOG[z] + 255 - LOG[x] \in Slot
  BY <1>1, <1>2
<1> QED
  BY <1>3, PowersAreBytes DEF div, Slot

LEMMA TripleRaises == \A n \in Sum2 : Triple(EXP[n]) = EXP[n + 1]
<1> SUFFICES ASSUME NEW n \in Sum2 PROVE Triple(EXP[n]) = EXP[n + 1]
  OBVIOUS
<1> DEFINE m == n % 255
<1>1. m \in 0 .. 254 /\ n \in 0 .. 511 /\ n + 1 \in 0 .. 511
  BY DEF Sum2
<1>2. EXP[n] = Power[m] /\ EXP[n + 1] = Power[(n + 1) % 255]
  BY <1>1 DEF EXP
<1>3. CASE m < 254
  <2>1. (n + 1) % 255 = m + 1 /\ m + 1 \in 1 .. 254 /\ (m + 1) - 1 = m
    <3>1. n = m \/ n = m + 255
      BY DEF Sum2
    <3>2. n \in 0 .. 509
      BY DEF Sum2
    <3> QED
      BY <1>1, <1>3, <3>1, <3>2
  <2> HIDE DEF m
  <2>2. Power[m + 1] = Xor(Twice(Power[m]), Power[m])
    BY <2>1, PowersTriple
  <2> QED
    BY <1>2, <2>1, <2>2 DEF Triple
<1>4. CASE m = 254
  <2>1. (n + 1) % 255 = 0 /\ 254 % 255 = 254 /\ 254 \in 0 .. 511
    BY <1>4 DEF Sum2
  <2>2. EXP[254] = Power[254]
    BY <2>1 DEF EXP
  <2>3. Triple(EXP[254]) = 1
    BY GeneratorAssumption DEF Triple
  <2>4. Power[0] = 1
    BY PowersTriple
  <2> HIDE DEF m
  <2> QED
    BY <1>2, <1>4, <2>1, <2>2, <2>3, <2>4
<1> QED
  BY <1>1, <1>3, <1>4

LEMMA PowerOf ==
  ASSUME NEW a \in Byte \ {0}
  PROVE  \E i \in Exponent : a = EXP[i] /\ LOG[a] = i
<1>1. LOG[a] \in 0 .. 254 /\ EXP[LOG[a]] = a
  BY LogIsExponent, GeneratorAssumption
<1> QED
  BY <1>1 DEF Exponent

\* Exponents add up.
LEMMA PowersMultiply ==
  ASSUME NEW i \in Exponent, NEW j \in Exponent
  PROVE  mul(EXP[i], EXP[j]) = EXP[i + j] /\ EXP[i] # 0
<1>1. EXP[i] # 0 /\ LOG[EXP[i]] = i /\ EXP[j] # 0 /\ LOG[EXP[j]] = j
  BY GeneratorAssumption DEF Exponent
<1> QED
  BY <1>1, Zenon DEF mul

LEMMA ZeroMul == \A a : mul(0, a) = 0 /\ mul(a, 0) = 0
  BY DEF mul

LEMMA MulCommutes == ASSUME NEW a \in Byte, NEW b \in Byte PROVE mul(a, b) = mul(b, a)
<1>1. LOG[a] \in Exponent /\ LOG[b] \in Exponent
  BY LogIsExponent DEF Exponent
<1>2. \A i, j \in Exponent : i + j = j + i
  BY DEF Exponent
<1>3. LOG[a] + LOG[b] = LOG[b] + LOG[a]
  BY <1>1, <1>2, Zenon
<1> QED
  BY <1>3, Zenon DEF mul

LEMMA MulNotZero ==
  ASSUME NEW a \in Byte \ {0}, NEW b \in Byte \ {0} PROVE mul(a, b) \in Byte \ {0}
<1>1. PICK i \in Exponent : a = EXP[i] /\ LOG[a] = i
  BY PowerOf
<1>2. PICK j \in Exponent : b = EXP[j] /\ LOG[b] = j
  BY PowerOf
<1>3. mul(a, b) = EXP[i + j]
  BY <1>1, <1>2, PowersMultiply
<1> DEFINE n == i + j
<1>4. n \in Sum2
  BY DEF Sum2, Exponent
<1> HIDE DEF n
<1>5. PICK m \in Exponent : EXP[n] = EXP[m]
  BY <1>4, PowersReduce
<1>6. EXP[m] # 0
  BY <1>5, GeneratorAssumption DEF Exponent
<1>7. mul(a, b) \in Byte
  BY MulIsByte
<1> QED
  BY <1>3, <1>5, <1>6, <1>7 DEF n

LEMMA MulAssociates ==
  ASSUME NEW a \in Byte, NEW b \in Byte, NEW c \in Byte
  PROVE  mul(mul(a, b), c) = mul(a, mul(b, c))
<1>1. CASE a = 0 \/ b = 0 \/ c = 0
  BY <1>1, ZeroMul
<1>2. CASE a # 0 /\ b # 0 /\ c # 0
  <2>1. PICK i \in Exponent : a = EXP[i]
    BY <1>2, PowerOf
  <2>2. PICK j \in Exponent : b = EXP[j]
    BY <1>2, PowerOf
  <2>3. PICK l \in Exponent : c = EXP[l]
    BY <1>2, PowerOf
  <2> DEFINE ij == i + j
             jl == j + l
  <2>4. ij \in Sum2 /\ jl \in Sum2
    BY DEF Sum2, Exponent
  <2> HIDE DEF ij, jl
  <2>5. PICK n \in Exponent : EXP[ij] = EXP[n] /\ Agree(ij, n)
    BY <2>4, PowersReduce
  <2>6. PICK m \in Exponent : EXP[jl] = EXP[m] /\ Agree(jl, m)
    BY <2>4, PowersReduce
  <2>7. EXP[n + l] = EXP[i + m]
    <3> DEFINE p == n + l
               q == i + m
    <3>1. p \in Slot /\ q \in Slot /\ Agree(p, q)
      BY <2>5, <2>6 DEF ij, jl, Slot, Exponent, Agree
    <3> HIDE DEF p, q
    <3>2. EXP[p] = EXP[q]
      BY <3>1, PowersRecur
    <3> QED
      BY <3>2 DEF p, q
  <2>8. mul(mul(a, b), c) = mul(EXP[n], EXP[l]) /\ mul(a, mul(b, c)) = mul(EXP[i], EXP[m])
    <3>1. mul(a, b) = EXP[ij]
      BY <2>1, <2>2, PowersMultiply, Zenon DEF ij
    <3>2. mul(b, c) = EXP[jl]
      BY <2>2, <2>3, PowersMultiply, Zenon DEF jl
    <3> QED
      BY <2>1, <2>3, <2>5, <2>6, <3>1, <3>2, Zenon
  <2>9. mul(EXP[n], EXP[l]) = EXP[n + l] /\ mul(EXP[i], EXP[m]) = EXP[i + m]
    BY PowersMultiply, Zenon
  <2> QED
    BY <2>7, <2>8, <2>9
<1> QED
  BY <1>1, <1>2

LEMMA TripleMultiplies ==
  ASSUME NEW i \in Exponent, NEW b \in Byte
  PROVE  Triple(mul(EXP[i], b)) = mul(Triple(EXP[i]), b)
<1>1. CASE b = 0
  <2>1. Triple(0) = 0
    <3>1. 0 \in Byte
      BY DEF Byte
    <3>2. Twice(0) = 0
      BY DEF Twice
    <3> QED
      BY <3>1, <3>2, XorLaws DEF Triple
  <2> QED
    BY <1>1, <2>1, ZeroMul
<1>2. CASE b # 0
  <2>1. PICK j \in Exponent : b = EXP[j] /\ LOG[b] = j
    BY <1>2, PowerOf
  <2> DEFINE s == i + j
             n == i + 1
  <2>2. Triple(mul(EXP[i], b)) = EXP[s + 1]
    <3>1. s \in Sum2
      BY DEF Sum2, Exponent
    <3>2. mul(EXP[i], b) = EXP[s]
      BY <2>1, PowersMultiply, Zenon
    <3> HIDE DEF s
    <3> QED
      BY <3>1, <3>2, TripleRaises
  <2>3. Triple(EXP[i]) = EXP[n]
    <3>1. i \in Sum2
      BY DEF Sum2, Exponent
    <3> QED
      BY <3>1, TripleRaises
  <2>4. n \in Sum2
    BY DEF Sum2, Exponent
  <2> HIDE DEF n
  <2>5. PICK m \in Exponent : EXP[n] = EXP[m] /\ Agree(n, m)
    BY <2>4, PowersReduce
  <2>6. EXP[m + j] = EXP[s + 1]
    <3> DEFINE p == m + j
               q == s + 1
    <3>1. p \in Slot /\ q \in Slot /\ Agree(p, q)
      BY <2>5 DEF n, Slot, Exponent, Agree
    <3> HIDE DEF p, q
    <3>2. EXP[p] = EXP[q]
      BY <3>1, PowersRecur
    <3> QED
      BY <3>2 DEF p, q
  <2>7. mul(EXP[m], EXP[j]) = EXP[m + j]
    BY PowersMultiply, Zenon
  <2> HIDE DEF s
  <2> QED
    BY <2>1, <2>2, <2>3, <2>5, <2>6, <2>7, Zenon
<1> QED
  BY <1>1, <1>2

LEMMA MulDistributes ==
  ASSUME NEW a \in Byte, NEW b \in Byte, NEW c \in Byte
  PROVE  mul(a, Xor(b, c)) = Xor(mul(a, b), mul(a, c))
<1>1. Xor(b, c) \in Byte
  BY XorIsByte
<1>2. CASE a = 0
  <2>1. 0 \in Byte /\ Xor(0, 0) = 0
    <3>1. 0 \in Byte
      BY DEF Byte
    <3> QED
      BY <3>1, XorLaws
  <2> QED
    BY <1>2, <2>1, ZeroMul
<1>3. CASE a # 0
  <2> DEFINE Q == {i \in Exponent : mul(EXP[i], Xor(b, c)) # Xor(mul(EXP[i], b), mul(EXP[i], c))}
  <2>1. \A x \in Byte : mul(EXP[0], x) = x
    <3>1. EXP[0] = 1
      BY PowersAreBytes
    <3> QED
      BY <3>1, MulOne, ZeroMul
  <2>2. Q = {}
    <3> SUFFICES ASSUME Q # {} PROVE FALSE
      OBVIOUS
    <3>1. PICK m \in Q : \A x \in Q : m <= x
      <4> Q \subseteq Nat
        BY DEF Exponent
      <4> HIDE DEF Q
      <4> QED
        BY Smallest
    <3>2. m # 0
      BY <1>1, <2>1
    <3> DEFINE i == m - 1
    <3>3. i \in Exponent /\ i \in Sum2 /\ i + 1 = m /\ i \notin Q
      BY <3>1, <3>2 DEF Exponent, Sum2
    <3> HIDE DEF i
    <3>4. mul(EXP[i], Xor(b, c)) = Xor(mul(EXP[i], b), mul(EXP[i], c))
      BY <3>3
    <3>5. EXP[i] \in Byte
      <4>1. i \in 0 .. 511
        BY <3>3 DEF Exponent
      <4> QED
        BY <4>1, PowersAreBytes
    <3>6. mul(EXP[i], b) \in Byte /\ mul(EXP[i], c) \in Byte
      BY <3>5, MulIsByte
    <3>7. EXP[m] = Triple(EXP[i])
      BY <3>3, TripleRaises
    <3>8. ASSUME NEW x \in Byte PROVE mul(EXP[m], x) = Triple(mul(EXP[i], x))
      <4>1. Triple(mul(EXP[i], x)) = mul(Triple(EXP[i]), x)
        BY <3>3, TripleMultiplies
      <4> QED
        BY <3>7, <4>1, Zenon
    <3>9. mul(EXP[m], Xor(b, c)) = Xor(mul(EXP[m], b), mul(EXP[m], c))
      BY <1>1, <3>4, <3>6, <3>8, TripleAdds
    <3> QED
      BY <3>9
  <2>3. PICK i \in Exponent : a = EXP[i]
    BY <1>3, PowerOf
  <2> QED
    BY <2>2, <2>3
<1> QED
  BY <1>2, <1>3

\* Division is multiplication with the inverse.
LEMMA InverseIs ==
  ASSUME NEW x \in Byte \ {0}
  PROVE  div(1, x) \in Byte \ {0} /\ mul(div(1, x), x) = 1
<1>1. 1 \in Byte /\ 1 # 0
  BY DEF Byte
<1>2. div(1, x) \in Byte /\ mul(div(1, x), x) = 1
  BY <1>1, DivIsByte, DivUndone
<1>3. mul(0, x) = 0
  BY ZeroMul
<1> QED
  BY <1>1, <1>2, <1>3

LEMMA DivMultiplies ==
  ASSUME NEW x \in Byte \ {0}, NEW z \in Byte
  PROVE  div(z, x) = mul(z, div(1, x))
<1> DEFINE p == div(z, x)
           y == div(1, x)
<1>1. p \in Byte /\ mul(p, x) = z /\ y \in Byte /\ mul(y, x) = 1 /\ x \in Byte
  BY DivIsByte, DivUndone, InverseIs
<1> HIDE DEF p, y
<1>2. mul(mul(p, x), y) = mul(p, mul(x, y)) /\ mul(x, y) = 1
  BY <1>1, MulAssociates, MulCommutes
<1>3. mul(p, 1) = p
  <2>1. 1 \in Byte
    BY DEF Byte
  <2> QED
    BY <1>1, <2>1, MulOne, ZeroMul, MulCommutes
<1> QED
  BY <1>1, <1>2, <1>3 DEF p, y

--------------------------------------------------------------------------------
(* Folds over sets of bytes, with an operation that is given as a function.   *)

First(s) == CHOOSE x \in s : TRUE

Closed(op, e) == op \in [Byte \X Byte -> Byte] /\ e \in Byte

\* The value that a fold's recursion gives the set s.
Next1(it, op, e, f, s) == IF s = {} THEN e ELSE op[<<f[First(s)], it[s \ {First(s)}]>>]

\* it folds f with op, from e, over the subsets of f's domain.
FoldsUp(it, op, e, f) == it = [s \in SUBSET DOMAIN f |-> Next1(it, op, e, f, s)]

\* So does it where the values it has come to are bytes.
Obeys(it, op, e, f) ==
    \A s \in SUBSET DOMAIN f :
        s = {} \/ it[s \ {First(s)}] \in Byte => it[s] = Next1(it, op, e, f, s)

LEMMA FirstIs ==
  ASSUME NEW s, IsFiniteSet(s), s # {}
  PROVE  /\ First(s) \in s /\ IsFiniteSet(s \ {First(s)})
         /\ Cardinality(s) \in Nat /\ Cardinality(s \ {First(s)}) \in Nat
         /\ Cardinality(s \ {First(s)}) = Cardinality(s) - 1
<1>1. First(s) \in s
  BY DEF First
<1>2. IsFiniteSet(s \ {First(s)}) /\ Cardinality(s \ {First(s)}) = Cardinality(s) - 1
  BY <1>1, FS_RemoveElement
<1> QED
  BY <1>1, <1>2, FS_CardinalityType

LEMMA FoldExists ==
  ASSUME NEW D, IsFiniteSet(D), NEW op, NEW e, Closed(op, e),
         NEW f \in [D -> Byte]
  PROVE  \E it \in [SUBSET D -> Byte] : FoldsUp(it, op, e, f)
<1> DEFINE Good(it, n) == \A s \in SUBSET D : Cardinality(s) <= n => it[s] = Next1(it, op, e, f, s)
           Q == {n \in Nat : ~ \E it \in [SUBSET D -> Byte] : Good(it, n)}
<1> USE DEF Closed
<1>1. \A s \in SUBSET D : IsFiniteSet(s) /\ Cardinality(s) \in Nat /\ Cardinality(s) <= Cardinality(D)
  BY FS_Subset, FS_CardinalityType
<1>2. Q = {}
  <2> SUFFICES ASSUME Q # {} PROVE FALSE
    OBVIOUS
  <2>1. PICK m \in Q : \A x \in Q : m <= x
    <3> Q \subseteq Nat
      OBVIOUS
    <3> HIDE DEF Q
    <3> QED
      BY Smallest
  <2>2. m # 0
    <3> DEFINE it == [s \in SUBSET D |-> e]
    <3>1. it \in [SUBSET D -> Byte]
      OBVIOUS
    <3>2. ASSUME NEW s \in SUBSET D, Cardinality(s) <= 0 PROVE it[s] = Next1(it, op, e, f, s)
      <4>1. s = {}
        BY <1>1, <3>2, FS_EmptySet
      <4> QED
        BY <4>1 DEF Next1
    <3> HIDE DEF it
    <3>3. Good(it, 0)
      BY <3>2
    <3> QED
      BY <2>1, <3>1, <3>3
  <2> DEFINE k == m - 1
  <2>3. k \in Nat /\ m = k + 1 /\ k \notin Q
    <3>1. m \in Nat
      BY <2>1
    <3> HIDE DEF Q
    <3> QED
      BY <2>1, <2>2, <3>1
  <2> HIDE DEF k
  <2>4. PICK it \in [SUBSET D -> Byte] : Good(it, k)
    BY <2>3
  <2> DEFINE g == [s \in SUBSET D |-> Next1(it, op, e, f, s)]
  <2>5. \A s \in SUBSET D : s # {} => First(s) \in D /\ s \ {First(s)} \in SUBSET D
    BY <1>1, FirstIs
  <2>6. g \in [SUBSET D -> Byte]
    <3>1. \A s \in SUBSET D : Next1(it, op, e, f, s) \in Byte
      BY <2>5 DEF Next1
    <3> QED
      BY <3>1
  <2>7. ASSUME NEW s \in SUBSET D, Cardinality(s) <= m PROVE g[s] = Next1(g, op, e, f, s)
    <3>1. CASE s = {}
      BY <3>1 DEF Next1
    <3>2. CASE s # {}
      <4> DEFINE r == s \ {First(s)}
      <4>1. r \in SUBSET D /\ Cardinality(r) <= k
        BY <1>1, <2>3, <2>5, <2>7, <3>2, FirstIs
      <4>2. it[r] = Next1(it, op, e, f, r)
        BY <2>4, <4>1
      <4>3. g[r] = it[r]
        BY <4>1, <4>2
      <4>4. g[s] = Next1(it, op, e, f, s)
        OBVIOUS
      <4> HIDE DEF g
      <4> QED
        BY <3>2, <4>3, <4>4 DEF Next1
    <3> QED
      BY <3>1, <3>2
  <2> HIDE DEF g
  <2>8. Good(g, m)
    BY <2>7
  <2> QED
    BY <2>1, <2>6, <2>8
<1>3. Cardinality(D) \in Nat
  BY FS_CardinalityType
<1>4. PICK it \in [SUBSET D -> Byte] : Good(it, Cardinality(D))
  BY <1>2, <1>3
<1>5. \A s \in SUBSET D : it[s] = Next1(it, op, e, f, s)
  BY <1>1, <1>4
<1>6. DOMAIN f = D
  OBVIOUS
<1>7. it = [s \in SUBSET D |-> Next1(it, op, e, f, s)]
  <2>1. it = [s \in SUBSET D |-> it[s]]
    OBVIOUS
  <2> QED
    BY <1>5, <2>1
<1>8. FoldsUp(it, op, e, f)
  BY <1>6, <1>7 DEF FoldsUp
<1> QED
  BY <1>8

LEMMA FoldsObey ==
  ASSUME NEW it, NEW op, NEW e, NEW f, FoldsUp(it, op, e, f) PROVE Obeys(it, op, e, f)
<1>1. it = [s \in SUBSET DOMAIN f |-> Next1(it, op, e, f, s)]
  BY DEF FoldsUp
<1>2. \A s \in SUBSET DOMAIN f : it[s] = Next1(it, op, e, f, s)
  BY <1>1
<1> QED
  BY <1>2 DEF Obeys

\* f and g are defined on T and have the same bytes there.
Alike(f, g, T) ==
    T \subseteq DOMAIN f /\ T \subseteq DOMAIN g /\ \A x \in T : f[x] = g[x] /\ f[x] \in Byte

\* What is folded of a set depends on the function's values there alone.
LEMMA FoldsAgree ==
  ASSUME NEW op, NEW e, Closed(op, e), NEW T, IsFiniteSet(T),
         NEW f, NEW g, Alike(f, g, T), NEW i, NEW j, Obeys(i, op, e, f), Obeys(j, op, e, g)
  PROVE  i[T] = j[T] /\ i[T] \in Byte
<1> DEFINE Bad == {s \in SUBSET T : ~ (i[s] = j[s] /\ i[s] \in Byte)}
           Q == {Cardinality(s) : s \in Bad}
<1> SUFFICES ASSUME Bad # {} PROVE FALSE
  OBVIOUS
<1>1. \A s \in SUBSET T : IsFiniteSet(s) /\ Cardinality(s) \in Nat
  BY FS_Subset, FS_CardinalityType
<1>2. PICK s \in Bad : \A r \in Bad : Cardinality(s) <= Cardinality(r)
  <2>1. Q # {} /\ Q \subseteq Nat
    BY <1>1
  <2>2. PICK m \in Q : \A x \in Q : m <= x
    <3> HIDE DEF Q
    <3> QED
      BY <2>1, Smallest
  <2> QED
    BY <2>2
<1>3. s \in SUBSET DOMAIN f /\ s \in SUBSET DOMAIN g
  BY DEF Alike
<1>4. s # {}
  BY <1>2, <1>3 DEF Obeys, Next1, Closed
<1> DEFINE r == s \ {First(s)}
<1>5. /\ r \in SUBSET T /\ Cardinality(r) < Cardinality(s) /\ First(s) \in T
  <2>1. /\ First(s) \in s /\ Cardinality(s) \in Nat /\ Cardinality(r) = Cardinality(s) - 1
    BY <1>1, <1>4, FirstIs
  <2> QED
    BY <2>1
<1>6. r \notin Bad
  BY <1>1, <1>2, <1>5
<1>7. i[r] = j[r] /\ i[r] \in Byte
  BY <1>5, <1>6
<1>8. i[s] = Next1(i, op, e, f, s) /\ j[s] = Next1(j, op, e, g, s)
  BY <1>3, <1>7 DEF Obeys
<1>9. Next1(i, op, e, f, s) = op[<<f[First(s)], i[r]>>] /\ Next1(j, op, e, g, s) = op[<<g[First(s)], j[r]>>]
  BY <1>4, Zenon DEF Next1
<1>10. f[First(s)] = g[First(s)] /\ f[First(s)] \in Byte
  BY <1>5 DEF Alike
<1> HIDE DEF r
<1>11. i[s] = j[s] /\ i[s] \in Byte
  BY <1>7, <1>8, <1>9, <1>10 DEF Closed
<1> QED
  BY <1>2, <1>11

\* The fold of F, whose domain are the bytes, over the bytes in T.
Over(op, e, F, T) == (CHOOSE it : FoldsUp(it, op, e, F))[T]

Bytes == [Byte -> Byte]

LEMMA BytesAreFinite == \A T \in SUBSET Byte : IsFiniteSet(T) /\ Cardinality(T) \in Nat
<1>1. IsFiniteSet(0 .. 255)
  <2>1. 0 \in Int /\ 255 \in Int
    OBVIOUS
  <2> QED
    BY <2>1, FS_Interval, Zenon
<1> QED
  BY <1>1, FS_Subset, FS_CardinalityType DEF Byte

IsOver(it, op, e, F) ==
    /\ it \in [SUBSET Byte -> Byte] /\ FoldsUp(it, op, e, F)
    /\ \A T : Over(op, e, F, T) = it[T]

LEMMA OverFolds ==
  ASSUME NEW op, NEW e, Closed(op, e), NEW F \in Bytes
  PROVE  \E it : IsOver(it, op, e, F)
<1>1. F \in [Byte -> Byte] /\ DOMAIN F = Byte /\ IsFiniteSet(Byte)
  BY BytesAreFinite DEF Bytes
<1>2. \E it : FoldsUp(it, op, e, F)
  BY <1>1, FoldExists
<1> DEFINE it == CHOOSE it : FoldsUp(it, op, e, F)
<1>3. FoldsUp(it, op, e, F)
  BY <1>2
<1>4. \A T : Over(op, e, F, T) = it[T]
  BY DEF Over
<1> HIDE DEF it
<1>5. it = [s \in SUBSET Byte |-> Next1(it, op, e, F, s)]
  BY <1>1, <1>3 DEF FoldsUp
<1>6. \A s \in SUBSET Byte : it[s] \in Byte
  <2> TAKE s \in SUBSET Byte
  <2>1. Obeys(it, op, e, F)
    BY <1>3, FoldsObey
  <2>2. IsFiniteSet(s) /\ Alike(F, F, s)
    BY <1>1, BytesAreFinite DEF Alike
  <2> QED
    BY <1>1, <2>1, <2>2, FoldsAgree
<1>7. it \in [SUBSET Byte -> Byte]
  <2>1. it = [s \in SUBSET Byte |-> it[s]]
    BY <1>5
  <2> QED
    BY <1>6, <2>1
<1> QED
  BY <1>3, <1>4, <1>7 DEF IsOver

LEMMA OverIs ==
  ASSUME NEW op, NEW e, Closed(op, e), NEW F \in Bytes, NEW T \in SUBSET Byte
  PROVE  /\ Over(op, e, F, T) \in Byte
         /\ Over(op, e, F, {}) = e
         /\ T # {} => Over(op, e, F, T) = op[<<F[First(T)], Over(op, e, F, T \ {First(T)})>>]
<1>0. PICK it : IsOver(it, op, e, F)
  BY OverFolds
<1>1. /\ it \in [SUBSET Byte -> Byte] /\ FoldsUp(it, op, e, F)
      /\ \A U : Over(op, e, F, U) = it[U]
  BY <1>0 DEF IsOver
<1>2. DOMAIN F = Byte
  BY DEF Bytes
<1>3. it = [s \in SUBSET Byte |-> Next1(it, op, e, F, s)]
  BY <1>1, <1>2 DEF FoldsUp
<1>4. \A s \in SUBSET Byte : it[s] = Next1(it, op, e, F, s)
  BY <1>3
<1>5. it[{}] = e
  BY <1>4 DEF Next1
<1>6. T # {} => it[T] = op[<<F[First(T)], it[T \ {First(T)}]>>]
  BY <1>4 DEF Next1
<1> QED
  BY <1>1, <1>5, <1>6, Zenon

\* A fold over functions that agree on T; f's domain need not be all bytes.
LEMMA OverAgrees ==
  ASSUME NEW op, NEW e, Closed(op, e), NEW F \in Bytes, NEW T \in SUBSET Byte,
         NEW f, Alike(f, F, T), NEW i, Obeys(i, op, e, f)
  PROVE  i[T] = Over(op, e, F, T)
<1>0. PICK it : IsOver(it, op, e, F)
  BY OverFolds
<1>1. /\ it \in [SUBSET Byte -> Byte] /\ FoldsUp(it, op, e, F)
      /\ \A U : Over(op, e, F, U) = it[U]
  BY <1>0 DEF IsOver
<1>2. Obeys(it, op, e, F)
  BY <1>1, FoldsObey
<1>3. IsFiniteSet(T)
  BY BytesAreFinite
<1>4. i[T] = it[T]
  BY <1>2, <1>3, FoldsAgree
<1> QED
  BY <1>1, <1>4

LEMMA OverSame ==
  ASSUME NEW op, NEW e, Closed(op, e), NEW F \in Bytes, NEW G \in Bytes,
         NEW T \in SUBSET Byte, \A x \in T : F[x] = G[x]
  PROVE  Over(op, e, F, T) = Over(op, e, G, T)
<1>0. PICK it : IsOver(it, op, e, F)
  BY OverFolds
<1>1. /\ it \in [SUBSET Byte -> Byte] /\ FoldsUp(it, op, e, F)
      /\ \A U : Over(op, e, F, U) = it[U]
  BY <1>0 DEF IsOver
<1>2. Obeys(it, op, e, F) /\ Alike(F, G, T)
  BY <1>1, FoldsObey DEF Alike, Bytes
<1>3. it[T] = Over(op, e, G, T)
  BY <1>2, OverAgrees
<1> QED
  BY <1>1, <1>3

\* With such an operation the members of a set may be taken in any order.
Monoid(op, e) ==
    /\ Closed(op, e)
    /\ \A a \in Byte : op[<<a, e>>] = a
    /\ \A a, b \in Byte : op[<<a, b>>] = op[<<b, a>>]
    /\ \A a, b, c \in Byte : op[<<op[<<a, b>>], c>>] = op[<<a, op[<<b, c>>]>>]

LEMMA OverTakes ==
  ASSUME NEW op, NEW e, Monoid(op, e), NEW F \in Bytes, NEW T \in SUBSET Byte, NEW a \in T
  PROVE  Over(op, e, F, T) = op[<<F[a], Over(op, e, F, T \ {a})>>]
<1> DEFINE O(s) == Over(op, e, F, s)
           Bad == {s \in SUBSET T : \E x \in s : O(s) # op[<<F[x], O(s \ {x})>>]}
           Q == {Cardinality(s) : s \in Bad}
<1> SUFFICES ASSUME Bad # {} PROVE FALSE
  BY Zenon
<1>0. Closed(op, e)
  BY DEF Monoid
<1>1. \A s \in SUBSET T : IsFiniteSet(s) /\ Cardinality(s) \in Nat
  BY BytesAreFinite
<1>2. PICK s \in Bad : \A r \in Bad : Cardinality(s) <= Cardinality(r)
  <2>1. Q # {} /\ Q \subseteq Nat
    BY <1>1
  <2>2. PICK m \in Q : \A x \in Q : m <= x
    <3> HIDE DEF Q
    <3> QED
      BY <2>1, Smallest
  <2> HIDE DEF Bad
  <2> QED
    BY <2>2
<1>3. PICK x \in s : O(s) # op[<<F[x], O(s \ {x})>>]
  OBVIOUS
<1>4. \A r \in SUBSET T : O(r) \in Byte /\ (r # {} => O(r) = op[<<F[First(r)], O(r \ {First(r)})>>])
  <2> TAKE r \in SUBSET T
  <2>1. r \in SUBSET Byte
    OBVIOUS
  <2>2. /\ Over(op, e, F, r) \in Byte
        /\ r # {} => Over(op, e, F, r) = op[<<F[First(r)], Over(op, e, F, r \ {First(r)})>>]
    BY <1>0, <2>1, OverIs
  <2> QED
    BY <2>2
<1>5. \A y \in Byte : F[y] \in Byte
  BY DEF Bytes
<1> DEFINE c == First(s)
<1>6. s \in SUBSET T /\ s # {} /\ c \in s /\ IsFiniteSet(s)
  BY <1>1, FirstIs
<1>7. O(s) = op[<<F[c], O(s \ {c})>>]
  BY <1>4, <1>6
<1> HIDE DEF c, O
<1>8. x # c
  BY <1>3, <1>7
<1>9. \A y \in s : /\ Cardinality(s \ {y}) < Cardinality(s) /\ s \ {y} \in SUBSET T
                   /\ s \ {y} \notin Bad
  <2> TAKE y \in s
  <2>1. Cardinality(s \ {y}) = Cardinality(s) - 1
    BY <1>6, FS_RemoveElement
  <2>2. s \ {y} \in SUBSET T /\ Cardinality(s) \in Nat /\ Cardinality(s \ {y}) \in Nat
    BY <1>1, <1>6
  <2> HIDE DEF Bad
  <2>3. s \ {y} \notin Bad
    BY <1>2, <2>1, <2>2
  <2> QED
    BY <2>1, <2>2, <2>3
<1> DEFINE r == (s \ {c}) \ {x}
<1>10. O(s \ {c}) = op[<<F[x], O(r)>>]
  BY <1>3, <1>6, <1>8, <1>9
<1>11. O(s \ {x}) = op[<<F[c], O(r)>>]
  <2>1. (s \ {x}) \ {c} = r
    OBVIOUS
  <2> HIDE DEF r
  <2> QED
    BY <1>3, <1>6, <1>8, <1>9, <2>1
<1> USE DEF Closed
<1>12. F[c] \in Byte /\ F[x] \in Byte /\ O(r) \in Byte
  <2>1. r \in SUBSET T
    OBVIOUS
  <2> HIDE DEF r
  <2> QED
    BY <1>3, <1>4, <1>5, <1>6, <2>1
<1> HIDE DEF r
<1>13. op[<<F[c], op[<<F[x], O(r)>>]>>] = op[<<F[x], op[<<F[c], O(r)>>]>>]
  <2>1. op[<<op[<<F[c], F[x]>>], O(r)>>] = op[<<F[c], op[<<F[x], O(r)>>]>>]
    BY <1>12 DEF Monoid
  <2>2. op[<<op[<<F[x], F[c]>>], O(r)>>] = op[<<F[x], op[<<F[c], O(r)>>]>>]
    BY <1>12 DEF Monoid
  <2>3. op[<<F[c], F[x]>>] = op[<<F[x], F[c]>>]
    BY <1>12 DEF Monoid
  <2> QED
    BY <2>1, <2>2, <2>3
<1> QED
  BY <1>3, <1>7, <1>10, <1>11, <1>13

--------------------------------------------------------------------------------
(* Sums and products over a set of bytes, as combine folds them.              *)

XorOp == [p \in Byte \X Byte |-> Xor(p[1], p[2])]
MulOp == [p \in Byte \X Byte |-> mul(p[1], p[2])]

LEMMA Operations ==
  \A a, b \in Byte : /\ XorOp[<<a, b>>] = Xor(a, b) /\ Xor(a, b) \in Byte
                     /\ MulOp[<<a, b>>] = mul(a, b) /\ mul(a, b) \in Byte
<1>1. \A a, b \in Byte : Xor(a, b) \in Byte /\ mul(a, b) \in Byte
  BY XorIsByte, MulIsByte
<1>2. \A a, b \in Byte : XorOp[<<a, b>>] = Xor(a, b)
  BY DEF XorOp
<1>3. \A a, b \in Byte : MulOp[<<a, b>>] = mul(a, b)
  BY DEF MulOp
<1> QED
  BY <1>1, <1>2, <1>3

LEMMA ZeroAndOne == 0 \in Byte /\ 1 \in Byte /\ 1 # 0
  BY DEF Byte

LEMMA XorMonoid == Monoid(XorOp, 0)
<1>1. Closed(XorOp, 0)
  <2>1. XorOp \in [Byte \X Byte -> Byte]
    BY Operations DEF XorOp
  <2> QED
    BY <2>1, ZeroAndOne DEF Closed
<1>2. \A a \in Byte : XorOp[<<a, 0>>] = a
  BY Operations, ZeroAndOne, XorLaws
<1>3. ASSUME NEW a \in Byte, NEW b \in Byte PROVE XorOp[<<a, b>>] = XorOp[<<b, a>>]
  <2>1. XorOp[<<a, b>>] = Xor(a, b) /\ XorOp[<<b, a>>] = Xor(b, a)
    BY Operations
  <2> QED
    BY <2>1, XorLaws
<1>4. \A a, b, c \in Byte : XorOp[<<XorOp[<<a, b>>], c>>] = XorOp[<<a, XorOp[<<b, c>>]>>]
  <2> SUFFICES ASSUME NEW a \in Byte, NEW b \in Byte, NEW c \in Byte
               PROVE  XorOp[<<XorOp[<<a, b>>], c>>] = XorOp[<<a, XorOp[<<b, c>>]>>]
    OBVIOUS
  <2>1. XorOp[<<XorOp[<<a, b>>], c>>] = Xor(Xor(a, b), c)
    BY Operations
  <2>2. XorOp[<<a, XorOp[<<b, c>>]>>] = Xor(a, Xor(b, c))
    BY Operations
  <2> QED
    BY <2>1, <2>2, XorLaws
<1> QED
  BY <1>1, <1>2, <1>3, <1>4, Zenon DEF Monoid

LEMMA MulMonoid == Monoid(MulOp, 1)
<1>1. Closed(MulOp, 1)
  <2>1. MulOp \in [Byte \X Byte -> Byte]
    BY Operations DEF MulOp
  <2> QED
    BY <2>1, ZeroAndOne DEF Closed
<1>2. ASSUME NEW a \in Byte PROVE MulOp[<<a, 1>>] = a
  <2>1. MulOp[<<a, 1>>] = mul(a, 1) /\ mul(a, 1) = mul(1, a)
    BY Operations, ZeroAndOne, MulCommutes
  <2> QED
    BY <2>1, MulOne, ZeroMul
<1>3. ASSUME NEW a \in Byte, NEW b \in Byte PROVE MulOp[<<a, b>>] = MulOp[<<b, a>>]
  <2>1. MulOp[<<a, b>>] = mul(a, b) /\ MulOp[<<b, a>>] = mul(b, a)
    BY Operations
  <2> QED
    BY <2>1, MulCommutes
<1>4. \A a, b, c \in Byte : MulOp[<<MulOp[<<a, b>>], c>>] = MulOp[<<a, MulOp[<<b, c>>]>>]
  <2> SUFFICES ASSUME NEW a \in Byte, NEW b \in Byte, NEW c \in Byte
               PROVE  MulOp[<<MulOp[<<a, b>>], c>>] = MulOp[<<a, MulOp[<<b, c>>]>>]
    OBVIOUS
  <2>1. MulOp[<<MulOp[<<a, b>>], c>>] = mul(mul(a, b), c)
    BY Operations
  <2>2. MulOp[<<a, MulOp[<<b, c>>]>>] = mul(a, mul(b, c))
    BY Operations
  <2> QED
    BY <2>1, <2>2, MulAssociates
<1> QED
  BY <1>1, <1>2, <1>3, <1>4, Zenon DEF Monoid

Sigma(F, T) == Over(XorOp, 0, F, T)
Pi(F, T)    == Over(MulOp, 1, F, T)

LEMMA SigmaIs ==
  ASSUME NEW F \in Bytes, NEW T \in SUBSET Byte
  PROVE  /\ Sigma(F, T) \in Byte /\ Sigma(F, {}) = 0
         /\ \A a \in T : Sigma(F, T) = Xor(F[a], Sigma(F, T \ {a}))
<1>1. Closed(XorOp, 0) /\ Monoid(XorOp, 0)
  BY XorMonoid DEF Monoid
<1>2. Sigma(F, T) \in Byte /\ Sigma(F, {}) = 0
  BY <1>1, OverIs DEF Sigma
<1>3. ASSUME NEW a \in T PROVE Sigma(F, T) = Xor(F[a], Sigma(F, T \ {a}))
  <2>1. Sigma(F, T) = XorOp[<<F[a], Sigma(F, T \ {a})>>]
    BY <1>1, OverTakes DEF Sigma
  <2>2. F[a] \in Byte
    BY DEF Bytes
  <2>3. T \ {a} \in SUBSET Byte
    OBVIOUS
  <2>4. Sigma(F, T \ {a}) \in Byte
    BY <1>1, <2>3, OverIs DEF Sigma
  <2> QED
    BY <2>1, <2>2, <2>4, Operations
<1> QED
  BY <1>2, <1>3

LEMMA PiIs ==
  ASSUME NEW F \in Bytes, NEW T \in SUBSET Byte
  PROVE  /\ Pi(F, T) \in Byte /\ Pi(F, {}) = 1
         /\ \A a \in T : Pi(F, T) = mul(F[a], Pi(F, T \ {a}))
<1>1. Closed(MulOp, 1) /\ Monoid(MulOp, 1)
  BY MulMonoid DEF Monoid
<1>2. Pi(F, T) \in Byte /\ Pi(F, {}) = 1
  BY <1>1, OverIs DEF Pi
<1>3. ASSUME NEW a \in T PROVE Pi(F, T) = mul(F[a], Pi(F, T \ {a}))
  <2>1. Pi(F, T) = MulOp[<<F[a], Pi(F, T \ {a})>>]
    BY <1>1, OverTakes DEF Pi
  <2>2. F[a] \in Byte
    BY DEF Bytes
  <2>3. T \ {a} \in SUBSET Byte
    OBVIOUS
  <2>4. Pi(F, T \ {a}) \in Byte
    BY <1>1, <2>3, OverIs DEF Pi
  <2> QED
    BY <2>1, <2>2, <2>4, Operations
<1> QED
  BY <1>2, <1>3

LEMMA SameTotals ==
  ASSUME NEW F \in Bytes, NEW G \in Bytes, NEW T \in SUBSET Byte, \A x \in T : F[x] = G[x]
  PROVE  Sigma(F, T) = Sigma(G, T) /\ Pi(F, T) = Pi(G, T)
<1>1. Closed(XorOp, 0) /\ Closed(MulOp, 1)
  BY XorMonoid, MulMonoid DEF Monoid
<1>2. Sigma(F, T) = Sigma(G, T)
  BY <1>1, OverSame DEF Sigma
<1>3. Pi(F, T) = Pi(G, T)
  BY <1>1, OverSame DEF Pi
<1> QED
  BY <1>2, <1>3

\* The folds of module Functions are these.
LEMMA FoldIsPi ==
  ASSUME NEW T \in SUBSET Byte, NEW f \in [T -> Byte], NEW F \in Bytes, \A x \in T : f[x] = F[x]
  PROVE  FoldFunction(mul, 1, f) = Pi(F, T)
<1> DEFINE e(it, s) == IF s = {} THEN 1 ELSE LET x == CHOOSE x \in s : TRUE IN mul(f[x], it[s \ {x}])
           acc == CHOOSE it : it = [s \in SUBSET DOMAIN f |-> e(it, s)]
<1>1. FoldFunction(mul, 1, f) = acc[DOMAIN f]
  BY Zenon DEF FoldFunction, FoldFunctionOnSet, MapThenFoldSet
<1>2. DOMAIN f = T /\ IsFiniteSet(T) /\ \A s \in SUBSET T : IsFiniteSet(s)
  BY BytesAreFinite
<1>3. \A it, s : s = {} => e(it, s) = Next1(it, MulOp, 1, f, s)
  BY DEF Next1
<1>4. ASSUME NEW it, NEW s \in SUBSET T, s # {}, it[s \ {First(s)}] \in Byte
      PROVE  e(it, s) = Next1(it, MulOp, 1, f, s)
  <2>1. e(it, s) = mul(f[First(s)], it[s \ {First(s)}])
    BY <1>4, Zenon DEF First
  <2>2. Next1(it, MulOp, 1, f, s) = MulOp[<<f[First(s)], it[s \ {First(s)}]>>]
    BY <1>4 DEF Next1
  <2>3. f[First(s)] \in Byte
    BY <1>2, <1>4, FirstIs
  <2> QED
    BY <1>4, <2>1, <2>2, <2>3, Operations
<1> HIDE DEF e
<1>5. Closed(MulOp, 1)
  BY MulMonoid DEF Monoid
<1>6. PICK it \in [SUBSET T -> Byte] : FoldsUp(it, MulOp, 1, f)
  BY <1>2, <1>5, FoldExists
<1>7. \A s \in SUBSET T : Next1(it, MulOp, 1, f, s) = e(it, s)
  <2> TAKE s \in SUBSET T
  <2>1. s # {} => it[s \ {First(s)}] \in Byte
    OBVIOUS
  <2> QED
    BY <1>3, <1>4, <2>1
<1>8. it = [s \in SUBSET DOMAIN f |-> e(it, s)]
  BY <1>2, <1>6, <1>7 DEF FoldsUp
<1>9. acc = [s \in SUBSET DOMAIN f |-> e(acc, s)]
  BY <1>8, Zenon
<1> HIDE DEF acc
<1>10. \A s \in SUBSET T : acc[s] = e(acc, s)
  BY <1>2, <1>9
<1>11. Obeys(acc, MulOp, 1, f)
  BY <1>2, <1>3, <1>4, <1>10 DEF Obeys
<1>12. Alike(f, F, T)
  BY <1>2 DEF Alike, Bytes
<1> QED
  BY <1>1, <1>2, <1>5, <1>11, <1>12, OverAgrees DEF Pi

LEMMA FoldIsSigma ==
  ASSUME NEW T \in SUBSET Byte, NEW f \in [T -> Byte], NEW F \in Bytes, \A x \in T : f[x] = F[x]
  PROVE  FoldFunction(Xor, 0, f) = Sigma(F, T)
<1> DEFINE e(it, s) == IF s = {} THEN 0 ELSE LET x == CHOOSE x \in s : TRUE IN Xor(f[x], it[s \ {x}])
           acc == CHOOSE it : it = [s \in SUBSET DOMAIN f |-> e(it, s)]
<1>1. FoldFunction(Xor, 0, f) = acc[DOMAIN f]
  BY Zenon DEF FoldFunction, FoldFunctionOnSet, MapThenFoldSet
<1>2. DOMAIN f = T /\ IsFiniteSet(T) /\ \A s \in SUBSET T : IsFiniteSet(s)
  BY BytesAreFinite
<1>3. \A it, s : s = {} => e(it, s) = Next1(it, XorOp, 0, f, s)
  BY DEF Next1
<1>4. ASSUME NEW it, NEW s \in SUBSET T, s # {}, it[s \ {First(s)}] \in Byte
      PROVE  e(it, s) = Next1(it, XorOp, 0, f, s)
  <2>1. e(it, s) = Xor(f[First(s)], it[s \ {First(s)}])
    BY <1>4, Zenon DEF First
  <2>2. Next1(it, XorOp, 0, f, s) = XorOp[<<f[First(s)], it[s \ {First(s)}]>>]
    BY <1>4 DEF Next1
  <2>3. f[First(s)] \in Byte
    BY <1>2, <1>4, FirstIs
  <2> QED
    BY <1>4, <2>1, <2>2, <2>3, Operations
<1> HIDE DEF e
<1>5. Closed(XorOp, 0)
  BY XorMonoid DEF Monoid
<1>6. PICK it \in [SUBSET T -> Byte] : FoldsUp(it, XorOp, 0, f)
  BY <1>2, <1>5, FoldExists
<1>7. \A s \in SUBSET T : Next1(it, XorOp, 0, f, s) = e(it, s)
  <2> TAKE s \in SUBSET T
  <2>1. s # {} => it[s \ {First(s)}] \in Byte
    OBVIOUS
  <2> QED
    BY <1>3, <1>4, <2>1
<1>8. it = [s \in SUBSET DOMAIN f |-> e(it, s)]
  BY <1>2, <1>6, <1>7 DEF FoldsUp
<1>9. acc = [s \in SUBSET DOMAIN f |-> e(acc, s)]
  BY <1>8, Zenon
<1> HIDE DEF acc
<1>10. \A s \in SUBSET T : acc[s] = e(acc, s)
  BY <1>2, <1>9
<1>11. Obeys(acc, XorOp, 0, f)
  BY <1>2, <1>3, <1>4, <1>10 DEF Obeys
<1>12. Alike(f, F, T)
  BY <1>2 DEF Alike, Bytes
<1> QED
  BY <1>1, <1>2, <1>5, <1>11, <1>12, OverAgrees DEF Sigma

\* What holds of no bytes and of a set when it holds of all but one of its
\* members holds of every set of bytes.
LEMMA OneByOne ==
  ASSUME NEW Q, {} \in Q, \A s \in SUBSET Byte : \A a \in s : s \ {a} \in Q => s \in Q
  PROVE  SUBSET Byte \subseteq Q
<1> DEFINE Bad == {s \in SUBSET Byte : s \notin Q}
           N == {Cardinality(s) : s \in Bad}
<1> SUFFICES ASSUME Bad # {} PROVE FALSE
  OBVIOUS
<1>1. PICK s \in Bad : \A r \in Bad : Cardinality(s) <= Cardinality(r)
  <2>1. N # {} /\ N \subseteq Nat
    BY BytesAreFinite
  <2>2. PICK m \in N : \A x \in N : m <= x
    <3> HIDE DEF N
    <3> QED
      BY <2>1, Smallest
  <2> HIDE DEF Bad
  <2> QED
    BY <2>2
<1>2. s # {} /\ IsFiniteSet(s) /\ Cardinality(s) \in Nat
  BY BytesAreFinite
<1>3. PICK a \in s : TRUE
  BY <1>2
<1>4. Cardinality(s \ {a}) = Cardinality(s) - 1
  BY <1>2, <1>3, FS_RemoveElement
<1>5. s \ {a} \notin Bad
  <2> HIDE DEF Bad
  <2> QED
    BY <1>1, <1>2, <1>4
<1> QED
  BY <1>3, <1>5

\* Functions of bytes, by point.
Const(c)    == [x \in Byte |-> c]
Plus(F, G)  == [x \in Byte |-> Xor(F[x], G[x])]
Times(F, G) == [x \in Byte |-> mul(F[x], G[x])]

LEMMA PointWise ==
  ASSUME NEW F \in Bytes, NEW G \in Bytes, NEW c \in Byte
  PROVE  /\ Const(c) \in Bytes /\ Plus(F, G) \in Bytes /\ Times(F, G) \in Bytes
         /\ \A x \in Byte : /\ F[x] \in Byte /\ G[x] \in Byte /\ Const(c)[x] = c
                            /\ Plus(F, G)[x] = Xor(F[x], G[x])
                            /\ Times(F, G)[x] = mul(F[x], G[x])
<1>1. \A x \in Byte : F[x] \in Byte /\ G[x] \in Byte
  BY DEF Bytes
<1>2. \A x \in Byte : Xor(F[x], G[x]) \in Byte /\ mul(F[x], G[x]) \in Byte
  BY <1>1, Operations
<1>3. Const(c) \in Bytes /\ Plus(F, G) \in Bytes /\ Times(F, G) \in Bytes
  BY <1>2 DEF Const, Plus, Times, Bytes
<1>4. \A x \in Byte : /\ Const(c)[x] = c /\ Plus(F, G)[x] = Xor(F[x], G[x])
                      /\ Times(F, G)[x] = mul(F[x], G[x])
  BY DEF Const, Plus, Times
<1> QED
  BY <1>1, <1>3, <1>4

LEMMA SigmaAdds ==
  ASSUME NEW F \in Bytes, NEW G \in Bytes, NEW T \in SUBSET Byte
  PROVE  Sigma(Plus(F, G), T) = Xor(Sigma(F, T), Sigma(G, T))
<1> DEFINE H == Plus(F, G)
           Q == {s \in SUBSET Byte : Sigma(H, s) = Xor(Sigma(F, s), Sigma(G, s))}
<1>1. H \in Bytes /\ \A x \in Byte : F[x] \in Byte /\ G[x] \in Byte /\ H[x] = Xor(F[x], G[x])
  <2>1. PICK c \in Byte : TRUE
    BY ZeroAndOne
  <2> QED
    BY <2>1, PointWise
<1> HIDE DEF H
<1>2. {} \in Q
  <2>1. Sigma(H, {}) = 0 /\ Sigma(F, {}) = 0 /\ Sigma(G, {}) = 0
    BY <1>1, SigmaIs
  <2> QED
    BY <2>1, ZeroAndOne, XorLaws
<1>3. ASSUME NEW s \in SUBSET Byte, NEW a \in s, s \ {a} \in Q PROVE s \in Q
  <2> DEFINE r == s \ {a}
  <2>1. r \in SUBSET Byte /\ a \in Byte
    OBVIOUS
  <2>2. Sigma(H, r) = Xor(Sigma(F, r), Sigma(G, r))
    BY <1>3
  <2>3. /\ Sigma(H, s) = Xor(H[a], Sigma(H, r)) /\ Sigma(F, s) = Xor(F[a], Sigma(F, r))
        /\ Sigma(G, s) = Xor(G[a], Sigma(G, r))
    BY <1>1, SigmaIs
  <2> HIDE DEF r
  <2>4. Sigma(F, r) \in Byte /\ Sigma(G, r) \in Byte
    BY <2>1, SigmaIs
  <2>5. Xor(Xor(F[a], G[a]), Xor(Sigma(F, r), Sigma(G, r)))
          = Xor(Xor(F[a], Sigma(F, r)), Xor(G[a], Sigma(G, r)))
    BY <1>1, <2>1, <2>4, XorSwap
  <2>6. Sigma(H, s) = Xor(Sigma(F, s), Sigma(G, s))
    BY <1>1, <2>1, <2>2, <2>3, <2>5
  <2> QED
    BY <2>6
<1>4. T \in Q
  <2> HIDE DEF Q
  <2> QED
    BY <1>2, <1>3, OneByOne
<1> QED
  BY <1>4 DEF H

LEMMA SigmaScales ==
  ASSUME NEW c \in Byte, NEW F \in Bytes, NEW T \in SUBSET Byte
  PROVE  Sigma(Times(Const(c), F), T) = mul(c, Sigma(F, T))
<1> DEFINE H == Times(Const(c), F)
           Q == {s \in SUBSET Byte : Sigma(H, s) = mul(c, Sigma(F, s))}
<1>1. H \in Bytes /\ \A x \in Byte : F[x] \in Byte /\ H[x] = mul(c, F[x])
  <2>1. Const(c) \in Bytes /\ \A x \in Byte : Const(c)[x] = c
    BY PointWise
  <2> QED
    BY <2>1, PointWise
<1> HIDE DEF H
<1>2. {} \in Q
  <2>1. Sigma(H, {}) = 0 /\ Sigma(F, {}) = 0
    BY <1>1, SigmaIs
  <2> QED
    BY <2>1, ZeroMul
<1>3. ASSUME NEW s \in SUBSET Byte, NEW a \in s, s \ {a} \in Q PROVE s \in Q
  <2> DEFINE r == s \ {a}
  <2>1. r \in SUBSET Byte /\ a \in Byte
    OBVIOUS
  <2>2. Sigma(H, r) = mul(c, Sigma(F, r))
    BY <1>3
  <2>3. Sigma(H, s) = Xor(H[a], Sigma(H, r)) /\ Sigma(F, s) = Xor(F[a], Sigma(F, r))
    BY <1>1, SigmaIs
  <2> HIDE DEF r
  <2>4. Sigma(F, r) \in Byte
    BY <2>1, SigmaIs
  <2>5. mul(c, Xor(F[a], Sigma(F, r))) = Xor(mul(c, F[a]), mul(c, Sigma(F, r)))
    BY <1>1, <2>1, <2>4, MulDistributes
  <2>6. Sigma(H, s) = mul(c, Sigma(F, s))
    BY <1>1, <2>1, <2>2, <2>3, <2>5
  <2> QED
    BY <2>6
<1>4. T \in Q
  <2> HIDE DEF Q
  <2> QED
    BY <1>2, <1>3, OneByOne
<1> QED
  BY <1>4 DEF H

LEMMA PiNotZero ==
  ASSUME NEW F \in Bytes, NEW T \in SUBSET Byte, \A x \in T : F[x] # 0
  PROVE  Pi(F, T) \in Byte \ {0}
<1> DEFINE Q == {s \in SUBSET Byte : s \subseteq T => Pi(F, s) \in Byte \ {0}}
<1>1. {} \in Q
  BY PiIs, ZeroAndOne
<1>2. ASSUME NEW s \in SUBSET Byte, NEW a \in s, s \ {a} \in Q PROVE s \in Q
  <2> SUFFICES ASSUME s \subseteq T PROVE Pi(F, s) \in Byte \ {0}
    OBVIOUS
  <2>1. Pi(F, s \ {a}) \in Byte \ {0}
    BY <1>2
  <2>2. Pi(F, s) = mul(F[a], Pi(F, s \ {a}))
    BY PiIs
  <2>3. F[a] \in Byte \ {0}
    BY DEF Bytes
  <2> QED
    BY <2>1, <2>2, <2>3, MulNotZero
<1>3. T \in Q
  <2> HIDE DEF Q
  <2> QED
    BY <1>1, <1>2, OneByOne
<1> QED
  BY <1>3

--------------------------------------------------------------------------------
(* Divided differences: a polynomial has none over more points than its       *)
(* degree asks for.                                                           *)

Ident    == [x \in Byte |-> x]
Shift(a) == [x \in Byte |-> Xor(x, a)]

\* The product of the differences of x to the other points, and its inverse.
Apart(X, x) == Pi(Shift(x), X \ {x})
Weight(X)   == [x \in Byte |-> div(1, Apart(X, x))]

\* The divided difference of F over the points X.
Difference(F, X) == Sigma(Times(F, Weight(X)), X)

LEMMA Differ == ASSUME NEW x \in Byte, NEW t \in Byte, x # t PROVE Xor(x, t) \in Byte \ {0}
<1>1. Xor(x, Xor(x, t)) = t /\ Xor(x, 0) = x
  BY XorUndone, XorLaws
<1> QED
  BY <1>1, XorIsByte

LEMMA ShiftIs ==
  ASSUME NEW a \in Byte
  PROVE  /\ Shift(a) \in Bytes /\ Ident \in Bytes
         /\ \A x \in Byte : Shift(a)[x] = Xor(x, a) /\ Ident[x] = x
  BY XorIsByte DEF Shift, Ident, Bytes

LEMMA WeightIs ==
  ASSUME NEW X \in SUBSET Byte
  PROVE  /\ Weight(X) \in Bytes
         /\ \A x \in Byte : /\ Apart(X, x) \in Byte \ {0}
                            /\ Weight(X)[x] = div(1, Apart(X, x)) /\ Weight(X)[x] \in Byte \ {0}
<1>1. ASSUME NEW x \in Byte PROVE Apart(X, x) \in Byte \ {0}
  <2>1. X \ {x} \in SUBSET Byte
    OBVIOUS
  <2>2. \A t \in X \ {x} : Shift(x)[t] # 0
    BY Differ, ShiftIs
  <2> QED
    BY <2>1, <2>2, ShiftIs, PiNotZero DEF Apart
<1>2. \A x \in Byte : div(1, Apart(X, x)) \in Byte \ {0}
  BY <1>1, InverseIs
<1>3. Weight(X) \in Bytes /\ \A x \in Byte : Weight(X)[x] = div(1, Apart(X, x))
  BY <1>2 DEF Weight, Bytes
<1> QED
  BY <1>1, <1>2, <1>3

LEMMA InverseUnique ==
  ASSUME NEW n \in Byte \ {0}, NEW y \in Byte, mul(y, n) = 1 PROVE y = div(1, n)
<1> DEFINE p == div(1, n)
<1>1. p \in Byte /\ mul(p, n) = 1
  BY InverseIs
<1> HIDE DEF p
<1>2. mul(mul(y, n), p) = mul(y, mul(n, p)) /\ mul(n, p) = mul(p, n)
  BY <1>1, MulAssociates, MulCommutes
<1>3. mul(1, p) = p /\ mul(y, 1) = y
  BY <1>1, ZeroAndOne, MulOne, ZeroMul, MulCommutes
<1> QED
  BY <1>1, <1>2, <1>3 DEF p

\* One point less, and its factor is gone.
LEMMA WeightLess ==
  ASSUME NEW X \in SUBSET Byte, NEW a \in X, NEW x \in Byte, x # a
  PROVE  mul(Xor(x, a), Weight(X)[x]) = Weight(X \ {a})[x]
<1> DEFINE Y == X \ {a}
           u == Xor(x, a)
           n == Apart(Y, x)
           p == Weight(X)[x]
<1>1. Y \in SUBSET Byte
  OBVIOUS
<1>2. n \in Byte \ {0} /\ Weight(Y)[x] = div(1, n)
  BY <1>1, WeightIs
<1>3. Apart(X, x) = mul(u, n)
  <2>1. a \in X \ {x} /\ X \ {x} \in SUBSET Byte /\ (X \ {x}) \ {a} = Y \ {x}
    OBVIOUS
  <2>2. Shift(x) \in Bytes /\ Shift(x)[a] = Xor(a, x)
    BY ShiftIs
  <2>3. Pi(Shift(x), X \ {x}) = mul(Shift(x)[a], Pi(Shift(x), (X \ {x}) \ {a}))
    BY <2>1, <2>2, PiIs
  <2>4. Xor(a, x) = u
    BY XorLaws
  <2> HIDE DEF Y, u
  <2> QED
    BY <2>1, <2>2, <2>3, <2>4 DEF Apart, n
<1>4. p \in Byte /\ mul(p, mul(u, n)) = 1 /\ u \in Byte
  BY <1>3, WeightIs, InverseIs, XorIsByte
<1> HIDE DEF Y, u, n, p
<1>5. mul(mul(u, p), n) = mul(p, mul(u, n))
  <2>1. mul(u, p) = mul(p, u) /\ mul(mul(p, u), n) = mul(p, mul(u, n))
    BY <1>2, <1>4, MulCommutes, MulAssociates
  <2> QED
    BY <2>1
<1>6. mul(u, p) = div(1, n)
  BY <1>2, <1>4, <1>5, MulIsByte, InverseUnique
<1> QED
  BY <1>2, <1>6 DEF Y, u, p

LEMMA DifferenceIs ==
  ASSUME NEW X \in SUBSET Byte, NEW F \in Bytes, NEW G \in Bytes, NEW c \in Byte
  PROVE  /\ Difference(F, X) \in Byte
         /\ Difference(Plus(F, G), X) = Xor(Difference(F, X), Difference(G, X))
         /\ Difference(Times(Const(c), F), X) = mul(c, Difference(F, X))
<1> DEFINE W == Weight(X)
<1>1. W \in Bytes /\ \A x \in Byte : F[x] \in Byte /\ G[x] \in Byte /\ W[x] \in Byte
  BY WeightIs, PointWise
<1> HIDE DEF W
<1>2. Times(F, W) \in Bytes /\ Times(G, W) \in Bytes
  BY <1>1, PointWise
<1>3. Difference(F, X) \in Byte
  BY <1>2, SigmaIs DEF Difference, W
<1>4. Times(Plus(F, G), W) = Plus(Times(F, W), Times(G, W))
  <2>1. ASSUME NEW x \in Byte
        PROVE  mul(Xor(F[x], G[x]), W[x]) = Xor(mul(F[x], W[x]), mul(G[x], W[x]))
    <3>1. F[x] \in Byte /\ G[x] \in Byte /\ W[x] \in Byte /\ Xor(F[x], G[x]) \in Byte
      BY <1>1, XorIsByte
    <3>2. mul(W[x], Xor(F[x], G[x])) = Xor(mul(W[x], F[x]), mul(W[x], G[x]))
      BY <3>1, MulDistributes
    <3> QED
      BY <3>1, <3>2, MulCommutes
  <2> QED
    BY <2>1 DEF Times, Plus
<1>5. Times(Times(Const(c), F), W) = Times(Const(c), Times(F, W))
  <2>1. \A x \in Byte : mul(mul(c, F[x]), W[x]) = mul(c, mul(F[x], W[x]))
    BY <1>1, MulAssociates
  <2> QED
    BY <2>1 DEF Times, Const
<1> QED
  BY <1>2, <1>3, <1>4, <1>5, SigmaAdds, SigmaScales DEF Difference, W

LEMMA DifferenceShift ==
  ASSUME NEW X \in SUBSET Byte, NEW F \in Bytes, NEW a \in X
  PROVE  Difference(Times(Shift(a), F), X) = Difference(F, X \ {a})
<1> DEFINE Y == X \ {a}
           W == Weight(X)
           H == Times(Times(Shift(a), F), W)
           K == Times(F, Weight(Y))
<1>1. Y \in SUBSET Byte /\ a \in Byte
  OBVIOUS
<1>2. /\ Shift(a) \in Bytes /\ W \in Bytes /\ Weight(Y) \in Bytes
      /\ \A x \in Byte : Shift(a)[x] = Xor(x, a) /\ Xor(x, a) \in Byte
  BY <1>1, ShiftIs, WeightIs, XorIsByte
<1>3. Times(Shift(a), F) \in Bytes /\ \A x \in Byte : Times(Shift(a), F)[x] = mul(Xor(x, a), F[x])
  BY <1>2, PointWise
<1>4. \A x \in Byte : F[x] \in Byte /\ W[x] \in Byte
  BY <1>2, PointWise
<1>5. H \in Bytes /\ \A x \in Byte : H[x] = mul(mul(Xor(x, a), F[x]), W[x])
  BY <1>2, <1>3, PointWise
<1>6. K \in Bytes /\ \A x \in Byte : K[x] = mul(F[x], Weight(Y)[x])
  <2> HIDE DEF Y
  <2> QED
    BY <1>1, <1>2, PointWise
<1>7. H[a] = 0
  <2>1. Xor(a, a) = 0
    BY <1>1, XorLaws
  <2> QED
    BY <1>1, <1>5, <2>1, ZeroMul
<1> HIDE DEF H, K, W
<1>8. ASSUME NEW x \in Y PROVE H[x] = K[x]
  <2>1. x \in Byte /\ x # a
    OBVIOUS
  <2>2. mul(Xor(x, a), W[x]) = Weight(Y)[x]
    BY <2>1, WeightLess DEF W
  <2>3. mul(mul(Xor(x, a), F[x]), W[x]) = mul(F[x], mul(Xor(x, a), W[x]))
    <3>1. Xor(x, a) \in Byte /\ F[x] \in Byte /\ W[x] \in Byte
      BY <1>2, <1>4, <2>1
    <3>2. mul(Xor(x, a), F[x]) = mul(F[x], Xor(x, a))
      BY <3>1, MulCommutes
    <3> QED
      BY <3>1, <3>2, MulAssociates
  <2> QED
    BY <1>5, <1>6, <2>1, <2>2, <2>3
<1>9. Sigma(H, X) = Xor(0, Sigma(H, Y))
  BY <1>5, <1>7, SigmaIs
<1> HIDE DEF Y
<1>10. Sigma(H, Y) \in Byte /\ Sigma(H, Y) = Sigma(K, Y)
  BY <1>1, <1>5, <1>6, <1>8, SigmaIs, SameTotals
<1>11. Sigma(H, X) = Sigma(K, Y)
  BY <1>9, <1>10, XorLaws
<1> QED
  BY <1>11 DEF Difference, H, K, W, Y

\* The divided differences of F are 0 over more than d + 1 points.
Vanishes(F, d) == \A X \in SUBSET Byte : Cardinality(X) >= d + 2 => Difference(F, X) = 0

LEMMA ConstVanishes == Vanishes(Const(1), 0)
<1> DEFINE One(X) == Difference(Const(1), X) = IF Cardinality(X) = 1 THEN 1 ELSE 0
           Bad == {X \in SUBSET Byte : Cardinality(X) >= 1 /\ ~One(X)}
           N == {Cardinality(X) : X \in Bad}
<1>0. Const(1) \in Bytes /\ \A x \in Byte : Const(1)[x] = 1
  <2>1. PICK c \in Byte : c = 1
    BY ZeroAndOne
  <2> QED
    BY <2>1 DEF Const, Bytes
<1>1. SUFFICES ASSUME Bad # {} PROVE FALSE
  <2>1. \A X \in SUBSET Byte : Cardinality(X) >= 1 => One(X)
    BY <1>1
  <2>2. \A X \in SUBSET Byte : Cardinality(X) \in Nat
    BY BytesAreFinite
  <2> QED
    BY <2>1, <2>2 DEF Vanishes
<1>2. PICK X \in Bad : \A Y \in Bad : Cardinality(X) <= Cardinality(Y)
  <2>1. N # {} /\ N \subseteq Nat
    BY <1>1, BytesAreFinite
  <2>2. PICK m \in N : \A x \in N : m <= x
    <3> HIDE DEF N
    <3> QED
      BY <2>1, Smallest
  <2> HIDE DEF Bad
  <2> QED
    BY <2>2
<1>3. X \in SUBSET Byte /\ IsFiniteSet(X) /\ Cardinality(X) \in Nat /\ Cardinality(X) >= 1 /\ ~One(X)
  BY <1>2, BytesAreFinite
<1>4. \A a \in X : /\ X \ {a} \in SUBSET Byte /\ Cardinality(X \ {a}) = Cardinality(X) - 1
                   /\ Cardinality(X) >= 2 => One(X \ {a})
  <2> TAKE a \in X
  <2>1. X \ {a} \in SUBSET Byte /\ Cardinality(X \ {a}) = Cardinality(X) - 1
    BY <1>3, FS_RemoveElement
  <2>2. X \ {a} \notin Bad
    <3>1. ~ Cardinality(X) <= Cardinality(X \ {a})
      BY <1>3, <2>1
    <3> HIDE DEF Bad
    <3> QED
      BY <1>2, <3>1
  <2>3. Cardinality(X) >= 2 => Cardinality(X \ {a}) >= 1
    BY <1>3, <2>1
  <2> HIDE DEF One
  <2> QED
    BY <2>1, <2>2, <2>3
<1> HIDE DEF Bad
<1>5. CASE Cardinality(X) = 1
  <2>1. PICK a : X = {a}
    BY <1>3, <1>5, FS_Singleton
  <2>2. Times(Const(1), Weight(X)) \in Bytes /\ Times(Const(1), Weight(X))[a] = Weight(X)[a]
    <3>1. a \in Byte /\ Weight(X) \in Bytes /\ Weight(X)[a] \in Byte \ {0}
      BY <1>3, <2>1, WeightIs
    <3> QED
      BY <1>0, <3>1, PointWise, MulOne
  <2>3. X \ {a} = {}
    BY <2>1
  <2>4. Weight(X)[a] = 1
    <3>1. Apart(X, a) = 1
      BY <1>3, <2>1, <2>3, ShiftIs, PiIs DEF Apart
    <3>2. div(1, 1) = 1
      BY ZeroAndOne, MulOne, InverseUnique
    <3> QED
      BY <1>3, <2>1, <3>1, <3>2, WeightIs
  <2>5. Difference(Const(1), X) = Xor(1, 0)
    <3>1. /\ Sigma(Times(Const(1), Weight(X)), X)
               = Xor(Times(Const(1), Weight(X))[a], Sigma(Times(Const(1), Weight(X)), X \ {a}))
          /\ Sigma(Times(Const(1), Weight(X)), {}) = 0
      BY <1>3, <2>1, <2>2, SigmaIs
    <3> QED
      BY <2>2, <2>3, <2>4, <3>1 DEF Difference
  <2> QED
    BY <1>3, <1>5, <2>5, ZeroAndOne, XorLaws
<1>6. CASE Cardinality(X) >= 2
  <2>1. PICK a \in X : TRUE
    BY <1>3, <1>6, FS_EmptySet
  <2>2. PICK b \in X : b # a
    <3> SUFFICES ASSUME X = {a} PROVE FALSE
      BY <2>1
    <3>1. Cardinality(X) = 1
      BY FS_Singleton
    <3> QED
      BY <1>6, <3>1
  <2> DEFINE D(Y) == Difference(Const(1), Y)
             c == Xor(a, b)
  <2>3. a \in Byte /\ b \in Byte /\ c \in Byte \ {0}
    BY <1>3, <2>2, Differ
  <2>4. D(X \ {a}) = D(X \ {b})
    BY <1>3, <1>4, <1>6, <2>1, <2>2
  <2>5. /\ Shift(a) \in Bytes /\ Shift(b) \in Bytes
        /\ \A x \in Byte : Shift(a)[x] = Xor(x, a) /\ Shift(b)[x] = Xor(x, b)
    BY <2>3, ShiftIs
  <2>6. Times(Shift(a), Const(1)) = Shift(a) /\ Times(Shift(b), Const(1)) = Shift(b)
    <3>1. \A x \in Byte : mul(x, 1) = x
      BY ZeroAndOne, MulOne, ZeroMul, MulCommutes
    <3>2. \A x \in Byte : mul(Shift(a)[x], 1) = Xor(x, a) /\ mul(Shift(b)[x], 1) = Xor(x, b)
      BY <2>3, <2>5, <3>1, XorIsByte
    <3> QED
      BY <1>0, <3>2 DEF Times, Shift
  <2>7. D(X \ {a}) = Difference(Shift(a), X) /\ D(X \ {b}) = Difference(Shift(b), X)
    BY <1>0, <1>3, <2>1, <2>2, <2>6, DifferenceShift
  <2>8. Plus(Shift(a), Shift(b)) = Times(Const(c), Const(1))
    <3>1. \A x \in Byte : Xor(Xor(x, a), Xor(x, b)) = c
      <4> TAKE x \in Byte
      <4>1. Xor(Xor(x, a), Xor(x, b)) = Xor(Xor(x, x), Xor(a, b))
        BY <2>3, XorSwap
      <4>2. Xor(x, x) = 0
        BY XorLaws
      <4> HIDE DEF c
      <4>3. Xor(0, c) = c
        BY <2>3, XorLaws
      <4> QED
        BY <4>1, <4>2, <4>3 DEF c
    <3> HIDE DEF c
    <3>2. mul(c, 1) = c
      BY <2>3, ZeroAndOne, MulOne, MulCommutes
    <3>3. \A x \in Byte : Const(c)[x] = c
      BY DEF Const
    <3> QED
      BY <1>0, <2>5, <3>1, <3>2, <3>3 DEF Plus, Times
  <2> HIDE DEF c
  <2>9. mul(c, D(X)) = Xor(D(X \ {a}), D(X \ {b}))
    <3>1. Difference(Plus(Shift(a), Shift(b)), X) = Xor(Difference(Shift(a), X), Difference(Shift(b), X))
      BY <1>3, <2>3, <2>5, DifferenceIs
    <3>2. Difference(Times(Const(c), Const(1)), X) = mul(c, D(X))
      BY <1>0, <1>3, <2>3, DifferenceIs
    <3> HIDE DEF D
    <3> QED
      BY <2>7, <2>8, <3>1, <3>2
  <2>10. D(X) \in Byte /\ D(X \ {b}) \in Byte
    BY <1>0, <1>3, <1>4, <2>2, ZeroAndOne, DifferenceIs
  <2> HIDE DEF D
  <2>11. mul(c, D(X)) = 0
    BY <2>4, <2>9, <2>10, XorLaws
  <2>12. D(X) = 0
    BY <2>3, <2>10, <2>11, MulNotZero
  <2> QED
    BY <1>3, <1>6, <2>12 DEF D
<1> QED
  BY <1>3, <1>5, <1>6

LEMMA VanishTimes ==
  ASSUME NEW F \in Bytes, NEW d \in Nat, Vanishes(F, d)
  PROVE  Vanishes(Times(F, Ident), d + 1)
<1> SUFFICES ASSUME NEW X \in SUBSET Byte, Cardinality(X) >= d + 3
             PROVE  Difference(Times(F, Ident), X) = 0
  BY DEF Vanishes
<1>1. IsFiniteSet(X) /\ Cardinality(X) \in Nat
  BY BytesAreFinite
<1>2. PICK a \in X : TRUE
  BY <1>1, FS_EmptySet
<1>3. X \ {a} \in SUBSET Byte /\ Cardinality(X \ {a}) >= d + 2 /\ Cardinality(X) >= d + 2
  <2>1. Cardinality(X \ {a}) = Cardinality(X) - 1
    BY <1>1, <1>2, FS_RemoveElement
  <2> QED
    BY <1>1, <2>1
<1>4. Difference(F, X) = 0 /\ Difference(F, X \ {a}) = 0
  BY <1>3 DEF Vanishes
<1>5. Times(F, Ident) = Plus(Times(Shift(a), F), Times(Const(a), F))
  <2>1. ASSUME NEW x \in Byte PROVE mul(F[x], x) = Xor(mul(Xor(x, a), F[x]), mul(a, F[x]))
    <3>1. F[x] \in Byte /\ a \in Byte /\ Xor(x, a) \in Byte
      BY XorIsByte DEF Bytes
    <3>2. Xor(mul(Xor(x, a), F[x]), mul(a, F[x])) = mul(F[x], Xor(Xor(x, a), a))
      <4>1. mul(F[x], Xor(Xor(x, a), a)) = Xor(mul(F[x], Xor(x, a)), mul(F[x], a))
        BY <3>1, MulDistributes
      <4> QED
        BY <3>1, <4>1, MulCommutes
    <3>3. Xor(Xor(x, a), a) = x
      <4>1. Xor(Xor(x, a), a) = Xor(x, Xor(a, a)) /\ Xor(a, a) = 0 /\ Xor(x, 0) = x
        BY <3>1, XorLaws
      <4> QED
        BY <4>1
    <3> QED
      BY <3>2, <3>3
  <2> QED
    BY <2>1 DEF Times, Plus, Shift, Const, Ident
<1>6. /\ Times(Shift(a), F) \in Bytes /\ Times(Const(a), F) \in Bytes
  BY ShiftIs, PointWise
<1>7. Difference(Times(F, Ident), X)
        = Xor(Difference(Times(Shift(a), F), X), Difference(Times(Const(a), F), X))
  BY <1>5, <1>6, DifferenceIs
<1>8. Difference(Times(Shift(a), F), X) = 0
  BY <1>2, <1>4, DifferenceShift
<1>9. Difference(Times(Const(a), F), X) = mul(a, 0)
  BY <1>2, <1>4, DifferenceIs
<1> QED
  BY <1>7, <1>8, <1>9, ZeroMul, ZeroAndOne, XorLaws

LEMMA VanishSum ==
  ASSUME NEW F \in Bytes, NEW G \in Bytes, NEW c \in Byte, NEW d \in Nat,
         Vanishes(F, d), Vanishes(G, d)
  PROVE  Vanishes(Plus(F, Times(Const(c), G)), d)
<1> SUFFICES ASSUME NEW X \in SUBSET Byte, Cardinality(X) >= d + 2
             PROVE  Difference(Plus(F, Times(Const(c), G)), X) = 0
  BY DEF Vanishes
<1>1. Difference(F, X) = 0 /\ Difference(G, X) = 0
  BY DEF Vanishes
<1>2. Times(Const(c), G) \in Bytes
  BY PointWise
<1>3. Difference(Times(Const(c), G), X) = mul(c, 0)
  BY <1>1, DifferenceIs
<1>4. Difference(Plus(F, Times(Const(c), G)), X) = Xor(0, mul(c, 0))
  BY <1>1, <1>2, <1>3, DifferenceIs
<1> QED
  BY <1>4, ZeroMul, ZeroAndOne, XorLaws

LEMMA VanishMore ==
  ASSUME NEW F, NEW d \in Nat, Vanishes(F, d) PROVE Vanishes(F, d + 1)
<1> SUFFICES ASSUME NEW X \in SUBSET Byte, Cardinality(X) >= d + 3 PROVE Difference(F, X) = 0
  BY DEF Vanishes
<1>1. Cardinality(X) >= d + 2
  BY BytesAreFinite
<1> QED
  BY <1>1 DEF Vanishes

--------------------------------------------------------------------------------
(* combine finds what split hid.                                              *)

LEMMA PolynomialVanishes ==
  ASSUME NEW secret \in Byte, NEW k \in Nat, NEW coef \in [1 .. k -> Byte], NEW F,
         F = [x \in Byte |-> shareAt(secret, coef, x)]
  PROVE  F \in Bytes /\ Vanishes(F, k) /\ F[0] = secret
<1> DEFINE Acc(acc, x) == shareAt(secret, coef, x) = acc[k][1] /\ AddsUp(acc, secret, coef, x, k)
           A == [x \in Byte |-> CHOOSE acc : Acc(acc, x)]
           R(d) == [x \in Byte |-> A[x][d][1]]
           M(d) == [x \in Byte |-> A[x][d][2]]
<1>1. \A x \in Byte : Acc(A[x], x)
  <2> TAKE x \in Byte
  <2>1. \E acc : Acc(acc, x)
    BY ShareAddsUp
  <2>2. A[x] = CHOOSE acc : Acc(acc, x)
    OBVIOUS
  <2> HIDE DEF Acc, A
  <2> QED
    BY <2>1, <2>2
<1> HIDE DEF A
<1>2. \A x \in Byte : /\ A[x][0] = <<secret, 1>> /\ shareAt(secret, coef, x) = A[x][k][1]
                      /\ \A d \in 0 .. k : A[x][d][1] \in Byte /\ A[x][d][2] \in Byte
  <2> TAKE x \in Byte
  <2>1. AddsUp(A[x], secret, coef, x, k)
    BY <1>1
  <2>2. \A d \in 0 .. k : A[x][d] \in Byte \X Byte
    BY <2>1 DEF AddsUp
  <2>3. A[x][0] = <<secret, 1>>
    BY <2>1 DEF AddsUp
  <2> QED
    BY <1>1, <2>2, <2>3
<1>3. \A d \in 1 .. k, x \in Byte :
        /\ A[x][d][1] = Xor(A[x][d - 1][1], mul(coef[d], mul(A[x][d - 1][2], x)))
        /\ A[x][d][2] = mul(A[x][d - 1][2], x)
  <2> TAKE d \in 1 .. k, x \in Byte
  <2>1. AddsUp(A[x], secret, coef, x, k)
    BY <1>1
  <2>2. A[x][d] = <<Xor(A[x][d - 1][1], mul(coef[d], mul(A[x][d - 1][2], x))), mul(A[x][d - 1][2], x)>>
    BY <2>1 DEF AddsUp
  <2> QED
    BY <2>2
<1>4. \A d \in 0 .. k : R(d) \in Bytes /\ M(d) \in Bytes
  BY <1>2 DEF Bytes
<1>5. F = R(k) /\ F \in Bytes
  <2>1. k \in 0 .. k
    OBVIOUS
  <2>2. \A x \in Byte : shareAt(secret, coef, x) = A[x][k][1]
    BY <1>2
  <2>3. F = R(k)
    BY <2>2, Zenon
  <2> HIDE DEF R
  <2> QED
    BY <1>4, <2>1, <2>3
<1>6. M(0) = Const(1) /\ R(0) = Plus(Const(0), Times(Const(secret), Const(1)))
  <2>1. M(0) = Const(1)
    BY <1>2 DEF Const
  <2>2. Xor(0, mul(secret, 1)) = secret
    <3>1. mul(secret, 1) = secret
      BY ZeroAndOne, MulOne, ZeroMul, MulCommutes
    <3> QED
      BY <3>1, XorLaws
  <2>3. \A x \in Byte : A[x][0][1] = secret
    BY <1>2
  <2> QED
    BY <2>1, <2>2, <2>3 DEF Const, Plus, Times
<1>7. Const(1) \in Bytes /\ Const(0) \in Bytes
  BY ZeroAndOne DEF Const, Bytes
<1>8. Vanishes(M(0), 0) /\ Vanishes(R(0), 0)
  <2>1. Vanishes(Const(1), 0)
    BY ConstVanishes
  <2>2. Vanishes(Const(0), 0)
    <3> SUFFICES ASSUME NEW X \in SUBSET Byte, Cardinality(X) >= 0 + 2 PROVE Difference(Const(0), X) = 0
      BY DEF Vanishes
    <3>1. Const(0) = Times(Const(0), Const(1))
      BY ZeroMul DEF Const, Times
    <3>2. Difference(Times(Const(0), Const(1)), X) = mul(0, Difference(Const(1), X))
      BY <1>7, ZeroAndOne, DifferenceIs
    <3> QED
      BY <3>1, <3>2, ZeroMul
  <2> QED
    BY <1>6, <1>7, <2>1, <2>2, VanishSum
<1>9. ASSUME NEW d \in 1 .. k
      PROVE  /\ M(d) = Times(M(d - 1), Ident)
             /\ R(d) = Plus(R(d - 1), Times(Const(coef[d]), M(d)))
  <2>1. M(d) = Times(M(d - 1), Ident)
    BY <1>3 DEF Times, Ident
  <2>2. \A x \in Byte : A[x][d][1] = Xor(A[x][d - 1][1], mul(coef[d], A[x][d][2]))
    BY <1>3
  <2>3. R(d) = Plus(R(d - 1), Times(Const(coef[d]), M(d)))
    BY <2>2 DEF Plus, Times, Const
  <2> QED
    BY <2>1, <2>3
<1> DEFINE Bad == {d \in 0 .. k : ~ (Vanishes(M(d), d) /\ Vanishes(R(d), d))}
<1>10. Bad = {}
  <2> SUFFICES ASSUME Bad # {} PROVE FALSE
    OBVIOUS
  <2>1. PICK m \in Bad : \A x \in Bad : m <= x
    <3>1. Bad \subseteq Nat
      OBVIOUS
    <3> HIDE DEF Bad
    <3> QED
      BY <3>1, Smallest
  <2> HIDE DEF M, R
  <2>2. m # 0
    BY <1>8
  <2> DEFINE d == m - 1
  <2>3. d \in 0 .. k /\ d \in Nat /\ m = d + 1 /\ m \in 1 .. k /\ d \notin Bad
    BY <2>1, <2>2
  <2> HIDE DEF d
  <2>4. m - 1 = d
    BY <2>3
  <2>5. Vanishes(M(d), d) /\ Vanishes(R(d), d)
    BY <2>3
  <2>6. M(d) \in Bytes /\ R(d) \in Bytes /\ M(m) \in Bytes /\ coef[m] \in Byte
    BY <1>4, <2>3
  <2>7. M(m) = Times(M(d), Ident) /\ R(m) = Plus(R(d), Times(Const(coef[m]), M(m)))
    BY <1>9, <2>3, <2>4
  <2>8. Vanishes(M(m), m)
    BY <2>3, <2>5, <2>6, <2>7, VanishTimes
  <2>9. Vanishes(R(d), m)
    BY <2>3, <2>5, VanishMore
  <2>10. Vanishes(R(m), m)
    BY <2>3, <2>6, <2>7, <2>8, <2>9, VanishSum
  <2> QED
    BY <2>1, <2>8, <2>10
<1>11. Vanishes(F, k)
  <2> HIDE DEF M, R
  <2> QED
    BY <1>5, <1>10
<1>12. F[0] = secret
  <2> DEFINE S == {secret}
  <2>1. 0 \in Byte
    BY ZeroAndOne
  <2>2. ASSUME NEW d \in 1 .. k PROVE A[0][d][1] = A[0][d - 1][1]
    <3>1. d - 1 \in 0 .. k
      OBVIOUS
    <3>2. A[0][d][1] = Xor(A[0][d - 1][1], mul(coef[d], mul(A[0][d - 1][2], 0)))
      BY <1>3, <2>1
    <3>3. A[0][d - 1][1] \in Byte
      BY <1>2, <2>1, <3>1
    <3> QED
      BY <3>2, <3>3, ZeroMul, XorLaws
  <2> DEFINE f == [d \in 0 .. k |-> A[0][d][1]]
  <2>3. f[0] \in S
    BY <1>2, <2>1
  <2>4. \A d \in 1 .. k : f[d - 1] \in S => f[d] \in S
    BY <2>2
  <2> HIDE DEF f
  <2>5. \A d \in 0 .. k : f[d] \in S
    <3> HIDE DEF S
    <3> QED
      BY <2>3, <2>4, FilledFrom
  <2>6. f[k] = secret
    BY <2>5
  <2> QED
    BY <1>2, <2>1, <2>6 DEF f
<1> QED
  BY <1>5, <1>11, <1>12

\* What combine multiplies a share's byte with.
Lagrange(X) == [x \in Byte |-> div(Pi(Ident, X \ {x}), Apart(X, x))]

LEMMA LagrangeIs ==
  ASSUME NEW X \in SUBSET (Byte \ {0})
  PROVE  /\ Lagrange(X) \in Bytes
         /\ \A x \in Byte : /\ Lagrange(X)[x] = div(Pi(Ident, X \ {x}), Apart(X, x))
                            /\ Lagrange(X)[x] = mul(Pi(Ident, X \ {x}), Weight(X)[x])
                            /\ Lagrange(X)[x] \in Byte \ {0}
                            /\ Pi(Ident, X \ {x}) \in Byte \ {0}
<1>1. \A x \in Byte : Pi(Ident, X \ {x}) \in Byte \ {0}
  <2> TAKE x \in Byte
  <2>1. Ident \in Bytes /\ \A t \in X \ {x} : Ident[t] # 0
    <3>1. Ident \in Bytes
      BY ZeroAndOne, ShiftIs
    <3> QED
      BY <3>1 DEF Ident
  <2>2. X \ {x} \in SUBSET Byte
    OBVIOUS
  <2> QED
    BY <2>1, <2>2, PiNotZero
<1>2. X \in SUBSET Byte
  OBVIOUS
<1>3. \A x \in Byte : Apart(X, x) \in Byte \ {0} /\ Weight(X)[x] = div(1, Apart(X, x))
                      /\ Weight(X)[x] \in Byte \ {0}
  BY <1>2, WeightIs
<1>4. \A x \in Byte : div(Pi(Ident, X \ {x}), Apart(X, x)) = mul(Pi(Ident, X \ {x}), Weight(X)[x])
  BY <1>1, <1>3, DivMultiplies
<1>5. \A x \in Byte : mul(Pi(Ident, X \ {x}), Weight(X)[x]) \in Byte \ {0}
  BY <1>1, <1>3, MulNotZero
<1>6. \A x \in Byte : Lagrange(X)[x] = div(Pi(Ident, X \ {x}), Apart(X, x))
  BY DEF Lagrange
<1>7. Lagrange(X) \in Bytes
  BY <1>4, <1>5 DEF Lagrange, Bytes
<1> QED
  BY <1>1, <1>4, <1>5, <1>6, <1>7

\* Interpolation at 0.
LEMMA Interpolates ==
  ASSUME NEW F \in Bytes, NEW k \in Nat, Vanishes(F, k),
         NEW X \in SUBSET (Byte \ {0}), Cardinality(X) >= k + 1
  PROVE  Sigma(Times(F, Lagrange(X)), X) = F[0]
<1> DEFINE Y == X \cup {0}
           W == Weight(Y)
           H == Times(F, W)
           P == Pi(Ident, X)
           L == Times(F, Lagrange(X))
<1>1. /\ X \in SUBSET Byte /\ Y \in SUBSET Byte /\ 0 \in Y /\ 0 \notin X /\ Y \ {0} = X
      /\ X \ {0} = X /\ 0 \in Byte
  BY ZeroAndOne
<1>2. Cardinality(Y) >= k + 2
  <2>1. IsFiniteSet(X) /\ Cardinality(X) \in Nat
    BY <1>1, BytesAreFinite
  <2>2. Cardinality(Y) = Cardinality(X) + 1
    BY <1>1, <2>1, FS_AddElement
  <2> QED
    BY <2>1, <2>2
<1> HIDE DEF Y
<1>3. W \in Bytes /\ \A x \in Byte : W[x] \in Byte /\ F[x] \in Byte
  BY <1>1, WeightIs DEF Bytes
<1> HIDE DEF W
<1>4. H \in Bytes /\ \A x \in Byte : H[x] = mul(F[x], W[x])
  BY <1>1, <1>3, PointWise
<1>5. Lagrange(X) \in Bytes
  BY LagrangeIs
<1>6. L \in Bytes /\ \A x \in Byte : L[x] = mul(F[x], Lagrange(X)[x])
  BY <1>1, <1>5, PointWise
<1>7. P \in Byte \ {0}
  BY <1>1, LagrangeIs
<1>8. Sigma(H, X) = H[0]
  <2>1. Sigma(H, Y) = 0
    BY <1>1, <1>2 DEF Vanishes, Difference, W
  <2>2. Sigma(H, Y) = Xor(H[0], Sigma(H, X))
    <3> HIDE DEF H
    <3>1. Sigma(H, Y) = Xor(H[0], Sigma(H, Y \ {0}))
      BY <1>1, <1>4, SigmaIs
    <3> QED
      BY <1>1, <3>1
  <2>3. H[0] \in Byte /\ Sigma(H, X) \in Byte
    BY <1>1, <1>4, SigmaIs DEF Bytes
  <2> HIDE DEF H
  <2> QED
    BY <2>1, <2>2, <2>3, Differ
<1>9. mul(P, H[0]) = F[0]
  <2>1. Apart(Y, 0) = P
    <3>1. Shift(0) \in Bytes /\ Ident \in Bytes /\ \A t \in X : Shift(0)[t] = Ident[t]
      <4>1. ASSUME NEW t \in X PROVE Shift(0)[t] = Ident[t]
        <5>1. t \in Byte
          BY <1>1
        <5>2. Xor(t, 0) = t
          BY <5>1, XorLaws
        <5> QED
          BY <1>1, <5>1, <5>2, ShiftIs
      <4> QED
        BY <1>1, <4>1, ShiftIs
    <3>2. Pi(Shift(0), X) = Pi(Ident, X)
      BY <1>1, <3>1, SameTotals
    <3> QED
      BY <1>1, <3>2 DEF Apart
  <2>2. W[0] = div(1, P)
    BY <1>1, <2>1, WeightIs DEF W
  <2>3. W[0] \in Byte /\ mul(W[0], P) = 1
    BY <1>7, <2>2, InverseIs
  <2>4. mul(P, mul(F[0], W[0])) = mul(F[0], mul(W[0], P))
    <3>1. F[0] \in Byte
      BY <1>1, <1>3
    <3> HIDE DEF P
    <3>2. mul(P, mul(F[0], W[0])) = mul(mul(F[0], W[0]), P)
      BY <1>7, <2>3, <3>1, MulCommutes, MulIsByte
    <3> QED
      BY <1>7, <2>3, <3>1, <3>2, MulAssociates
  <2>5. mul(F[0], 1) = F[0]
    BY <1>1, <1>3, ZeroAndOne, MulOne, ZeroMul, MulCommutes
  <2> QED
    BY <1>1, <1>4, <2>3, <2>4, <2>5
<1>10. mul(P, Sigma(H, X)) = Sigma(L, X)
  <2>1. Const(P) \in Bytes /\ Times(Const(P), H) \in Bytes
        /\ \A x \in Byte : Times(Const(P), H)[x] = mul(P, H[x])
    <3> HIDE DEF P, H
    <3>1. Const(P) \in Bytes /\ \A x \in Byte : Const(P)[x] = P
      BY <1>4, <1>7, PointWise
    <3> QED
      BY <1>4, <1>7, <3>1, PointWise
  <2>2. ASSUME NEW x \in X PROVE mul(P, H[x]) = L[x]
    <3> DEFINE q == Pi(Ident, X \ {x})
    <3>1. x \in Byte /\ x # 0 /\ q \in Byte \ {0} /\ F[x] \in Byte /\ W[x] \in Byte
      BY <1>1, <1>3, LagrangeIs
    <3>2. P = mul(x, q)
      <4>1. Ident \in Bytes /\ Ident[x] = x
        BY <1>1, <3>1, ShiftIs
      <4> QED
        BY <1>1, <4>1, PiIs
    <3>3. mul(x, W[x]) = Weight(X)[x]
      <4>1. mul(Xor(x, 0), W[x]) = Weight(X)[x]
        BY <1>1, <3>1, WeightLess DEF W
      <4>2. Xor(x, 0) = x
        BY <3>1, XorLaws
      <4> QED
        BY <4>1, <4>2
    <3>4. Lagrange(X)[x] = mul(q, mul(x, W[x]))
      BY <3>1, <3>3, LagrangeIs
    <3> HIDE DEF q, P
    <3>5. mul(mul(x, q), mul(F[x], W[x])) = mul(F[x], mul(q, mul(x, W[x])))
      <4> DEFINE a == F[x]
                 w == W[x]
      <4>1. a \in Byte /\ w \in Byte /\ mul(a, w) \in Byte /\ mul(x, w) \in Byte /\ mul(q, a) \in Byte
        BY <3>1, MulIsByte
      <4> HIDE DEF a, w
      <4>2. mul(mul(x, q), mul(a, w)) = mul(x, mul(q, mul(a, w)))
        BY <3>1, <4>1, MulAssociates
      <4>3. mul(q, mul(a, w)) = mul(mul(q, a), w)
        BY <3>1, <4>1, MulAssociates
      <4>4. mul(x, mul(mul(q, a), w)) = mul(mul(q, a), mul(x, w))
        <5>1. mul(x, mul(mul(q, a), w)) = mul(mul(x, mul(q, a)), w)
          BY <3>1, <4>1, MulAssociates
        <5>2. mul(x, mul(q, a)) = mul(mul(q, a), x)
          BY <3>1, <4>1, MulCommutes
        <5>3. mul(mul(mul(q, a), x), w) = mul(mul(q, a), mul(x, w))
          BY <3>1, <4>1, MulAssociates
        <5> QED
          BY <5>1, <5>2, <5>3
      <4>5. mul(mul(q, a), mul(x, w)) = mul(a, mul(q, mul(x, w)))
        <5>1. mul(q, a) = mul(a, q)
          BY <3>1, <4>1, MulCommutes
        <5>2. mul(mul(a, q), mul(x, w)) = mul(a, mul(q, mul(x, w)))
          BY <3>1, <4>1, MulAssociates
        <5> QED
          BY <5>1, <5>2
      <4>6. mul(mul(x, q), mul(a, w)) = mul(a, mul(q, mul(x, w)))
        BY <4>2, <4>3, <4>4, <4>5
      <4> QED
        BY <4>6 DEF a, w
    <3> HIDE DEF H, L
    <3> QED
      BY <1>4, <1>6, <3>1, <3>2, <3>4, <3>5
  <2>3. \A x \in X : Times(Const(P), H)[x] = L[x]
    BY <1>1, <2>1, <2>2
  <2> HIDE DEF H, L, P
  <2>4. Sigma(Times(Const(P), H), X) = Sigma(L, X)
    BY <1>1, <1>6, <2>1, <2>3, SameTotals
  <2>5. Sigma(Times(Const(P), H), X) = mul(P, Sigma(H, X))
    BY <1>1, <1>4, <1>7, SigmaScales
  <2> QED
    BY <2>4, <2>5
<1> HIDE DEF H, P
<1> QED
  BY <1>8, <1>9, <1>10 DEF L

Points(shares) == {s.x : s \in shares}

\* combine is that sum, of shares that have an x each, not 0.
LEMMA CombineIs ==
  ASSUME NEW shares, CanCombine(shares), NEW F \in Bytes,
         \A s \in shares : s.x \in Byte /\ s.y = F[s.x]
  PROVE  /\ Points(shares) \in SUBSET (Byte \ {0})
         /\ combine(shares) = Sigma(Times(F, Lagrange(Points(shares))), Points(shares))
<1> DEFINE X == {s.x : s \in shares}
<1>1. X \in SUBSET (Byte \ {0})
  BY DEF CanCombine
<1> DEFINE y == [x \in X |-> (CHOOSE s \in shares : s.x = x).y]
           num(x) == FoldFunction(mul, 1, [t \in X \ {x} |-> t])
           den(x) == FoldFunction(mul, 1, [t \in X \ {x} |-> Xor(x, t)])
           f == [x \in X |-> mul(y[x], div(num(x), den(x)))]
           G == Times(F, Lagrange(X))
<1>2. combine(shares) = FoldFunction(Xor, 0, f)
  BY Zenon DEF combine
<1>3. \A x \in X : y[x] = F[x]
  <2> TAKE x \in X
  <2>1. PICK s \in shares : s.x = x
    OBVIOUS
  <2> DEFINE t == CHOOSE t \in shares : t.x = x
  <2>2. t \in shares /\ t.x = x
    BY <2>1
  <2>3. y[x] = t.y
    OBVIOUS
  <2> HIDE DEF t, y
  <2> QED
    BY <2>2, <2>3
<1>4. \A x \in X : num(x) = Pi(Ident, X \ {x})
  <2> TAKE x \in X
  <2> DEFINE g == [t \in X \ {x} |-> t]
  <2>1. X \ {x} \in SUBSET Byte
    BY <1>1
  <2>2. g \in [X \ {x} -> Byte] /\ Ident \in Bytes /\ \A t \in X \ {x} : g[t] = Ident[t]
    <3>1. Ident \in Bytes
      BY ZeroAndOne, ShiftIs
    <3> QED
      BY <2>1, <3>1 DEF Ident
  <2> HIDE DEF g
  <2>3. FoldFunction(mul, 1, g) = Pi(Ident, X \ {x})
    BY <2>1, <2>2, FoldIsPi
  <2> QED
    BY <2>3 DEF g
<1>5. \A x \in X : den(x) = Apart(X, x)
  <2> TAKE x \in X
  <2> DEFINE g == [t \in X \ {x} |-> Xor(x, t)]
  <2>1. X \ {x} \in SUBSET Byte /\ x \in Byte
    BY <1>1
  <2>2. Shift(x) \in Bytes /\ \A t \in Byte : Shift(x)[t] = Xor(t, x) /\ Xor(t, x) = Xor(x, t)
                                              /\ Xor(x, t) \in Byte
    BY <2>1, ShiftIs, XorLaws, XorIsByte
  <2>3. g \in [X \ {x} -> Byte] /\ \A t \in X \ {x} : g[t] = Shift(x)[t]
    BY <2>1, <2>2
  <2> HIDE DEF g
  <2>4. FoldFunction(mul, 1, g) = Pi(Shift(x), X \ {x})
    BY <2>1, <2>2, <2>3, FoldIsPi
  <2> QED
    BY <2>4 DEF g, Apart
<1>6. G \in Bytes /\ \A x \in Byte : G[x] = mul(F[x], Lagrange(X)[x]) /\ G[x] \in Byte
  <2> HIDE DEF X
  <2>1. Lagrange(X) \in Bytes
    BY <1>1, LagrangeIs
  <2>2. G \in Bytes /\ \A x \in Byte : G[x] = mul(F[x], Lagrange(X)[x])
    BY <2>1, ZeroAndOne, PointWise
  <2> HIDE DEF G
  <2> QED
    BY <2>2 DEF Bytes
<1>7. \A x \in X : f[x] = G[x] /\ f[x] \in Byte
  <2> TAKE x \in X
  <2>1. x \in Byte
    BY <1>1
  <2>2. f[x] = mul(y[x], div(num(x), den(x)))
    OBVIOUS
  <2> HIDE DEF y, num, den, f, G
  <2>3. f[x] = mul(F[x], div(Pi(Ident, X \ {x}), Apart(X, x)))
    BY <1>3, <1>4, <1>5, <2>2
  <2>4. Lagrange(X)[x] = div(Pi(Ident, X \ {x}), Apart(X, x))
    BY <1>1, <2>1, LagrangeIs
  <2> QED
    BY <1>6, <2>1, <2>3, <2>4
<1>8. f \in [X -> Byte]
  <2> HIDE DEF X, y, num, den
  <2>1. f = [x \in X |-> f[x]]
    OBVIOUS
  <2> HIDE DEF f
  <2> QED
    BY <1>7, <2>1
<1>9. X \in SUBSET Byte
  BY <1>1
<1> HIDE DEF f, G
<1>10. FoldFunction(Xor, 0, f) = Sigma(G, X)
  BY <1>6, <1>7, <1>8, <1>9, FoldIsSigma
<1> QED
  BY <1>1, <1>2, <1>10 DEF G, Points

\* combine (crypto/secret-sharing/shamir.ts:60) finds the secret from shares of one
\* polynomial, for as many x as it has coefficients, the secret being one, or more.
THEOREM CombineRecovers ==
  ASSUME NEW secret \in Byte, NEW k \in Nat, NEW coef \in [1 .. k -> Byte],
         NEW shares, CanCombine(shares), Cardinality(Points(shares)) >= k + 1,
         \A s \in shares : s.x \in Byte /\ s.y = shareAt(secret, coef, s.x)
  PROVE  combine(shares) = secret
<1> DEFINE F == [x \in Byte |-> shareAt(secret, coef, x)]
           X == Points(shares)
<1>1. F \in Bytes /\ Vanishes(F, k) /\ F[0] = secret
  BY PolynomialVanishes
<1>2. \A s \in shares : s.x \in Byte /\ s.y = F[s.x]
  OBVIOUS
<1> HIDE DEF F
<1>3. X \in SUBSET (Byte \ {0}) /\ combine(shares) = Sigma(Times(F, Lagrange(X)), X)
  BY <1>1, <1>2, CombineIs
<1> QED
  BY <1>1, <1>3, Interpolates

\* With one byte that is not the polynomial's, combine
\* (crypto/secret-sharing/shamir.ts:60) finds another byte than the secret.
THEOREM CombineMisses ==
  ASSUME NEW secret \in Byte, NEW k \in Nat, NEW coef \in [1 .. k -> Byte],
         NEW shares, CanCombine(shares), Cardinality(Points(shares)) >= k + 1,
         NEW w \in shares, w.x \in Byte, w.y \in Byte, w.y # shareAt(secret, coef, w.x),
         \A s \in shares \ {w} : s.x \in Byte /\ s.y = shareAt(secret, coef, s.x)
  PROVE  combine(shares) # secret
<1> DEFINE F == [x \in Byte |-> shareAt(secret, coef, x)]
           G == [x \in Byte |-> IF x = w.x THEN w.y ELSE F[x]]
           X == Points(shares)
           A == Times(F, Lagrange(X))
           B == Times(G, Lagrange(X))
           T == X \ {w.x}
<1>1. F \in Bytes /\ Vanishes(F, k) /\ F[0] = secret
  BY PolynomialVanishes
<1>2. F[w.x] # w.y /\ F[w.x] \in Byte
  BY <1>1 DEF Bytes
<1>3. \A s \in shares : s.x \in Byte /\ s.y = G[s.x]
  <2> TAKE s \in shares
  <2>1. CASE s = w
    BY <2>1
  <2>2. CASE s # w
    <3>1. s.x # w.x
      BY <2>2 DEF CanCombine
    <3> QED
      BY <2>2, <3>1
  <2> QED
    BY <2>1, <2>2
<1> HIDE DEF F
<1>4. G \in Bytes /\ G[w.x] = w.y
  BY <1>1 DEF Bytes
<1>5. \A x \in Byte : x # w.x => G[x] = F[x]
  OBVIOUS
<1> HIDE DEF G
<1>6. X \in SUBSET (Byte \ {0}) /\ combine(shares) = Sigma(B, X)
  BY <1>3, <1>4, CombineIs
<1>7. Sigma(A, X) = secret
  BY <1>1, <1>6, Interpolates
<1>8. w.x \in X /\ X \in SUBSET Byte /\ T \in SUBSET Byte
  BY <1>6 DEF Points
<1> HIDE DEF X
<1>9. Lagrange(X) \in Bytes /\ Lagrange(X)[w.x] \in Byte \ {0}
  BY <1>6, LagrangeIs
<1>10. /\ A \in Bytes /\ \A x \in Byte : A[x] = mul(F[x], Lagrange(X)[x]) /\ A[x] \in Byte
       /\ B \in Bytes /\ \A x \in Byte : B[x] = mul(G[x], Lagrange(X)[x]) /\ B[x] \in Byte
  <2>1. A \in Bytes /\ \A x \in Byte : A[x] = mul(F[x], Lagrange(X)[x])
    BY <1>1, <1>8, <1>9, PointWise
  <2>2. B \in Bytes /\ \A x \in Byte : B[x] = mul(G[x], Lagrange(X)[x])
    BY <1>4, <1>8, <1>9, PointWise
  <2> HIDE DEF A, B
  <2> QED
    BY <2>1, <2>2 DEF Bytes
<1> HIDE DEF A, B
<1>11. Sigma(A, T) = Sigma(B, T) /\ Sigma(A, T) \in Byte
  <2>1. \A x \in T : A[x] = B[x]
    BY <1>5, <1>8, <1>10
  <2> HIDE DEF T
  <2> QED
    BY <1>8, <1>10, <2>1, SameTotals, SigmaIs
<1>12. Sigma(A, X) = Xor(A[w.x], Sigma(A, T)) /\ Sigma(B, X) = Xor(B[w.x], Sigma(A, T))
  <2>1. A \in Bytes /\ B \in Bytes /\ X \in SUBSET Byte
    BY <1>8, <1>10
  <2>2. \A a \in X : Sigma(A, X) = Xor(A[a], Sigma(A, X \ {a}))
    BY <2>1, SigmaIs
  <2>3. \A a \in X : Sigma(B, X) = Xor(B[a], Sigma(B, X \ {a}))
    BY <2>1, SigmaIs
  <2> QED
    BY <1>8, <1>11, <2>2, <2>3
<1>13. A[w.x] # B[w.x]
  <2> DEFINE l == Lagrange(X)[w.x]
             u == F[w.x]
             d == Xor(u, w.y)
  <2>1. d \in Byte \ {0} /\ u \in Byte
    BY <1>2, Differ
  <2>2. mul(l, d) # 0
    BY <1>9, <2>1, MulNotZero
  <2>3. mul(l, d) = Xor(mul(l, u), mul(l, w.y))
    BY <1>9, <2>1, MulDistributes
  <2>4. A[w.x] = mul(l, u) /\ B[w.x] = mul(l, w.y)
    BY <1>4, <1>9, <1>10, <2>1, MulCommutes
  <2>5. A[w.x] \in Byte
    BY <1>10
  <2> HIDE DEF l, u, d
  <2> SUFFICES ASSUME A[w.x] = B[w.x] PROVE FALSE
    OBVIOUS
  <2>6. Xor(A[w.x], A[w.x]) = 0
    BY <2>5, XorLaws
  <2> QED
    BY <2>2, <2>3, <2>4, <2>6
<1>14. Sigma(A, X) # Sigma(B, X)
  <2> DEFINE c == Sigma(A, T)
             a == A[w.x]
             b == B[w.x]
  <2>1. a \in Byte /\ b \in Byte /\ c \in Byte
    BY <1>10, <1>11
  <2> HIDE DEF a, b, c
  <2>2. Xor(c, Xor(c, a)) = a /\ Xor(c, Xor(c, b)) = b /\ Xor(a, c) = Xor(c, a) /\ Xor(b, c) = Xor(c, b)
    BY <2>1, XorUndone, XorLaws
  <2> QED
    BY <1>12, <1>13, <2>2 DEF a, b, c
<1> QED
  BY <1>6, <1>7, <1>14

--------------------------------------------------------------------------------
(* Fewer shares than the quorum: whatever the secret was, another polynomial  *)
(* gives the same shares of another secret.  It differs from the first one by *)
(* a multiple of one that vanishes at the shares and is 1 at 0.               *)

LEMMA MulUnit == ASSUME NEW a \in Byte PROVE mul(1, a) = a /\ mul(a, 1) = a
<1>1. mul(1, a) = a
  BY MulOne, ZeroMul
<1> QED
  BY <1>1, ZeroAndOne, MulCommutes

\* (a b) (c d) is (a d) (b c).
LEMMA MulSwap ==
  ASSUME NEW a \in Byte, NEW b \in Byte, NEW c \in Byte, NEW d \in Byte
  PROVE  mul(mul(a, b), mul(c, d)) = mul(mul(d, b), mul(a, c))
<1>1. /\ mul(a, b) \in Byte /\ mul(c, d) \in Byte /\ mul(a, c) \in Byte /\ mul(d, b) \in Byte
      /\ mul(b, a) \in Byte
  BY MulIsByte
<1>2. mul(mul(a, b), mul(c, d)) = mul(mul(mul(a, b), c), d)
  BY <1>1, MulAssociates
<1>3. mul(mul(a, b), c) = mul(b, mul(a, c))
  <2>1. mul(a, b) = mul(b, a)
    BY MulCommutes
  <2> QED
    BY <2>1, MulAssociates
<1>4. mul(b, mul(a, c)) \in Byte
  BY <1>1, MulIsByte
<1>5. mul(mul(b, mul(a, c)), d) = mul(d, mul(b, mul(a, c)))
  BY <1>4, MulCommutes
<1>6. mul(d, mul(b, mul(a, c))) = mul(mul(d, b), mul(a, c))
  BY <1>1, MulAssociates
<1> QED
  BY <1>2, <1>3, <1>5, <1>6

\* One turn of split's loop for a polynomial that was multiplied by 1 + i x: p
\* is the power of x before, S the sum, and S = Q + c p.
Turns(S, Q, c, p, c1, i, x) ==
    LET xp == mul(p, x)
        y  == mul(x, i)
    IN  Xor(Xor(S, mul(y, Q)), mul(Xor(c1, mul(c, i)), xp)) = Xor(Xor(S, mul(c1, xp)), mul(y, S))

LEMMA RaiseStep ==
  ASSUME NEW Q \in Byte, NEW c \in Byte, NEW p \in Byte, NEW c1 \in Byte, NEW i \in Byte,
         NEW x \in Byte, NEW S, S = Xor(Q, mul(c, p))
  PROVE  Turns(S, Q, c, p, c1, i, x)
<1> DEFINE xp == mul(p, x)
           y == mul(x, i)
           cp == mul(c, p)
           ci == mul(c, i)
<1>1. xp \in Byte /\ y \in Byte /\ cp \in Byte /\ ci \in Byte
  BY MulIsByte
<1>2. mul(ci, xp) = mul(y, cp)
  BY MulSwap
<1> HIDE DEF xp, y, cp, ci
<1>3. S = Xor(Q, cp) /\ S \in Byte
  BY <1>1, XorIsByte DEF cp
<1>4. /\ mul(c1, xp) \in Byte /\ mul(y, cp) \in Byte /\ mul(y, Q) \in Byte /\ Xor(c1, ci) \in Byte
      /\ mul(ci, xp) \in Byte
  BY <1>1, MulIsByte, XorIsByte
<1>5. mul(Xor(c1, ci), xp) = Xor(mul(c1, xp), mul(y, cp))
  <2>1. mul(xp, Xor(c1, ci)) = Xor(mul(xp, c1), mul(xp, ci))
    BY <1>1, MulDistributes
  <2>2. /\ mul(xp, c1) = mul(c1, xp) /\ mul(xp, ci) = mul(ci, xp)
        /\ mul(xp, Xor(c1, ci)) = mul(Xor(c1, ci), xp)
    BY <1>1, <1>4, MulCommutes
  <2> QED
    BY <1>2, <2>1, <2>2
<1>6. mul(y, S) = Xor(mul(y, Q), mul(y, cp))
  BY <1>1, <1>3, MulDistributes
<1>7. Xor(Xor(S, mul(y, Q)), Xor(mul(c1, xp), mul(y, cp)))
        = Xor(Xor(S, mul(c1, xp)), Xor(mul(y, Q), mul(y, cp)))
  BY <1>3, <1>4, XorSwap
<1> QED
  BY <1>5, <1>6, <1>7 DEF xp, y, ci, Turns

\* e2 is e times 1 + i x, which is 0 at t if i is 1 / t.
Times1(e2, e, i) ==
    \A x \in Byte : shareAt(1, e2, x) = Xor(shareAt(1, e, x), mul(mul(x, i), shareAt(1, e, x)))

LEMMA Raised ==
  ASSUME NEW k \in Nat, NEW e \in [1 .. k -> Byte], NEW i \in Byte
  PROVE  \E e2 \in [1 .. k + 1 -> Byte] : Times1(e2, e, i)
<1> DEFINE co == [d \in 0 .. k + 1 |-> IF d = 0 THEN 1 ELSE IF d = k + 1 THEN 0 ELSE e[d]]
           e2 == [d \in 1 .. k + 1 |-> Xor(co[d], mul(co[d - 1], i))]
<1>1. /\ co \in [0 .. k + 1 -> Byte] /\ co[0] = 1 /\ co[k + 1] = 0
      /\ \A d \in 1 .. k : co[d] = e[d]
  BY ZeroAndOne
<1> HIDE DEF co
<1>2. \A d \in 1 .. k + 1 : co[d] \in Byte /\ co[d - 1] \in Byte
  BY <1>1
<1>3. e2 \in [1 .. k + 1 -> Byte] /\ \A d \in 1 .. k + 1 : e2[d] = Xor(co[d], mul(co[d - 1], i))
  BY <1>2, MulIsByte, XorIsByte
<1> HIDE DEF e2
<1>4. ASSUME NEW x \in Byte
      PROVE  shareAt(1, e2, x) = Xor(shareAt(1, e, x), mul(mul(x, i), shareAt(1, e, x)))
  <2>1. PICK acc : shareAt(1, e, x) = acc[k][1] /\ AddsUp(acc, 1, e, x, k)
    BY ZeroAndOne, ShareAddsUp
  <2>2. PICK acc2 : shareAt(1, e2, x) = acc2[k + 1][1] /\ AddsUp(acc2, 1, e2, x, k + 1)
    BY <1>3, ZeroAndOne, ShareAddsUp
  <2> DEFINE y == mul(x, i)
             Q(d) == IF d = 0 THEN 0 ELSE acc[d - 1][1]
             P(d) == /\ acc2[d][2] = acc[d][2]
                     /\ acc2[d][1] = Xor(acc[d][1], mul(y, Q(d)))
  <2>3. \A d \in 0 .. k : acc[d][1] \in Byte /\ acc[d][2] \in Byte
    BY <2>1 DEF AddsUp
  <2>4. ASSUME NEW d \in 0 .. k
        PROVE  Q(d) \in Byte /\ acc[d][1] = Xor(Q(d), mul(co[d], acc[d][2]))
    <3>1. CASE d = 0
      <4>1. acc[0][1] = 1 /\ acc[0][2] = 1
        BY <2>1 DEF AddsUp
      <4>2. Xor(0, mul(1, 1)) = 1
        BY ZeroAndOne, MulUnit, XorLaws
      <4> QED
        BY <1>1, <3>1, <4>1, <4>2, ZeroAndOne
    <3>2. CASE d # 0
      <4>1. d \in 1 .. k /\ d - 1 \in 0 .. k
        BY <3>2
      <4>2. acc[d] = <<Xor(acc[d - 1][1], mul(e[d], mul(acc[d - 1][2], x))), mul(acc[d - 1][2], x)>>
        BY <2>1, <4>1 DEF AddsUp
      <4> QED
        BY <1>1, <2>3, <3>2, <4>1, <4>2
    <3> QED
      BY <3>1, <3>2
  \* one turn of both loops
  <2>5. ASSUME NEW d \in 1 .. k + 1, P(d - 1)
        PROVE  LET xp == mul(acc[d - 1][2], x)
                   S  == acc[d - 1][1]
               IN  acc2[d] = <<Xor(Xor(S, mul(co[d], xp)), mul(y, S)), xp>>
    <3> DEFINE S == acc[d - 1][1]
               p == acc[d - 1][2]
               q == Q(d - 1)
               c == co[d - 1]
               c1 == co[d]
    <3>1. d - 1 \in 0 .. k
      OBVIOUS
    <3>2. /\ q \in Byte /\ S = Xor(q, mul(c, p)) /\ p \in Byte /\ c \in Byte /\ c1 \in Byte
      BY <1>2, <2>3, <2>4, <3>1
    <3>3. acc2[d - 1][2] = p /\ acc2[d - 1][1] = Xor(S, mul(y, q))
      BY <2>5
    <3>4. acc2[d] = <<Xor(acc2[d - 1][1], mul(e2[d], mul(acc2[d - 1][2], x))), mul(acc2[d - 1][2], x)>>
      BY <2>2 DEF AddsUp
    <3>5. e2[d] = Xor(c1, mul(c, i))
      BY <1>3
    <3> HIDE DEF S, p, q, c, c1
    <3>6. Xor(Xor(S, mul(y, q)), mul(Xor(c1, mul(c, i)), mul(p, x)))
            = Xor(Xor(S, mul(c1, mul(p, x))), mul(y, S))
      <4>1. Turns(S, q, c, p, c1, i, x)
        BY <3>2, RaiseStep
      <4> QED
        BY <4>1 DEF Turns
    <3>7. acc2[d] = <<Xor(Xor(S, mul(c1, mul(p, x))), mul(y, S)), mul(p, x)>>
      BY <3>3, <3>4, <3>5, <3>6
    <3> QED
      BY <3>7 DEF S, p, c1
  <2>6. \A d \in 0 .. k : P(d)
    <3> DEFINE f == [d \in 0 .. k |-> P(d)]
               Yes == {TRUE}
    <3>1. P(0)
      <4>1. acc2[0] = <<1, 1>> /\ acc[0] = <<1, 1>>
        BY <2>1, <2>2 DEF AddsUp
      <4>2. mul(y, 0) = 0 /\ Xor(1, 0) = 1
        BY ZeroMul, ZeroAndOne, XorLaws
      <4> QED
        BY <4>1, <4>2
    <3>2. ASSUME NEW d \in 1 .. k, P(d - 1) PROVE P(d)
      <4>1. d \in 1 .. k + 1 /\ d # 0
        OBVIOUS
      <4>2. acc[d] = <<Xor(acc[d - 1][1], mul(e[d], mul(acc[d - 1][2], x))), mul(acc[d - 1][2], x)>>
        BY <2>1 DEF AddsUp
      <4>3. Q(d) = acc[d - 1][1]
        BY <4>1
      <4>4. co[d] = e[d]
        BY <1>1
      <4> HIDE DEF Q
      <4>5. acc2[d] = <<Xor(Xor(acc[d - 1][1], mul(co[d], mul(acc[d - 1][2], x))), mul(y, acc[d - 1][1])),
                        mul(acc[d - 1][2], x)>>
        BY <2>5, <3>2, <4>1
      <4> QED
        BY <4>2, <4>3, <4>4, <4>5
    <3> HIDE DEF P
    <3>3. f[0] \in Yes
      <4>1. 0 \in 0 .. k /\ P(0) = TRUE
        BY <3>1
      <4> QED
        BY <4>1
    <3>4. \A d \in 1 .. k : f[d - 1] \in Yes => f[d] \in Yes
      <4>1. \A d \in 1 .. k : d \in 0 .. k /\ d - 1 \in 0 .. k
        OBVIOUS
      <4>2. \A d \in 1 .. k : f[d] = P(d) /\ f[d - 1] = P(d - 1)
        BY <4>1
      <4> HIDE DEF f
      <4> QED
        BY <3>2, <4>2
    <3> HIDE DEF f, Yes
    <3>5. \A d \in 0 .. k : f[d] \in Yes
      BY <3>3, <3>4, FilledFrom
    <3> QED
      BY <3>5 DEF f, Yes
  <2> HIDE DEF y
  <2>7. P(k) /\ k \in 0 .. k /\ k + 1 \in 1 .. k + 1 /\ (k + 1) - 1 = k
    BY <2>6
  <2> HIDE DEF P
  <2>8. acc2[k + 1][1] = Xor(Xor(acc[k][1], mul(co[k + 1], mul(acc[k][2], x))), mul(y, acc[k][1]))
    BY <2>5, <2>7
  <2>9. Xor(acc[k][1], mul(co[k + 1], mul(acc[k][2], x))) = acc[k][1]
    BY <1>1, <2>3, <2>7, ZeroMul, ZeroAndOne, XorLaws
  <2> QED
    BY <2>1, <2>2, <2>8, <2>9 DEF y
<1> QED
  BY <1>3, <1>4 DEF Times1

\* Wherever k bytes are, a polynomial of degree k that is 1 at 0 is 0 at all.
LEMMA VanishingShare ==
  \A k \in Nat : \A T \in SUBSET (Byte \ {0}) : Cardinality(T) <= k =>
    \E e \in [1 .. k -> Byte] : \A x \in T : shareAt(1, e, x) = 0
<1> DEFINE V(k) == \A T \in SUBSET (Byte \ {0}) : Cardinality(T) <= k =>
                     \E e \in [1 .. k -> Byte] : \A x \in T : shareAt(1, e, x) = 0
           bad == {k \in Nat : ~V(k)}
<1>1. SUFFICES bad = {}
  OBVIOUS
<1> SUFFICES ASSUME bad # {} PROVE FALSE
  OBVIOUS
<1>2. PICK n \in bad : \A m \in bad : n <= m
  <2> bad \subseteq Nat
    OBVIOUS
  <2> HIDE DEF bad
  <2> QED
    BY Smallest
<1>3. ASSUME NEW T \in SUBSET (Byte \ {0}) PROVE T \in SUBSET Byte /\ IsFiniteSet(T)
  BY BytesAreFinite
<1>4. n # 0
  <2> SUFFICES ASSUME n = 0, NEW T \in SUBSET (Byte \ {0}), Cardinality(T) <= 0
               PROVE  \E e \in [1 .. 0 -> Byte] : \A x \in T : shareAt(1, e, x) = 0
    BY <1>2
  <2>1. T = {}
    <3>1. IsFiniteSet(T) /\ Cardinality(T) \in Nat
      BY <1>3, BytesAreFinite
    <3>2. Cardinality(T) = 0
      BY <3>1
    <3> QED
      BY <3>1, <3>2, FS_EmptySet
  <2>2. [d \in 1 .. 0 |-> 0] \in [1 .. 0 -> Byte]
    BY ZeroAndOne
  <2> QED
    BY <2>1, <2>2
<1> DEFINE k == n - 1
<1>5. k \in Nat /\ k + 1 = n /\ k \notin bad /\ n \in Nat /\ ~V(n)
  BY <1>2, <1>4
<1>6. V(k)
  BY <1>5
<1> HIDE DEF bad, k
<1>7. ASSUME NEW T \in SUBSET (Byte \ {0}), Cardinality(T) <= k + 1
      PROVE  \E e \in [1 .. k + 1 -> Byte] : \A x \in T : shareAt(1, e, x) = 0
  <2>1. PICK t \in Byte \ {0} : T \ {t} \in SUBSET (Byte \ {0}) /\ Cardinality(T \ {t}) <= k
    <3>1. CASE T = {}
      <4>1. Cardinality({}) = 0
        BY FS_EmptySet
      <4>2. T \ {1} = {} /\ 1 \in Byte \ {0}
        BY <3>1, ZeroAndOne
      <4>3. Cardinality(T \ {1}) = 0
        BY <4>1, <4>2, Zenon
      <4>4. Cardinality(T \ {1}) <= k
        BY <1>5, <4>3
      <4> QED
        BY <4>2, <4>4, Zenon
    <3>2. CASE T # {}
      <4>1. PICK t \in T : TRUE
        BY <3>2
      <4>2. Cardinality(T \ {t}) = Cardinality(T) - 1 /\ Cardinality(T) \in Nat
        BY <1>3, <4>1, FS_RemoveElement, FS_CardinalityType
      <4>3. Cardinality(T \ {t}) <= k
        BY <1>5, <1>7, <4>2
      <4> QED
        BY <4>1, <4>3
    <3> QED
      BY <3>1, <3>2
  <2>2. PICK e \in [1 .. k -> Byte] : \A x \in T \ {t} : shareAt(1, e, x) = 0
    BY <1>6, <2>1
  <2> DEFINE i == div(1, t)
  <2>3. i \in Byte /\ mul(i, t) = 1
    BY InverseIs
  <2> HIDE DEF i
  <2>4. mul(t, i) = 1
    BY <2>3, MulCommutes
  <2>5. PICK e2 \in [1 .. k + 1 -> Byte] : Times1(e2, e, i)
    BY <1>5, <2>3, Raised
  <2>6. ASSUME NEW x \in T PROVE shareAt(1, e2, x) = 0
    <3>1. x \in Byte
      OBVIOUS
    <3> DEFINE s == shareAt(1, e, x)
    <3>2. s \in Byte /\ shareAt(1, e2, x) = Xor(s, mul(mul(x, i), s))
      BY <1>5, <2>5, <3>1, ZeroAndOne, ShareIsByte DEF Times1
    <3>3. CASE x = t
      <4> HIDE DEF s
      <4>1. mul(1, s) = s /\ Xor(s, s) = 0
        BY <3>2, MulUnit, XorLaws
      <4> QED
        BY <2>4, <3>2, <3>3, <4>1
    <3>4. CASE x # t
      <4>1. s = 0
        BY <2>2, <3>4
      <4> HIDE DEF s
      <4>2. mul(mul(x, i), 0) = 0 /\ Xor(0, 0) = 0
        BY ZeroMul, ZeroAndOne, XorLaws
      <4> QED
        BY <3>2, <4>1, <4>2
    <3> QED
      BY <3>3, <3>4
  <2> QED
    BY <2>6
<1> QED
  BY <1>5, <1>7

\* other is coef plus z times e, of the secret s plus z, and so are its shares.
Moves(other, s, z, coef, e) ==
    \A x \in Byte :
        shareAt(Xor(s, z), other, x) = Xor(shareAt(s, coef, x), mul(z, shareAt(1, e, x)))

LEMMA ShareMoves ==
  ASSUME NEW s \in Byte, NEW z \in Byte, NEW k \in Nat, NEW coef \in [1 .. k -> Byte],
         NEW e \in [1 .. k -> Byte]
  PROVE  \E other \in [1 .. k -> Byte] : Moves(other, s, z, coef, e)
<1> DEFINE other == [d \in 1 .. k |-> Xor(coef[d], mul(z, e[d]))]
<1>1. other \in [1 .. k -> Byte] /\ \A d \in 1 .. k : other[d] = Xor(coef[d], mul(z, e[d]))
  BY MulIsByte, XorIsByte
<1> HIDE DEF other
<1>2. ASSUME NEW x \in Byte
      PROVE  shareAt(Xor(s, z), other, x) = Xor(shareAt(s, coef, x), mul(z, shareAt(1, e, x)))
  <2>1. PICK a : shareAt(s, coef, x) = a[k][1] /\ AddsUp(a, s, coef, x, k)
    BY ShareAddsUp
  <2>2. PICK b : shareAt(1, e, x) = b[k][1] /\ AddsUp(b, 1, e, x, k)
    BY ZeroAndOne, ShareAddsUp
  <2>3. PICK c : shareAt(Xor(s, z), other, x) = c[k][1] /\ AddsUp(c, Xor(s, z), other, x, k)
    BY <1>1, XorIsByte, ShareAddsUp
  <2> DEFINE P(d) == /\ a[d][2] = b[d][2] /\ c[d][2] = b[d][2]
                     /\ c[d][1] = Xor(a[d][1], mul(z, b[d][1]))
             f == [d \in 0 .. k |-> P(d)]
             Yes == {TRUE}
  <2>4. P(0)
    <3>1. a[0] = <<s, 1>> /\ b[0] = <<1, 1>> /\ c[0] = <<Xor(s, z), 1>>
      BY <2>1, <2>2, <2>3 DEF AddsUp
    <3> QED
      BY <3>1, MulUnit
  <2>5. ASSUME NEW d \in 1 .. k, P(d - 1) PROVE P(d)
    <3> DEFINE p == b[d - 1][2]
               xp == mul(p, x)
               A == a[d - 1][1]
               B == b[d - 1][1]
               cd == coef[d]
               ed == e[d]
    <3>1. d - 1 \in 0 .. k
      OBVIOUS
    <3>2. A \in Byte /\ B \in Byte /\ p \in Byte
      BY <2>1, <2>2, <3>1 DEF AddsUp
    <3>3. cd \in Byte /\ ed \in Byte /\ xp \in Byte /\ other[d] = Xor(cd, mul(z, ed))
      BY <1>1, <3>2, MulIsByte
    <3>4. /\ a[d] = <<Xor(A, mul(cd, xp)), xp>> /\ b[d] = <<Xor(B, mul(ed, xp)), xp>>
          /\ c[d] = <<Xor(Xor(A, mul(z, B)), mul(other[d], xp)), xp>>
      <4>1. a[d - 1][2] = p /\ c[d - 1][2] = p /\ c[d - 1][1] = Xor(A, mul(z, B))
        BY <2>5
      <4>2. /\ a[d] = <<Xor(a[d - 1][1], mul(coef[d], mul(a[d - 1][2], x))), mul(a[d - 1][2], x)>>
            /\ b[d] = <<Xor(b[d - 1][1], mul(e[d], mul(b[d - 1][2], x))), mul(b[d - 1][2], x)>>
            /\ c[d] = <<Xor(c[d - 1][1], mul(other[d], mul(c[d - 1][2], x))), mul(c[d - 1][2], x)>>
        BY <2>1, <2>2, <2>3 DEF AddsUp
      <4> QED
        BY <4>1, <4>2
    <3> HIDE DEF p, A, B, cd, ed, xp
    <3> DEFINE zB == mul(z, B)
               ce == mul(cd, xp)
               ex == mul(ed, xp)
               ze == mul(z, ed)
    <3>5. zB \in Byte /\ ce \in Byte /\ ex \in Byte /\ ze \in Byte /\ mul(z, ex) \in Byte
      BY <3>2, <3>3, MulIsByte
    <3>6. mul(other[d], xp) = Xor(ce, mul(z, ex))
      <4>1. Xor(cd, ze) \in Byte
        BY <3>3, <3>5, XorIsByte
      <4>2. mul(xp, Xor(cd, ze)) = Xor(mul(xp, cd), mul(xp, ze))
        BY <3>3, <3>5, MulDistributes
      <4>3. mul(xp, Xor(cd, ze)) = mul(Xor(cd, ze), xp) /\ mul(xp, cd) = ce /\ mul(xp, ze) = mul(ze, xp)
        BY <3>3, <3>5, <4>1, MulCommutes
      <4>4. mul(ze, xp) = mul(z, ex)
        BY <3>3, MulAssociates
      <4> QED
        BY <3>3, <4>2, <4>3, <4>4
    <3>7. mul(z, Xor(B, ex)) = Xor(zB, mul(z, ex))
      BY <3>2, <3>5, MulDistributes
    <3> HIDE DEF zB, ce, ex, ze
    <3>8. Xor(Xor(A, zB), Xor(ce, mul(z, ex))) = Xor(Xor(A, ce), Xor(zB, mul(z, ex)))
      BY <3>2, <3>5, XorSwap
    <3> QED
      BY <3>4, <3>6, <3>7, <3>8 DEF zB, ce, ex
  <2>6. f[0] \in Yes
    BY <2>4
  <2>7. \A d \in 1 .. k : f[d - 1] \in Yes => f[d] \in Yes
    <3>1. \A d \in 1 .. k : d \in 0 .. k /\ d - 1 \in 0 .. k
      OBVIOUS
    <3> HIDE DEF P
    <3>2. \A d \in 1 .. k : f[d] = P(d) /\ f[d - 1] = P(d - 1)
      BY <3>1
    <3> HIDE DEF f
    <3> QED
      BY <2>5, <3>2
  <2> HIDE DEF f, Yes
  <2>8. \A d \in 0 .. k : f[d] \in Yes
    BY <2>6, <2>7, FilledFrom
  <2>9. P(k)
    BY <2>8 DEF f, Yes
  <2> QED
    BY <2>1, <2>2, <2>3, <2>9
<1> QED
  BY <1>1, <1>2 DEF Moves

SameShares(guess, other, secret, coef, T) ==
    \A x \in T : shareAt(guess, other, x) = shareAt(secret, coef, x)

\* With k coefficients, as split (crypto/secret-sharing/shamir.ts:36) draws them
\* for a quorum of k + 1, and at most k shares in hand: every other secret has
\* coefficients of bytes that give the very same shares.
THEOREM EverySecretFits ==
  ASSUME NEW secret \in Byte, NEW guess \in Byte, NEW k \in Nat, NEW coef \in [1 .. k -> Byte],
         NEW T \in SUBSET (Byte \ {0}), Cardinality(T) <= k
  PROVE  \E other \in [1 .. k -> Byte] : SameShares(guess, other, secret, coef, T)
<1> DEFINE z == Xor(secret, guess)
<1>1. z \in Byte /\ Xor(secret, z) = guess
  BY XorIsByte, XorUndone
<1> HIDE DEF z
<1>2. PICK e \in [1 .. k -> Byte] : \A x \in T : shareAt(1, e, x) = 0
  BY VanishingShare
<1>3. PICK other \in [1 .. k -> Byte] : Moves(other, secret, z, coef, e)
  BY <1>1, ShareMoves
<1>4. ASSUME NEW x \in T PROVE shareAt(guess, other, x) = shareAt(secret, coef, x)
  <2>1. x \in Byte
    OBVIOUS
  <2>2. shareAt(secret, coef, x) \in Byte
    BY <2>1, ShareIsByte
  <2>3. mul(z, 0) = 0
    BY ZeroMul
  <2>4. Xor(shareAt(secret, coef, x), 0) = shareAt(secret, coef, x)
    BY <2>2, XorLaws
  <2> QED
    BY <1>1, <1>2, <1>3, <2>1, <2>3, <2>4 DEF Moves
<1> QED
  BY <1>4 DEF SameShares

================================================================================
