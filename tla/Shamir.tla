-------------------------------- MODULE Shamir ---------------------------------
(* crypto/secret-sharing/shamir.ts: one byte of a secret, shared over GF(2^8) *)
(* with the AES polynomial.  Bytes of a secret are shared independently.      *)
EXTENDS Naturals, Sequences, FiniteSets, Functions

Byte == 0 .. 255

Bit(a, i) == (a \div 2^i) % 2
Nibbles == [p \in (0 .. 15) \X (0 .. 15) |->
    LET bit(i) == ((Bit(p[1], i) + Bit(p[2], i)) % 2) * 2^i
    IN  bit(0) + bit(1) + bit(2) + bit(3)]

\* a ^ b
Xor(a, b) == 16 * Nibbles[<<a \div 16, b \div 16>>] + Nibbles[<<a % 16, b % 16>>]

\* x * 2, reduced
Twice(x) == IF x >= 128 THEN Xor((2 * x) % 256, 27) ELSE 2 * x

\* The powers of the generator 3, twice over, and their logarithms; 0 has none,
\* and its entry of the table stays 0.
Power[i \in 0 .. 254] ==
    IF i = 0 THEN 1 ELSE LET x == Power[i - 1] IN Xor(Twice(x), x)

EXP == [i \in 0 .. 511 |-> Power[i % 255]]

LOG == [x \in Byte |-> IF \E i \in 0 .. 254 : EXP[i] = x
                        THEN CHOOSE i \in 0 .. 254 : EXP[i] = x ELSE 0]

\* 3 generates the field: its powers below 255 are the bytes but 0, each once, and
\* its 255th is 1 again.  A closed formula, which TLC decides.
ASSUME GeneratorAssumption ==
    /\ \A i \in 0 .. 254 : EXP[i] # 0 /\ LOG[EXP[i]] = i
    /\ \A x \in Byte \ {0} : EXP[LOG[x]] = x
    /\ Xor(Twice(EXP[254]), EXP[254]) = 1

mul(a, b) == IF a = 0 \/ b = 0 THEN 0 ELSE EXP[LOG[a] + LOG[b]]

\* Mutant: the logarithm of the divisor is not taken modulo the group's order.
divOff(a, b) == IF a = 0 THEN 0 ELSE EXP[LOG[a] + 256 - LOG[b]]

\* b is not 0
div(a, b) == IF a = 0 THEN 0 ELSE EXP[LOG[a] + 255 - LOG[b]]

\* Mutant: the polynomial is one degree short.
shareAtShort(secret, coef, x) ==
    LET acc[d \in 0 .. Len(coef)] ==
            IF d = 0 THEN <<secret, 1>>
            ELSE LET xp == mul(acc[d - 1][2], x)
                 IN  <<IF d = Len(coef) THEN acc[d - 1][1]
                       ELSE Xor(acc[d - 1][1], mul(coef[d], xp)), xp>>
    IN  acc[Len(coef)][1]

\* split, the share at x: the polynomial secret + coef[1] x + coef[2] x^2 + ...
shareAt(secret, coef, x) ==
    LET acc[d \in 0 .. Len(coef)] ==
            IF d = 0 THEN <<secret, 1>>
            ELSE LET xp == mul(acc[d - 1][2], x)
                 IN  <<Xor(acc[d - 1][1], mul(coef[d], xp)), xp>>
    IN  acc[Len(coef)][1]

split(secret, coef, n) == [i \in 1 .. n |-> [x |-> i, y |-> shareAt(secret, coef, i)]]

\* combine throws on x = 0, on shares of one x and on none at all.
CanCombine(shares) ==
    shares # {} /\ \A s, t \in shares : s.x # 0 /\ (s.x = t.x => s = t)

\* combine: Lagrange interpolation at 0.
combine(shares) ==
    LET xs == {s.x : s \in shares}
        y  == [x \in xs |-> (CHOOSE s \in shares : s.x = x).y]
        others(x) == xs \ {x}
        num(x) == FoldFunction(mul, 1, [t \in others(x) |-> t])
        den(x) == FoldFunction(mul, 1, [t \in others(x) |-> Xor(x, t)])
    IN  FoldFunction(Xor, 0, [x \in xs |-> mul(y[x], div(num(x), den(x)))])

================================================================================
