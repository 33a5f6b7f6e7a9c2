------------------------------ MODULE BitVectors ------------------------------
(***************************************************************************)
(* The vector<bool> values of src/BoothsAlgorithm.cpp and of the two       *)
(* division programs, which hold the same helpers: sequences of bits, the  *)
(* most significant first (C++ index 0 is index 1 here).                   *)
(***************************************************************************)
EXTENDS Integers, Sequences

Bit == {0, 1}

Zeros(n) == [i \in 1 .. n |-> 0]
Inverted(s) == [i \in DOMAIN s |-> 1 - s[i]]
Magnitude(n) == IF n < 0 THEN -n ELSE n

\* The numbers that the first bits of a vector spell, the one that all of it spells,
\* and the w low-order bits of a number.
Values(s) == LET v[i \in 0 .. Len(s)] == IF i = 0 THEN 0 ELSE 2 * v[i - 1] + s[i]
             IN  v
Value(s) == Values(s)[Len(s)]

Spelled(n, w) == [i \in 1 .. w |-> (n \div 2^(w - i)) % 2]

\* The loop that is to add 1 takes its carry from the bit it has just written:
\* it goes on past every 0 and stops at the first 1, which subtracts 1.
AddOneLoop(s) == [i \in DOMAIN s |->
                    IF \A j \in i + 1 .. Len(s) : s[j] = 0 THEN 1 - s[i] ELSE s[i]]

\* Mutant of IntegerToBinary: the carry is taken from the old bit, so that
\* negative numbers are in two's complement.
IntegerToTwosComplement(n, w) ==
    IF n < 0 THEN Spelled(n % 2^w, w) ELSE Spelled(n, w)

IntegerToBinary(n, w) ==
    IF n < 0 THEN AddOneLoop(Inverted(Spelled(-n, w))) ELSE Spelled(n, w)

BinaryToInteger(s) ==
    IF s[1] = 1 THEN - Value(AddOneLoop(Inverted(s))) ELSE Value(s)

-----------------------------------------------------------------------------

Majority(a, b, c) == IF a + b + c >= 2 THEN 1 ELSE 0

\* Mutant of Carries: a carry goes into the last position.
CarriesIn(a, m) ==
    LET c[i \in DOMAIN m] == IF i = Len(m) THEN 1
                             ELSE Majority(a[i + 1], m[i + 1], c[i + 1])
    IN  c

\* The carry INTO position i, of a ripple from the last position of m to the
\* first: from the second register's bits as they are when adding, from the
\* first register's inverted when subtracting.
Carries(a, m) ==
    LET c[i \in DOMAIN m] == IF i = Len(m) THEN 0
                             ELSE Majority(a[i + 1], m[i + 1], c[i + 1])
    IN  c

\* Mutant of Rippled: the ripple starts at the end of the register.
RippledWhole(a, m, c) ==
    LET z == Len(a) - Len(m) IN
    [i \in DOMAIN a |-> IF i > z THEN (a[i] + m[i - z] + c[i - z]) % 2 ELSE a[i]]

\* The bits of a at m's positions, xored with m's and the carries; those past
\* m's width are left alone.
Rippled(a, m, c) ==
    [i \in DOMAIN a |-> IF i \in DOMAIN m THEN (a[i] + m[i] + c[i]) % 2 ELSE a[i]]

\* "A = A + M".
Added(a, m) == Rippled(a, m, Carries(a, m))

\* Mutant of Subtracted: M itself is subtracted.
SubtractedTrue(a, m) == Rippled(a, m, Carries(Inverted(a), m))

\* "A = A - M": a borrow chain, but over M's inverted bits.
Subtracted(a, m) == Rippled(a, Inverted(m), Carries(Inverted(a), Inverted(m)))
=============================================================================
