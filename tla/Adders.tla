-------------------------------- MODULE Adders --------------------------------
(***************************************************************************)
(* The adders of src/Adder.cpp, on vectors whose first bit is the most     *)
(* significant.  fullAdder(.., Sum[i], ..) binds a bool& to an element of  *)
(* a vector<bool>, which compilers reject; here it assigns the element.    *)
(* serialAdder(), which main() does not call, is parallelAdder() with the  *)
(* carry apart, and fastAdder() is parallelAdder().                        *)
(***************************************************************************)
EXTENDS BitVectors

\* integerToBinary(): no leading zeros, and nothing at all for 0 or less.
BitLength(n) ==
    IF n <= 0 THEN 0 ELSE CHOOSE k \in 1 .. n : 2^(k - 1) <= n /\ n < 2^k

MinimalBinary(n) == Spelled(n, BitLength(n))

Longer(a, b) == IF Len(a) > Len(b) THEN Len(a) ELSE Len(b)

\* Mutant of Padded: the zeros go in front.
PaddedFront(a, n) == Zeros(n - Len(a)) \o a

\* resize(size, 0) puts the zeros after the least significant bit.
Padded(a, n) == a \o Zeros(n - Len(a))

FullAdderSum(a, b, c) == (a + b + c) % 2

\* carry[i] leaves position i, and carry[Len + 1] enters the last one.
RippleCarry(a, b) ==
    LET c[i \in 1 .. Len(a) + 1] ==
            IF i = Len(a) + 1 THEN 0 ELSE Majority(a[i], b[i], c[i + 1])
    IN  c

WithCarry(c, s) == IF c = 1 THEN <<1>> \o s ELSE s

ParallelAdder(x, y) ==
    LET n == Longer(x, y)
        a == Padded(x, n)
        b == Padded(y, n)
        c == RippleCarry(a, b)
    IN  WithCarry(c[1], [i \in 1 .. n |-> FullAdderSum(a[i], b[i], c[i + 1])])

\* "A - B = A + NOT(B)": no carry goes in, and the one that comes out is dropped.
ParallelSubtractor(x, y) ==
    LET n == Longer(x, y)
        a == Padded(x, n)
        b == Inverted(Padded(y, n))
        c == RippleCarry(a, b)
    IN  [i \in 1 .. n |-> FullAdderSum(a[i], b[i], c[i + 1])]

\* The carries run from the first bit, the most significant one, to the last.
CarryLookaheadAdder(x, y) ==
    LET n == Longer(x, y)
        a == Padded(x, n)
        b == Padded(y, n)
        c[i \in 0 .. n] == IF i = 0 THEN 0 ELSE Majority(a[i], b[i], c[i - 1])
    IN  WithCarry(c[n], [i \in 1 .. n |-> FullAdderSum(a[i], b[i], c[i - 1])])
=============================================================================
