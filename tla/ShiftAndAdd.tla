------------------------------ MODULE ShiftAndAdd ------------------------------
(***************************************************************************)
(* signedMultiplication() of src/Multiplication.cpp.  The product grows at *)
(* its front with every "overflow bit", which moves the bits the inner     *)
(* loop has still to look at; and the copy of the multiplicand is padded   *)
(* on the right to the product's first size whatever its own shift.        *)
(***************************************************************************)
EXTENDS Adders

\* The inner loop, from the last position of s to its first: the carry is the
\* bit written AND the multiplicand's.
AddInto(product, s) ==
    LET p[k \in 0 .. Len(s)] ==
            IF k = 0 THEN product
            ELSE LET j == Len(s) - k + 1
                     q == [p[k - 1] EXCEPT ![j] = (@ + s[j]) % 2]
                 IN  IF q[j] = 1 /\ s[j] = 1 THEN <<1>> \o q ELSE q
    IN  p[Len(s)]

\* The product of two non-negative numbers, the multiplier's bits last to first.
UnsignedProduct(m, q) ==
    LET size == Len(m) + Len(q)
        p[k \in 0 .. Len(q)] ==
            IF k = 0 THEN Padded(<<>>, size)
            ELSE IF q[Len(q) - k + 1] = 1
                 THEN AddInto(p[k - 1], Padded(m \o Zeros(k - 1), size))
                 ELSE p[k - 1]
    IN  p[Len(q)]

\* Negation, whose loop carries out of the vector when all of it was ones.
Negated(p) == WithCarry(IF \A i \in DOMAIN p : p[i] = 1 THEN 1 ELSE 0,
                        AddOneLoop(Inverted(p)))

SignedMultiplication(x, y) ==
    LET p == UnsignedProduct(MinimalBinary(Magnitude(x)), MinimalBinary(Magnitude(y)))
    IN  IF (x < 0) # (y < 0) THEN Negated(p) ELSE p
=============================================================================
