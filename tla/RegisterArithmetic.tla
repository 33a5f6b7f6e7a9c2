-------------------------- MODULE RegisterArithmetic --------------------------
(***************************************************************************)
(* What the register loops of the Booth multiplier and of the two dividers *)
(* amount to, over integers: no bits, no ripples.  acc and quo are the     *)
(* numbers in registers A and Q; w is their width at the start.            *)
(***************************************************************************)
EXTENDS Integers

VARIABLES unit, w, m, acc, quo, qMinus1, count

vars == <<unit, w, m, acc, quo, qMinus1, count>>

\* Any other program has no register loop, and no iterations to do.
Init == /\ w \in Nat \ {0}
        /\ count = IF unit \in {"Booth", "Restoring", "NonRestoring"} THEN w ELSE 0
        /\ m \in 0 .. 2^w - 1
        /\ acc = 0
        /\ quo \in 0 .. 2^w - 1
        /\ qMinus1 = 0

\* "A - M" comes out as A + M + 1.
Plus(a)  == (a + m) % 2^w
Minus(a) == (a + m + 1) % 2^w

Negative(a) == a >= 2^(w - 1)

\* Add or subtract at the ends of a run of ones, then halve acc and quo as one
\* signed number.
Booth ==
    LET a == CASE quo % 2 > qMinus1 -> Minus(acc)
               [] quo % 2 < qMinus1 -> Plus(acc)
               [] OTHER             -> acc
        sign == IF Negative(a) THEN 2^(w - 1) ELSE 0
    IN  /\ unit = "Booth"
        /\ acc' = sign + (a \div 2)
        /\ quo' = (a % 2) * 2^(w - 1) + (quo \div 2)
        /\ qMinus1' = quo % 2

\* acc grows by a bit at its FRONT; the arithmetic is on its first w bits.
Shifted == IF Negative(quo) THEN 2^(2 * w - count) + acc ELSE acc
Below   == 2^(w - count + 1)
Top     == Shifted \div Below
Rest    == Shifted % Below

Subtract == acc' = Minus(Top) * Below + Rest
Add      == acc' = Plus(Top) * Below + Rest

\* The subtraction stands unless it leaves the first bit set.
Restoring ==
    /\ unit = "Restoring"
    /\ IF Negative(Minus(Top)) THEN acc' = Shifted ELSE Subtract
    /\ quo' = ((2 * quo) % 2^w) + (IF Negative(Minus(Top)) THEN 0 ELSE 1)
    /\ UNCHANGED qMinus1

\* The first bit decides between the two, and its successor is the quotient bit.
NonRestoring ==
    /\ unit = "NonRestoring"
    /\ IF Negative(Top) THEN Add ELSE Subtract
    /\ quo' = ((2 * quo) % 2^w) + (IF Negative(acc' \div Below) THEN 0 ELSE 1)
    /\ UNCHANGED qMinus1

Next == /\ count > 0
        /\ count' = count - 1
        /\ UNCHANGED <<unit, w, m>>
        /\ Booth \/ Restoring \/ NonRestoring

Spec == Init /\ [][Next]_vars
=============================================================================
