--------------------------- MODULE ArithmeticUnits ---------------------------
(***************************************************************************)
(* The five arithmetic programs of the repository: src/Adder.cpp,          *)
(* src/Multiplication.cpp, src/BoothsAlgorithm.cpp,                        *)
(* src/RestoringDivision.cpp and src/NonRestoringDivision.cpp.  Each reads *)
(* two numbers, computes on bit vectors and prints what it gets.  One run  *)
(* of this module is one run of one of them; "Addition" and "Subtraction"  *)
(* are the two modes of the adder.  The register loops take one step per   *)
(* iteration.  max(8, length * 4) mixes int and size_t, which compilers    *)
(* reject in the last three: it is taken as the larger number.             *)
(***************************************************************************)
EXTENDS ShiftAndAdd

CONSTANT Operands              \* the numbers typed in

\* Numbers an int holds whose magnitude is an int too.  What the programs compute is
\* taken as the numbers the bits spell: where these need more than the 32 bits of
\* an int, the last conversion overflows, which is left out.
ASSUME OperandsAreInts ==
    \A n \in Operands : n \in Int /\ -2147483647 <= n /\ n <= 2147483647

Dividers  == {"Restoring", "NonRestoring"}
Registers == Dividers \cup {"Booth"}
Units     == Registers \cup {"Addition", "Subtraction", "Multiplication"}

VARIABLES unit,                \* the program and, for the adder, its mode
          x, y,                \* multiplicand and multiplier, or dividend and divisor
          A, Q, QMinus1,       \* the registers
          count,               \* iterations left
          pc,                  \* "running", "done" or "crashed"
          result               \* the decimal results printed

inputs == <<unit, x, y>>
vars == <<unit, x, y, A, Q, QMinus1, count, pc, result>>

Digits(n) == CHOOSE d \in 1 .. 10 : n < 10^d /\ (d > 1 => n >= 10^(d - 1))

\* max(8, 4 * the digits of the longer operand).
WidthFor(a, b) ==
    LET d == Digits(IF Magnitude(a) > Magnitude(b) THEN Magnitude(a) ELSE Magnitude(b))
    IN  IF d < 2 THEN 8 ELSE 4 * d

bitWidth == WidthFor(x, y)
M == IntegerToBinary(IF unit = "Booth" THEN x ELSE y, bitWidth)

Init ==
    /\ unit \in Units
    /\ x \in Operands /\ y \in Operands
    /\ pc = "running"
    /\ result = <<>>
    /\ QMinus1 = 0
    /\ IF unit \in Registers
       THEN /\ A = Zeros(bitWidth)
            /\ Q = IntegerToBinary(IF unit = "Booth" THEN y ELSE x, bitWidth)
            /\ count = bitWidth
       ELSE A = <<>> /\ Q = <<>> /\ count = 0

-----------------------------------------------------------------------------

\* An iteration of boothsAlgorithm(): add or subtract, then shift right.
BoothStep ==
    LET low == Q[bitWidth]
        a == CASE low = 1 /\ QMinus1 = 0 -> Subtracted(A, M)
               [] low = 0 /\ QMinus1 = 1 -> Added(A, M)
               [] OTHER                  -> A
    IN  /\ unit = "Booth" /\ count > 0
        /\ QMinus1' = low
        /\ Q' = <<a[bitWidth]>> \o SubSeq(Q, 1, bitWidth - 1)
        /\ A' = <<a[1]>> \o SubSeq(a, 1, bitWidth - 1)
        /\ count' = count - 1
        /\ UNCHANGED <<inputs, pc, result>>

\* Mutant of ShiftedA: A keeps its width and loses its last bit.
ShiftedADropped == <<Q[1]>> \o SubSeq(A, 1, Len(A) - 1)

\* The dividers' shift: A takes Q's first bit at its own FRONT, so it is a bit
\* longer every time.
ShiftedA == <<Q[1]>> \o A
ShiftQ(b) == Q' = Append(Tail(Q), b)

\* An iteration of restoringDivision().
RestoringStep ==
    LET a == Subtracted(ShiftedA, M)
    IN  /\ unit = "Restoring" /\ count > 0
        /\ A' = IF a[1] = 1 THEN ShiftedA ELSE a
        /\ ShiftQ(1 - a[1])
        /\ count' = count - 1
        /\ UNCHANGED <<inputs, QMinus1, pc, result>>

\* An iteration of nonRestoringDivision(); nothing corrects the last remainder.
NonRestoringStep ==
    LET a == IF ShiftedA[1] = 0 THEN Subtracted(ShiftedA, M) ELSE Added(ShiftedA, M)
    IN  /\ unit = "NonRestoring" /\ count > 0
        /\ A' = a
        /\ ShiftQ(1 - a[1])
        /\ count' = count - 1
        /\ UNCHANGED <<inputs, QMinus1, pc, result>>

Finish(r) == /\ pc = "running" /\ pc' = "done"
             /\ result' = r
             /\ UNCHANGED <<inputs, A, Q, QMinus1, count>>

PrintProduct  == unit = "Booth" /\ count = 0 /\ Finish(<<BinaryToInteger(A \o Q)>>)
PrintQuotient == /\ unit \in Dividers /\ count = 0
                 /\ Finish(<<BinaryToInteger(Q), BinaryToInteger(A)>>)

\* main() of the adder: the chosen mode, then the fast adder and the lookahead.
Adder ==
    LET a == MinimalBinary(x)
        b == MinimalBinary(y)
        alu == IF unit = "Addition" THEN ParallelAdder(a, b) ELSE ParallelSubtractor(a, b)
    IN  /\ unit \in {"Addition", "Subtraction"}
        /\ Finish(<<Value(alu), Value(ParallelAdder(a, b)),
                    Value(CarryLookaheadAdder(a, b))>>)

\* binaryToInteger() reads the first bit of a vector that may have none.
Multiplier ==
    LET p == SignedMultiplication(x, y)
    IN  /\ unit = "Multiplication"
        /\ IF p = <<>>
           THEN /\ pc = "running" /\ pc' = "crashed"
                /\ UNCHANGED <<inputs, A, Q, QMinus1, count, result>>
           ELSE Finish(<<BinaryToInteger(p)>>)

Next == \/ BoothStep \/ PrintProduct
        \/ RestoringStep \/ NonRestoringStep \/ PrintQuotient
        \/ Adder \/ Multiplier

Spec == Init /\ [][Next]_vars

-----------------------------------------------------------------------------

\* The lengths the index arithmetic rests on: only a divider's A grows, by one
\* bit in each iteration.  A crash is that of 0 * 0, the empty product.
ArithmeticInv ==
    /\ A \in Seq(Bit) /\ Q \in Seq(Bit) /\ QMinus1 \in Bit
    /\ result \in Seq(Int)
    /\ unit \in Registers =>
          /\ count \in 0 .. bitWidth
          /\ Len(Q) = bitWidth
          /\ Len(A) = bitWidth + (IF unit = "Booth" THEN 0 ELSE bitWidth - count)
    /\ pc = "crashed" => unit = "Multiplication" /\ x = 0 /\ y = 0
    /\ pc = "done" <=> result # <<>>

\* Bits of a divider's A pushed past the width of M are never changed again: they
\* only move along, whatever is subtracted, added or restored.
TailFrozen ==
    [][count' < count /\ unit \in Dividers =>
         \A i \in bitWidth .. Len(A) : A'[i + 1] = A[i]]_vars

\* Both conversions have the same slip in their add-1 loop and undo each other:
\* although a negative number's bits are those of the number two below, it is read
\* back as it was; and the multiplier's result for one negative operand is the
\* negative of what it is for the magnitudes.  A number other than 0 is printed with
\* the sign of the exact product just when the bits the loop makes of the magnitudes
\* begin with 0: an overflow bit in front is read as a sign and turns it, so that
\* 2 * 1 is printed as -2 and 2 * -1 as 2.  Zero times anything else is zero.
SignsCancel ==
    /\ unit \in Registers =>
         \A n \in {x, y} :
           LET bits == IntegerToBinary(n, bitWidth)
           IN  /\ BinaryToInteger(bits) = n
               /\ Value(bits) = IF n < 0 THEN 2^bitWidth + n - 2 ELSE n
    /\ unit = "Multiplication" /\ pc = "done" =>
         LET p == SignedMultiplication(Magnitude(x), Magnitude(y))
         IN  /\ (x < 0) # (y < 0) => result[1] = - BinaryToInteger(p)
             /\ result[1] # 0 =>
                    (result[1] < 0 <=> ((x < 0) # (y < 0)) # (p[1] = 1))
             /\ x = 0 \/ y = 0 => result[1] = 0

\* Booth's product from the runs of ones in the multiplier: a run adds M + 1 where
\* it starts (the source's "A - M") and M where it ends.
Recoded(m, q) ==
    LET w == Len(q)
        bit(i) == IF i = 0 THEN 0 ELSE q[w - i + 1]
        s[i \in 0 .. w] ==
            IF i = 0 THEN 0
            ELSE s[i - 1] + 2^(i - 1) * (CASE bit(i) > bit(i - 1) -> m + 1
                                           [] bit(i) < bit(i - 1) -> m
                                           [] OTHER               -> 0)
    IN  s[w]

\* The product register ends as the recoded sum whenever A cannot overflow.
BoothProduct ==
    unit = "Booth" /\ pc = "done" =>
      LET m == IF x < 0 THEN x - 2 ELSE x
      IN  Magnitude(m) < 2^(bitWidth - 2) =>
            Value(A \o Q) = Recoded(m, IntegerToBinary(y, bitWidth)) % 2^(2 * bitWidth)

\* The adder aligns its operands at their FIRST bits.
AdderSums ==
    unit \in {"Addition", "Subtraction"} /\ pc = "done" =>
      LET a == MinimalBinary(x)
          b == MinimalBinary(y)
          n == Longer(a, b)
          first  == Value(a) * 2^(n - Len(a))
          second == Value(b) * 2^(n - Len(b))
      IN  /\ result[1] = IF unit = "Addition" THEN first + second
                          ELSE (first - second - 1) % 2^n
          /\ result[2] = first + second
          /\ (\A i \in 1 .. n : Padded(a, n)[i] + Padded(b, n)[i] < 2)
                => result[3] = result[2]

\* The loops over bits do integer arithmetic, of a kind.
Numbers ==
    INSTANCE RegisterArithmetic
      WITH w <- bitWidth, m <- Value(M), acc <- Value(A), quo <- Value(Q),
           qMinus1 <- QMinus1
IntegerSpec == Numbers!Spec
=============================================================================
