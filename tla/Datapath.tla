------------------------------ MODULE Datapath ------------------------------
(***************************************************************************)
(* What the processors of src/SingleBus.cpp and src/ThreeBus.cpp have in   *)
(* common: registers, memory, labels and the ALU.  A word is an int of     *)
(* Width bits, written as its two's complement residue.                    *)
(***************************************************************************)
EXTENDS Integers

CONSTANTS RegCount,        \* registers
          MemorySize,      \* memory words
          Width,           \* bits of an int
          Labels,          \* the labels a program may name
          LabelAddresses,  \* the addresses a label may be defined as
          Addresses,       \* the addresses loads and stores are given
          MaxPC            \* bound: fetches stop here

ASSUME DatapathSizes == /\ RegCount \in Nat \ {0}
                        /\ MemorySize \in Nat
                        /\ Width \in Nat \ {0}
                        /\ LabelAddresses \subseteq Int
                        /\ Addresses \subseteq Int
                        /\ MaxPC \in Nat

Register == 0 .. RegCount - 1
Cell     == 0 .. MemorySize - 1
Word     == 0 .. 2^Width - 1
ALUOperation == {"ADD", "SUB", "AND", "OR", "NOT"}

Bit(n, k) == (n \div 2^k) % 2

\* a & b, bit by bit from the lowest; a | b and ~a by the two's complement identities.
And == [a \in Word |-> [b \in Word |->
           LET low[k \in 0 .. Width] ==
                   IF k = 0 THEN 0
                   ELSE low[k - 1] + 2^(k - 1) * (Bit(a, k - 1) * Bit(b, k - 1))
           IN  low[Width]]]
Or(a, b) == a + b - And[a][b]
Not(a)   == 2^Width - 1 - a

\* The switch of performALUOperation(); NOT looks at regA only.
ALU(op, a, b) == CASE op = "ADD" -> (a + b) % 2^Width
                   [] op = "SUB" -> (a - b) % 2^Width
                   [] op = "AND" -> And[a][b]
                   [] op = "OR"  -> Or(a, b)
                   [] op = "NOT" -> Not(a)
=============================================================================
