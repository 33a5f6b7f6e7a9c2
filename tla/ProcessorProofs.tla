-------------------------- MODULE ProcessorProofs --------------------------
(***************************************************************************)
(* Proofs about ThreeBus, for every number of registers and memory words   *)
(* and words of every width, and about the ALU it shares with SingleBus;   *)
(* and about MicroprogramControl.                                          *)
(***************************************************************************)
EXTENDS ThreeBus, MicroprogramControl, FiniteSetTheorems, WellFoundedInduction, TLAPS

\* 2^n counts the subsets of 1 .. n.
LEMMA PowCounts ==
    ASSUME NEW n \in Nat
    PROVE  IsFiniteSet(SUBSET (1 .. n)) /\ Cardinality(SUBSET (1 .. n)) = 2^n
<1>1. IsFiniteSet(1 .. n) /\ Cardinality(1 .. n) = n
  BY FS_Interval
<1>2. QED
  BY <1>1, FS_SUBSET

\* A power of two is a positive natural number.
LEMMA PowType == ASSUME NEW n \in Nat PROVE 2^n \in Nat \ {0}
<1>1. Cardinality(SUBSET (1 .. n)) \in Nat
  BY PowCounts, FS_CardinalityType
<1>2. Cardinality(SUBSET (1 .. n)) # 0
  <2>1. SUBSET (1 .. n) # {}
    OBVIOUS
  <2>2. QED
    BY <2>1, PowCounts, FS_EmptySet
<1>3. QED
  BY <1>1, <1>2, PowCounts

\* The next power is twice this one: half the subsets of 1 .. n + 1 have n + 1.
LEMMA PowDouble == ASSUME NEW n \in Nat PROVE 2^(n + 1) = 2^n + 2^n
<1> DEFINE S == SUBSET (1 .. n)
           T == {x \cup {n + 1} : x \in S}
           f == [x \in S |-> x \cup {n + 1}]
<1>1. S \cup T = SUBSET (1 .. n + 1)
  <2>1. ASSUME NEW y \in S \cup T PROVE y \in SUBSET (1 .. n + 1)
    <3>1. 1 .. n \subseteq 1 .. n + 1 /\ n + 1 \in 1 .. n + 1
      OBVIOUS
    <3>2. PICK x \in S : y = x \/ y = x \cup {n + 1}
      OBVIOUS
    <3>3. QED
      BY <3>1, <3>2
  <2>2. ASSUME NEW y \in SUBSET (1 .. n + 1) PROVE y \in S \cup T
    <3>1. y \ {n + 1} \in S
      OBVIOUS
    <3>2. n + 1 \in y => y = (y \ {n + 1}) \cup {n + 1}
      OBVIOUS
    <3>3. n + 1 \notin y => y = y \ {n + 1}
      OBVIOUS
    <3>4. QED
      BY <3>1, <3>2, <3>3
  <2>3. QED
    BY <2>1, <2>2
<1>2. S \cap T = {}
  OBVIOUS
<1>3. ExistsBijection(S, T)
  <2>1. f \in [S -> T]
    OBVIOUS
  <2>2. \A x, y \in S : f[x] = f[y] => x = y
    <3>1. \A x \in S : n + 1 \notin x
      OBVIOUS
    <3>2. ASSUME NEW x \in S, NEW y \in S, f[x] = f[y] PROVE x = y
      <4>1. x \cup {n + 1} = y \cup {n + 1}
        BY <3>2
      <4>2. QED
        BY <3>1, <4>1
    <3>3. QED
      BY <3>2
  <2>3. \A y \in T : \E x \in S : f[x] = y
    OBVIOUS
  <2> HIDE DEF S, T, f
  <2>4. f \in Bijection(S, T)
    BY <2>1, <2>2, <2>3 DEF Bijection, Injection, Surjection, IsInjective
  <2>5. QED
    BY <2>4 DEF ExistsBijection
<1>4. IsFiniteSet(S) /\ Cardinality(S) = 2^n
  BY PowCounts
<1>5. Cardinality(SUBSET (1 .. n + 1)) = 2^(n + 1)
  BY PowCounts
<1>6. 2^n \in Nat
  BY PowType
<1> HIDE DEF S, T, f
<1>7. IsFiniteSet(T) /\ Cardinality(T) = 2^n
  BY <1>3, <1>4, FS_Bijection
<1>8. Cardinality(S \cup T) = 2^n + 2^n - Cardinality({})
  BY <1>2, <1>4, <1>7, FS_Union
<1>9. Cardinality({}) = 0
  BY FS_EmptySet
<1>10. 2^(n + 1) = 2^n + 2^n - 0
  BY <1>1, <1>5, <1>8, <1>9
<1>11. QED
  BY <1>6, <1>10

-----------------------------------------------------------------------------

\* A set of natural numbers with an element has a least one.
LEMMA LeastNat ==
    ASSUME NEW T, T \subseteq Nat, T # {}
    PROVE  \E x \in T : \A y \in T : x <= y
<1> DEFINE R == {ss \in Nat \X Nat : ss[1] < ss[2]}
<1>1. IsWellFoundedOn(R, Nat)
  BY NatLessThanWellFounded DEF OpToRel
<1>2. \A x, y \in Nat : <<y, x>> \notin R => x <= y
  OBVIOUS
<1> HIDE DEF R
<1>3. PICK x \in T : \A y \in T : <<y, x>> \notin R
  BY <1>1, WFMin
<1>4. QED
  BY <1>2, <1>3

\* A set that has 0, and n + 1 with n, up to a bound, has all numbers up to it.
LEMMA UpTo ==
    ASSUME NEW N \in Nat, NEW S, 0 \in S,
           \A n \in 0 .. N - 1 : n \in S => n + 1 \in S
    PROVE  0 .. N \subseteq S
<1> SUFFICES ASSUME ~ (0 .. N \subseteq S) PROVE FALSE
  OBVIOUS
<1> DEFINE T == {n \in 0 .. N : n \notin S}
<1>1. PICK m \in T : \A y \in T : m <= y
  <2>1. T \subseteq Nat /\ T # {}
    OBVIOUS
  <2> HIDE DEF T
  <2>2. QED
    BY <2>1, LeastNat
<1>2. m \in 1 .. N
  OBVIOUS
<1>3. m - 1 \in 0 .. N - 1 /\ m - 1 \notin T
  BY <1>1, <1>2
<1>4. m - 1 \in S
  BY <1>3
<1>5. QED
  BY <1>2, <1>3, <1>4

\* A quotient and a remainder are the only ones.
LEMMA ModUnique == ASSUME NEW a \in Nat, NEW n \in Nat \ {0}, NEW q \in Int,
                          NEW r \in 0 .. n - 1, a = n * q + r
                   PROVE  a \div n = q /\ a % n = r
<1>1. a = n * (a \div n) + (a % n)
  BY Z3T(30)
<1> DEFINE d == a \div n
           m == a % n
<1>2. d \in Int /\ m \in 0 .. n - 1
  OBVIOUS
<1>3. a = n * d + m
  BY <1>1
<1> HIDE DEF d, m
<1>4. n * (d - q) = r - m
  BY <1>2, <1>3
<1>5. r - m < n /\ -n < r - m
  BY <1>2
<1>6. ~ d - q >= 1
  BY <1>2, <1>4, <1>5
<1>7. ~ d - q <= -1
  BY <1>2, <1>4, <1>5
<1>8. d = q
  BY <1>2, <1>6, <1>7
<1>9. m = r
  BY <1>2, <1>3, <1>8
<1>10. QED
  BY <1>8, <1>9 DEF d, m

\* The lowest k + 1 bits of a number are its lowest k and bit k.
LEMMA LowBits ==
    ASSUME NEW a \in Nat, NEW k \in Nat
    PROVE  /\ Bit(a, k) \in {0, 1}
           /\ a % 2^(k + 1) = (a % 2^k) + 2^k * Bit(a, k)
<1>1. PICK p \in Nat \ {0} : p = 2^k /\ p + p = 2^(k + 1)
  BY PowType, PowDouble
<1> DEFINE q == a \div p
           r == a % p
           s == q \div 2
           t == q % 2
<1>2. q \in Int /\ r \in 0 .. p - 1
  OBVIOUS
<1>3. a = p * q + r
  BY Z3T(30)
<1>4. s \in Int /\ t \in {0, 1} /\ q = 2 * s + t
  BY <1>2
<1> HIDE DEF q, r, s, t
<1>5. a = (p + p) * s + (p * t + r)
  <2>1. p * q = p * (2 * s + t)
    BY <1>4
  <2>2. p * (2 * s + t) = (p + p) * s + p * t
    BY <1>4
  <2>3. QED
    BY <1>2, <1>3, <1>4, <2>1, <2>2
<1>6. p * t + r \in 0 .. p + p - 1
  BY <1>2, <1>4
<1>7. a % (p + p) = p * t + r
  <2>1. p + p \in Nat \ {0}
    OBVIOUS
  <2>2. a = (p + p) * s + (p * t + r) /\ s \in Int
    BY <1>4, <1>5
  <2> DEFINE n == p + p
             v == p * t + r
  <2>3. n \in Nat \ {0} /\ v \in 0 .. n - 1 /\ a = n * s + v
    BY <1>6, <2>1, <2>2
  <2> HIDE DEF n, v
  <2>4. a % n = v
    BY <2>2, <2>3, ModUnique
  <2>5. QED
    BY <2>4 DEF n, v
<1>8. t = Bit(a, k)
  BY <1>1 DEF Bit, q, t
<1>9. p * t + r = r + p * t
  BY <1>2, <1>4
<1>10. QED
  BY <1>1, <1>4, <1>7, <1>8, <1>9 DEF r

\* A sequence of partial sums exists.
LEMMA PartialSums ==
    ASSUME NEW N \in Nat, NEW d \in [0 .. N - 1 -> Int]
    PROVE  \E f \in [0 .. N -> Int] :
              f[0] = 0 /\ \A k \in 1 .. N : f[k] = f[k - 1] + d[k - 1]
<1> DEFINE Sums(n, f) == /\ f \in [0 .. n -> Int] /\ f[0] = 0
                         /\ \A k \in 1 .. n : f[k] = f[k - 1] + d[k - 1]
           S == {n \in 0 .. N : \E f : Sums(n, f)}
<1>1. 0 \in S
  <2> DEFINE z == [k \in 0 .. 0 |-> 0]
  <2>1. Sums(0, z)
    OBVIOUS
  <2> HIDE DEF z, Sums
  <2>2. QED
    BY <2>1
<1>2. ASSUME NEW n \in 0 .. N - 1, n \in S PROVE n + 1 \in S
  <2>1. PICK f : Sums(n, f)
    BY <1>2
  <2> DEFINE g == [k \in 0 .. n + 1 |-> IF k = n + 1 THEN f[n] + d[n] ELSE f[k]]
  <2>2. f[n] + d[n] \in Int
    BY <2>1
  <2>3. g \in [0 .. n + 1 -> Int]
    BY <2>1, <2>2
  <2>4. g[0] = 0
    BY <2>1
  <2>5. ASSUME NEW k \in 1 .. n + 1 PROVE g[k] = g[k - 1] + d[k - 1]
    <3>1. g[k - 1] = f[k - 1]
      OBVIOUS
    <3>2. CASE k = n + 1
      BY <3>1, <3>2
    <3>3. CASE k \in 1 .. n
      BY <2>1, <3>1, <3>3
    <3>4. QED
      BY <3>2, <3>3
  <2> HIDE DEF g
  <2>6. Sums(n + 1, g)
    BY <2>3, <2>4, <2>5
  <2> HIDE DEF Sums
  <2>7. QED
    BY <2>6
<1> HIDE DEF S
<1>3. 0 .. N \subseteq S
  BY <1>1, <1>2, UpTo
<1>4. N \in S
  BY <1>3
<1>5. QED
  BY <1>4 DEF S

\* a & b is a sum of powers of two.
LEMMA AndIsSum ==
    ASSUME NEW a \in Word, NEW b \in Word
    PROVE  \E f :
              /\ f[0] = 0
              /\ \A k \in 1 .. Width :
                     f[k] = f[k - 1] + 2^(k - 1) * (Bit(a, k - 1) * Bit(b, k - 1))
              /\ And[a][b] = f[Width]
<1> DEFINE e(f, k) == IF k = 0 THEN 0
                      ELSE f[k - 1] + 2^(k - 1) * (Bit(a, k - 1) * Bit(b, k - 1))
           low == CHOOSE f : f = [k \in 0 .. Width |-> e(f, k)]
           d == [k \in 0 .. Width - 1 |-> 2^k * (Bit(a, k) * Bit(b, k))]
<1>1. And[a][b] = low[Width]
  BY DEF And
<1>2. d \in [0 .. Width - 1 -> Int]
  <2>1. ASSUME NEW k \in 0 .. Width - 1 PROVE 2^k * (Bit(a, k) * Bit(b, k)) \in Int
    <3>1. a \in Nat /\ b \in Nat /\ k \in Nat
      BY DatapathSizes, PowType DEF Word
    <3>2. 2^k \in Nat /\ Bit(a, k) \in {0, 1} /\ Bit(b, k) \in {0, 1}
      BY <3>1, PowType, LowBits
    <3>3. QED
      BY <3>2
  <2>2. QED
    BY <2>1
<1>3. PICK f \in [0 .. Width -> Int] :
          f[0] = 0 /\ \A k \in 1 .. Width : f[k] = f[k - 1] + d[k - 1]
  <2> HIDE DEF d
  <2>1. QED
    BY <1>2, PartialSums, DatapathSizes
<1>4. \A k \in 1 .. Width : d[k - 1] = 2^(k - 1) * (Bit(a, k - 1) * Bit(b, k - 1))
  BY DatapathSizes
<1>5. f = [k \in 0 .. Width |-> e(f, k)]
  BY <1>3, <1>4, DatapathSizes
<1>6. low = [k \in 0 .. Width |-> e(low, k)]
  BY <1>5
<1> HIDE DEF low
<1>7. \A k \in 0 .. Width : low[k] = e(low, k)
  BY <1>6
<1>8. low[0] = 0 /\ \A k \in 1 .. Width : low[k] = e(low, k)
  BY <1>7, DatapathSizes
<1>9. QED
  BY <1>1, <1>8

\* a & b and a | b are words.
LEMMA AndOrType ==
    ASSUME NEW a \in Word, NEW b \in Word
    PROVE  And[a][b] \in Word /\ Or(a, b) \in Word
<1>1. PICK low : /\ low[0] = 0
                 /\ \A k \in 1 .. Width :
                        low[k] = low[k - 1] + 2^(k - 1) * (Bit(a, k - 1) * Bit(b, k - 1))
                 /\ And[a][b] = low[Width]
  BY AndIsSum
<1>2. Width \in Nat /\ 2^Width \in Nat \ {0} /\ a \in 0 .. 2^Width - 1 /\ b \in 0 .. 2^Width - 1
  BY DatapathSizes, PowType DEF Word
<1> DEFINE Both(k)   == low[k]
           Either(k) == (a % 2^k) + (b % 2^k) - low[k]
           S == {k \in 0 .. Width : /\ Both(k) \in 0 .. 2^k - 1
                                    /\ Either(k) \in 0 .. 2^k - 1}
<1>3. 0 \in S
  <2>1. 2^0 = 1 /\ a % 1 = 0 /\ b % 1 = 0
    BY <1>2
  <2>2. QED
    BY <1>1, <1>2, <2>1
<1>4. ASSUME NEW k \in 0 .. Width - 1, k \in S PROVE k + 1 \in S
  <2>1. k \in Nat /\ a \in Nat /\ b \in Nat
    BY <1>2
  <2>2. PICK p \in Nat \ {0} : p = 2^k /\ p + p = 2^(k + 1)
    BY <2>1, PowType, PowDouble
  <2>3. PICK u \in {0, 1}, v \in {0, 1} : u = Bit(a, k) /\ v = Bit(b, k)
    BY <2>1, LowBits
  <2>4. /\ a % (p + p) = (a % p) + p * u
        /\ b % (p + p) = (b % p) + p * v
    <3>1. \A n \in Nat : n % 2^(k + 1) = (n % 2^k) + 2^k * Bit(n, k)
      BY <2>1, LowBits
    <3>2. QED
      BY <2>1, <2>2, <2>3, <3>1
  <2>5. low[k + 1] = low[k] + p * (u * v)
    BY <1>1, <1>2, <2>2, <2>3
  <2>6. a % p \in 0 .. p - 1 /\ b % p \in 0 .. p - 1
    BY <2>1
  <2>7. low[k] \in 0 .. p - 1 /\ (a % p) + (b % p) - low[k] \in 0 .. p - 1
    BY <1>4, <2>2
  <2>8. /\ low[k + 1] \in 0 .. (p + p) - 1
        /\ (a % (p + p)) + (b % (p + p)) - low[k + 1] \in 0 .. (p + p) - 1
    <3> DEFINE A == a % p
               B == b % p
    <3> HIDE DEF A, B
    <3>1. CASE u = 0
      BY <2>4, <2>5, <2>6, <2>7, <3>1 DEF A, B
    <3>2. CASE u = 1 /\ v = 0
      BY <2>4, <2>5, <2>6, <2>7, <3>2 DEF A, B
    <3>3. CASE u = 1 /\ v = 1
      BY <2>4, <2>5, <2>6, <2>7, <3>3 DEF A, B
    <3>4. QED
      BY <3>1, <3>2, <3>3
  <2>9. k + 1 \in 0 .. Width
    BY <1>2
  <2>10. QED
    BY <2>2, <2>8, <2>9
<1> HIDE DEF S
<1>5. Width \in S
  <2>1. 0 .. Width \subseteq S
    BY <1>2, <1>3, <1>4, UpTo
  <2>2. QED
    BY <1>2, <2>1
<1>6. a % 2^Width = a /\ b % 2^Width = b
  BY <1>2
<1>7. And[a][b] \in 0 .. 2^Width - 1 /\ a + b - And[a][b] \in 0 .. 2^Width - 1
  BY <1>1, <1>5, <1>6 DEF S
<1>8. QED
  BY <1>7 DEF Or, Word

\* performALUOperation() yields a word.
LEMMA ALUType ==
    ASSUME NEW op \in ALUOperation, NEW a \in Word, NEW b \in Word
    PROVE  ALU(op, a, b) \in Word
<1>1. PICK p \in Nat \ {0} : p = 2^Width /\ Word = 0 .. p - 1
  BY DatapathSizes, PowType DEF Word
<1>2. CASE op = "ADD" \/ op = "SUB"
  BY <1>1, <1>2 DEF ALU
<1>3. CASE op = "AND" \/ op = "OR"
  BY <1>3, AndOrType DEF ALU
<1>4. CASE op = "NOT"
  BY <1>1, <1>4 DEF ALU, Not
<1>5. QED
  BY <1>2, <1>3, <1>4 DEF ALUOperation

-----------------------------------------------------------------------------

\* Registers, memory and buses are zero to begin with.
LEMMA InitBusInv == Init => BusInv
<1> SUFFICES ASSUME Init PROVE BusInv
  OBVIOUS
<1>1. 0 \in Word /\ 0 \in Register
  BY DatapathSizes, PowType DEF Word, Register
<1>2. QED
  BY <1>1 DEF Init, BusInv, TypeOK, ControlBusIsLastTarget

\* No step leaves the invariant.
LEMMA NextBusInv == BusInv /\ [Next]_vars => BusInv'
<1> SUFFICES ASSUME BusInv, [Next]_vars PROVE BusInv'
  OBVIOUS
<1> USE DEF BusInv, TypeOK, ControlBusIsLastTarget, buses, history
<1>1. LabelAddresses \cup {0} \subseteq Int
  BY DatapathSizes
<1>2. ASSUME NEW l \in Labels, NEW a \in LabelAddresses, DefineLabel(l, a) PROVE BusInv'
  BY <1>2 DEF DefineLabel
<1>3. ASSUME NEW src \in Register, NEW dest \in Register, LoadReg(src, dest) PROVE BusInv'
  BY <1>3 DEF LoadReg
<1>4. ASSUME NEW op \in ALUOperation, NEW a \in Register, NEW b \in Register,
             NEW dest \in Register, PerformALU(op, a, b, dest)
      PROVE  BusInv'
  <2>1. ALU(op, registers[a], registers[b]) \in Word
    BY ALUType
  <2>2. QED
    BY <1>4, <2>1 DEF PerformALU
<1>5. ASSUME NEW a \in Addresses, NEW dest \in Register, LoadMemory(a, dest) PROVE BusInv'
  BY <1>5 DEF LoadMemory, FetchWord
<1>6. ASSUME NEW src \in Register, NEW a \in Addresses, StoreMemory(src, a) PROVE BusInv'
  BY <1>6 DEF StoreMemory
<1>7. CASE Fetch
  <2>1. /\ programCounter' \in Int /\ programCounter' = controlBus + fetches'
        /\ fetches' \in Nat
    BY <1>1, <1>7 DEF Fetch
  <2>2. /\ registers' \in [Register -> Word] /\ dataBus' \in Word
        /\ addressBus' \in Cell \cup {0}
    BY <1>7 DEF Fetch, FetchWord
  <2>3. QED
    BY <1>7, <2>1, <2>2 DEF Fetch
<1>8. ASSUME NEW l \in Labels, Branch(l) PROVE BusInv'
  <2>1. labelAddress[l] \in LabelAddresses /\ labelAddress[l] \in Int
    BY <1>1, <1>8 DEF Branch
  <2>2. /\ controlBus' = labelAddress[l] /\ lastTarget' = labelAddress[l]
        /\ programCounter' = labelAddress[l] + 0 /\ fetches' = 0
    BY <1>8, <2>1 DEF Branch
  <2>3. QED
    BY <1>8, <2>1, <2>2 DEF Branch
<1>9. CASE UNCHANGED vars
  BY <1>9 DEF vars
<1>10. QED
  BY <1>2, <1>3, <1>4, <1>5, <1>6, <1>7, <1>8, <1>9 DEF Next

\* The buses hold words and addresses, no fetch changes the instruction register, and
\* the control bus holds the address the last jump went to, which the PC has left by
\* as many words as have been fetched since.
THEOREM BusesCorrect == Spec => []BusInv
  BY InitBusInv, NextBusInv, PTL DEF Spec

\* Memory changes only as the buses say: at the address on one, to the word on the
\* other.
THEOREM OverBuses == Spec => MemoryOverBuses
<1>1. ASSUME [Next]_vars, memory' # memory
      PROVE  memory' = [memory EXCEPT ![addressBus'] = dataBus']
  BY <1>1 DEF Next, DefineLabel, LoadReg, PerformALU, LoadMemory, StoreMemory, Fetch,
              Branch, vars
<1>2. QED
  BY <1>1, PTL DEF Spec, MemoryOverBuses

-----------------------------------------------------------------------------

\* The two processors have one ALU.
LEMMA SameALU == /\ Single!Register = Register /\ Single!Cell = Cell
                 /\ Single!ALUOperation = ALUOperation
                 /\ \A op, a, b : Single!ALU(op, a, b) = ALU(op, a, b)
<1>1. Single!And = And
  BY DEF Single!And, And, Single!Word, Word, Single!Bit, Bit
<1>2. QED
  BY <1>1
     DEF Single!ALU, ALU, Single!Or, Or, Single!Not, Not, Single!Register, Register,
         Single!Cell, Cell, Single!ALUOperation, ALUOperation

\* A step over the buses is a step of the single-bus processor.
LEMMA StepSimulation == [Next]_vars => [Single!Next]_Single!vars
<1> SUFFICES ASSUME [Next]_vars PROVE [Single!Next]_Single!vars
  OBVIOUS
<1> USE SameALU DEF buses, history, Single!vars
<1>1. ASSUME NEW l \in Labels, NEW a \in LabelAddresses, DefineLabel(l, a)
      PROVE  Single!DefineLabel(l, a)
  BY <1>1 DEF DefineLabel, Single!DefineLabel
<1>2. ASSUME NEW src \in Register, NEW dest \in Register, LoadReg(src, dest)
      PROVE  Single!LoadReg(src, dest)
  BY <1>2 DEF LoadReg, Single!LoadReg
<1>3. ASSUME NEW op \in ALUOperation, NEW a \in Register, NEW b \in Register,
             NEW dest \in Register, PerformALU(op, a, b, dest)
      PROVE  Single!PerformALU(op, a, b, dest)
  BY <1>3 DEF PerformALU, Single!PerformALU
<1>4. ASSUME NEW a \in Addresses, NEW dest \in Register, LoadMemory(a, dest)
      PROVE  Single!LoadMemory(a, dest)
  BY <1>4 DEF LoadMemory, FetchWord, Single!LoadMemory
<1>5. ASSUME NEW src \in Register, NEW a \in Addresses, StoreMemory(src, a)
      PROVE  Single!StoreMemory(src, a)
  BY <1>5 DEF StoreMemory, Single!StoreMemory
<1>6. ASSUME Fetch PROVE Single!Fetch
  BY <1>6 DEF Fetch, FetchWord, Single!Fetch
<1>7. ASSUME NEW l \in Labels, Branch(l) PROVE Single!Branch(l)
  BY <1>7 DEF Branch, Single!Branch
<1>8. CASE UNCHANGED vars
  BY <1>8 DEF vars
<1>9. QED
  BY <1>1, <1>2, <1>3, <1>4, <1>5, <1>6, <1>7, <1>8 DEF Next, Single!Next

\* Whatever the buses carry, the three-bus processor does what the single-bus one
\* does.
THEOREM SingleBusRefinement == Spec => SingleBusSpec
<1>1. Init => Single!Init
  BY SameALU DEF Init, Single!Init
<1>2. QED
  BY <1>1, StepSimulation, PTL DEF Spec, SingleBusSpec, Single!Spec

-----------------------------------------------------------------------------
(***************************************************************************)
(* The control unit.                                                       *)
(***************************************************************************)

Signals == {"LOAD_REG", "ALU_EXECUTE", "MEMORY_READ", "MEMORY_WRITE", "BRANCH", "HALT"}

\* The entries of the microprogram: each goes on at an entry, or halts on HALT.
LEMMA MicroprogramEntries ==
    LET program == InitialMicroprogram
    IN  /\ DOMAIN program = 0 .. 8
        /\ \A a \in 0 .. 8 :
               /\ program[a].nextAddress \in (0 .. 8) \cup {-1}
               /\ program[a].controlSignals \in Seq(Signals)
               /\ program[a].nextAddress = -1 => program[a].controlSignals = <<"HALT">>
<1> DEFINE program == InitialMicroprogram
<1>1. \A a \in 0 .. 8 : a \in {0, 1, 2, 3, 4, 5, 6, 7, 8}
  OBVIOUS
<1>2. /\ program[0] = Micro(<<"LOAD_REG", "ALU_EXECUTE">>, 1)
      /\ program[1] = Micro(<<"MEMORY_READ">>, 2)
      /\ program[2] = Micro(<<"MEMORY_WRITE">>, 3)
      /\ program[3] = Micro(<<"BRANCH">>, 0)
      /\ program[4] = Micro(<<"HALT">>, -1)
  BY DEF InitialMicroprogram, Vertical
<1>3. /\ program[5] = Micro(<<"LOAD_REG">>, 6)
      /\ program[6] = Micro(<<"ALU_EXECUTE">>, 7)
      /\ program[7] = Micro(<<"MEMORY_READ", "MEMORY_WRITE">>, 8)
      /\ program[8] = Micro(<<"HALT">>, -1)
  BY DEF InitialMicroprogram, Horizontal
<1>4. DOMAIN program = 0 .. 8
  BY DEF InitialMicroprogram
<1> HIDE DEF program
<1>5. ASSUME NEW a \in 0 .. 8
      PROVE  /\ program[a].nextAddress \in (0 .. 8) \cup {-1}
             /\ program[a].controlSignals \in
                    {<<"LOAD_REG", "ALU_EXECUTE">>, <<"MEMORY_READ">>, <<"MEMORY_WRITE">>,
                     <<"BRANCH">>, <<"HALT">>, <<"LOAD_REG">>, <<"ALU_EXECUTE">>,
                     <<"MEMORY_READ", "MEMORY_WRITE">>}
             /\ program[a].nextAddress = -1 => program[a].controlSignals = <<"HALT">>
  BY <1>1, <1>2, <1>3 DEF Micro
<1>6. {<<"LOAD_REG", "ALU_EXECUTE">>, <<"MEMORY_READ">>, <<"MEMORY_WRITE">>,
       <<"BRANCH">>, <<"HALT">>, <<"LOAD_REG">>, <<"ALU_EXECUTE">>,
       <<"MEMORY_READ", "MEMORY_WRITE">>} \subseteq Seq(Signals)
  BY DEF Signals
<1>7. QED
  BY <1>4, <1>5, <1>6 DEF program

\* Reset, the unit is at an entry and has printed nothing.
LEMMA InitMicro == MicroInit => MicroInv
<1>1. SUFFICES ASSUME MicroInit PROVE MicroInv
  OBVIOUS
<1>2. DOMAIN microprogramMemory = 0 .. 8
  BY <1>1, MicroprogramEntries DEF MicroInit
<1>3. <<>> \in Seq(Signals)
  OBVIOUS
<1>4. MicroTypeOK
  <2>1. printed = <<>>
    BY <1>1 DEF MicroInit
  <2>2. printed \in Seq({"LOAD_REG", "ALU_EXECUTE", "MEMORY_READ", "MEMORY_WRITE", "BRANCH", "HALT"})
    BY <1>3, <2>1 DEF Signals
  <2>3. 0 \in DOMAIN microprogramMemory
    BY <1>2
  <2>4. QED
    BY <1>1, <2>2, <2>3 DEF MicroInit, MicroTypeOK
<1>5. HaltedAfterHALT
  BY <1>1 DEF MicroInit, HaltedAfterHALT
<1>6. QED
  BY <1>4, <1>5 DEF MicroInv

\* Sequencing follows the entries, and a branch goes to one that exists.
LEMMA NextMicro == MicroInv /\ [MicroNext]_microVars => MicroInv'
<1> SUFFICES ASSUME MicroInv, [MicroNext]_microVars PROVE MicroInv'
  OBVIOUS
<1> USE DEF MicroInv, MicroTypeOK, HaltedAfterHALT
<1>1. CASE ExecuteMicroinstruction
  <2> DEFINE c == microsequenceCounter
             program == InitialMicroprogram
  <2>1. /\ c \in 0 .. 8 /\ microprogramMemory = program
        /\ DOMAIN program = 0 .. 8
    BY <1>1, MicroprogramEntries DEF ExecuteMicroinstruction
  <2>2. (DOMAIN program) \cup {c} = 0 .. 8 /\ program = [a \in 0 .. 8 |-> program[a]]
    BY <2>1 DEF InitialMicroprogram
  <2>3. microprogramMemory' = program
    BY <1>1, <2>1, <2>2 DEF ExecuteMicroinstruction, LookedUp
  <2>4. /\ printed' = program[c].controlSignals
        /\ microsequenceCounter' = program[c].nextAddress
        /\ branchAddress' = branchAddress /\ executing' = executing
    BY <1>1, <2>3 DEF ExecuteMicroinstruction
  <2>5. /\ program[c].nextAddress \in (0 .. 8) \cup {-1}
        /\ program[c].controlSignals \in Seq(Signals)
        /\ program[c].nextAddress = -1 => program[c].controlSignals = <<"HALT">>
    BY <2>1, MicroprogramEntries
  <2>6. MicroTypeOK'
    BY <2>1, <2>3, <2>4, <2>5 DEF Signals
  <2>7. <<"HALT">> # <<>> /\ <<"HALT">>[Len(<<"HALT">>)] = "HALT"
    OBVIOUS
  <2>8. HaltedAfterHALT'
    BY <2>4, <2>5, <2>7
  <2>9. QED
    BY <2>6, <2>8
<1>2. CASE StartSequencing
  BY <1>2 DEF StartSequencing
<1>3. CASE EndSequencing
  BY <1>3 DEF EndSequencing
<1>4. ASSUME NEW a \in BranchAddresses, ModifyBranchAddress(a)
      PROVE  MicroInv'
  BY <1>4 DEF ModifyBranchAddress
<1>5. CASE ExecuteBranch
  <2>1. DOMAIN microprogramMemory = 0 .. 8
    BY MicroprogramEntries
  <2>2. microsequenceCounter' \in DOMAIN microprogramMemory' /\ microsequenceCounter' # -1
    BY <1>5, <2>1 DEF ExecuteBranch
  <2>3. QED
    BY <1>5, <2>2 DEF ExecuteBranch
<1>6. CASE UNCHANGED microVars
  BY <1>6 DEF microVars
<1>7. QED
  BY <1>1, <1>2, <1>3, <1>4, <1>5, <1>6 DEF MicroNext, Sequencing

\* executeMicrosequencing() is always at an entry of the microprogram or has halted, and
\* then HALT was the last signal it sent.
THEOREM HaltsOnHALT == MicroSpec => []MicroInv
  BY InitMicro, NextMicro, PTL DEF MicroSpec
=============================================================================
