-------------------------- MODULE ArithmeticProofs --------------------------
(***************************************************************************)
(* Proofs about ArithmeticUnits, for every pair of operands an int holds,  *)
(* and about the bit vectors it computes with, of every length.            *)
(***************************************************************************)
EXTENDS ArithmeticUnits, FiniteSetTheorems, WellFoundedInduction, TLAPS

\* 2^n counts the subsets of 1 .. n.
LEMMA PowCounts ==
    ASSUME NEW n \in Nat
    PROVE  IsFiniteSet(SUBSET (1 .. n)) /\ Cardinality(SUBSET (1 .. n)) = 2^n
<1>1. IsFiniteSet(1 .. n) /\ Cardinality(1 .. n) = n
  BY FS_Interval
<1>2. QED
  BY <1>1, FS_SUBSET

\* A power of two is a positive natural number.
LEMMA PowType == ASSUME NEW n \in Nat PROVE 2^n \in Nat \ {0}
<1>1. Cardinality(SUBSET (1 .. n)) \in Nat
  BY PowCounts, FS_CardinalityType
<1>2. Cardinality(SUBSET (1 .. n)) # 0
  <2>1. SUBSET (1 .. n) # {}
    OBVIOUS
  <2>2. QED
    BY <2>1, PowCounts, FS_EmptySet
<1>3. QED
  BY <1>1, <1>2, PowCounts

\* The next power is twice this one: half the subsets of 1 .. n + 1 have n + 1.
LEMMA PowDouble == ASSUME NEW n \in Nat PROVE 2^(n + 1) = 2^n + 2^n
<1> DEFINE S == SUBSET (1 .. n)
           T == {u \cup {n + 1} : u \in S}
           f == [u \in S |-> u \cup {n + 1}]
<1>1. S \cup T = SUBSET (1 .. n + 1)
  <2>1. ASSUME NEW v \in S \cup T PROVE v \in SUBSET (1 .. n + 1)
    <3>1. 1 .. n \subseteq 1 .. n + 1 /\ n + 1 \in 1 .. n + 1
      OBVIOUS
    <3>2. PICK u \in S : v = u \/ v = u \cup {n + 1}
      OBVIOUS
    <3>3. QED
      BY <3>1, <3>2
  <2>2. ASSUME NEW v \in SUBSET (1 .. n + 1) PROVE v \in S \cup T
    <3>1. v \ {n + 1} \in S
      OBVIOUS
    <3>2. n + 1 \in v => v = (v \ {n + 1}) \cup {n + 1}
      OBVIOUS
    <3>3. n + 1 \notin v => v = v \ {n + 1}
      OBVIOUS
    <3>4. QED
      BY <3>1, <3>2, <3>3
  <2>3. QED
    BY <2>1, <2>2
<1>2. S \cap T = {}
  OBVIOUS
<1>3. ExistsBijection(S, T)
  <2>1. f \in [S -> T]
    OBVIOUS
  <2>2. \A u, v \in S : f[u] = f[v] => u = v
    <3>1. \A u \in S : n + 1 \notin u
      OBVIOUS
    <3>2. ASSUME NEW u \in S, NEW v \in S, f[u] = f[v] PROVE u = v
      <4>1. u \cup {n + 1} = v \cup {n + 1}
        BY <3>2
      <4>2. QED
        BY <3>1, <4>1
    <3>3. QED
      BY <3>2
  <2>3. \A v \in T : \E u \in S : f[u] = v
    OBVIOUS
  <2> HIDE DEF S, T, f
  <2>4. f \in Bijection(S, T)
    BY <2>1, <2>2, <2>3 DEF Bijection, Injection, Surjection, IsInjective
  <2>5. QED
    BY <2>4 DEF ExistsBijection
<1>4. IsFiniteSet(S) /\ Cardinality(S) = 2^n
  BY PowCounts
<1>5. Cardinality(SUBSET (1 .. n + 1)) = 2^(n + 1)
  BY PowCounts
<1>6. 2^n \in Nat
  BY PowType
<1> HIDE DEF S, T, f
<1>7. IsFiniteSet(T) /\ Cardinality(T) = 2^n
  BY <1>3, <1>4, FS_Bijection
<1>8. Cardinality(S \cup T) = 2^n + 2^n - Cardinality({})
  BY <1>2, <1>4, <1>7, FS_Union
<1>9. Cardinality({}) = 0
  BY FS_EmptySet
<1>10. 2^(n + 1) = 2^n + 2^n - 0
  BY <1>1, <1>5, <1>8, <1>9
<1>11. QED
  BY <1>6, <1>10

-----------------------------------------------------------------------------

\* A set of natural numbers with an element has a least one.
LEMMA LeastNat ==
    ASSUME NEW T, T \subseteq Nat, T # {}
    PROVE  \E u \in T : \A v \in T : u <= v
<1> DEFINE R == {ss \in Nat \X Nat : ss[1] < ss[2]}
<1>1. IsWellFoundedOn(R, Nat)
  BY NatLessThanWellFounded DEF OpToRel
<1>2. \A u, v \in Nat : <<v, u>> \notin R => u <= v
  OBVIOUS
<1> HIDE DEF R
<1>3. PICK u \in T : \A v \in T : <<v, u>> \notin R
  BY <1>1, WFMin
<1>4. QED
  BY <1>2, <1>3

\* A set that has 0, and n + 1 with n, up to a bound, has all numbers up to it.
LEMMA UpTo ==
    ASSUME NEW N \in Nat, NEW S, 0 \in S,
           \A n \in 0 .. N - 1 : n \in S => n + 1 \in S
    PROVE  0 .. N \subseteq S
<1> SUFFICES ASSUME ~ (0 .. N \subseteq S) PROVE FALSE
  OBVIOUS
<1> DEFINE T == {n \in 0 .. N : n \notin S}
<1>1. PICK m \in T : \A v \in T : m <= v
  <2>1. T \subseteq Nat /\ T # {}
    OBVIOUS
  <2> HIDE DEF T
  <2>2. QED
    BY <2>1, LeastNat
<1>2. m \in 1 .. N
  OBVIOUS
<1>3. m - 1 \in 0 .. N - 1 /\ m - 1 \notin T
  BY <1>1, <1>2
<1>4. m - 1 \in S
  BY <1>3
<1>5. QED
  BY <1>2, <1>3, <1>4

\* A quotient and a remainder are the only ones.
LEMMA ModUnique == ASSUME NEW a \in Int, NEW n \in Nat \ {0}, NEW q \in Int,
                          NEW r \in 0 .. n - 1, a = n * q + r
                   PROVE  a \div n = q /\ a % n = r
<1>1. a = n * (a \div n) + (a % n)
  BY Z3T(30)
<1> DEFINE d == a \div n
           m == a % n
<1>2. d \in Int /\ m \in 0 .. n - 1
  OBVIOUS
<1>3. a = n * d + m
  BY <1>1
<1> HIDE DEF d, m
<1>4. n * (d - q) = r - m
  BY <1>2, <1>3
<1>5. r - m < n /\ -n < r - m
  BY <1>2
<1>6. ~ d - q >= 1
  BY <1>2, <1>4, <1>5
<1>7. ~ d - q <= -1
  BY <1>2, <1>4, <1>5
<1>8. d = q
  BY <1>2, <1>6, <1>7
<1>9. m = r
  BY <1>2, <1>3, <1>8
<1>10. QED
  BY <1>8, <1>9 DEF d, m

\* f goes through the turns of a loop on V that starts with v0: turn i makes step[i][v]
\* of a value v.
Loop(f, n, V, v0, step) ==
    f \in [0 .. n -> V] /\ f[0] = v0 /\ \A i \in 1 .. n : f[i] = step[i][f[i - 1]]

\* A loop can be gone through, whatever its turns do.
LEMMA Recursion ==
    ASSUME NEW n \in Nat, NEW V, NEW v0 \in V, NEW step \in [1 .. n -> [V -> V]]
    PROVE  \E f : Loop(f, n, V, v0, step)
<1> DEFINE Run(f, k) == Loop(f, k, V, v0, step)
           S == {k \in 0 .. n : \E f : Run(f, k)}
<1>1. 0 \in S
  <2>1. \E f : Run(f, 0)
    <3>1. Run([i \in 0 .. 0 |-> v0], 0)
      BY DEF Loop
    <3> HIDE DEF Run
    <3>2. QED
      BY <3>1
  <2> HIDE DEF Run
  <2>2. QED
    BY <2>1
<1>2. ASSUME NEW k \in 0 .. n - 1, k \in S PROVE k + 1 \in S
  <2>1. PICK f : Run(f, k)
    BY <1>2
  <2> DEFINE last == step[k + 1][f[k]]
             more == [i \in 0 .. k + 1 |-> IF i <= k THEN f[i] ELSE last]
  <2>2. last \in V
    <3>1. k \in 0 .. k /\ k + 1 \in 1 .. n
      OBVIOUS
    <3>2. step[k + 1] \in [V -> V] /\ f[k] \in V
      BY <2>1, <3>1 DEF Loop
    <3>3. QED
      BY <3>2
  <2>3. more[0] = v0 /\ \A i \in 1 .. k : more[i] = step[i][more[i - 1]]
    BY <2>1 DEF Loop
  <2>4. more[k + 1] = step[k + 1][more[k]]
    OBVIOUS
  <2> HIDE DEF last
  <2>5. more \in [0 .. k + 1 -> V]
    <3>1. \A i \in 0 .. k + 1 : i <= k => f[i] \in V
      BY <2>1 DEF Loop
    <3>2. QED
      BY <2>2, <3>1
  <2> HIDE DEF more
  <2>6. \A i \in 1 .. k + 1 : more[i] = step[i][more[i - 1]]
    BY <2>3, <2>4
  <2>7. Run(more, k + 1)
    BY <2>3, <2>5, <2>6 DEF Loop
  <2>8. k + 1 \in 0 .. n
    OBVIOUS
  <2>9. QED
    BY <2>7, <2>8
<1> HIDE DEF S
<1>3. n \in S
  <2>1. n \in 0 .. n
    OBVIOUS
  <2>2. QED
    BY <1>1, <1>2, <2>1, UpTo
<1>4. QED
  BY <1>3 DEF S

-----------------------------------------------------------------------------
(* The numbers bit vectors spell. *)

Vector(n) == [1 .. n -> Bit]

\* A vector is a sequence of bits, each 0 or 1.
LEMMA VectorIs ==
    ASSUME NEW n \in Nat, NEW s \in Vector(n)
    PROVE  /\ s \in Seq(Bit) /\ Len(s) = n /\ DOMAIN s = 1 .. n
           /\ \A i \in 1 .. n : s[i] \in {0, 1}
  BY DEF Vector, Bit

\* The loop of binaryToInteger(): a bit doubles the number so far and adds itself.
LEMMA ValueSteps ==
    ASSUME NEW n \in Nat, NEW s \in Vector(n)
    PROVE  /\ Values(s)[0] = 0 /\ Value(s) = Values(s)[n]
           /\ \A i \in 1 .. n : Values(s)[i] = 2 * Values(s)[i - 1] + s[i]
           /\ Values(s) \in [0 .. n -> Nat]
<1> DEFINE Step(v) == [i \in 0 .. n |-> IF i = 0 THEN 0 ELSE 2 * v[i - 1] + s[i]]
<1>1. Len(s) = n /\ \A i \in 1 .. n : s[i] \in {0, 1}
  BY VectorIs
<1>2. Values(s) = CHOOSE v : v = Step(v)
  BY <1>1 DEF Values
<1>3. PICK N : N = Nat
  OBVIOUS
<1>4. PICK f \in [0 .. n -> N] : f[0] = 0 /\ \A i \in 1 .. n : f[i] = 2 * f[i - 1] + s[i]
  <2>1. PICK step \in [1 .. n -> [N -> N]] :
            \A i \in 1 .. n : \A v \in N : step[i][v] = 2 * v + s[i]
    <3>1. [i \in 1 .. n |-> [v \in N |-> 2 * v + s[i]]] \in [1 .. n -> [N -> N]]
      BY <1>1, <1>3
    <3>2. QED
      BY <3>1
  <2>2. PICK g : Loop(g, n, N, 0, step)
    <3>1. 0 \in N
      BY <1>3
    <3>2. QED
      BY <3>1, Recursion, Zenon
  <2>3. /\ g \in [0 .. n -> N] /\ g[0] = 0
        /\ \A i \in 1 .. n : g[i] = step[i][g[i - 1]]
    BY <2>2 DEF Loop
  <2>4. \A i \in 1 .. n : g[i - 1] \in N
    BY <2>3
  <2>5. QED
    BY <2>1, <2>3, <2>4
<1>5. f = Step(f)
  BY <1>4
<1>6. Values(s) = Step(Values(s))
  <2> HIDE DEF Step
  <2>1. QED
    BY <1>2, <1>5
<1>7. Values(s)[0] = 0 /\ \A i \in 1 .. n : Values(s)[i] = 2 * Values(s)[i - 1] + s[i]
  BY <1>6
<1>8. Values(s) = f
  <2> DEFINE S == {i \in 0 .. n : Values(s)[i] = f[i]}
  <2>1. 0 \in S
    BY <1>4, <1>7
  <2>2. ASSUME NEW k \in 0 .. n - 1, k \in S PROVE k + 1 \in S
    <3>1. k + 1 \in 1 .. n /\ (k + 1) - 1 = k
      OBVIOUS
    <3>2. QED
      BY <1>4, <1>7, <2>2, <3>1
  <2> HIDE DEF S
  <2>3. 0 .. n \subseteq S
    BY <2>1, <2>2, UpTo
  <2>4. Values(s) = [i \in 0 .. n |-> Values(s)[i]]
    BY <1>6
  <2>5. QED
    BY <1>4, <2>3, <2>4 DEF S
<1>9. QED
  BY <1>1, <1>3, <1>4, <1>7, <1>8 DEF Value

\* Two vectors with the same first bits spell the same numbers with them.
LEMMA SameFront ==
    ASSUME NEW n \in Nat, NEW s \in Vector(n), NEW p \in Nat, NEW t \in Vector(p),
           NEW k \in 0 .. n, k <= p, \A i \in 1 .. k : s[i] = t[i]
    PROVE  \A i \in 0 .. k : Values(s)[i] = Values(t)[i]
<1> DEFINE S == {i \in 0 .. k : Values(s)[i] = Values(t)[i]}
<1>1. 0 \in S
  BY ValueSteps
<1>2. ASSUME NEW i \in 0 .. k - 1, i \in S PROVE i + 1 \in S
  <2>1. i + 1 \in 1 .. n /\ i + 1 \in 1 .. p /\ (i + 1) - 1 = i
    OBVIOUS
  <2>2. Values(s)[i + 1] = 2 * Values(s)[i] + s[i + 1]
    BY <2>1, ValueSteps
  <2>3. Values(t)[i + 1] = 2 * Values(t)[i] + t[i + 1]
    BY <2>1, ValueSteps
  <2>4. QED
    BY <1>2, <2>2, <2>3
<1> HIDE DEF S
<1>3. 0 .. k \subseteq S
  BY <1>1, <1>2, UpTo
<1>4. QED
  BY <1>3 DEF S

\* What k bits can spell.
LEMMA ValueBound ==
    ASSUME NEW n \in Nat, NEW s \in Vector(n), NEW k \in 0 .. n
    PROVE  Values(s)[k] \in 0 .. 2^k - 1
<1> DEFINE S == {i \in 0 .. n : Values(s)[i] < 2^i}
<1>1. 0 \in S
  <2>1. 2^0 \in Nat \ {0}
    BY PowType
  <2>2. QED
    BY <2>1, ValueSteps
<1>2. ASSUME NEW i \in 0 .. n - 1, i \in S PROVE i + 1 \in S
  <2>1. i + 1 \in 1 .. n /\ (i + 1) - 1 = i
    OBVIOUS
  <2>2. Values(s)[i + 1] = 2 * Values(s)[i] + s[i + 1] /\ Values(s)[i] \in Nat
    BY <2>1, ValueSteps
  <2>3. s[i + 1] \in {0, 1}
    BY <2>1, VectorIs
  <2>4. 2^(i + 1) = 2^i + 2^i /\ 2^i \in Nat
    BY PowType, PowDouble
  <2>5. Values(s)[i] < 2^i
    BY <1>2
  <2>6. QED
    BY <2>2, <2>3, <2>4, <2>5
<1> HIDE DEF S
<1>3. 0 .. n \subseteq S
  BY <1>1, <1>2, UpTo
<1>4. Values(s)[k] < 2^k /\ Values(s)[k] \in Nat /\ 2^k \in Nat
  BY <1>3, ValueSteps, PowType DEF S
<1>5. QED
  BY <1>4

\* Inverting a vector complements its number.
LEMMA InvertedValue ==
    ASSUME NEW n \in Nat, NEW s \in Vector(n)
    PROVE  /\ Inverted(s) \in Vector(n)
           /\ \A k \in 0 .. n : Values(Inverted(s))[k] = 2^k - 1 - Values(s)[k]
<1>1. /\ \A i \in 1 .. n : s[i] \in {0, 1} /\ Inverted(s)[i] = 1 - s[i]
      /\ Inverted(s) \in Vector(n)
  BY VectorIs DEF Inverted, Vector, Bit
<1> DEFINE S == {k \in 0 .. n : Values(Inverted(s))[k] = 2^k - 1 - Values(s)[k]}
<1>2. 0 \in S
  BY <1>1, ValueSteps
<1>3. ASSUME NEW i \in 0 .. n - 1, i \in S PROVE i + 1 \in S
  <2>1. i + 1 \in 1 .. n /\ (i + 1) - 1 = i
    OBVIOUS
  <2>2. /\ Values(s)[i + 1] = 2 * Values(s)[i] + s[i + 1] /\ Values(s)[i] \in Nat
        /\ Values(Inverted(s))[i + 1] = 2 * Values(Inverted(s))[i] + (1 - s[i + 1])
    BY <1>1, <2>1, ValueSteps
  <2>3. 2^(i + 1) = 2^i + 2^i /\ 2^i \in Nat
    BY PowType, PowDouble
  <2>4. Values(Inverted(s))[i] = 2^i - 1 - Values(s)[i]
    BY <1>3
  <2>5. s[i + 1] \in {0, 1}
    BY <1>1, <2>1
  <2>6. QED
    BY <2>2, <2>3, <2>4, <2>5
<1> HIDE DEF S
<1>4. 0 .. n \subseteq S
  BY <1>2, <1>3, UpTo
<1>5. QED
  BY <1>1, <1>4 DEF S

-----------------------------------------------------------------------------
(* The carries of an addition, and the bits it leaves. *)

\* A carry can be taken from bit to bit.
LEMMA Carrying ==
    ASSUME NEW n \in Nat, NEW s \in Vector(n), NEW t \in Vector(n)
    PROVE  \E g \in [0 .. n -> Bit] :
              g[0] = 0 /\ \A k \in 1 .. n : g[k] = Majority(s[k], t[k], g[k - 1])
<1>1. PICK B : B = Bit
  OBVIOUS
<1>2. PICK step \in [1 .. n -> [B -> B]] :
          \A k \in 1 .. n : \A v \in B : step[k][v] = Majority(s[k], t[k], v)
  <2>1. \A k \in 1 .. n : \A v \in B : Majority(s[k], t[k], v) \in B
    BY <1>1 DEF Majority, Bit
  <2>2. [k \in 1 .. n |-> [v \in B |-> Majority(s[k], t[k], v)]] \in [1 .. n -> [B -> B]]
    BY <2>1
  <2>3. QED
    BY <2>2
<1>3. PICK g : Loop(g, n, B, 0, step)
  <2>1. 0 \in B
    BY <1>1 DEF Bit
  <2>2. QED
    BY <2>1, Recursion, Zenon
<1>4. g \in [0 .. n -> B] /\ g[0] = 0 /\ \A k \in 1 .. n : g[k] = step[k][g[k - 1]]
  BY <1>3 DEF Loop
<1>5. \A k \in 1 .. n : g[k - 1] \in B
  BY <1>4
<1>6. QED
  BY <1>1, <1>2, <1>4, <1>5

\* The same from the last bit to the first.
LEMMA CarryingBack ==
    ASSUME NEW n \in Nat, NEW s \in Vector(n), NEW t \in Vector(n)
    PROVE  \E c \in [0 .. n -> Bit] :
              c[n] = 0 /\ \A i \in 1 .. n : c[i - 1] = Majority(s[i], t[i], c[i])
<1> DEFINE back(v) == [k \in 1 .. n |-> v[n - k + 1]]
<1>1. back(s) \in Vector(n) /\ back(t) \in Vector(n)
  BY DEF Vector
<1>2. PICK g \in [0 .. n -> Bit] :
          g[0] = 0 /\ \A k \in 1 .. n : g[k] = Majority(back(s)[k], back(t)[k], g[k - 1])
  <2> HIDE DEF back
  <2>1. QED
    BY <1>1, Carrying
<1> DEFINE c == [i \in 0 .. n |-> g[n - i]]
<1>3. c \in [0 .. n -> Bit] /\ c[n] = 0
  BY <1>2
<1>4. ASSUME NEW i \in 1 .. n PROVE c[i - 1] = Majority(s[i], t[i], c[i])
  <2>1. PICK k \in 1 .. n : k = n - i + 1 /\ n - k + 1 = i
    OBVIOUS
  <2>2. back(s)[k] = s[i] /\ back(t)[k] = t[i]
    BY <2>1
  <2>3. c[i - 1] = g[k] /\ c[i] = g[k - 1]
    BY <2>1
  <2>4. QED
    BY <1>2, <2>2, <2>3
<1> HIDE DEF c
<1>5. QED
  BY <1>3, <1>4

\* The ripple of parallelAdder() and its like: none goes into the last bit.
LEMMA CarriesAre ==
    ASSUME NEW p \in Nat, NEW n \in 1 .. p, NEW a \in Vector(p), NEW m \in Vector(n)
    PROVE  /\ Carries(a, m) \in [1 .. n -> Bit] /\ Carries(a, m)[n] = 0
           /\ \A i \in 1 .. n - 1 :
                Carries(a, m)[i] = Majority(a[i + 1], m[i + 1], Carries(a, m)[i + 1])
<1> DEFINE Step(c) == [i \in 1 .. n |-> IF i = n THEN 0
                                        ELSE Majority(a[i + 1], m[i + 1], c[i + 1])]
<1>1. DOMAIN m = 1 .. n /\ Len(m) = n
  BY VectorIs
<1>2. Carries(a, m) = CHOOSE c : c = Step(c)
  BY <1>1 DEF Carries
<1>3. PICK g \in [0 .. n -> Bit] :
          g[n] = 0 /\ \A i \in 1 .. n : g[i - 1] = Majority(a[i], m[i], g[i])
  <2>1. PICK front \in Vector(n) : \A i \in 1 .. n : front[i] = a[i]
    <3>1. [i \in 1 .. n |-> a[i]] \in Vector(n)
      BY DEF Vector
    <3>2. QED
      BY <3>1
  <2>2. PICK g \in [0 .. n -> Bit] :
            g[n] = 0 /\ \A i \in 1 .. n : g[i - 1] = Majority(front[i], m[i], g[i])
    <3>1. n \in Nat
      OBVIOUS
    <3>2. QED
      BY <3>1, CarryingBack
  <2>3. QED
    BY <2>1, <2>2
<1>4. PICK c \in [1 .. n -> Bit] : \A i \in 1 .. n : c[i] = g[i]
  <2>1. [i \in 1 .. n |-> g[i]] \in [1 .. n -> Bit]
    BY <1>3
  <2>2. QED
    BY <2>1
<1>5. c = Step(c)
  <2>1. ASSUME NEW i \in 1 .. n, i # n
        PROVE  c[i] = Majority(a[i + 1], m[i + 1], c[i + 1])
    <3>1. PICK j \in 1 .. n : j = i + 1 /\ j - 1 = i
      BY <2>1
    <3>2. g[i] = Majority(a[j], m[j], g[j])
      BY <1>3, <3>1
    <3>3. QED
      BY <1>4, <3>1, <3>2
  <2>2. c[n] = 0
    BY <1>3, <1>4
  <2>3. QED
    BY <2>1, <2>2
<1>6. Carries(a, m) = Step(Carries(a, m))
  <2> HIDE DEF Step
  <2>1. QED
    BY <1>2, <1>5
<1>7. \A u, v, k : Majority(u, v, k) \in Bit
  BY DEF Majority, Bit
<1>8. 0 \in Bit
  BY DEF Bit
<1>9. QED
  BY <1>6, <1>7, <1>8

\* Adding a shorter vector to a register gives the register's width, changes nothing
\* past the shorter one's width, and gives the sum modulo 2^width of the rest.
LEMMA RippledSum ==
    ASSUME NEW p \in Nat, NEW n \in 1 .. p, NEW a \in Vector(p), NEW m \in Vector(n),
           NEW c \in [1 .. n -> Bit]
    PROVE  /\ Rippled(a, m, c) \in Vector(p)
           /\ \A i \in 1 .. n : Rippled(a, m, c)[i] = (a[i] + m[i] + c[i]) % 2
           /\ \A i \in n + 1 .. p : Rippled(a, m, c)[i] = a[i]
<1>1. /\ DOMAIN a = 1 .. p /\ DOMAIN m = 1 .. n
      /\ \A i \in 1 .. p : a[i] \in {0, 1}
      /\ \A i \in 1 .. n : m[i] \in {0, 1} /\ c[i] \in {0, 1}
  BY VectorIs DEF Bit
<1>2. \A i \in 1 .. n : (a[i] + m[i] + c[i]) % 2 \in {0, 1}
  BY <1>1
<1>3. QED
  BY <1>1, <1>2 DEF Rippled, Vector, Bit

-----------------------------------------------------------------------------
(* The conversions and the widths. *)

\* The low-order bits of a number are a vector.
LEMMA SpelledType ==
    ASSUME NEW n \in Nat, NEW w \in Nat
    PROVE  Spelled(n, w) \in Vector(w)
<1>1. ASSUME NEW i \in 1 .. w PROVE (n \div 2^(w - i)) % 2 \in Bit
  <2>1. PICK p \in Nat \ {0} : p = 2^(w - i)
    BY PowType
  <2>2. (n \div p) % 2 \in {0, 1}
    OBVIOUS
  <2>3. QED
    BY <2>1, <2>2 DEF Bit
<1>2. QED
  BY <1>1 DEF Spelled, Vector

\* The loop that adds 1 keeps the length.
LEMMA AddOneType ==
    ASSUME NEW n \in Nat, NEW s \in Vector(n)
    PROVE  AddOneLoop(s) \in Vector(n)
  BY VectorIs DEF AddOneLoop, Vector, Bit

\* integerToBinary() gives a vector of the width it is asked for.
LEMMA ToBinaryType ==
    ASSUME NEW n \in Int, NEW w \in Nat
    PROVE  IntegerToBinary(n, w) \in Vector(w)
<1>1. CASE n < 0
  <2>1. Spelled(-n, w) \in Vector(w)
    BY <1>1, SpelledType
  <2>2. QED
    BY <1>1, <2>1, InvertedValue, AddOneType DEF IntegerToBinary
<1>2. CASE ~ (n < 0)
  BY <1>2, SpelledType DEF IntegerToBinary
<1>3. QED
  BY <1>1, <1>2

\* binaryToInteger() gives a number, and so does the value of a vector.
LEMMA ToIntegerType ==
    ASSUME NEW n \in Nat, NEW s \in Vector(n)
    PROVE  Value(s) \in Nat /\ BinaryToInteger(s) \in Int
<1>1. \A t \in Vector(n) : Value(t) \in Nat
  <2> SUFFICES ASSUME NEW t \in Vector(n) PROVE Value(t) \in Nat
    OBVIOUS
  <2>1. QED
    BY ValueSteps
<1>2. AddOneLoop(Inverted(s)) \in Vector(n)
  BY InvertedValue, AddOneType
<1>3. QED
  BY <1>1, <1>2 DEF BinaryToInteger

\* What Digits() chooses.
LEMMA DigitsAre ==
    ASSUME NEW n \in Nat,
           \E d \in 1 .. 10 : n < 10^d /\ (d > 1 => n >= 10^(d - 1))
    PROVE  Digits(n) \in 1 .. 10 /\ n < 10^Digits(n)
<1> DEFINE P(d) == n < 10^d /\ (d > 1 => n >= 10^(d - 1))
<1>1. Digits(n) = CHOOSE d \in 1 .. 10 : P(d)
  BY DEF Digits
<1>2. \A d : P(d) => n < 10^d
  OBVIOUS
<1>3. \E d \in 1 .. 10 : P(d)
  OBVIOUS
<1> HIDE DEF P
<1>4. Digits(n) \in 1 .. 10 /\ P(Digits(n))
  BY <1>1, <1>3
<1>5. QED
  BY <1>2, <1>4

\* An int has at most 10 digits, and is less than the power of ten after them.
LEMMA DigitsOfInt ==
    ASSUME NEW n \in Nat, n <= 2147483647
    PROVE  Digits(n) \in 1 .. 10 /\ n < 10^Digits(n)
<1>1. /\ 10^1 = 10 /\ 10^2 = 100 /\ 10^3 = 1000 /\ 10^4 = 10000 /\ 10^5 = 100000
      /\ 10^6 = 1000000 /\ 10^7 = 10000000 /\ 10^8 = 100000000
      /\ 10^9 = 1000000000 /\ 10^10 = 10000000000
  BY Z3
<1>2. \E d \in 1 .. 10 : n < 10^d /\ (d > 1 => n >= 10^(d - 1))
  <2>1. CASE n < 10
    BY <1>1, <2>1, Z3
  <2>2. CASE 10 <= n /\ n < 100
    BY <1>1, <2>2, Z3
  <2>3. CASE 100 <= n /\ n < 1000
    BY <1>1, <2>3, Z3
  <2>4. CASE 1000 <= n /\ n < 10000
    BY <1>1, <2>4, Z3
  <2>5. CASE 10000 <= n /\ n < 100000
    BY <1>1, <2>5, Z3
  <2>6. CASE 100000 <= n /\ n < 1000000
    BY <1>1, <2>6, Z3
  <2>7. CASE 1000000 <= n /\ n < 10000000
    BY <1>1, <2>7, Z3
  <2>8. CASE 10000000 <= n /\ n < 100000000
    BY <1>1, <2>8, Z3
  <2>9. CASE 100000000 <= n /\ n < 1000000000
    BY <1>1, <2>9, Z3
  <2>10. CASE 1000000000 <= n
    BY <1>1, <2>10, Z3
  <2>11. QED
    BY <2>1, <2>2, <2>3, <2>4, <2>5, <2>6, <2>7, <2>8, <2>9, <2>10, Z3
<1>3. QED
  BY <1>2, DigitsAre, Z3

\* And so has the magnitude of an operand.
LEMMA OperandDigits ==
    ASSUME NEW a \in Operands
    PROVE  Magnitude(a) \in Nat /\ Digits(Magnitude(a)) \in 1 .. 10
                                /\ Magnitude(a) < 10^Digits(Magnitude(a))
<1>1. Magnitude(a) \in Nat /\ Magnitude(a) <= 2147483647
  BY OperandsAreInts, Z3 DEF Magnitude
<1>2. PICK g \in Nat : g = Magnitude(a) /\ g <= 2147483647
  BY <1>1, Z3
<1>3. Digits(g) \in 1 .. 10 /\ g < 10^Digits(g)
  BY <1>2, DigitsOfInt, Z3
<1>4. QED
  BY <1>2, <1>3, Z3

\* The registers have from 8 to 40 bits.
LEMMA WidthType ==
    ASSUME NEW a \in Operands, NEW b \in Operands
    PROVE  WidthFor(a, b) \in 8 .. 40
<1>1. Digits(Magnitude(a)) \in 1 .. 10 /\ Digits(Magnitude(b)) \in 1 .. 10
  BY OperandDigits
<1>2. QED
  BY <1>1 DEF WidthFor

-----------------------------------------------------------------------------
(* The adders. *)

\* A positive number has a bit length, which is positive; others have none.
LEMMA BitLengthType ==
    ASSUME NEW n \in Int
    PROVE  /\ BitLength(n) \in Nat /\ (n > 0 => BitLength(n) > 0)
           /\ n \in Nat => n < 2^BitLength(n)
<1>0. 2^0 = 1
  OBVIOUS
<1>1. CASE n <= 0
  BY <1>0, <1>1 DEF BitLength
<1>2. CASE n > 0
  <2> DEFINE T == {k \in Nat : n < 2^k}
             S == {k \in 0 .. n : k < 2^k}
  <2>1. 0 \in S
    BY <1>0, <1>2
  <2>2. ASSUME NEW k \in 0 .. n - 1, k \in S PROVE k + 1 \in S
    <3>1. 2^(k + 1) = 2^k + 2^k /\ 2^k \in Nat \ {0} /\ k < 2^k
      BY <2>2, PowType, PowDouble
    <3>2. k + 1 < 2^(k + 1) /\ k + 1 \in 0 .. n
      BY <3>1
    <3>3. QED
      BY <3>2
  <2> HIDE DEF S
  <2>3. n \in 0 .. n /\ n \in Nat
    BY <1>2
  <2>4. n \in S
    BY <2>1, <2>2, <2>3, UpTo
  <2>5. n \in T
    BY <2>3, <2>4 DEF S
  <2>6. PICK k \in T : \A j \in T : k <= j
    <3>1. T \subseteq Nat /\ T # {}
      BY <2>5
    <3> HIDE DEF T
    <3>2. QED
      BY <3>1, LeastNat
  <2>7. k # 0
    <3>1. k \in Nat /\ n < 2^k
      OBVIOUS
    <3>2. ASSUME k = 0 PROVE FALSE
      <4>1. n < 2^0
        BY <3>1, <3>2, Zenon
      <4>2. QED
        BY <1>0, <1>2, <4>1
    <3>3. QED
      BY <3>2
  <2>8. k \in 1 .. n /\ k - 1 \in Nat
    BY <2>3, <2>5, <2>6, <2>7
  <2>9. k - 1 \notin T
    <3> HIDE DEF T
    <3>1. QED
      BY <2>6, <2>8
  <2>10. 2^(k - 1) <= n /\ n < 2^k
    <3>1. 2^(k - 1) \in Nat
      BY <2>8, PowType
    <3>2. QED
      BY <2>3, <2>8, <2>9, <3>1
  <2>11. BitLength(n) \in 1 .. n /\ n < 2^BitLength(n)
    BY <1>2, <2>8, <2>10 DEF BitLength
  <2>12. QED
    BY <1>2, <2>11
<1>3. QED
  BY <1>1, <1>2

\* integerToBinary() of the adder.
LEMMA MinimalType ==
    ASSUME NEW n \in Int
    PROVE  /\ MinimalBinary(n) \in Vector(BitLength(n)) /\ BitLength(n) \in Nat
           /\ (n > 0 => BitLength(n) > 0)
<1>1. BitLength(n) \in Nat /\ (n > 0 => BitLength(n) > 0)
  BY BitLengthType
<1>2. CASE n > 0
  BY <1>1, <1>2, SpelledType DEF MinimalBinary
<1>3. CASE n <= 0
  <2>1. BitLength(n) = 0
    BY <1>3 DEF BitLength
  <2>2. MinimalBinary(n) = [i \in 1 .. 0 |-> 0]
    BY <2>1 DEF MinimalBinary, Spelled
  <2>3. QED
    BY <1>1, <2>1, <2>2 DEF Vector
<1>4. QED
  BY <1>1, <1>2, <1>3

\* resize() to a longer width keeps a vector a vector.
LEMMA PaddedType ==
    ASSUME NEW n \in Nat, NEW k \in 0 .. n, NEW s \in Vector(k)
    PROVE  Padded(s, n) \in Vector(n)
<1>1. Len(s) = k /\ s \in Seq(Bit)
  BY VectorIs
<1>2. Zeros(n - k) \in Seq(Bit) /\ Len(Zeros(n - k)) = n - k
  BY DEF Zeros, Bit
<1>3. Padded(s, n) \in Seq(Bit) /\ Len(Padded(s, n)) = n
  BY <1>1, <1>2 DEF Padded
<1>4. QED
  BY <1>3 DEF Vector

\* Zeros are a vector.
LEMMA ZeroVector == ASSUME NEW n \in Nat PROVE Zeros(n) \in Vector(n)
  BY DEF Zeros, Vector, Bit

\* A sequence of bits is a vector of its length.
LEMMA VectorOf ==
    ASSUME NEW s \in Seq(Bit)
    PROVE  Len(s) \in Nat /\ s \in Vector(Len(s))
  BY DEF Vector

\* A carry in front makes a vector longer.
LEMMA WithCarryType ==
    ASSUME NEW s \in Seq(Bit), NEW c
    PROVE  WithCarry(c, s) \in Seq(Bit) /\ Len(WithCarry(c, s)) >= Len(s)
<1>1. <<1>> \in Seq(Bit) /\ Len(<<1>>) = 1
  BY DEF Bit
<1>2. <<1>> \o s \in Seq(Bit) /\ Len(<<1>> \o s) = 1 + Len(s) /\ Len(s) \in Nat
  BY <1>1
<1>3. QED
  BY <1>2 DEF WithCarry

\* The carries of the ripple adder.
LEMMA RippleCarryAre ==
    ASSUME NEW n \in Nat, NEW s \in Vector(n), NEW t \in Vector(n)
    PROVE  /\ RippleCarry(s, t) \in [1 .. n + 1 -> Bit] /\ RippleCarry(s, t)[n + 1] = 0
           /\ \A i \in 1 .. n :
                RippleCarry(s, t)[i] = Majority(s[i], t[i], RippleCarry(s, t)[i + 1])
<1> DEFINE Step(c) == [i \in 1 .. n + 1 |-> IF i = n + 1 THEN 0
                                            ELSE Majority(s[i], t[i], c[i + 1])]
<1>1. Len(s) = n
  BY VectorIs
<1>2. RippleCarry(s, t) = CHOOSE c : c = Step(c)
  BY <1>1 DEF RippleCarry
<1>3. PICK g \in [0 .. n -> Bit] :
          g[n] = 0 /\ \A i \in 1 .. n : g[i - 1] = Majority(s[i], t[i], g[i])
  BY CarryingBack
<1>4. PICK c \in [1 .. n + 1 -> Bit] : \A i \in 1 .. n + 1 : c[i] = g[i - 1]
  <2>1. [i \in 1 .. n + 1 |-> g[i - 1]] \in [1 .. n + 1 -> Bit]
    BY <1>3
  <2>2. QED
    BY <2>1
<1>5. c = Step(c)
  <2>1. ASSUME NEW i \in 1 .. n + 1, i # n + 1
        PROVE  c[i] = Majority(s[i], t[i], c[i + 1])
    <3>1. i \in 1 .. n /\ i + 1 \in 1 .. n + 1 /\ (i + 1) - 1 = i
      BY <2>1
    <3>2. QED
      BY <1>3, <1>4, <3>1
  <2>2. c[n + 1] = 0
    <3>1. n + 1 \in 1 .. n + 1 /\ (n + 1) - 1 = n
      OBVIOUS
    <3>2. QED
      BY <1>3, <1>4, <3>1
  <2>3. QED
    BY <2>1, <2>2
<1>6. RippleCarry(s, t) = Step(RippleCarry(s, t))
  <2> HIDE DEF Step
  <2>1. QED
    BY <1>2, <1>5
<1>7. \A u, v, k : Majority(u, v, k) \in Bit
  BY DEF Majority, Bit
<1>8. 0 \in Bit
  BY DEF Bit
<1>9. QED
  BY <1>6, <1>7, <1>8

\* What the adders print are vectors.
LEMMA AddersType ==
    ASSUME NEW s \in Seq(Bit), NEW t \in Seq(Bit)
    PROVE  /\ ParallelAdder(s, t) \in Seq(Bit)
           /\ ParallelSubtractor(s, t) \in Seq(Bit)
           /\ CarryLookaheadAdder(s, t) \in Seq(Bit)
<1>1. PICK n \in Nat : n = Longer(s, t) /\ Len(s) \in 0 .. n /\ Len(t) \in 0 .. n
  BY DEF Longer
<1>2. PICK a \in Vector(n) : a = Padded(s, n)
  BY <1>1, VectorOf, PaddedType
<1>3. PICK b \in Vector(n) : b = Padded(t, n)
  BY <1>1, VectorOf, PaddedType
<1>4. Inverted(b) \in Vector(n)
  BY InvertedValue
<1>5. \A u, v, c \in Bit : FullAdderSum(u, v, c) \in Bit
  BY DEF FullAdderSum, Bit
<1>6. ASSUME NEW d \in Vector(n), NEW c \in [1 .. n + 1 -> Bit]
      PROVE  [i \in 1 .. n |-> FullAdderSum(a[i], d[i], c[i + 1])] \in Seq(Bit)
  <2>1. \A i \in 1 .. n : a[i] \in Bit /\ d[i] \in Bit /\ c[i + 1] \in Bit
    BY DEF Vector
  <2>2. \A i \in 1 .. n : FullAdderSum(a[i], d[i], c[i + 1]) \in Bit
    BY <1>5, <2>1
  <2>3. QED
    BY <2>2
<1>7. ParallelAdder(s, t) \in Seq(Bit)
  <2>1. PICK c \in [1 .. n + 1 -> Bit] : c = RippleCarry(a, b)
    BY RippleCarryAre
  <2>2. [i \in 1 .. n |-> FullAdderSum(a[i], b[i], c[i + 1])] \in Seq(Bit)
    BY <1>6
  <2>3. QED
    BY <1>1, <1>2, <1>3, <2>1, <2>2, WithCarryType DEF ParallelAdder
<1>8. ParallelSubtractor(s, t) \in Seq(Bit)
  <2>1. PICK c \in [1 .. n + 1 -> Bit] : c = RippleCarry(a, Inverted(b))
    BY <1>4, RippleCarryAre
  <2>2. [i \in 1 .. n |-> FullAdderSum(a[i], Inverted(b)[i], c[i + 1])] \in Seq(Bit)
    BY <1>4, <1>6
  <2>3. QED
    BY <1>1, <1>2, <1>3, <2>1, <2>2 DEF ParallelSubtractor
<1>9. CarryLookaheadAdder(s, t) \in Seq(Bit)
  <2> DEFINE Step(c) == [i \in 0 .. n |-> IF i = 0 THEN 0
                                          ELSE Majority(a[i], b[i], c[i - 1])]
  <2>1. PICK g \in [0 .. n -> Bit] :
            g[0] = 0 /\ \A k \in 1 .. n : g[k] = Majority(a[k], b[k], g[k - 1])
    BY Carrying
  <2>2. g = Step(g)
    BY <2>1
  <2>3. PICK c : c = CHOOSE h : h = Step(h)
    OBVIOUS
  <2>4. c = Step(c)
    <3> HIDE DEF Step
    <3>1. QED
      BY <2>2, <2>3
  <2>5. \A u, v, k : Majority(u, v, k) \in Bit
    BY DEF Majority, Bit
  <2>6. \A i \in 0 .. n : c[i] \in Bit
    BY <2>4, <2>5 DEF Bit
  <2>7. \A i \in 1 .. n : FullAdderSum(a[i], b[i], c[i - 1]) \in Bit
    <3>1. \A i \in 1 .. n : a[i] \in Bit /\ b[i] \in Bit /\ c[i - 1] \in Bit
      BY <2>6 DEF Vector
    <3>2. QED
      BY <1>5, <3>1
  <2>8. [i \in 1 .. n |-> FullAdderSum(a[i], b[i], c[i - 1])] \in Seq(Bit)
    BY <2>7
  <2>9. CarryLookaheadAdder(s, t)
          = WithCarry(c[n], [i \in 1 .. n |-> FullAdderSum(a[i], b[i], c[i - 1])])
    BY <1>1, <1>2, <1>3, <2>3 DEF CarryLookaheadAdder
  <2>10. QED
    BY <2>8, <2>9, WithCarryType
<1>10. QED
  BY <1>7, <1>8, <1>9

-----------------------------------------------------------------------------
(* The shift-and-add multiplier. *)

\* A turn of the loop that adds s into a product, and of the loop over the multiplier q.
AddTurn(s, k, v) ==
    LET j == Len(s) - k + 1
        q == [v EXCEPT ![j] = (@ + s[j]) % 2]
    IN  IF q[j] = 1 /\ s[j] = 1 THEN <<1>> \o q ELSE q

ProductTurn(m, q, k, v) ==
    IF q[Len(q) - k + 1] = 1
    THEN AddInto(v, Padded(m \o Zeros(k - 1), Len(m) + Len(q)))
    ELSE v

\* Products that have u bits or more, and those of them that end in 0.
Long(u) == {p \in Seq(Bit) : Len(p) >= u}
Even(u) == {p \in Long(u) : p[Len(p)] = 0}

\* What no turn leaves, the first loop does not leave.
LEMMA AddIntoKeeps ==
    ASSUME NEW n \in Nat, NEW s \in Vector(n), NEW V, NEW p \in V,
           \A k \in 1 .. n : \A v \in V : AddTurn(s, k, v) \in V
    PROVE  AddInto(p, s) \in V
<1> DEFINE Step(f) == [k \in 0 .. n |-> IF k = 0 THEN p ELSE AddTurn(s, k, f[k - 1])]
<1>0. n \in 0 .. n
  OBVIOUS
<1>1. Len(s) = n
  BY VectorIs
<1>2. PICK f : f = CHOOSE h : h = Step(h)
  OBVIOUS
<1>3. AddInto(p, s) = f[n]
  BY <1>1, <1>2 DEF AddInto, AddTurn
<1>4. PICK step \in [1 .. n -> [V -> V]] :
          \A k \in 1 .. n : \A v \in V : step[k][v] = AddTurn(s, k, v)
  <2>1. [k \in 1 .. n |-> [v \in V |-> AddTurn(s, k, v)]] \in [1 .. n -> [V -> V]]
    OBVIOUS
  <2>2. QED
    BY <2>1
<1>5. PICK g : Loop(g, n, V, p, step)
  BY Recursion, Zenon
<1>6. g = Step(g)
  <2>1. g \in [0 .. n -> V] /\ g[0] = p /\ \A k \in 1 .. n : g[k] = step[k][g[k - 1]]
    BY <1>5 DEF Loop
  <2>2. \A k \in 1 .. n : g[k - 1] \in V
    BY <2>1
  <2>3. QED
    BY <1>4, <2>1, <2>2
<1>7. f = Step(f)
  <2> HIDE DEF Step
  <2>1. QED
    BY <1>2, <1>6
<1> DEFINE S == {k \in 0 .. n : f[k] \in V}
<1>8. 0 \in S
  BY <1>7
<1>9. ASSUME NEW k \in 0 .. n - 1, k \in S PROVE k + 1 \in S
  <2>1. k + 1 \in 1 .. n /\ k + 1 \in 0 .. n /\ (k + 1) - 1 = k
    OBVIOUS
  <2>2. f[k + 1] = AddTurn(s, k + 1, f[k])
    BY <1>7, <2>1
  <2>3. f[k] \in V
    BY <1>9
  <2>4. QED
    BY <2>1, <2>2, <2>3
<1> HIDE DEF S
<1>10. 0 .. n \subseteq S
  BY <1>8, <1>9, UpTo
<1>11. QED
  BY <1>0, <1>3, <1>10 DEF S

\* The same of the second loop.
LEMMA ProductKeeps ==
    ASSUME NEW m \in Seq(Bit), NEW q \in Seq(Bit), NEW V,
           Padded(<<>>, Len(m) + Len(q)) \in V,
           \A k \in 1 .. Len(q) : \A v \in V : ProductTurn(m, q, k, v) \in V
    PROVE  UnsignedProduct(m, q) \in V
<1>1. PICK n \in Nat : n = Len(q)
  BY VectorOf
<1>0. n \in 0 .. n
  OBVIOUS
<1>2. PICK p \in V : p = Padded(<<>>, Len(m) + Len(q))
  OBVIOUS
<1> DEFINE Step(f) == [k \in 0 .. n |-> IF k = 0 THEN p
                                        ELSE ProductTurn(m, q, k, f[k - 1])]
<1>3. PICK f : f = CHOOSE h : h = Step(h)
  OBVIOUS
<1>4. UnsignedProduct(m, q) = f[n]
  BY <1>1, <1>2, <1>3 DEF UnsignedProduct, ProductTurn
<1>5. PICK step \in [1 .. n -> [V -> V]] :
          \A k \in 1 .. n : \A v \in V : step[k][v] = ProductTurn(m, q, k, v)
  <2>1. [k \in 1 .. n |-> [v \in V |-> ProductTurn(m, q, k, v)]] \in [1 .. n -> [V -> V]]
    BY <1>1
  <2>2. QED
    BY <2>1
<1>6. PICK g : Loop(g, n, V, p, step)
  BY Recursion, Zenon
<1>7. g = Step(g)
  <2>1. g \in [0 .. n -> V] /\ g[0] = p /\ \A k \in 1 .. n : g[k] = step[k][g[k - 1]]
    BY <1>6 DEF Loop
  <2>2. \A k \in 1 .. n : g[k - 1] \in V
    BY <2>1
  <2>3. QED
    BY <1>5, <2>1, <2>2
<1>8. f = Step(f)
  <2> HIDE DEF Step
  <2>1. QED
    BY <1>3, <1>7
<1> DEFINE S == {k \in 0 .. n : f[k] \in V}
<1>9. 0 \in S
  BY <1>8
<1>10. ASSUME NEW k \in 0 .. n - 1, k \in S PROVE k + 1 \in S
  <2>1. k + 1 \in 1 .. n /\ k + 1 \in 0 .. n /\ (k + 1) - 1 = k
    OBVIOUS
  <2>2. f[k + 1] = ProductTurn(m, q, k + 1, f[k])
    BY <1>8, <2>1
  <2>3. f[k] \in V
    BY <1>10
  <2>4. QED
    BY <1>1, <2>1, <2>2, <2>3
<1> HIDE DEF S
<1>11. 0 .. n \subseteq S
  BY <1>9, <1>10, UpTo
<1>12. QED
  BY <1>0, <1>4, <1>11 DEF S

\* A turn of the first loop changes one bit and may put a 1 in front.
LEMMA TurnIs ==
    ASSUME NEW n \in Nat, NEW s \in Vector(n), NEW k \in 1 .. n, NEW v \in Long(n)
    PROVE  \E j \in 1 .. n : \E b \in {0, 1} : \E q \in Seq(Bit) :
              /\ j \in 1 .. Len(v) /\ s[j] \in {0, 1} /\ v[j] \in {0, 1}
              /\ b = (v[j] + s[j]) % 2 /\ q = [v EXCEPT ![j] = b] /\ Len(q) = Len(v)
              /\ AddTurn(s, k, v) = IF b = 1 /\ s[j] = 1 THEN <<1>> \o q ELSE q
<1>1. Len(s) = n /\ \A i \in 1 .. n : s[i] \in {0, 1}
  BY VectorIs
<1>2. PICK j \in 1 .. n : j = n - k + 1
  OBVIOUS
<1>3. v \in Seq(Bit) /\ Len(v) \in Nat /\ Len(v) >= n /\ j \in 1 .. Len(v)
  BY DEF Long
<1>4. v[j] \in {0, 1} /\ s[j] \in {0, 1}
  BY <1>1, <1>3 DEF Bit
<1>5. PICK b \in {0, 1} : b = (v[j] + s[j]) % 2
  BY <1>4
<1>6. PICK q : q = [v EXCEPT ![j] = b]
  OBVIOUS
<1>7. q \in Seq(Bit) /\ Len(q) = Len(v)
  BY <1>3, <1>6 DEF Bit
<1>8. AddTurn(s, k, v) = IF b = 1 /\ s[j] = 1 THEN <<1>> \o q ELSE q
  <2>1. q[j] = b
    BY <1>3, <1>6
  <2>2. q = [v EXCEPT ![j] = (@ + s[j]) % 2]
    BY <1>3, <1>5, <1>6
  <2>3. QED
    BY <1>1, <1>2, <2>1, <2>2 DEF AddTurn
<1>9. QED
  BY <1>3, <1>4, <1>5, <1>6, <1>7, <1>8

\* No turn makes a product shorter; and where s ends in 0, and is as long as the
\* product is at least, none changes the product's last bit.
LEMMA TurnKeeps ==
    ASSUME NEW n \in Nat, NEW s \in Vector(n), NEW k \in 1 .. n, NEW v \in Long(n)
    PROVE  /\ AddTurn(s, k, v) \in Long(n)
           /\ s[n] = 0 /\ v \in Even(n) => AddTurn(s, k, v) \in Even(n)
<1>1. PICK j \in 1 .. n, b \in {0, 1}, q \in Seq(Bit) :
          /\ j \in 1 .. Len(v) /\ s[j] \in {0, 1} /\ v[j] \in {0, 1}
          /\ b = (v[j] + s[j]) % 2 /\ q = [v EXCEPT ![j] = b] /\ Len(q) = Len(v)
          /\ AddTurn(s, k, v) = IF b = 1 /\ s[j] = 1 THEN <<1>> \o q ELSE q
  BY TurnIs
<1>2. /\ v \in Seq(Bit) /\ Len(v) \in Nat /\ Len(v) >= n
      /\ \A i \in 1 .. Len(v) : q[i] = IF i = j THEN b ELSE v[i]
  <2>1. v \in Seq(Bit) /\ Len(v) \in Nat /\ Len(v) >= n
    BY DEF Long
  <2>2. \A i \in 1 .. Len(v) : q[i] = IF i = j THEN b ELSE v[i]
    BY <1>1, <2>1
  <2>3. QED
    BY <2>1, <2>2
<1>3. PICK r \in Seq(Bit) : /\ r = <<1>> \o q /\ Len(r) = 1 + Len(q)
                            /\ \A i \in 1 .. Len(q) : r[1 + i] = q[i]
  <2>1. <<1>> \in Seq(Bit) /\ Len(<<1>>) = 1
    BY DEF Bit
  <2>2. <<1>> \o q \in Seq(Bit) /\ Len(<<1>> \o q) = 1 + Len(q)
    BY <2>1
  <2>3. \A i \in 1 .. Len(q) : (<<1>> \o q)[1 + i] = q[i]
    BY <2>1
  <2>4. QED
    BY <2>2, <2>3
<1>4. q \in Long(n) /\ r \in Long(n)
  BY <1>1, <1>2, <1>3 DEF Long
<1>5. ASSUME s[n] = 0, v \in Even(n) PROVE q \in Even(n) /\ r \in Even(n)
  <2>0. v[Len(v)] = 0
    BY <1>5 DEF Even
  <2>1. PICK l \in Nat : l = Len(v) /\ l >= n /\ l \in 1 .. l /\ v[l] = 0
    <3>1. Len(v) >= 1
      BY <1>2
    <3>2. QED
      BY <1>2, <2>0, <3>1
  <2>2. q[l] = 0
    <3>1. CASE l = j
      <4>1. s[j] = 0 /\ v[j] = 0
        BY <1>5, <2>1, <3>1
      <4>2. b = 0
        BY <1>1, <4>1
      <4>3. QED
        BY <1>1, <1>2, <2>1, <3>1, <4>2
    <3>2. CASE l # j
      BY <1>1, <1>2, <2>1, <3>2, ZenonT(30)
    <3>3. QED
      BY <3>1, <3>2
  <2>3. r[1 + l] = q[l]
    BY <1>1, <1>3, <2>1, ZenonT(30)
  <2>4. Len(q) = l /\ Len(r) = 1 + l
    BY <1>1, <1>3, <2>1
  <2>5. q[Len(q)] = 0 /\ r[Len(r)] = 0
    BY <2>2, <2>3, <2>4
  <2>6. QED
    BY <1>4, <2>5 DEF Even
<1>6. QED
  BY <1>1, <1>3, <1>4, <1>5

\* What is added is as long as the operands together, ends in 0, and is of zeros if the
\* multiplicand is empty.
LEMMA ShiftedIs ==
    ASSUME NEW m \in Seq(Bit), NEW q \in Seq(Bit), NEW k \in 1 .. Len(q),
           NEW u, u = Len(m) + Len(q)
    PROVE  \E s \in Vector(u) : /\ s = Padded(m \o Zeros(k - 1), u)
                                /\ u \in Nat \ {0} /\ s[u] = 0
                                /\ Len(m) = 0 => s = Zeros(u)
<1>1. Len(m) \in Nat /\ Len(q) \in Nat
  BY VectorOf
<1>2. PICK l, g, h \in Nat : /\ l = Len(m) /\ g = k - 1 /\ h = u - (l + g) /\ h > 0
                             /\ u = (l + g) + h /\ u \in Nat \ {0}
  <2>1. PICK l, n \in Nat : l = Len(m) /\ n = Len(q) /\ k \in 1 .. n /\ u = l + n
    BY <1>1
  <2>2. PICK g, h \in Nat : g = k - 1 /\ h = n - g /\ h > 0 /\ n = g + h
    <3>1. PICK g \in Nat : g = k - 1 /\ g < n
      BY <2>1
    <3>2. n - g \in Nat /\ n - g > 0 /\ n = g + (n - g)
      BY <3>1
    <3>3. QED
      BY <3>1, <3>2
  <2>3. h = u - (l + g) /\ u = (l + g) + h /\ u \in Nat \ {0}
    BY <2>1, <2>2
  <2>4. QED
    BY <2>1, <2>2, <2>3
<1>3. PICK z \in Seq(Bit) : z = Zeros(g) /\ Len(z) = g /\ \A i \in 1 .. g : z[i] = 0
  <2>1. Zeros(g) \in Seq(Bit) /\ Len(Zeros(g)) = g /\ \A i \in 1 .. g : Zeros(g)[i] = 0
    BY DEF Zeros, Bit
  <2>2. QED
    BY <2>1
<1>4. PICK e \in Seq(Bit) : e = Zeros(h) /\ Len(e) = h /\ \A i \in 1 .. h : e[i] = 0
  <2>1. Zeros(h) \in Seq(Bit) /\ Len(Zeros(h)) = h /\ \A i \in 1 .. h : Zeros(h)[i] = 0
    BY DEF Zeros, Bit
  <2>2. QED
    BY <2>1
<1>5. PICK a \in Seq(Bit) : /\ a = m \o z /\ Len(a) = l + g
                            /\ \A i \in 1 .. g : a[l + i] = z[i]
  <2>1. m \o z \in Seq(Bit) /\ Len(m \o z) = Len(m) + Len(z)
    OBVIOUS
  <2>2. \A i \in 1 .. g : (m \o z)[l + i] = z[i]
    BY <1>2, <1>3
  <2>3. QED
    BY <1>2, <1>3, <2>1, <2>2, ZenonT(30)
<1>6. PICK s \in Seq(Bit) : /\ s = a \o e /\ Len(s) = u
                            /\ \A i \in 1 .. l + g : s[i] = a[i]
                            /\ \A i \in 1 .. h : s[(l + g) + i] = e[i]
  <2>1. a \o e \in Seq(Bit) /\ Len(a \o e) = Len(a) + Len(e)
    OBVIOUS
  <2>2. \A i \in 1 .. l + g : (a \o e)[i] = a[i]
    BY <1>4, <1>5
  <2>3. \A i \in 1 .. h : (a \o e)[(l + g) + i] = e[i]
    BY <1>4, <1>5
  <2>4. Len(a \o e) = u
    BY <1>2, <1>4, <1>5, <2>1
  <2>5. QED
    BY <2>1, <2>2, <2>3, <2>4
<1>7. s = Padded(m \o Zeros(k - 1), u)
  BY <1>2, <1>3, <1>4, <1>5, <1>6 DEF Padded
<1>8. s \in Vector(u)
  BY <1>6, VectorOf
<1>9. s[u] = 0
  <2>1. h \in 1 .. h
    BY <1>2
  <2>2. QED
    BY <1>2, <1>4, <1>6, <2>1, SMTT(30)
<1>10. ASSUME Len(m) = 0 PROVE s = Zeros(u)
  <2>1. \A i \in 1 .. g : s[i] = 0
    BY <1>2, <1>3, <1>5, <1>6, <1>10
  <2>2. \A i \in 1 .. h : s[g + i] = 0
    BY <1>2, <1>4, <1>6, <1>10, SMTT(30)
  <2>3. ASSUME NEW i \in 1 .. u PROVE s[i] = 0
    <3>1. CASE i <= g
      BY <2>1, <3>1
    <3>2. CASE i > g
      <4>1. PICK d \in 1 .. h : i = g + d
        <5>1. i - g \in 1 .. h /\ i = g + (i - g)
          BY <1>2, <1>10, <3>2
        <5>2. QED
          BY <5>1
      <4>2. QED
        BY <2>2, <4>1
    <3>3. QED
      BY <3>1, <3>2
  <2>4. QED
    BY <1>8, <2>3 DEF Zeros, Vector
<1>11. QED
  BY <1>2, <1>7, <1>8, <1>9, <1>10

\* The product has at least as many bits as its operands together, and it ends in 0.
LEMMA ProductType ==
    ASSUME NEW m \in Seq(Bit), NEW q \in Seq(Bit)
    PROVE  /\ UnsignedProduct(m, q) \in Long(Len(m) + Len(q))
           /\ Len(m) + Len(q) > 0 => UnsignedProduct(m, q) \in Even(Len(m) + Len(q))
<1>1. PICK u \in Nat : u = Len(m) + Len(q) /\ Len(m) \in Nat /\ Len(q) \in Nat
  BY VectorOf
<1>2. PICK p \in Vector(u) : /\ p = Padded(<<>>, Len(m) + Len(q))
                             /\ \A i \in 1 .. u : p[i] = 0
  <2>1. Padded(<<>>, u) = Zeros(u)
    BY DEF Padded, Zeros
  <2>2. \A i \in 1 .. u : Zeros(u)[i] = 0
    BY DEF Zeros
  <2>3. QED
    BY <1>1, <2>1, <2>2, ZeroVector
<1>3. p \in Seq(Bit) /\ Len(p) = u
  BY VectorIs
<1>4. p \in Long(u) /\ (u > 0 => p \in Even(u))
  BY <1>2, <1>3 DEF Long, Even
<1>5. ASSUME NEW k \in 1 .. Len(q)
      PROVE  /\ \A v \in Long(u) : ProductTurn(m, q, k, v) \in Long(u)
             /\ \A v \in Even(u) : ProductTurn(m, q, k, v) \in Even(u)
  <2>1. PICK s \in Vector(u) : s = Padded(m \o Zeros(k - 1), u) /\ s[u] = 0
    BY <1>1, ShiftedIs
  <2>2. ASSUME NEW v \in Long(u) PROVE AddInto(v, s) \in Long(u)
    <3>1. \A i \in 1 .. u : \A t \in Long(u) : AddTurn(s, i, t) \in Long(u)
      BY TurnKeeps
    <3>2. QED
      BY <3>1, AddIntoKeeps
  <2>3. ASSUME NEW v \in Even(u) PROVE AddInto(v, s) \in Even(u)
    <3>1. \A t \in Even(u) : t \in Long(u)
      BY DEF Even
    <3>2. \A i \in 1 .. u : \A t \in Even(u) : AddTurn(s, i, t) \in Even(u)
      BY <2>1, <3>1, TurnKeeps
    <3>3. QED
      BY <3>2, AddIntoKeeps
  <2>4. QED
    BY <1>1, <2>1, <2>2, <2>3 DEF ProductTurn
<1>6. UnsignedProduct(m, q) \in Long(u)
  <2>1. PICK V : V = Long(u)
    OBVIOUS
  <2>2. \A k \in 1 .. Len(q) : \A v \in V : ProductTurn(m, q, k, v) \in V
    BY <1>5, <2>1
  <2>3. Padded(<<>>, Len(m) + Len(q)) \in V
    BY <1>2, <1>4, <2>1
  <2>4. UnsignedProduct(m, q) \in V
    BY <2>2, <2>3, ProductKeeps
  <2>5. QED
    BY <2>1, <2>4
<1>7. ASSUME u > 0 PROVE UnsignedProduct(m, q) \in Even(u)
  <2>1. PICK V : V = Even(u)
    OBVIOUS
  <2>2. \A k \in 1 .. Len(q) : \A v \in V : ProductTurn(m, q, k, v) \in V
    BY <1>5, <2>1
  <2>3. Padded(<<>>, Len(m) + Len(q)) \in V
    BY <1>2, <1>4, <1>7, <2>1
  <2>4. UnsignedProduct(m, q) \in V
    BY <2>2, <2>3, ProductKeeps
  <2>5. QED
    BY <2>1, <2>4
<1>8. QED
  BY <1>1, <1>6, <1>7

\* With an empty operand it is of zeros.
LEMMA ProductOfZero ==
    ASSUME NEW m \in Seq(Bit), NEW q \in Seq(Bit), Len(m) = 0 \/ Len(q) = 0
    PROVE  UnsignedProduct(m, q) = Zeros(Len(m) + Len(q))
<1>1. PICK u \in Nat : u = Len(m) + Len(q) /\ Len(m) \in Nat /\ Len(q) \in Nat
  BY VectorOf
<1>2. PICK p \in Vector(u) : p = Zeros(u) /\ \A i \in 1 .. u : p[i] = 0
  <2>1. \A i \in 1 .. u : Zeros(u)[i] = 0
    BY DEF Zeros
  <2>2. QED
    BY <2>1, ZeroVector
<1>3. p \in Seq(Bit) /\ Len(p) = u /\ p \in Long(u)
  BY VectorIs DEF Long
<1>4. Padded(<<>>, Len(m) + Len(q)) = p
  <2>1. Padded(<<>>, u) = Zeros(u)
    BY DEF Padded, Zeros
  <2>2. QED
    BY <1>1, <1>2, <2>1
<1>5. ASSUME NEW k \in 1 .. u PROVE AddTurn(p, k, p) = p
  <2>1. PICK j \in 1 .. u : j = Len(p) - k + 1
    BY <1>3
  <2>2. p[j] = 0
    BY <1>2
  <2>3. [p EXCEPT ![j] = (@ + p[j]) % 2] = p
    BY <2>2 DEF Vector
  <2>4. QED
    BY <2>1, <2>2, <2>3 DEF AddTurn
<1>6. PICK V : V = {p}
  OBVIOUS
<1>7. ASSUME NEW k \in 1 .. Len(q), NEW v \in V PROVE ProductTurn(m, q, k, v) \in V
  <2>1. Len(m) = 0
    BY <1>7
  <2>2. p = Padded(m \o Zeros(k - 1), u)
    <3>1. PICK s \in Vector(u) : /\ s = Padded(m \o Zeros(k - 1), u)
                                 /\ u \in Nat \ {0} /\ s[u] = 0
                                 /\ Len(m) = 0 => s = Zeros(u)
      BY <1>1, ShiftedIs
    <3>2. QED
      BY <1>2, <2>1, <3>1
  <2>3. \A i \in 1 .. u : \A t \in V : AddTurn(p, i, t) \in V
    BY <1>5, <1>6
  <2>4. AddInto(v, p) \in V
    BY <2>3, AddIntoKeeps
  <2>5. QED
    BY <1>1, <2>2, <2>4 DEF ProductTurn
<1>8. UnsignedProduct(m, q) \in V
  <2>1. Padded(<<>>, Len(m) + Len(q)) \in V
    BY <1>4, <1>6
  <2>2. QED
    BY <1>7, <2>1, ProductKeeps
<1>9. QED
  BY <1>1, <1>2, <1>6, <1>8

\* The product is empty only for two zeros (or negative numbers' magnitudes of none).
LEMMA SignedProductType ==
    ASSUME NEW a \in Int, NEW b \in Int
    PROVE  /\ SignedMultiplication(a, b) \in Seq(Bit)
           /\ SignedMultiplication(a, b) = <<>> => a = 0 /\ b = 0
<1>1. PICK i \in Int : i = Magnitude(a) /\ (a # 0 => i > 0)
  BY DEF Magnitude
<1>2. PICK j \in Int : j = Magnitude(b) /\ (b # 0 => j > 0)
  BY DEF Magnitude
<1>3. PICK m \in Seq(Bit) : m = MinimalBinary(i) /\ Len(m) = BitLength(i)
  BY MinimalType, VectorIs
<1>4. PICK q \in Seq(Bit) : q = MinimalBinary(j) /\ Len(q) = BitLength(j)
  BY MinimalType, VectorIs
<1>5. Len(m) \in Nat /\ Len(q) \in Nat /\ (a # 0 => Len(m) > 0) /\ (b # 0 => Len(q) > 0)
  BY <1>1, <1>2, <1>3, <1>4, MinimalType
<1>6. PICK p : p = UnsignedProduct(m, q)
  OBVIOUS
<1>7. p \in Seq(Bit) /\ Len(p) \in Nat /\ Len(p) >= Len(m) + Len(q)
  BY <1>6, ProductType DEF Long
<1>8. /\ Negated(p) \in Seq(Bit) /\ Len(Negated(p)) \in Nat
      /\ Len(Negated(p)) >= Len(m) + Len(q)
  <2>1. p \in Vector(Len(p))
    BY <1>7, VectorOf
  <2>2. AddOneLoop(Inverted(p)) \in Vector(Len(p))
    BY <1>7, <2>1, InvertedValue, AddOneType
  <2>3. PICK s \in Seq(Bit) : s = AddOneLoop(Inverted(p)) /\ Len(s) = Len(p)
    BY <1>7, <2>2, VectorIs
  <2>4. Negated(p) \in Seq(Bit) /\ Len(Negated(p)) >= Len(s)
    BY <2>3, WithCarryType DEF Negated
  <2>5. Len(Negated(p)) \in Nat
    BY <2>4
  <2>6. QED
    BY <1>5, <1>7, <2>3, <2>4, <2>5
<1>9. SignedMultiplication(a, b) = IF (a < 0) # (b < 0) THEN Negated(p) ELSE p
  BY <1>1, <1>2, <1>3, <1>4, <1>6 DEF SignedMultiplication
<1>10. PICK r \in Seq(Bit) : /\ r = SignedMultiplication(a, b) /\ Len(r) \in Nat
                             /\ Len(r) >= Len(m) + Len(q)
  BY <1>7, <1>8, <1>9
<1>11. r = <<>> => Len(r) = 0
  OBVIOUS
<1>12. QED
  BY <1>5, <1>10, <1>11

-----------------------------------------------------------------------------
(* The inductive invariant. *)

\* Adding a vector to a register, or subtracting it, keeps the register's width and
\* does nothing past the vector's own.
LEMMA SumsType ==
    ASSUME NEW p \in Nat, NEW n \in 1 .. p, NEW a \in Vector(p), NEW m \in Vector(n)
    PROVE  /\ Added(a, m) \in Vector(p) /\ Subtracted(a, m) \in Vector(p)
           /\ \A i \in n + 1 .. p : Added(a, m)[i] = a[i] /\ Subtracted(a, m)[i] = a[i]
<1>0. n \in Nat
  OBVIOUS
<1>1. PICK c \in [1 .. n -> Bit] : c = Carries(a, m)
  BY CarriesAre
<1>2. PICK ai \in Vector(p) : ai = Inverted(a)
  BY InvertedValue
<1>3. PICK mi \in Vector(n) : mi = Inverted(m)
  BY <1>0, InvertedValue
<1>4. PICK d \in [1 .. n -> Bit] : d = Carries(ai, mi)
  BY CarriesAre
<1>5. Added(a, m) = Rippled(a, m, c) /\ Subtracted(a, m) = Rippled(a, mi, d)
  BY <1>1, <1>2, <1>3, <1>4 DEF Added, Subtracted
<1>6. /\ Rippled(a, m, c) \in Vector(p)
      /\ \A i \in n + 1 .. p : Rippled(a, m, c)[i] = a[i]
  BY RippledSum
<1>7. /\ Rippled(a, mi, d) \in Vector(p)
      /\ \A i \in n + 1 .. p : Rippled(a, mi, d)[i] = a[i]
  BY RippledSum
<1>8. QED
  BY <1>5, <1>6, <1>7

\* Prefixing a bit moves the others along.
LEMMA Prefixed ==
    ASSUME NEW n \in Nat, NEW s \in Vector(n), NEW b \in Bit
    PROVE  /\ <<b>> \o s \in Vector(n + 1) /\ (<<b>> \o s)[1] = b
           /\ \A i \in 1 .. n : (<<b>> \o s)[i + 1] = s[i]
<1>1. s \in Seq(Bit) /\ Len(s) = n /\ <<b>> \in Seq(Bit) /\ Len(<<b>>) = 1 /\ <<b>>[1] = b
  BY VectorIs
<1>2. PICK t \in Seq(Bit) : t = <<b>> \o s
  <2>1. <<b>> \o s \in Seq(Bit)
    BY <1>1
  <2>2. QED
    BY <2>1
<1>3. /\ Len(t) = n + 1 /\ t[1] = b
      /\ \A i \in 1 .. n : t[i + 1] = s[i]
  BY <1>1, <1>2
<1>4. QED
  BY <1>2, <1>3, VectorOf

\* The front of a vector and its tail with a bit behind.
LEMMA Moved ==
    ASSUME NEW n \in Nat \ {0}, NEW s \in Vector(n), NEW b \in Bit
    PROVE  /\ SubSeq(s, 1, n - 1) \in Vector(n - 1)
           /\ \A i \in 1 .. n - 1 : SubSeq(s, 1, n - 1)[i] = s[i]
           /\ Append(Tail(s), b) \in Vector(n) /\ Append(Tail(s), b)[n] = b
           /\ \A i \in 1 .. n - 1 : Append(Tail(s), b)[i] = s[i + 1]
<1>1. s \in Seq(Bit) /\ Len(s) = n
  BY VectorIs
<1>2. PICK f \in Seq(Bit) : /\ f = SubSeq(s, 1, n - 1) /\ Len(f) = n - 1
                            /\ \A i \in 1 .. n - 1 : f[i] = s[i]
  <2>1. SubSeq(s, 1, n - 1) \in Seq(Bit)
    BY <1>1
  <2>2. Len(SubSeq(s, 1, n - 1)) = n - 1
    BY <1>1
  <2>3. \A i \in 1 .. n - 1 : SubSeq(s, 1, n - 1)[i] = s[i]
    BY <1>1
  <2>4. QED
    BY <2>1, <2>2, <2>3
<1>3. PICK t \in Seq(Bit) : /\ t = Tail(s) /\ Len(t) = n - 1
                            /\ \A i \in 1 .. n - 1 : t[i] = s[i + 1]
  <2>1. s # <<>>
    BY <1>1
  <2>2. Tail(s) \in Seq(Bit)
    BY <1>1, <2>1
  <2>3. Len(Tail(s)) = n - 1
    BY <1>1, <2>1
  <2>4. \A i \in 1 .. n - 1 : Tail(s)[i] = s[i + 1]
    BY <1>1, <2>1
  <2>5. QED
    BY <2>2, <2>3, <2>4
<1>4. PICK g \in Seq(Bit) : /\ g = Append(t, b) /\ Len(g) = n /\ g[n] = b
                            /\ \A i \in 1 .. n - 1 : g[i] = t[i]
  <2>1. Append(t, b) \in Seq(Bit)
    BY <1>3
  <2>2. Len(Append(t, b)) = n /\ Append(t, b)[n] = b
    BY <1>3
  <2>3. \A i \in 1 .. n - 1 : Append(t, b)[i] = t[i]
    BY <1>3
  <2>4. QED
    BY <2>1, <2>2, <2>3
<1>5. f \in Vector(n - 1) /\ g \in Vector(n)
  BY <1>2, <1>4, VectorOf
<1>6. QED
  BY <1>2, <1>3, <1>4, <1>5

\* The widths of the registers while an iteration is to come.
Shape(w) ==
    /\ count \in 0 .. w
    /\ Q \in Vector(w)
    /\ A \in Vector(IF unit = "Booth" THEN w ELSE 2 * w - count)

\* What every state keeps.
IInv ==
    /\ unit \in Units /\ x \in Operands /\ y \in Operands
    /\ pc \in {"running", "done", "crashed"}
    /\ QMinus1 \in Bit
    /\ result \in Seq(Int)
    /\ unit \in Registers => Shape(bitWidth)
    /\ unit \notin Registers => A = <<>> /\ Q = <<>> /\ count = 0
    /\ pc = "crashed" => unit = "Multiplication" /\ x = 0 /\ y = 0
    /\ pc = "done" <=> result # <<>>

\* The widths of the programs' variables.
LEMMA Widths ==
    ASSUME x \in Operands, y \in Operands
    PROVE  /\ bitWidth \in 8 .. 40 /\ bitWidth \in Nat \ {0}
           /\ M \in Vector(bitWidth)
           /\ x \in Int /\ y \in Int
<1>1. bitWidth \in 8 .. 40
  BY WidthType DEF bitWidth
<1>2. x \in Int /\ y \in Int
  BY OperandsAreInts, Z3
<1>3. M \in Vector(bitWidth)
  BY <1>1, <1>2, ToBinaryType DEF M
<1>4. QED
  BY <1>1, <1>2, <1>3

\* It says all that ArithmeticInv does.
LEMMA Says == ASSUME IInv PROVE ArithmeticInv
<1>1. PICK w \in Nat : w = bitWidth
  BY Widths DEF IInv
<1>2. A \in Seq(Bit) /\ Q \in Seq(Bit)
  <2>1. CASE unit \in Registers
    BY <1>1, <2>1, VectorIs DEF IInv, Shape
  <2>2. CASE unit \notin Registers
    BY <2>2 DEF IInv
  <2>3. QED
    BY <2>1, <2>2
<1>3. ASSUME unit \in Registers
      PROVE  /\ count \in 0 .. w /\ Len(Q) = w
             /\ Len(A) = w + (IF unit = "Booth" THEN 0 ELSE w - count)
  <2>1. count \in 0 .. w /\ Q \in Vector(w)
    BY <1>1, <1>3 DEF IInv, Shape
  <2>2. PICK k \in Nat : /\ k = (IF unit = "Booth" THEN w ELSE 2 * w - count)
                         /\ k = w + (IF unit = "Booth" THEN 0 ELSE w - count)
    BY <2>1
  <2>3. A \in Vector(k)
    BY <1>1, <1>3, <2>2 DEF IInv, Shape
  <2>4. Len(Q) = w /\ Len(A) = k
    BY <2>1, <2>3, VectorIs
  <2>5. QED
    BY <2>1, <2>2, <2>4
<1>4. QED
  BY <1>1, <1>2, <1>3 DEF IInv, ArithmeticInv

\* It holds at the start.
LEMMA InitInv == Init => IInv
<1> SUFFICES ASSUME Init PROVE IInv
  OBVIOUS
<1>1. PICK w \in Nat : w = bitWidth
  BY Widths DEF Init
<1>2. x \in Int /\ y \in Int
  BY Widths DEF Init
<1>3. unit \in Registers => Shape(w)
  <2> SUFFICES ASSUME unit \in Registers PROVE Shape(w)
    OBVIOUS
  <2>1. A = Zeros(w) /\ count = w
    BY <1>1 DEF Init
  <2>2. Q \in Vector(w)
    BY <1>1, <1>2, ToBinaryType DEF Init
  <2>3. A \in Vector(w) /\ w = (IF unit = "Booth" THEN w ELSE 2 * w - count)
    BY <2>1, ZeroVector
  <2>4. count \in 0 .. w
    BY <2>1
  <2>5. QED
    BY <2>2, <2>3, <2>4 DEF Shape
<1>4. QED
  BY <1>1, <1>3 DEF Init, IInv, Bit

\* The steps of the loops keep the widths.
LEMMA LoopInv ==
    ASSUME IInv, BoothStep \/ RestoringStep \/ NonRestoringStep
    PROVE  IInv'
<1>1. PICK w \in Nat \ {0} : w = bitWidth
  BY Widths DEF IInv
<1>2. PICK m \in Vector(w) : m = M
  BY <1>1, Widths DEF IInv
<1>3. w \in Nat /\ w \in 1 .. w /\ 1 \in 1 .. w
  OBVIOUS
<1>4. unit \in Registers /\ unit \notin {"Addition", "Subtraction", "Multiplication"}
  BY DEF BoothStep, RestoringStep, NonRestoringStep, Registers, Dividers
<1>5. count \in 1 .. w /\ Q \in Vector(w)
  BY <1>1, <1>4 DEF IInv, Shape, BoothStep, RestoringStep, NonRestoringStep
<1>6. \A i \in 1 .. w : Q[i] \in Bit
  BY <1>5 DEF Vector
<1>7. bitWidth' = w
  BY <1>1 DEF bitWidth, inputs, BoothStep, RestoringStep, NonRestoringStep
<1>8. /\ UNCHANGED <<unit, x, y, pc, result>> /\ count' = count - 1
      /\ count' \in 0 .. w
  BY <1>5 DEF inputs, BoothStep, RestoringStep, NonRestoringStep
<1>9. Q' \in Vector(w) /\ QMinus1' \in Bit
      /\ A' \in Vector(IF unit = "Booth" THEN w ELSE 2 * w - count')
  <2>1. CASE BoothStep
    <3>1. A \in Vector(w) /\ unit = "Booth"
      BY <1>1, <1>4, <2>1 DEF IInv, Shape, BoothStep
    <3>2. Subtracted(A, m) \in Vector(w) /\ Added(A, m) \in Vector(w)
      BY <1>3, <3>1, SumsType
    <3>3. PICK a \in Vector(w) :
              /\ Q' = <<a[w]>> \o SubSeq(Q, 1, w - 1)
              /\ A' = <<a[1]>> \o SubSeq(a, 1, w - 1)
      BY <1>1, <1>2, <2>1, <3>1, <3>2 DEF BoothStep
    <3>4. a[w] \in Bit /\ a[1] \in Bit
      BY <1>3 DEF Vector
    <3>5. PICK k \in Nat : k = w - 1 /\ k + 1 = w
      OBVIOUS
    <3>6. SubSeq(Q, 1, k) \in Vector(k) /\ SubSeq(a, 1, k) \in Vector(k)
      <4>1. SubSeq(Q, 1, w - 1) \in Vector(w - 1) /\ SubSeq(a, 1, w - 1) \in Vector(w - 1)
        BY <1>5, <3>4, Moved
      <4>2. QED
        BY <3>5, <4>1
    <3>7. Q' \in Vector(k + 1) /\ A' \in Vector(k + 1)
      BY <3>3, <3>4, <3>5, <3>6, Prefixed
    <3>8. QMinus1' \in Bit
      BY <1>1, <1>3, <1>6, <2>1 DEF BoothStep
    <3>9. QED
      BY <3>1, <3>5, <3>7, <3>8
  <2>2. CASE RestoringStep \/ NonRestoringStep
    <3>1. unit # "Booth" /\ UNCHANGED QMinus1
      BY <2>2 DEF RestoringStep, NonRestoringStep
    <3>2. PICK k \in Nat : k = 2 * w - count /\ k + 1 = 2 * w - count' /\ w <= k
      <4>1. 2 * w - count \in Nat /\ w <= 2 * w - count
        BY <1>5
      <4>2. (2 * w - count) + 1 = 2 * w - count'
        BY <1>5, <1>8
      <4>3. QED
        BY <4>1, <4>2
    <3>3. A \in Vector(k)
      BY <1>1, <1>4, <3>1, <3>2 DEF IInv, Shape
    <3>4. PICK s \in Vector(k + 1) : s = ShiftedA
      BY <1>3, <1>6, <3>3, Prefixed DEF ShiftedA
    <3>5. k + 1 \in Nat /\ w \in 1 .. k + 1 /\ 1 \in 1 .. k + 1
      BY <3>2
    <3>6. Subtracted(s, m) \in Vector(k + 1) /\ Added(s, m) \in Vector(k + 1)
      BY <3>5, SumsType
    <3>7. PICK a \in Vector(k + 1) :
              /\ A' = a \/ A' = s
              /\ Q' = Append(Tail(Q), 1 - a[1])
      BY <1>1, <1>2, <2>2, <3>4, <3>6 DEF RestoringStep, NonRestoringStep, ShiftQ
    <3>8. 1 - a[1] \in Bit
      BY <3>5 DEF Vector, Bit
    <3>9. Q' \in Vector(w)
      BY <1>5, <3>7, <3>8, Moved
    <3>10. A' \in Vector(k + 1)
      BY <3>7
    <3>11. QED
      BY <3>1, <3>2, <3>9, <3>10 DEF IInv
  <2>3. QED
    BY <2>1, <2>2
<1>10. Shape(w)'
  BY <1>7, <1>8, <1>9 DEF Shape
<1>11. Shape(bitWidth)'
  BY <1>7, <1>8, <1>9 DEF Shape
<1>12. QED
  BY <1>4, <1>8, <1>9, <1>11 DEF IInv

\* What is printed at the end are numbers.
LEMMA EndInv ==
    ASSUME IInv, PrintProduct \/ PrintQuotient \/ Adder \/ Multiplier
    PROVE  IInv'
<1>1. x \in Int /\ y \in Int
  BY Widths DEF IInv
<1>2. /\ UNCHANGED <<unit, x, y, A, Q, QMinus1, count>>
      /\ pc = "running"
  BY DEF PrintProduct, PrintQuotient, Adder, Multiplier, Finish, inputs
<1>3. UNCHANGED bitWidth
  BY <1>2 DEF bitWidth
<1>4. \A s \in Seq(Bit) : Value(s) \in Int /\ BinaryToInteger(s) \in Int
  <2> SUFFICES ASSUME NEW s \in Seq(Bit)
               PROVE  Value(s) \in Int /\ BinaryToInteger(s) \in Int
    OBVIOUS
  <2>1. QED
    BY VectorOf, ToIntegerType
<1>5. A \in Seq(Bit) /\ Q \in Seq(Bit)
  BY Says DEF ArithmeticInv
<1>6. PICK p \in Seq(Bit) :
          p = SignedMultiplication(x, y) /\ (p = <<>> => x = 0 /\ y = 0)
  BY <1>1, SignedProductType
<1>7. \/ pc' = "done" /\ result' \in Seq(Int) /\ result' # <<>>
      \/ pc' = "crashed" /\ UNCHANGED result /\ unit = "Multiplication" /\ x = 0 /\ y = 0
  <2>1. CASE PrintProduct
    <3>1. A \o Q \in Seq(Bit)
      BY <1>5
    <3>2. BinaryToInteger(A \o Q) \in Int
      BY <1>4, <3>1
    <3>3. pc' = "done" /\ result' = <<BinaryToInteger(A \o Q)>>
      BY <2>1 DEF PrintProduct, Finish
    <3>4. QED
      BY <3>2, <3>3
  <2>2. CASE PrintQuotient
    <3>1. BinaryToInteger(Q) \in Int /\ BinaryToInteger(A) \in Int
      BY <1>4, <1>5
    <3>2. pc' = "done" /\ result' = <<BinaryToInteger(Q), BinaryToInteger(A)>>
      BY <2>2 DEF PrintQuotient, Finish
    <3>3. QED
      BY <3>1, <3>2
  <2>3. CASE Adder
    <3>1. PICK a \in Seq(Bit) : a = MinimalBinary(x)
      BY <1>1, MinimalType, VectorIs
    <3>2. PICK b \in Seq(Bit) : b = MinimalBinary(y)
      BY <1>1, MinimalType, VectorIs
    <3>3. PICK u, v, t \in Int :
              pc' = "done" /\ result' = <<u, v, t>>
      <4>1. /\ ParallelAdder(a, b) \in Seq(Bit) /\ ParallelSubtractor(a, b) \in Seq(Bit)
            /\ CarryLookaheadAdder(a, b) \in Seq(Bit)
        BY AddersType
      <4>2. PICK alu \in Seq(Bit) :
                /\ pc' = "done"
                /\ result' = <<Value(alu), Value(ParallelAdder(a, b)),
                               Value(CarryLookaheadAdder(a, b))>>
        BY <2>3, <3>1, <3>2, <4>1 DEF Adder, Finish
      <4>3. QED
        BY <1>4, <4>1, <4>2
    <3>4. QED
      BY <3>3
  <2>4. CASE Multiplier
    <3>1. CASE p = <<>>
      BY <1>6, <2>4, <3>1 DEF Multiplier
    <3>2. CASE p # <<>>
      <4>1. pc' = "done" /\ result' = <<BinaryToInteger(p)>>
        BY <1>6, <2>4, <3>2 DEF Multiplier, Finish
      <4>2. BinaryToInteger(p) \in Int
        BY <1>4
      <4>3. QED
        BY <4>1, <4>2
    <3>3. QED
      BY <3>1, <3>2
  <2>5. QED
    BY <2>1, <2>2, <2>3, <2>4
<1>8. unit \in Registers => Shape(bitWidth)'
  BY <1>2, <1>3 DEF IInv, Shape
<1>9. /\ unit' \in Units /\ x' \in Operands /\ y' \in Operands /\ QMinus1' \in Bit
      /\ unit' \notin Registers => A' = <<>> /\ Q' = <<>> /\ count' = 0
  BY <1>2 DEF IInv
<1>10. result = <<>> /\ result \in Seq(Int)
  BY <1>2 DEF IInv
<1>11. QED
  BY <1>2, <1>7, <1>8, <1>9, <1>10 DEF IInv

\* Nothing of it is touched when nothing happens.
LEMMA StutterInv == ASSUME IInv, UNCHANGED vars PROVE IInv'
  BY DEF IInv, Shape, bitWidth, vars, inputs

\* In every state the registers have their widths and the results are numbers.
THEOREM Invariant == Spec => []IInv
<1>1. Init => IInv
  BY InitInv
<1>2. IInv /\ [Next]_vars => IInv'
  <2> SUFFICES ASSUME IInv, [Next]_vars PROVE IInv'
    OBVIOUS
  <2>1. CASE BoothStep \/ RestoringStep \/ NonRestoringStep
    BY <2>1, LoopInv
  <2>2. CASE PrintProduct \/ PrintQuotient \/ Adder \/ Multiplier
    BY <2>2, EndInv
  <2>3. CASE UNCHANGED vars
    BY <2>3, StutterInv
  <2>4. QED
    BY <2>1, <2>2, <2>3 DEF Next
<1>3. QED
  BY <1>1, <1>2, PTL DEF Spec

\* The index arithmetic of all five programs stays inside its vectors, and the only
\* crash is that of the empty product of 0 and 0.
THEOREM LengthsRight == Spec => []ArithmeticInv
<1>1. IInv => ArithmeticInv
  BY Says
<1>2. QED
  BY <1>1, Invariant, PTL

\* What a divider's iteration does to A: the shifted register, the divisor added to or
\* subtracted from its first bits, and the bits past them moved along.
LEMMA DividerStep ==
    ASSUME IInv, RestoringStep \/ NonRestoringStep
    PROVE  \A i \in bitWidth .. Len(A) : A'[i + 1] = A[i]
<1>1. PICK w \in Nat \ {0} : w = bitWidth
  BY Widths DEF IInv
<1>2. PICK m \in Vector(w) : m = M
  BY <1>1, Widths DEF IInv
<1>3. unit \in Dividers /\ unit \in Registers /\ unit # "Booth"
  BY DEF RestoringStep, NonRestoringStep, Registers, Dividers
<1>4. count \in 1 .. w /\ Q[1] \in Bit
  BY <1>1, <1>3 DEF IInv, Shape, Vector, RestoringStep, NonRestoringStep
<1>5. PICK k \in Nat : k = 2 * w - count /\ w <= k
  <2>1. 2 * w - count \in Nat /\ w <= 2 * w - count
    BY <1>4
  <2>2. QED
    BY <2>1
<1>6. A \in Vector(k) /\ Len(A) = k
  BY <1>1, <1>3, <1>5, VectorIs DEF IInv, Shape
<1>7. PICK s \in Vector(k + 1) : s = ShiftedA /\ \A i \in 1 .. k : s[i + 1] = A[i]
  <2>1. PICK b \in Bit : b = Q[1]
    BY <1>4
  <2>2. /\ <<b>> \o A \in Vector(k + 1)
        /\ \A i \in 1 .. k : (<<b>> \o A)[i + 1] = A[i]
    BY <1>6, Prefixed
  <2>3. QED
    BY <2>1, <2>2 DEF ShiftedA
<1>8. \A i \in w + 1 .. k + 1 : Added(s, m)[i] = s[i] /\ Subtracted(s, m)[i] = s[i]
  <2>1. k + 1 \in Nat /\ w \in 1 .. k + 1
    BY <1>5
  <2>2. QED
    BY <2>1, SumsType
<1>9. A' = s \/ A' = Added(s, m) \/ A' = Subtracted(s, m)
  BY <1>2, <1>7 DEF RestoringStep, NonRestoringStep
<1>10. ASSUME NEW i \in w .. k PROVE A'[i + 1] = A[i]
  <2>1. i \in 1 .. k /\ i + 1 \in w + 1 .. k + 1
    BY <1>5
  <2>2. A'[i + 1] = s[i + 1]
    BY <1>8, <1>9, <2>1
  <2>3. QED
    BY <1>7, <2>1, <2>2
<1>11. QED
  BY <1>1, <1>6, <1>10

\* The bits of a divider's register past the width of the divisor only move along.
THEOREM TailOnlyMoves == Spec => TailFrozen
<1> DEFINE Frozen == count' < count /\ unit \in Dividers =>
                       \A i \in bitWidth .. Len(A) : A'[i + 1] = A[i]
<1>1. IInv /\ [Next]_vars => [Frozen]_vars
  <2> SUFFICES ASSUME IInv, Next PROVE Frozen
    OBVIOUS
  <2>1. CASE RestoringStep \/ NonRestoringStep
    BY <2>1, DividerStep
  <2>2. CASE BoothStep
    BY <2>2 DEF BoothStep, Dividers
  <2>3. CASE PrintProduct \/ PrintQuotient \/ Adder \/ Multiplier
    <3>1. count' = count
      BY <2>3 DEF PrintProduct, PrintQuotient, Adder, Multiplier, Finish
    <3>2. count \in Int
      <4>1. bitWidth \in Nat
        BY Widths DEF IInv
      <4>2. QED
        BY <4>1 DEF IInv, Shape
    <3>3. QED
      BY <3>1, <3>2
  <2>4. QED
    BY <2>1, <2>2, <2>3 DEF Next
<1> HIDE DEF Frozen
<1>2. Spec => [][Frozen]_vars
  BY <1>1, Invariant, PTL DEF Spec
<1>3. QED
  BY <1>2 DEF TailFrozen, Frozen

-----------------------------------------------------------------------------
(* The numbers in parts of vectors. *)

\* The bits of a vector after the first k spell what its number leaves.
LEMMA SplitValue ==
    ASSUME NEW n \in Nat, NEW s \in Vector(n), NEW k \in 0 .. n, NEW l \in Nat,
           NEW t \in Vector(l), k + l <= n, \A i \in 1 .. l : t[i] = s[k + i]
    PROVE  \A i \in 0 .. l : Values(s)[k + i] = Values(s)[k] * 2^i + Values(t)[i]
<1>1. PICK v \in Nat : v = Values(s)[k]
  BY ValueSteps
<1> DEFINE S == {i \in 0 .. l : Values(s)[k + i] = v * 2^i + Values(t)[i]}
<1>2. 0 \in S
  <2>1. 2^0 = 1 /\ k + 0 = k
    OBVIOUS
  <2>2. Values(t)[0] = 0
    BY ValueSteps
  <2>3. Values(s)[k + 0] = v * 1 + 0
    BY <1>1, <2>1
  <2>4. QED
    BY <2>1, <2>2, <2>3
<1>3. ASSUME NEW i \in 0 .. l - 1, i \in S PROVE i + 1 \in S
  <2>1. /\ k + i + 1 \in 1 .. n /\ (k + i + 1) - 1 = k + i /\ k + (i + 1) = k + i + 1
        /\ i + 1 \in 1 .. l /\ (i + 1) - 1 = i
    OBVIOUS
  <2>2. Values(s)[k + i + 1] = 2 * Values(s)[k + i] + s[k + i + 1]
    BY <2>1, ValueSteps
  <2>3. Values(t)[i + 1] = 2 * Values(t)[i] + t[i + 1] /\ Values(t)[i] \in Nat
    BY <2>1, ValueSteps
  <2>4. t[i + 1] = s[k + i + 1] /\ t[i + 1] \in Nat
    BY <2>1, VectorIs, SMTT(30)
  <2>5. PICK p \in Nat : p = 2^i /\ 2^(i + 1) = p + p
    BY PowType, PowDouble
  <2>6. Values(s)[k + i] = v * p + Values(t)[i]
    BY <1>3, <2>5
  <2>7. v * (p + p) = 2 * (v * p) /\ v * p \in Nat
    OBVIOUS
  <2>8. Values(s)[k + i + 1] = v * (p + p) + Values(t)[i + 1]
    BY <2>2, <2>3, <2>4, <2>6, <2>7
  <2>9. QED
    BY <2>1, <2>5, <2>8
<1> HIDE DEF S
<1>4. 0 .. l \subseteq S
  BY <1>2, <1>3, UpTo
<1>5. QED
  BY <1>1, <1>4 DEF S

\* The first bit, which says whether the number is at least half of the range.
LEMMA FirstBit ==
    ASSUME NEW n \in Nat, NEW s \in Vector(n), NEW k \in 1 .. n
    PROVE  Values(s)[k] >= 2^(k - 1) <=> s[1] = 1
<1>1. PICK l \in Nat : l = k - 1 /\ 1 + l = k /\ 1 + l <= n
  OBVIOUS
<1>2. PICK t \in Vector(l) : \A i \in 1 .. l : t[i] = s[1 + i]
  <2>1. [i \in 1 .. l |-> s[1 + i]] \in Vector(l)
    BY <1>1 DEF Vector
  <2>2. QED
    BY <2>1
<1>3. 1 \in 0 .. n /\ 1 \in 1 .. n /\ l \in 0 .. l
  BY <1>1
<1>4. Values(s)[1 + l] = Values(s)[1] * 2^l + Values(t)[l]
  BY <1>1, <1>2, <1>3, SplitValue
<1>5. Values(s)[1] = s[1] /\ s[1] \in {0, 1}
  <2>1. Values(s)[1] = 2 * Values(s)[1 - 1] + s[1] /\ Values(s)[0] = 0 /\ 1 - 1 = 0
    BY <1>3, ValueSteps
  <2>2. s[1] \in {0, 1}
    BY <1>3, VectorIs
  <2>3. QED
    BY <2>1, <2>2
<1>6. PICK p \in Nat : p = 2^l
  BY PowType
<1>7. Values(t)[l] \in 0 .. p - 1
  BY <1>3, <1>6, ValueBound
<1>8. Values(s)[k] = s[1] * p + Values(t)[l]
  BY <1>1, <1>4, <1>5, <1>6
<1>9. QED
  BY <1>1, <1>5, <1>6, <1>7, <1>8

\* A bit in front of a vector adds its weight.
LEMMA PrefixValue ==
    ASSUME NEW n \in Nat, NEW s \in Vector(n), NEW b \in Bit
    PROVE  Value(<<b>> \o s) = b * 2^n + Value(s)
<1>1. PICK t \in Vector(n + 1) :
          t = <<b>> \o s /\ t[1] = b /\ \A i \in 1 .. n : t[i + 1] = s[i]
  BY Prefixed, ZenonT(30)
<1>2. /\ n + 1 \in Nat /\ 1 \in 0 .. n + 1 /\ 1 + n <= n + 1 /\ n \in 0 .. n /\ 1 + n = n + 1
      /\ \A i \in 1 .. n : s[i] = t[1 + i]
  <2>1. \A i \in 1 .. n : i + 1 = 1 + i
    OBVIOUS
  <2>2. \A i \in 1 .. n : s[i] = t[1 + i]
    BY <1>1, <2>1
  <2>3. QED
    BY <2>2
<1>3. Values(t)[1 + n] = Values(t)[1] * 2^n + Values(s)[n]
  BY <1>2, SplitValue
<1>4. Values(t)[1] = b
  <2>1. 1 \in 1 .. n + 1
    OBVIOUS
  <2>2. Values(t)[1] = 2 * Values(t)[1 - 1] + t[1] /\ Values(t)[0] = 0 /\ 1 - 1 = 0
    BY <1>2, <2>1, ValueSteps
  <2>3. b \in {0, 1}
    BY DEF Bit
  <2>4. QED
    BY <1>1, <2>2, <2>3
<1>5. Value(t) = Values(t)[n + 1] /\ Value(s) = Values(s)[n]
  BY <1>2, ValueSteps
<1>6. QED
  BY <1>1, <1>2, <1>3, <1>4, <1>5

\* Taking the last bit off halves a number.
LEMMA HalfValue ==
    ASSUME NEW n \in Nat \ {0}, NEW s \in Vector(n)
    PROVE  /\ Value(s) % 2 = s[n] /\ Value(s) \div 2 = Values(s)[n - 1]
           /\ Value(SubSeq(s, 1, n - 1)) = Values(s)[n - 1]
<1>1. PICK k \in Nat : k = n - 1 /\ k \in 0 .. k /\ k \in 0 .. n /\ k <= n
  OBVIOUS
<1>2. n \in 1 .. n /\ n \in Nat
  OBVIOUS
<1>3. PICK h \in Nat, b \in 0 .. 1 : h = Values(s)[k] /\ b = s[n] /\ Value(s) = 2 * h + b
  <2>1. Value(s) = Values(s)[n] /\ Values(s)[n] = 2 * Values(s)[n - 1] + s[n]
    BY <1>2, ValueSteps
  <2>2. Values(s)[k] \in Nat
    BY <1>1, <1>2, ValueSteps
  <2>3. s[n] \in 0 .. 1
    BY <1>2, VectorIs
  <2>4. QED
    BY <1>1, <2>1, <2>2, <2>3
<1>4. (2 * h + b) % 2 = b /\ (2 * h + b) \div 2 = h
  OBVIOUS
<1>5. PICK f \in Vector(k) : f = SubSeq(s, 1, k) /\ \A i \in 1 .. k : f[i] = s[i]
  <2>1. 0 \in Bit
    BY DEF Bit
  <2>2. /\ SubSeq(s, 1, n - 1) \in Vector(n - 1)
        /\ \A i \in 1 .. n - 1 : SubSeq(s, 1, n - 1)[i] = s[i]
    BY <2>1, Moved
  <2>3. QED
    BY <1>1, <2>2
<1>6. Values(f)[k] = Values(s)[k]
  <2>1. \A i \in 0 .. k : Values(f)[i] = Values(s)[i]
    <3>1. \A i \in 1 .. k : f[i] = s[i]
      BY <1>5
    <3>2. k \in 0 .. k /\ k <= n /\ k \in Nat /\ n \in Nat
      BY <1>1, <1>2
    <3>3. QED
      BY <3>1, <3>2, SameFront
  <2>2. QED
    BY <1>1, <2>1
<1>7. Value(f) = Values(f)[k]
  BY ValueSteps
<1>8. QED
  BY <1>1, <1>3, <1>4, <1>5, <1>6, <1>7

\* Taking the first bit off and putting one behind doubles a number.
LEMMA DoubleValue ==
    ASSUME NEW n \in Nat \ {0}, NEW s \in Vector(n), NEW b \in Bit
    PROVE  Value(Append(Tail(s), b)) = ((2 * Value(s)) % 2^n) + b
<1>1. PICK k \in Nat : k = n - 1 /\ n = k + 1 /\ n = 1 + k /\ k \in 0 .. k /\ k \in 0 .. n
  OBVIOUS
<1>2. n \in Nat /\ n \in 1 .. n /\ 1 \in 1 .. n /\ 1 \in 0 .. n /\ 1 + k <= n
  BY <1>1
<1>3. PICK t \in Vector(n) :
          t = Append(Tail(s), b) /\ t[n] = b /\ \A i \in 1 .. k : t[i] = s[1 + i]
  <2>1. /\ Append(Tail(s), b) \in Vector(n) /\ Append(Tail(s), b)[n] = b
        /\ \A i \in 1 .. n - 1 : Append(Tail(s), b)[i] = s[i + 1]
    BY Moved, ZenonT(30)
  <2>2. PICK t \in Vector(n) :
            t = Append(Tail(s), b) /\ t[n] = b /\ \A i \in 1 .. n - 1 : t[i] = s[i + 1]
    BY <2>1
  <2>3. \A i \in 1 .. k : i \in 1 .. n - 1 /\ i + 1 = 1 + i
    BY <1>1
  <2>4. QED
    BY <2>2, <2>3
<1>4. PICK f \in Vector(k) : \A i \in 1 .. k : f[i] = t[i] /\ f[i] = s[1 + i]
  <2>1. [i \in 1 .. k |-> t[i]] \in Vector(k)
    BY <1>1 DEF Vector
  <2>2. QED
    BY <1>3, <2>1
<1>5. PICK v \in Nat : v = Values(f)[k] /\ v <= 2^k - 1
  <2>1. Values(f)[k] \in 0 .. 2^k - 1 /\ 2^k \in Nat
    BY <1>1, ValueBound, PowType
  <2>2. QED
    BY <2>1
<1>6. Values(t)[k] = v
  <2>1. \A i \in 0 .. k : Values(f)[i] = Values(t)[i]
    BY <1>1, <1>2, <1>4, SameFront, SMTT(30)
  <2>2. QED
    BY <1>1, <1>5, <2>1
<1>7. Value(t) = 2 * v + b
  <2>1. Value(t) = Values(t)[n] /\ Values(t)[n] = 2 * Values(t)[n - 1] + t[n]
    BY <1>2, ValueSteps
  <2>2. QED
    BY <1>1, <1>3, <1>6, <2>1
<1>8. PICK c \in 0 .. 1 : c = s[1] /\ Values(s)[1] = c
  <2>1. Values(s)[1] = 2 * Values(s)[1 - 1] + s[1] /\ Values(s)[0] = 0 /\ 1 - 1 = 0
    BY <1>2, ValueSteps
  <2>2. s[1] \in 0 .. 1
    BY <1>2, VectorIs
  <2>3. QED
    BY <2>1, <2>2
<1>9. PICK p \in Nat \ {0} : p = 2^k /\ 2^n = p + p
  BY <1>1, PowType, PowDouble
<1>10. Value(s) = c * p + v
  <2>1. Values(s)[1 + k] = Values(s)[1] * 2^k + Values(f)[k]
    BY <1>1, <1>2, <1>4, SplitValue
  <2>2. Value(s) = Values(s)[n]
    BY <1>2, ValueSteps
  <2>3. QED
    BY <1>1, <1>5, <1>8, <1>9, <2>1, <2>2
<1>11. (2 * (c * p + v)) % (p + p) = 2 * v
  <2>1. 2 * (c * p + v) = (p + p) * c + 2 * v /\ 2 * (c * p + v) \in Int
    OBVIOUS
  <2>2. 2 * v \in 0 .. (p + p) - 1 /\ p + p \in Nat \ {0} /\ c \in Int
    BY <1>5, <1>9
  <2>3. QED
    BY <2>1, <2>2, ModUnique
<1>12. QED
  BY <1>3, <1>7, <1>9, <1>10, <1>11

-----------------------------------------------------------------------------
(* What adding and subtracting vectors does to their numbers. *)

\* A full adder: sum and carry, or difference and borrow.
LEMMA FullAdder ==
    ASSUME NEW a \in {0, 1}, NEW m \in {0, 1}, NEW c \in {0, 1}
    PROVE  /\ a + m + c = ((a + m + c) % 2) + 2 * Majority(a, m, c)
           /\ a - m - c = ((a + m + c) % 2) - 2 * Majority(1 - a, m, c)
           /\ Majority(a, m, c) \in {0, 1} /\ Majority(1 - a, m, c) \in {0, 1}
  BY DEF Majority

\* The numbers of a vector's first bits.
LEMMA FrontSteps ==
    ASSUME NEW p \in Nat, NEW n \in 0 .. p, NEW s \in Vector(p)
    PROVE  /\ Values(s)[0] = 0
           /\ \A i \in 1 .. n : Values(s)[i] = 2 * Values(s)[i - 1] + s[i]
           /\ \A i \in 0 .. n : Values(s)[i] \in Nat
           /\ n > 0 => Values(s)[1] = s[1]
<1>1. \A i \in 1 .. n : i \in 1 .. p
  OBVIOUS
<1>2. \A i \in 0 .. n : i \in 0 .. p
  OBVIOUS
<1>3. /\ Values(s)[0] = 0
      /\ \A i \in 1 .. n : Values(s)[i] = 2 * Values(s)[i - 1] + s[i]
      /\ \A i \in 0 .. n : Values(s)[i] \in Nat
  BY <1>1, <1>2, ValueSteps
<1>4. ASSUME n > 0 PROVE Values(s)[1] = s[1]
  <2>1. 1 \in 1 .. n /\ 1 \in 1 .. p /\ 1 - 1 = 0
    BY <1>4
  <2>2. Values(s)[1] = 2 * Values(s)[1 - 1] + s[1] /\ s[1] \in {0, 1}
    BY <1>3, <2>1, VectorIs
  <2>3. QED
    BY <1>3, <2>1, <2>2
<1>5. QED
  BY <1>3, <1>4

\* A ripple of carries adds the numbers that the first bits spell, up to a carry out.
LEMMA RippleAdds ==
    ASSUME NEW p \in Nat, NEW n \in 1 .. p, NEW a \in Vector(p), NEW m \in Vector(n)
    PROVE  \E o \in {0, 1} : Values(a)[n] + Value(m) = 2^n * o + Values(Added(a, m))[n]
<1>1. PICK c \in [1 .. n -> Bit] : /\ c = Carries(a, m) /\ c[n] = 0
                                   /\ \A i \in 1 .. n - 1 :
                                        c[i] = Majority(a[i + 1], m[i + 1], c[i + 1])
  BY CarriesAre
<1>2. PICK r \in Vector(p) : /\ r = Added(a, m)
                             /\ \A i \in 1 .. n : r[i] = (a[i] + m[i] + c[i]) % 2
  <2>1. /\ Rippled(a, m, c) \in Vector(p)
        /\ \A i \in 1 .. n : Rippled(a, m, c)[i] = (a[i] + m[i] + c[i]) % 2
    BY RippledSum
  <2>2. Rippled(a, m, c) = Added(a, m)
    BY <1>1 DEF Added
  <2>3. QED
    BY <2>1, <2>2
<1>3. n \in Nat /\ n \in 1 .. n /\ n \in 0 .. p /\ 1 \in 1 .. n
  OBVIOUS
<1>4. \A i \in 1 .. n : a[i] \in {0, 1} /\ m[i] \in {0, 1} /\ c[i] \in {0, 1}
  BY <1>3, VectorIs DEF Bit
<1>5. PICK o \in {0, 1} : o = Majority(a[1], m[1], c[1])
  BY <1>3, <1>4, FullAdder
<1>6. /\ Values(a)[0] = 0 /\ Values(m)[0] = 0 /\ Values(r)[0] = 0
      /\ \A i \in 1 .. n : Values(a)[i] = 2 * Values(a)[i - 1] + a[i]
      /\ \A i \in 1 .. n : Values(m)[i] = 2 * Values(m)[i - 1] + m[i]
      /\ \A i \in 1 .. n : Values(r)[i] = 2 * Values(r)[i - 1] + r[i]
      /\ \A i \in 0 .. n : Values(a)[i] \in Nat /\ Values(m)[i] \in Nat /\ Values(r)[i] \in Nat
  <2>1. /\ Values(a)[0] = 0
        /\ \A i \in 1 .. n : Values(a)[i] = 2 * Values(a)[i - 1] + a[i]
        /\ \A i \in 0 .. n : Values(a)[i] \in Nat
    BY <1>3, FrontSteps
  <2>2. /\ Values(m)[0] = 0
        /\ \A i \in 1 .. n : Values(m)[i] = 2 * Values(m)[i - 1] + m[i]
        /\ \A i \in 0 .. n : Values(m)[i] \in Nat
    BY <1>3, ValueSteps
  <2>3. /\ Values(r)[0] = 0
        /\ \A i \in 1 .. n : Values(r)[i] = 2 * Values(r)[i - 1] + r[i]
        /\ \A i \in 0 .. n : Values(r)[i] \in Nat
    BY <1>3, FrontSteps
  <2>4. QED
    BY <2>1, <2>2, <2>3
<1> DEFINE S == {k \in 0 .. n - 1 : Values(a)[k + 1] + Values(m)[k + 1] + c[k + 1]
                                      = 2^(k + 1) * o + Values(r)[k + 1]}
<1>7. 0 \in S
  <2>1. 0 + 1 = 1 /\ 1 - 1 = 0 /\ 0 \in 0 .. n - 1 /\ 2^1 = 2
    BY <1>3
  <2>2. Values(a)[1] = a[1] /\ Values(m)[1] = m[1] /\ Values(r)[1] = r[1]
    <3>1. n > 0
      OBVIOUS
    <3>2. QED
      BY <1>3, <3>1, FrontSteps
  <2>3. a[1] + m[1] + c[1] = r[1] + 2 * o
    <3>1. r[1] = (a[1] + m[1] + c[1]) % 2
      BY <1>2, <1>3
    <3>2. a[1] \in {0, 1} /\ m[1] \in {0, 1} /\ c[1] \in {0, 1}
      BY <1>3, <1>4
    <3>3. a[1] + m[1] + c[1] = ((a[1] + m[1] + c[1]) % 2) + 2 * Majority(a[1], m[1], c[1])
      BY <3>2, FullAdder
    <3>4. QED
      BY <1>5, <3>1, <3>3
  <2>4. a[1] + m[1] + c[1] = 2 * o + r[1]
    <3>1. r[1] \in {0, 1}
      BY <1>3, VectorIs
    <3>2. QED
      BY <2>3, <3>1
  <2>5. QED
    BY <2>1, <2>2, <2>4
<1>8. ASSUME NEW k \in 0 .. (n - 1) - 1, k \in S PROVE k + 1 \in S
  <2>1. PICK i \in 1 .. n - 1 : i = k + 1
    OBVIOUS
  <2>2. PICK j \in 1 .. n : j = i + 1 /\ j - 1 = i
    OBVIOUS
  <2>3. i \in 1 .. n /\ i \in 0 .. n /\ i \in 0 .. n - 1 /\ i \in Nat
    OBVIOUS
  <2>4. Values(a)[i] + Values(m)[i] + c[i] = 2^i * o + Values(r)[i]
    BY <1>8, <2>1
  <2>5. c[i] = Majority(a[j], m[j], c[j])
    BY <1>1, <2>2
  <2>6. a[j] + m[j] + c[j] = r[j] + 2 * c[i]
    BY <1>2, <1>4, <2>5, FullAdder
  <2>7. PICK pw \in Nat : pw = 2^i /\ 2^j = pw + pw
    BY <2>2, <2>3, PowType, PowDouble
  <2>8. r[j] \in {0, 1} /\ a[j] \in {0, 1} /\ m[j] \in {0, 1} /\ c[j] \in {0, 1} /\ c[i] \in {0, 1}
    BY <1>3, <1>4, <2>3, VectorIs
  <2>9. /\ Values(a)[j] = 2 * Values(a)[i] + a[j]
        /\ Values(m)[j] = 2 * Values(m)[i] + m[j]
        /\ Values(r)[j] = 2 * Values(r)[i] + r[j]
        /\ Values(a)[i] \in Nat /\ Values(m)[i] \in Nat /\ Values(r)[i] \in Nat
    BY <1>6, <2>2, <2>3
  <2>10. PICK z \in Nat : z = pw * o /\ (pw + pw) * o = z + z
    <3>1. pw * o \in Nat /\ (pw + pw) * o = pw * o + pw * o
      OBVIOUS
    <3>2. QED
      BY <3>1
  <2>11. Values(a)[j] + Values(m)[j] + c[j] = (pw + pw) * o + Values(r)[j]
    <3>1. PICK u, v, t \in Nat :
              u = Values(a)[i] /\ v = Values(m)[i] /\ t = Values(r)[i]
      BY <2>9
    <3>2. u + v + c[i] = z + t
      BY <2>4, <2>7, <2>10, <3>1
    <3>3. (2 * u + a[j]) + (2 * v + m[j]) + c[j] = (z + z) + (2 * t + r[j])
      <4>1. PICK aj, mj, cj, rj, ci \in Nat : /\ aj = a[j] /\ mj = m[j] /\ cj = c[j]
                                              /\ rj = r[j] /\ ci = c[i]
        BY <2>8
      <4>2. aj + mj + cj = rj + 2 * ci
        BY <2>6, <4>1
      <4>3. u + v + ci = z + t
        BY <3>2, <4>1
      <4>4. (2 * u + aj) + (2 * v + mj) + cj = (z + z) + (2 * t + rj)
        BY <4>2, <4>3
      <4>5. QED
        BY <4>1, <4>4
    <3>4. QED
      BY <2>9, <2>10, <3>1, <3>3
  <2>12. QED
    BY <2>1, <2>2, <2>3, <2>7, <2>11
<1> HIDE DEF S
<1>9. n - 1 \in Nat
  OBVIOUS
<1>10. 0 .. n - 1 \subseteq S
  BY <1>7, <1>8, <1>9, UpTo
<1>11. Values(a)[n] + Values(m)[n] + c[n] = 2^n * o + Values(r)[n]
  <2>1. n - 1 \in 0 .. n - 1 /\ (n - 1) + 1 = n
    OBVIOUS
  <2>2. QED
    BY <1>10, <2>1 DEF S
<1>12. Value(m) = Values(m)[n]
  BY <1>3, ValueSteps
<1>13. Values(a)[n] \in Nat /\ Values(m)[n] \in Nat
  BY <1>3, <1>6
<1>14. Values(a)[n] + Value(m) = 2^n * o + Values(Added(a, m))[n]
  BY <1>1, <1>2, <1>11, <1>12, <1>13
<1>15. QED
  BY <1>14

\* A ripple of borrows over inverted bits subtracts the inverted number, up to a borrow.
LEMMA RippleSubtracts ==
    ASSUME NEW p \in Nat, NEW n \in 1 .. p, NEW a \in Vector(p), NEW m \in Vector(n)
    PROVE  \E o \in {0, 1} : Values(a)[n] - Value(m)
             = Values(Rippled(a, m, Carries(Inverted(a), m)))[n] - 2^n * o
<1>0. PICK ai \in Vector(p) : ai = Inverted(a) /\ \A i \in 1 .. n : ai[i] = 1 - a[i]
  <2>1. DOMAIN a = 1 .. p /\ Inverted(a) \in Vector(p)
    BY VectorIs, InvertedValue
  <2>2. \A i \in 1 .. n : Inverted(a)[i] = 1 - a[i]
    BY <2>1 DEF Inverted
  <2>3. QED
    BY <2>1, <2>2
<1>1. PICK c \in [1 .. n -> Bit] : /\ c = Carries(ai, m) /\ c[n] = 0
                                   /\ \A i \in 1 .. n - 1 :
                                        c[i] = Majority(ai[i + 1], m[i + 1], c[i + 1])
  BY CarriesAre
<1>2. PICK r \in Vector(p) : /\ r = Rippled(a, m, Carries(ai, m))
                             /\ \A i \in 1 .. n : r[i] = (a[i] + m[i] + c[i]) % 2
  BY <1>1, RippledSum
<1>3. n \in Nat /\ n \in 1 .. n /\ n \in 0 .. p /\ 1 \in 1 .. n
  OBVIOUS
<1>4. \A i \in 1 .. n : a[i] \in {0, 1} /\ m[i] \in {0, 1} /\ c[i] \in {0, 1}
  BY <1>3, VectorIs DEF Bit
<1>5. PICK o \in {0, 1} : o = Majority(1 - a[1], m[1], c[1])
  BY <1>3, <1>4, FullAdder
<1>6. /\ Values(a)[0] = 0 /\ Values(m)[0] = 0 /\ Values(r)[0] = 0
      /\ \A i \in 1 .. n : Values(a)[i] = 2 * Values(a)[i - 1] + a[i]
      /\ \A i \in 1 .. n : Values(m)[i] = 2 * Values(m)[i - 1] + m[i]
      /\ \A i \in 1 .. n : Values(r)[i] = 2 * Values(r)[i - 1] + r[i]
      /\ \A i \in 0 .. n : Values(a)[i] \in Nat /\ Values(m)[i] \in Nat /\ Values(r)[i] \in Nat
  <2>1. /\ Values(a)[0] = 0
        /\ \A i \in 1 .. n : Values(a)[i] = 2 * Values(a)[i - 1] + a[i]
        /\ \A i \in 0 .. n : Values(a)[i] \in Nat
    BY <1>3, FrontSteps
  <2>2. /\ Values(m)[0] = 0
        /\ \A i \in 1 .. n : Values(m)[i] = 2 * Values(m)[i - 1] + m[i]
        /\ \A i \in 0 .. n : Values(m)[i] \in Nat
    BY <1>3, ValueSteps, ZenonT(30)
  <2>3. /\ Values(r)[0] = 0
        /\ \A i \in 1 .. n : Values(r)[i] = 2 * Values(r)[i - 1] + r[i]
        /\ \A i \in 0 .. n : Values(r)[i] \in Nat
    BY <1>3, FrontSteps
  <2>4. QED
    BY <2>1, <2>2, <2>3
<1> DEFINE S == {k \in 0 .. n - 1 : Values(a)[k + 1] - Values(m)[k + 1] - c[k + 1]
                                      = Values(r)[k + 1] - 2^(k + 1) * o}
<1>7. 0 \in S
  <2>1. 0 + 1 = 1 /\ 1 - 1 = 0 /\ 0 \in 0 .. n - 1 /\ 2^1 = 2
    BY <1>3
  <2>2. Values(a)[1] = a[1] /\ Values(m)[1] = m[1] /\ Values(r)[1] = r[1]
    <3>1. n > 0
      OBVIOUS
    <3>2. QED
      BY <1>3, <3>1, FrontSteps
  <2>3. a[1] - m[1] - c[1] = r[1] - 2 * o
    <3>1. r[1] = (a[1] + m[1] + c[1]) % 2
      BY <1>2, <1>3
    <3>2. a[1] \in {0, 1} /\ m[1] \in {0, 1} /\ c[1] \in {0, 1}
      BY <1>3, <1>4
    <3>3. a[1] - m[1] - c[1] = ((a[1] + m[1] + c[1]) % 2) - 2 * Majority(1 - a[1], m[1], c[1])
      BY <3>2, FullAdder
    <3>4. QED
      BY <1>5, <3>1, <3>3
  <2>4. QED
    BY <2>1, <2>2, <2>3
<1>8. ASSUME NEW k \in 0 .. (n - 1) - 1, k \in S PROVE k + 1 \in S
  <2>1. PICK i \in 1 .. n - 1 : i = k + 1
    OBVIOUS
  <2>2. PICK j \in 1 .. n : j = i + 1 /\ j - 1 = i
    OBVIOUS
  <2>3. i \in 1 .. n /\ i \in 0 .. n /\ i \in 0 .. n - 1 /\ i \in Nat
    OBVIOUS
  <2>4. Values(a)[i] - Values(m)[i] - c[i] = Values(r)[i] - 2^i * o
    BY <1>8, <2>1
  <2>5. c[i] = Majority(1 - a[j], m[j], c[j])
    BY <1>0, <1>1, <2>2
  <2>6. a[j] - m[j] - c[j] = r[j] - 2 * c[i]
    BY <1>2, <1>4, <2>5, FullAdder
  <2>7. PICK pw \in Nat : pw = 2^i /\ 2^j = pw + pw
    BY <2>2, <2>3, PowType, PowDouble
  <2>8. r[j] \in {0, 1} /\ a[j] \in {0, 1} /\ m[j] \in {0, 1} /\ c[j] \in {0, 1} /\ c[i] \in {0, 1}
    BY <1>3, <1>4, <2>3, VectorIs
  <2>9. /\ Values(a)[j] = 2 * Values(a)[i] + a[j]
        /\ Values(m)[j] = 2 * Values(m)[i] + m[j]
        /\ Values(r)[j] = 2 * Values(r)[i] + r[j]
        /\ Values(a)[i] \in Nat /\ Values(m)[i] \in Nat /\ Values(r)[i] \in Nat
    BY <1>6, <2>2, <2>3
  <2>10. PICK z \in Nat : z = pw * o /\ (pw + pw) * o = z + z
    <3>1. pw * o \in Nat /\ (pw + pw) * o = pw * o + pw * o
      OBVIOUS
    <3>2. QED
      BY <3>1
  <2>11. Values(a)[j] - Values(m)[j] - c[j] = Values(r)[j] - (pw + pw) * o
    <3>1. PICK u, v, t \in Nat :
              u = Values(a)[i] /\ v = Values(m)[i] /\ t = Values(r)[i]
      BY <2>9
    <3>2. u - v - c[i] = t - z
      BY <2>4, <2>7, <2>10, <3>1
    <3>3. (2 * u + a[j]) - (2 * v + m[j]) - c[j] = (2 * t + r[j]) - (z + z)
      <4>1. PICK aj, mj, cj, rj, ci \in Nat : /\ aj = a[j] /\ mj = m[j] /\ cj = c[j]
                                              /\ rj = r[j] /\ ci = c[i]
        BY <2>8
      <4>2. aj - mj - cj = rj - 2 * ci
        BY <2>6, <4>1
      <4>3. u - v - ci = t - z
        BY <3>2, <4>1
      <4>4. (2 * u + aj) - (2 * v + mj) - cj = (2 * t + rj) - (z + z)
        BY <4>2, <4>3
      <4>5. QED
        BY <4>1, <4>4
    <3>4. QED
      BY <2>9, <2>10, <3>1, <3>3
  <2>12. QED
    BY <2>1, <2>2, <2>3, <2>7, <2>11
<1> HIDE DEF S
<1>9. n - 1 \in Nat
  OBVIOUS
<1>10. 0 .. n - 1 \subseteq S
  BY <1>7, <1>8, <1>9, UpTo
<1>11. Values(a)[n] - Values(m)[n] - c[n] = Values(r)[n] - 2^n * o
  <2>1. n - 1 \in 0 .. n - 1 /\ (n - 1) + 1 = n
    OBVIOUS
  <2>2. QED
    BY <1>10, <2>1 DEF S
<1>12. Value(m) = Values(m)[n]
  BY <1>3, ValueSteps
<1>13. Values(a)[n] \in Nat /\ Values(m)[n] \in Nat
  BY <1>3, <1>6
<1>14. Values(a)[n] - Value(m) = Values(r)[n] - 2^n * o
  BY <1>1, <1>11, <1>12, <1>13
<1>15. QED
  BY <1>0, <1>2, <1>14

\* "A = A + M" adds modulo 2 to the width of M; "A = A - M" adds one more.
LEMMA SumValues ==
    ASSUME NEW p \in Nat, NEW n \in 1 .. p, NEW a \in Vector(p), NEW m \in Vector(n)
    PROVE  /\ Values(Added(a, m))[n] = (Values(a)[n] + Value(m)) % 2^n
           /\ Values(Subtracted(a, m))[n] = (Values(a)[n] + Value(m) + 1) % 2^n
<1>1. n \in Nat /\ n \in 0 .. p /\ n \in 0 .. n
  OBVIOUS
<1>2. PICK w \in Nat \ {0} : w = 2^n
  BY <1>1, PowType
<1>3. PICK va, vm \in Nat : va = Values(a)[n] /\ vm = Value(m)
  BY <1>1, ValueSteps, ToIntegerType
<1>4. PICK s \in Vector(p), d \in Vector(p) : s = Added(a, m) /\ d = Subtracted(a, m)
  BY SumsType
<1>5. PICK vs, vd \in 0 .. w - 1 : vs = Values(s)[n] /\ vd = Values(d)[n]
  BY <1>1, <1>2, ValueBound
<1>6. vs = (va + vm) % w
  <2>1. PICK o \in {0, 1} : va + vm = w * o + vs
    BY <1>2, <1>3, <1>4, <1>5, RippleAdds
  <2>2. va + vm \in Nat /\ o \in Int
    OBVIOUS
  <2>3. QED
    BY <2>1, <2>2, ModUnique
<1>7. vd = (va + vm + 1) % w
  <2>1. PICK mi \in Vector(n) : mi = Inverted(m)
    BY <1>1, InvertedValue
  <2>2. Value(mi) = w - 1 - vm
    <3>1. Values(mi)[n] = w - 1 - Values(m)[n]
      BY <1>1, <1>2, <2>1, InvertedValue
    <3>2. Value(mi) = Values(mi)[n] /\ Value(m) = Values(m)[n]
      BY <1>1, ValueSteps
    <3>3. QED
      BY <1>3, <3>1, <3>2
  <2>3. d = Rippled(a, mi, Carries(Inverted(a), mi))
    BY <1>4, <2>1 DEF Subtracted
  <2>4. PICK o \in {0, 1} : va - Value(mi) = vd - w * o
    BY <1>2, <1>3, <1>5, <2>3, RippleSubtracts
  <2>5. PICK q \in {0, 1} : q = 1 - o
    OBVIOUS
  <2>6. w * q = w - w * o
    BY <2>5
  <2>7. va + vm + 1 = w * q + vd
    BY <2>2, <2>4, <2>6
  <2>8. va + vm + 1 \in Nat /\ q \in Int
    OBVIOUS
  <2>9. QED
    BY <2>7, <2>8, ModUnique
<1>8. QED
  BY <1>2, <1>3, <1>4, <1>5, <1>6, <1>7

-----------------------------------------------------------------------------
(* The register loops implement the integer arithmetic of RegisterArithmetic. *)

\* Zeros spell 0.
LEMMA ZerosValue == ASSUME NEW n \in Nat PROVE Value(Zeros(n)) = 0
<1>1. PICK s \in Vector(n) : s = Zeros(n) /\ \A i \in 1 .. n : s[i] = 0
  BY ZeroVector DEF Zeros
<1> DEFINE S == {i \in 0 .. n : Values(s)[i] = 0}
<1>2. 0 \in S
  BY ValueSteps
<1>3. ASSUME NEW i \in 0 .. n - 1, i \in S PROVE i + 1 \in S
  <2>1. i + 1 \in 1 .. n /\ (i + 1) - 1 = i
    OBVIOUS
  <2>2. Values(s)[i + 1] = 2 * Values(s)[i] + s[i + 1]
    BY <2>1, ValueSteps
  <2>3. Values(s)[i] = 0 /\ s[i + 1] = 0
    BY <1>1, <1>3, <2>1
  <2>4. QED
    BY <2>1, <2>2, <2>3
<1> HIDE DEF S
<1>4. 0 .. n \subseteq S
  BY <1>2, <1>3, UpTo
<1>5. Values(s)[n] = 0
  BY <1>4 DEF S
<1>6. Value(s) = Values(s)[n]
  BY ValueSteps
<1>7. QED
  BY <1>1, <1>5, <1>6

\* What all of a vector can spell.
LEMMA WholeBound ==
    ASSUME NEW n \in Nat, NEW s \in Vector(n)
    PROVE  Value(s) \in 0 .. 2^n - 1 /\ Value(s) \in Nat /\ Value(s) = Values(s)[n]
<1>1. n \in 0 .. n
  OBVIOUS
<1>2. Value(s) = Values(s)[n] /\ Values(s)[n] \in Nat
  BY <1>1, ValueSteps
<1>3. QED
  BY <1>1, <1>2, ValueBound

\* The two start alike.
LEMMA NumbersInit == ASSUME Init PROVE Numbers!Init
<1>1. PICK w \in Nat \ {0} : w = bitWidth
  BY Widths DEF Init
<1>2. Value(M) \in 0 .. 2^w - 1
  BY <1>1, Widths, WholeBound DEF Init
<1>3. 0 \in 0 .. 2^w - 1
  <2>1. PICK p \in Nat \ {0} : p = 2^w
    BY PowType
  <2>2. QED
    BY <2>1
<1>4. Value(A) = 0 /\ Value(Q) \in 0 .. 2^w - 1
  <2>1. CASE unit \in Registers
    <3>1. Value(A) = 0
      BY <1>1, <2>1, ZerosValue DEF Init
    <3>2. Q \in Vector(w)
      BY <1>1, <2>1, Widths, ToBinaryType DEF Init
    <3>3. QED
      BY <1>1, <3>1, <3>2, WholeBound
  <2>2. CASE unit \notin Registers
    <3>1. A = Zeros(0) /\ Q = Zeros(0)
      BY <2>2 DEF Init, Zeros
    <3>2. QED
      BY <1>3, <3>1, ZerosValue
  <2>3. QED
    BY <2>1, <2>2
<1>5. unit \in Units
  BY DEF Init
<1>6. count = IF unit \in {"Booth", "Restoring", "NonRestoring"} THEN w ELSE 0
  BY <1>1 DEF Init, Registers, Dividers
<1>7. QED
  BY <1>1, <1>2, <1>4, <1>5, <1>6 DEF Init, Numbers!Init

\* A register shifted right behind a bit b: its first bits, and what they spell.
LEMMA ShiftedRight ==
    ASSUME NEW w \in Nat \ {0}, NEW s \in Vector(w), NEW b \in {0, 1}
    PROVE  LET t == <<b>> \o SubSeq(s, 1, w - 1)
           IN  /\ t \in Vector(w) /\ \A i \in 1 .. w - 1 : t[i + 1] = s[i]
               /\ Value(t) = b * 2^(w - 1) + (Value(s) \div 2)
               /\ \A j \in 0 .. w - 1 : Values(t)[j + 1] = b * 2^j + Values(s)[j]
<1>1. PICK l \in Nat : l = w - 1 /\ 1 + l = w /\ l + 1 = w
  <2>1. w - 1 \in Nat /\ 1 + (w - 1) = w /\ (w - 1) + 1 = w
    OBVIOUS
  <2>2. QED
    BY <2>1
<1>2. PICK f \in Vector(l) : /\ f = SubSeq(s, 1, w - 1)
                             /\ \A i \in 1 .. l : f[i] = s[i]
  <2>1. 0 \in Bit
    BY DEF Bit
  <2>2. /\ SubSeq(s, 1, w - 1) \in Vector(w - 1)
        /\ \A i \in 1 .. w - 1 : SubSeq(s, 1, w - 1)[i] = s[i]
    BY <2>1, Moved
  <2>3. QED
    BY <1>1, <2>2
<1>3. PICK t \in Vector(w) : /\ t = <<b>> \o f /\ t[1] = b
                             /\ \A i \in 1 .. l : t[i + 1] = f[i]
  <2>1. b \in Bit
    BY DEF Bit
  <2>2. /\ <<b>> \o f \in Vector(l + 1) /\ (<<b>> \o f)[1] = b
        /\ \A i \in 1 .. l : (<<b>> \o f)[i + 1] = f[i]
    BY <2>1, Prefixed
  <2>3. QED
    BY <1>1, <2>2
<1>4. Value(t) = b * 2^(w - 1) + (Value(s) \div 2)
  <2>1. b \in Bit
    BY DEF Bit
  <2>2. Value(t) = b * 2^l + Value(f)
    BY <1>3, <2>1, PrefixValue
  <2>3. Value(f) = Value(s) \div 2
    BY <1>2, HalfValue
  <2>4. QED
    BY <1>1, <2>2, <2>3
<1>5. ASSUME NEW j \in 0 .. l PROVE Values(t)[j + 1] = b * 2^j + Values(s)[j]
  <2>1. w \in Nat /\ 1 \in 1 .. w /\ 1 \in 0 .. w /\ 1 + l <= w /\ l <= w
    BY <1>1
  <2>2. Values(t)[0] = 0 /\ Values(t)[1] = 2 * Values(t)[1 - 1] + t[1]
    BY <2>1, ValueSteps
  <2>3. Values(t)[1] = b
    BY <1>3, <2>2
  <2>4. \A i \in 1 .. l : f[i] = t[1 + i]
    <3>1. \A i \in 1 .. l : 1 + i = i + 1
      OBVIOUS
    <3>2. QED
      BY <1>3, <3>1
  <2>5. \A i \in 0 .. l : Values(t)[1 + i] = Values(t)[1] * 2^i + Values(f)[i]
    BY <2>1, <2>4, SplitValue
  <2>6. \A i \in 0 .. l : Values(f)[i] = Values(s)[i]
    <3>1. l \in 0 .. l
      OBVIOUS
    <3>2. QED
      BY <1>2, <2>1, <3>1, SameFront, ZenonT(30)
  <2>7. j + 1 = 1 + j
    OBVIOUS
  <2>8. QED
    BY <2>3, <2>5, <2>6, <2>7
<1>6. QED
  BY <1>1, <1>2, <1>3, <1>4, <1>5

\* An iteration of the multiplier: the register that the sum or the difference is left
\* in, and the shift of both registers.
LEMMA BoothTurn ==
    ASSUME IInv, BoothStep, NEW w \in Nat \ {0}, w = bitWidth, NEW m \in Vector(w), m = M
    PROVE  \E a \in Vector(w) :
              /\ Q' = <<a[w]>> \o SubSeq(Q, 1, w - 1)
              /\ A' = <<a[1]>> \o SubSeq(a, 1, w - 1)
              /\ QMinus1' = Q[w]
              /\ Q[w] > QMinus1 => Value(a) = (Value(A) + Value(m) + 1) % 2^w
              /\ Q[w] < QMinus1 => Value(a) = (Value(A) + Value(m)) % 2^w
              /\ Q[w] = QMinus1 => Value(a) = Value(A)
<1>1. w \in Nat /\ w \in 1 .. w
  OBVIOUS
<1>2. A \in Vector(w) /\ Q \in Vector(w) /\ QMinus1 \in {0, 1}
  BY DEF IInv, Shape, BoothStep, Registers, Bit
<1>3. Q[w] \in {0, 1}
  BY <1>1, <1>2, VectorIs
<1>4. /\ Subtracted(A, m) \in Vector(w) /\ Added(A, m) \in Vector(w)
      /\ Value(Subtracted(A, m)) = (Value(A) + Value(m) + 1) % 2^w
      /\ Value(Added(A, m)) = (Value(A) + Value(m)) % 2^w
  <2>1. Subtracted(A, m) \in Vector(w) /\ Added(A, m) \in Vector(w)
    BY <1>1, <1>2, SumsType
  <2>2. /\ Values(Subtracted(A, m))[w] = (Values(A)[w] + Value(m) + 1) % 2^w
        /\ Values(Added(A, m))[w] = (Values(A)[w] + Value(m)) % 2^w
    BY <1>1, <1>2, SumValues
  <2>3. /\ Value(A) = Values(A)[w]
        /\ Value(Subtracted(A, m)) = Values(Subtracted(A, m))[w]
        /\ Value(Added(A, m)) = Values(Added(A, m))[w]
    BY <1>1, <1>2, <2>1, WholeBound
  <2>4. QED
    BY <2>1, <2>2, <2>3
<1> DEFINE sum == CASE Q[w] = 1 /\ QMinus1 = 0 -> Subtracted(A, m)
                    [] Q[w] = 0 /\ QMinus1 = 1 -> Added(A, m)
                    [] OTHER                   -> A
<1>5. /\ Q' = <<sum[w]>> \o SubSeq(Q, 1, w - 1)
      /\ A' = <<sum[1]>> \o SubSeq(sum, 1, w - 1)
      /\ QMinus1' = Q[w]
  BY DEF BoothStep
<1>6. sum \in Vector(w)
  BY <1>2, <1>4
<1>7. Q[w] > QMinus1 => sum = Subtracted(A, m)
  BY <1>2, <1>3
<1>8. Q[w] < QMinus1 => sum = Added(A, m)
  BY <1>2, <1>3
<1>9. Q[w] = QMinus1 => sum = A
  BY <1>2, <1>3
<1> HIDE DEF sum
<1>10. QED
  BY <1>4, <1>5, <1>6, <1>7, <1>8, <1>9

\* The same iteration over integers.
LEMMA BoothMaps == ASSUME IInv, BoothStep PROVE Numbers!Booth
<1>1. PICK w \in Nat \ {0} : w = bitWidth
  BY Widths DEF IInv
<1>2. PICK m \in Vector(w) : m = M
  BY <1>1, Widths DEF IInv
<1>3. w \in Nat /\ w \in 1 .. w /\ 1 \in 1 .. w /\ w \in 0 .. w
  OBVIOUS
<1>4. A \in Vector(w) /\ Q \in Vector(w) /\ unit = "Booth" /\ QMinus1 \in {0, 1}
  BY <1>1 DEF IInv, Shape, BoothStep, Registers, Bit
<1>5. PICK p \in Nat \ {0} : p = 2^w
  BY PowType
<1>6. PICK va, vm, vq \in Nat : va = Value(A) /\ vm = Value(m) /\ vq = Value(Q)
  BY <1>3, <1>4, WholeBound
<1>7. PICK low \in {0, 1} : low = Q[w] /\ low = vq % 2
  BY <1>3, <1>4, <1>6, HalfValue, VectorIs
<1>8. PICK a \in Vector(w) :
          /\ Q' = <<a[w]>> \o SubSeq(Q, 1, w - 1)
          /\ A' = <<a[1]>> \o SubSeq(a, 1, w - 1)
          /\ QMinus1' = Q[w]
          /\ Q[w] > QMinus1 => Value(a) = (Value(A) + Value(m) + 1) % 2^w
          /\ Q[w] < QMinus1 => Value(a) = (Value(A) + Value(m)) % 2^w
          /\ Q[w] = QMinus1 => Value(a) = Value(A)
  BY <1>1, <1>2, BoothTurn
<1>9. PICK v \in Nat : v = Value(a)
  BY <1>3, WholeBound
<1>10. PICK h \in Nat \ {0} : h = 2^(w - 1)
  BY <1>3, PowType
<1>11. PICK b1, bw \in {0, 1} : b1 = a[1] /\ bw = a[w] /\ v % 2 = bw
  BY <1>3, <1>9, VectorIs, HalfValue
<1>12. v >= h <=> b1 = 1
  BY <1>3, <1>9, <1>10, <1>11, FirstBit, WholeBound
<1>13. Value(A') = b1 * h + (v \div 2)
  <2>1. Value(<<b1>> \o SubSeq(a, 1, w - 1)) = b1 * 2^(w - 1) + (Value(a) \div 2)
    BY ShiftedRight
  <2>2. QED
    BY <1>8, <1>9, <1>10, <1>11, <2>1
<1>14. Value(Q') = bw * h + (vq \div 2)
  <2>1. Value(<<bw>> \o SubSeq(Q, 1, w - 1)) = bw * 2^(w - 1) + (Value(Q) \div 2)
    BY <1>4, ShiftedRight, ZenonT(30)
  <2>2. QED
    BY <1>6, <1>8, <1>10, <1>11, <2>1
<1>15. Value(A') = (IF v >= h THEN h ELSE 0) + (v \div 2)
  BY <1>12, <1>13
<1>16. Value(Q') = (v % 2) * h + (vq \div 2)
  BY <1>11, <1>14
<1>17. v = CASE vq % 2 > QMinus1 -> (va + vm + 1) % p
             [] vq % 2 < QMinus1 -> (va + vm) % p
             [] OTHER            -> va
  BY <1>4, <1>5, <1>6, <1>7, <1>8, <1>9
<1>18. QMinus1' = vq % 2
  BY <1>7, <1>8
<1>19. QED
  BY <1>1, <1>2, <1>4, <1>5, <1>6, <1>10, <1>15, <1>16, <1>17, <1>18
     DEF Numbers!Booth, Numbers!Minus, Numbers!Plus, Numbers!Negative


\* Two registers with the same bits past the first w differ in the number these spell.
LEMMA PartsValue ==
    ASSUME NEW n \in Nat, NEW w \in 1 .. n, NEW s \in Vector(n), NEW d \in Vector(n),
           \A i \in w + 1 .. n : d[i] = s[i]
    PROVE  /\ Value(d) = Values(d)[w] * 2^(n - w) + (Value(s) % 2^(n - w))
           /\ Value(d) \div 2^(n - w) = Values(d)[w]
<1>1. PICK l \in Nat : l = n - w /\ w + l = n /\ w + l <= n /\ l \in 0 .. l
  OBVIOUS
<1>2. w \in 0 .. n /\ n \in 0 .. n
  OBVIOUS
<1>3. PICK p \in Nat \ {0} : p = 2^l
  BY PowType
<1>4. PICK t \in Vector(l) :
          (\A i \in 1 .. l : t[i] = s[w + i]) /\ (\A i \in 1 .. l : t[i] = d[w + i])
  <2>1. [i \in 1 .. l |-> s[w + i]] \in Vector(l)
    BY <1>1 DEF Vector
  <2>2. \A i \in 1 .. l : w + i \in w + 1 .. n
    BY <1>1
  <2>3. QED
    BY <2>1, <2>2
<1>5. PICK r \in 0 .. p - 1 : r = Values(t)[l]
  BY <1>1, <1>3, ValueBound
<1>6. PICK vs, vd \in Nat : vs = Values(s)[w] /\ vd = Values(d)[w]
  <2>1. Values(s)[w] \in Nat
    BY <1>2, ValueSteps
  <2>2. Values(d)[w] \in Nat
    BY <1>2, ValueSteps
  <2>3. QED
    BY <2>1, <2>2
<1>7. Value(s) = vs * p + r
  <2>1. Values(s)[w + l] = Values(s)[w] * 2^l + Values(t)[l]
    BY <1>1, <1>2, <1>4, SplitValue
  <2>2. Value(s) = Values(s)[n]
    BY WholeBound
  <2>3. QED
    BY <1>1, <1>3, <1>5, <1>6, <2>1, <2>2
<1>8. Value(d) = vd * p + r
  <2>1. Values(d)[w + l] = Values(d)[w] * 2^l + Values(t)[l]
    BY <1>1, <1>2, <1>4, SplitValue
  <2>2. Value(d) = Values(d)[n]
    BY WholeBound
  <2>3. QED
    BY <1>1, <1>3, <1>5, <1>6, <2>1, <2>2
<1>9. (vs * p + r) % p = r
  <2>1. vs * p + r = p * vs + r /\ vs * p + r \in Nat /\ vs \in Int
    OBVIOUS
  <2>2. QED
    BY <2>1, ModUnique
<1>10. (vd * p + r) \div p = vd
  <2>1. vd * p + r = p * vd + r /\ vd * p + r \in Nat /\ vd \in Int
    OBVIOUS
  <2>2. QED
    BY <2>1, ModUnique
<1>11. QED
  BY <1>1, <1>3, <1>6, <1>7, <1>8, <1>9, <1>10

\* An iteration of a divider, as integers: the shifted register, its first w bits and the
\* rest of them, and what a subtraction or an addition leaves.
LEMMA DividerMaps ==
    ASSUME IInv, RestoringStep \/ NonRestoringStep
    PROVE  Numbers!Restoring \/ Numbers!NonRestoring
<1>1. PICK w \in Nat \ {0} : w = bitWidth
  BY Widths DEF IInv
<1>2. PICK m \in Vector(w) : m = M
  BY <1>1, Widths DEF IInv
<1>3. /\ w \in Nat /\ w \in 1 .. w /\ 1 \in 1 .. w /\ w \in 0 .. w
      /\ w - 1 \in Nat /\ w - 1 \in 0 .. w
  OBVIOUS
<1>4. unit \in Dividers /\ unit \in Registers /\ unit # "Booth"
  BY DEF RestoringStep, NonRestoringStep, Registers, Dividers
<1>5. count \in 1 .. w /\ Q \in Vector(w)
  BY <1>1, <1>4 DEF IInv, Shape, RestoringStep, NonRestoringStep
<1>6. PICK k \in Nat : k = 2 * w - count /\ w <= k
  <2>1. 2 * w - count \in Nat /\ w <= 2 * w - count
    BY <1>5
  <2>2. QED
    BY <2>1
<1>7. A \in Vector(k)
  BY <1>1, <1>4, <1>6 DEF IInv, Shape
<1>8. PICK va, vm, vq \in Nat : va = Value(A) /\ vm = Value(m) /\ vq = Value(Q)
  BY <1>3, <1>5, <1>7, WholeBound
<1>9. PICK b \in {0, 1} : b = Q[1] /\ b \in Bit
  BY <1>3, <1>5, VectorIs DEF Bit
<1>10. PICK h \in Nat \ {0} : h = 2^(w - 1)
  BY <1>3, PowType
<1>11. vq >= h <=> b = 1
  BY <1>3, <1>5, <1>8, <1>9, <1>10, FirstBit, WholeBound
<1>12. PICK n \in Nat : n = k + 1 /\ w \in 1 .. n /\ 1 \in 1 .. n /\ w \in 0 .. n
  BY <1>6
<1>13. PICK s \in Vector(n) : s = ShiftedA /\ Value(s) = b * 2^k + va
  <2>1. <<b>> \o A \in Vector(k + 1) /\ Value(<<b>> \o A) = b * 2^k + Value(A)
    BY <1>7, <1>9, Prefixed, PrefixValue
  <2>2. QED
    BY <1>8, <1>9, <1>12, <2>1 DEF ShiftedA
<1>14. PICK low \in Nat \ {0} : low = 2^(n - w) /\ low = 2^(w - count + 1)
  <2>1. n - w \in Nat /\ n - w = w - count + 1
    BY <1>5, <1>6, <1>12
  <2>2. QED
    BY <2>1, PowType
<1>15. PICK p \in Nat \ {0} : p = 2^w
  BY PowType
<1>16. PICK vs, top, rest \in Nat :
           /\ vs = Value(s) /\ top = Values(s)[w] /\ top = vs \div low /\ rest = vs % low
           /\ vs = (IF vq >= h THEN 2^(2 * w - count) + va ELSE va)
  <2>1. Value(s) \div low = Values(s)[w]
    BY <1>12, <1>14, PartsValue
  <2>2. Value(s) \in Nat /\ Values(s)[w] \in Nat
    BY <1>12, WholeBound, ValueSteps
  <2>3. Value(s) % low \in Nat
    BY <2>2
  <2>4. 2^k \in Nat
    BY PowType
  <2>5. Value(s) = (IF vq >= h THEN 2^(2 * w - count) + va ELSE va)
    BY <1>6, <1>11, <1>13, <2>4
  <2>6. QED
    BY <2>1, <2>2, <2>3, <2>5
<1>17. PICK sub, add \in Vector(n) :
           /\ sub = Subtracted(s, m) /\ add = Added(s, m)
           /\ \A i \in w + 1 .. n : sub[i] = s[i] /\ add[i] = s[i]
  <2>1. /\ Subtracted(s, m) \in Vector(n) /\ Added(s, m) \in Vector(n)
        /\ \A i \in w + 1 .. n : Subtracted(s, m)[i] = s[i] /\ Added(s, m)[i] = s[i]
    <3>1. w \in 1 .. n
      BY <1>12
    <3>2. Subtracted(s, m) \in Vector(n) /\ Added(s, m) \in Vector(n)
      BY <3>1, SumsType
    <3>3. \A i \in w + 1 .. n : Added(s, m)[i] = s[i] /\ Subtracted(s, m)[i] = s[i]
      <4> SUFFICES ASSUME NEW i \in w + 1 .. n
                   PROVE  Added(s, m)[i] = s[i] /\ Subtracted(s, m)[i] = s[i]
        OBVIOUS
      <4>1. Added(s, m)[i] = s[i]
        BY <3>1, SumsType
      <4>2. Subtracted(s, m)[i] = s[i]
        BY <3>1, SumsType
      <4>3. QED
        BY <4>1, <4>2
    <3>4. QED
      BY <3>2, <3>3
  <2>2. QED
    BY <2>1
<1>18. /\ Values(sub)[w] = (top + vm + 1) % p
       /\ Values(add)[w] = (top + vm) % p
  <2>1. w \in 1 .. n
    BY <1>12
  <2>2. /\ Values(Subtracted(s, m))[w] = (Values(s)[w] + Value(m) + 1) % 2^w
        /\ Values(Added(s, m))[w] = (Values(s)[w] + Value(m)) % 2^w
    BY <2>1, SumValues
  <2>3. QED
    BY <1>8, <1>15, <1>16, <1>17, <2>2
<1>19. /\ Value(sub) = ((top + vm + 1) % p) * low + rest
       /\ Value(sub) \div low = (top + vm + 1) % p
  <2>1. \A i \in w + 1 .. n : sub[i] = s[i]
    BY <1>17
  <2>2. /\ Value(sub) = Values(sub)[w] * 2^(n - w) + (Value(s) % 2^(n - w))
        /\ Value(sub) \div 2^(n - w) = Values(sub)[w]
    BY <1>12, <2>1, PartsValue
  <2>3. QED
    BY <1>14, <1>16, <1>18, <2>2
<1>20. /\ Value(add) = ((top + vm) % p) * low + rest
       /\ Value(add) \div low = (top + vm) % p
  <2>1. \A i \in w + 1 .. n : add[i] = s[i]
    BY <1>17
  <2>2. /\ Value(add) = Values(add)[w] * 2^(n - w) + (Value(s) % 2^(n - w))
        /\ Value(add) \div 2^(n - w) = Values(add)[w]
    BY <1>12, <2>1, PartsValue
  <2>3. QED
    BY <1>14, <1>16, <1>18, <2>2
<1>21. /\ (top + vm + 1) % p >= h <=> sub[1] = 1
       /\ (top + vm) % p >= h <=> add[1] = 1
       /\ top >= h <=> s[1] = 1
       /\ sub[1] \in {0, 1} /\ add[1] \in {0, 1} /\ s[1] \in {0, 1}
  <2>1. Values(sub)[w] >= 2^(w - 1) <=> sub[1] = 1
    BY <1>12, FirstBit
  <2>2. Values(add)[w] >= 2^(w - 1) <=> add[1] = 1
    BY <1>12, FirstBit
  <2>3. Values(s)[w] >= 2^(w - 1) <=> s[1] = 1
    BY <1>12, FirstBit
  <2>4. sub[1] \in {0, 1} /\ add[1] \in {0, 1} /\ s[1] \in {0, 1}
    BY <1>12, VectorIs
  <2>5. QED
    BY <1>10, <1>16, <1>18, <2>1, <2>2, <2>3, <2>4
<1>22. ASSUME NEW a \in Vector(n), Q' = Append(Tail(Q), 1 - a[1])
       PROVE  Value(Q') = ((2 * vq) % p) + (IF a[1] = 1 THEN 0 ELSE 1)
  <2>1. a[1] \in {0, 1} /\ 1 - a[1] \in Bit
    BY <1>12, VectorIs DEF Bit
  <2>2. Value(Q') = ((2 * Value(Q)) % 2^w) + (1 - a[1])
    BY <1>5, <1>22, <2>1, DoubleValue
  <2>3. QED
    BY <1>8, <1>15, <2>1, <2>2
<1>23. CASE RestoringStep
  <2>1. /\ Q' = Append(Tail(Q), 1 - sub[1])
        /\ A' = (IF sub[1] = 1 THEN s ELSE sub)
        /\ unit = "Restoring" /\ UNCHANGED QMinus1
    BY <1>2, <1>13, <1>17, <1>23 DEF RestoringStep, ShiftQ
  <2>2. Value(Q') = ((2 * vq) % p) + (IF sub[1] = 1 THEN 0 ELSE 1)
    BY <1>22, <2>1
  <2>3. IF (top + vm + 1) % p >= h
        THEN Value(A') = vs
        ELSE Value(A') = ((top + vm + 1) % p) * low + rest
    BY <1>16, <1>19, <1>21, <2>1
  <2>4. Value(Q') = ((2 * vq) % p) + (IF (top + vm + 1) % p >= h THEN 0 ELSE 1)
    BY <1>21, <2>2
  <2>5. Numbers!Restoring
    BY <1>1, <1>2, <1>8, <1>10, <1>14, <1>15, <1>16, <2>1, <2>3, <2>4
       DEF Numbers!Restoring, Numbers!Minus, Numbers!Top, Numbers!Rest, Numbers!Below,
           Numbers!Shifted, Numbers!Subtract, Numbers!Negative
  <2>6. QED
    BY <2>5
<1>24. CASE NonRestoringStep
  <2>1. PICK a \in Vector(n) :
            /\ Q' = Append(Tail(Q), 1 - a[1]) /\ A' = a
            /\ a = IF s[1] = 0 THEN sub ELSE add
    BY <1>2, <1>13, <1>17, <1>24 DEF NonRestoringStep, ShiftQ
  <2>2. unit = "NonRestoring" /\ UNCHANGED QMinus1
    BY <1>24 DEF NonRestoringStep
  <2>3. Value(Q') = ((2 * vq) % p) + (IF a[1] = 1 THEN 0 ELSE 1)
    BY <1>22, <2>1
  <2>4. IF top >= h THEN Value(A') = ((top + vm) % p) * low + rest
                    ELSE Value(A') = ((top + vm + 1) % p) * low + rest
    BY <1>19, <1>20, <1>21, <2>1
  <2>5. Value(A') \div low >= h <=> a[1] = 1
    BY <1>19, <1>20, <1>21, <2>1
  <2>6. Value(Q') = ((2 * vq) % p) + (IF Value(A') \div low >= h THEN 0 ELSE 1)
    BY <2>3, <2>5
  <2>7. Numbers!NonRestoring
    BY <1>1, <1>2, <1>8, <1>10, <1>14, <1>15, <1>16, <2>2, <2>4, <2>6
       DEF Numbers!NonRestoring, Numbers!Minus, Numbers!Plus, Numbers!Top, Numbers!Rest,
           Numbers!Below, Numbers!Shifted, Numbers!Subtract, Numbers!Add,
           Numbers!Negative
  <2>8. QED
    BY <2>7
<1>25. QED
  BY <1>23, <1>24

\* Every step of the programs is one of the integers' or leaves them alone.
LEMMA NumbersNext == ASSUME IInv, [Next]_vars PROVE [Numbers!Next]_(Numbers!vars)
<1>1. CASE BoothStep \/ RestoringStep \/ NonRestoringStep
  <2>1. /\ count > 0 /\ count' = count - 1
        /\ UNCHANGED <<unit, x, y>>
    BY <1>1 DEF BoothStep, RestoringStep, NonRestoringStep, inputs
  <2>2. UNCHANGED <<unit, bitWidth, M>>
    BY <2>1 DEF bitWidth, M
  <2>3. Numbers!Booth \/ Numbers!Restoring \/ Numbers!NonRestoring
    BY <1>1, BoothMaps, DividerMaps
  <2>4. Numbers!Next
    BY <2>1, <2>2, <2>3 DEF Numbers!Next
  <2>5. QED
    BY <2>4
<1>2. CASE PrintProduct \/ PrintQuotient \/ Adder \/ Multiplier
  <2>1. UNCHANGED <<unit, x, y, A, Q, QMinus1, count>>
    BY <1>2 DEF PrintProduct, PrintQuotient, Adder, Multiplier, Finish, inputs
  <2>2. UNCHANGED <<bitWidth, M>>
    BY <2>1 DEF bitWidth, M
  <2>3. QED
    BY <2>1, <2>2 DEF Numbers!vars
<1>3. CASE UNCHANGED vars
  <2>1. UNCHANGED <<unit, x, y, A, Q, QMinus1, count>>
    BY <1>3 DEF vars, inputs
  <2>2. UNCHANGED <<bitWidth, M>>
    BY <2>1 DEF bitWidth, M
  <2>3. QED
    BY <2>1, <2>2 DEF Numbers!vars
<1>4. QED
  BY <1>1, <1>2, <1>3 DEF Next

\* The loops over bits do the integer arithmetic of RegisterArithmetic: addition and
\* "subtraction" modulo the width, halving, doubling, and the quotient bits.
THEOREM RegisterRefinement == Spec => IntegerSpec
<1>1. Init => Numbers!Init
  BY NumbersInit
<1>2. IInv /\ [Next]_vars => [Numbers!Next]_(Numbers!vars)
  BY NumbersNext
<1>3. QED
  BY <1>1, <1>2, Invariant, PTL DEF Spec, IntegerSpec, Numbers!Spec

-----------------------------------------------------------------------------
(* What the adders' sums are. *)

\* r has the sum bits of a ripple through s and t.
IsSum(n, s, t, r) ==
    \A i \in 1 .. n : r[i] = FullAdderSum(s[i], t[i], RippleCarry(s, t)[i + 1])

\* A ripple through vectors of one length gives their sum, its last carry in front.
LEMMA RippleWhole ==
    ASSUME NEW n \in Nat, NEW s \in Vector(n), NEW t \in Vector(n),
           NEW r \in Vector(n), IsSum(n, s, t, r)
    PROVE  /\ RippleCarry(s, t)[1] \in {0, 1}
           /\ Value(s) + Value(t) = RippleCarry(s, t)[1] * 2^n + Value(r)
<1>1. PICK c : /\ c = RippleCarry(s, t) /\ c \in [1 .. n + 1 -> Bit] /\ c[n + 1] = 0
               /\ \A i \in 1 .. n : c[i] = Majority(s[i], t[i], c[i + 1])
  BY RippleCarryAre
<1>2. /\ \A i \in 1 .. n : s[i] \in {0, 1} /\ t[i] \in {0, 1}
      /\ \A i \in 0 .. n : c[i + 1] \in {0, 1}
  BY <1>1, VectorIs DEF Bit
<1>3. PICK o \in {0, 1} : o = c[1]
  <2>1. 0 \in 0 .. n /\ 0 + 1 = 1
    OBVIOUS
  <2>2. QED
    BY <1>2, <2>1
<1>4. \A i \in 1 .. n : r[i] = (s[i] + t[i] + c[i + 1]) % 2
  BY <1>1 DEF IsSum, FullAdderSum
<1> DEFINE S == {k \in 0 .. n : Values(s)[k] + Values(t)[k] + c[k + 1]
                                  = o * 2^k + Values(r)[k]}
<1>5. 0 \in S
  <2>1. 0 + 1 = 1 /\ 2^0 = 1 /\ o * 1 = o /\ 0 \in 0 .. n
    OBVIOUS
  <2>2. Values(s)[0] = 0 /\ Values(t)[0] = 0 /\ Values(r)[0] = 0
    BY ValueSteps
  <2>3. QED
    BY <1>3, <2>1, <2>2
<1>6. ASSUME NEW k \in 0 .. n - 1, k \in S PROVE k + 1 \in S
  <2>1. PICK j \in 1 .. n : j = k + 1 /\ j - 1 = k /\ j \in 0 .. n
    OBVIOUS
  <2>2. PICK u, v, e \in Nat :
            /\ u = Values(s)[k] /\ v = Values(t)[k] /\ e = Values(r)[k]
    <3>1. k \in 0 .. n
      OBVIOUS
    <3>2. Values(s)[k] \in Nat
      BY <3>1, ValueSteps
    <3>3. Values(t)[k] \in Nat
      BY <3>1, ValueSteps
    <3>4. Values(r)[k] \in Nat
      BY <3>1, ValueSteps
    <3>5. QED
      BY <3>2, <3>3, <3>4
  <2>3. PICK sj, tj, rj, cj, ck \in Nat :
            /\ sj = s[j] /\ tj = t[j] /\ rj = r[j] /\ cj = c[j + 1] /\ ck = c[k + 1]
    <3>1. s[j] \in {0, 1} /\ t[j] \in {0, 1} /\ r[j] \in {0, 1}
      BY VectorIs
    <3>2. c[j + 1] \in {0, 1} /\ c[k + 1] \in {0, 1}
      BY <1>2, <2>1
    <3>3. QED
      BY <3>1, <3>2
  <2>4. PICK p \in Nat : p = 2^k /\ 2^j = p + p
    BY <2>1, PowType, PowDouble
  <2>5. PICK z \in Nat : z = o * p /\ o * (p + p) = z + z
    <3>1. o * p \in Nat /\ o * (p + p) = o * p + o * p
      OBVIOUS
    <3>2. QED
      BY <3>1
  <2>6. u + v + ck = z + e
    BY <1>6, <2>2, <2>3, <2>4, <2>5
  <2>7. sj + tj + cj = rj + 2 * ck
    <3>1. s[j] \in {0, 1} /\ t[j] \in {0, 1} /\ c[j + 1] \in {0, 1}
      BY <1>2, <2>1
    <3>2. s[j] + t[j] + c[j + 1]
            = ((s[j] + t[j] + c[j + 1]) % 2) + 2 * Majority(s[j], t[j], c[j + 1])
      BY <3>1, FullAdder
    <3>3. c[j] = Majority(s[j], t[j], c[j + 1]) /\ r[j] = (s[j] + t[j] + c[j + 1]) % 2
      BY <1>1, <1>4
    <3>4. QED
      BY <2>1, <2>3, <3>2, <3>3
  <2>8. (2 * u + sj) + (2 * v + tj) + cj = (z + z) + (2 * e + rj)
    BY <2>6, <2>7
  <2>9. Values(s)[j] = 2 * u + sj /\ Values(t)[j] = 2 * v + tj /\ Values(r)[j] = 2 * e + rj
    <3>1. Values(s)[j] = 2 * Values(s)[j - 1] + s[j]
      BY ValueSteps
    <3>2. Values(t)[j] = 2 * Values(t)[j - 1] + t[j]
      BY ValueSteps
    <3>3. Values(r)[j] = 2 * Values(r)[j - 1] + r[j]
      BY ValueSteps
    <3>4. QED
      BY <2>1, <2>2, <2>3, <3>1, <3>2, <3>3
  <2>10. Values(s)[j] + Values(t)[j] + c[j + 1] = o * 2^j + Values(r)[j]
    BY <2>3, <2>4, <2>5, <2>8, <2>9
  <2>11. QED
    BY <2>1, <2>10
<1> HIDE DEF S
<1>7. 0 .. n \subseteq S
  BY <1>5, <1>6, UpTo
<1>8. Values(s)[n] + Values(t)[n] + c[n + 1] = o * 2^n + Values(r)[n]
  <2>1. n \in 0 .. n
    OBVIOUS
  <2>2. QED
    BY <1>7, <2>1 DEF S
<1>9. /\ Value(s) = Values(s)[n] /\ Value(t) = Values(t)[n] /\ Value(r) = Values(r)[n]
      /\ Value(s) \in Nat /\ Value(t) \in Nat
  BY WholeBound
<1>10. Value(s) + Value(t) = o * 2^n + Value(r)
  BY <1>1, <1>8, <1>9
<1>11. QED
  BY <1>1, <1>3, <1>10

\* Zeros behind a vector shift its number.
LEMMA PaddedValue ==
    ASSUME NEW n \in Nat, NEW k \in 0 .. n, NEW s \in Vector(k)
    PROVE  /\ Padded(s, n) \in Vector(n)
           /\ Value(Padded(s, n)) = Value(s) * 2^(n - k)
<1>1. PICK l \in Nat : l = n - k /\ k + l = n /\ k + l <= n /\ l \in 0 .. l
  OBVIOUS
<1>2. PICK z \in Vector(l) : z = Zeros(l) /\ Value(z) = 0
  BY ZeroVector, ZerosValue
<1>3. k \in Nat /\ k \in 0 .. k /\ k \in 0 .. n /\ k <= n
  OBVIOUS
<1>4. s \in Seq(Bit) /\ Len(s) = k /\ z \in Seq(Bit) /\ Len(z) = l
  BY <1>3, VectorIs
<1>5. PICK t \in Vector(n) : /\ t = Padded(s, n)
                             /\ \A i \in 1 .. k : s[i] = t[i]
                             /\ \A i \in 1 .. l : z[i] = t[k + i]
  <2>1. Padded(s, n) = s \o z
    BY <1>1, <1>2, <1>4 DEF Padded
  <2>2. Padded(s, n) \in Vector(n)
    BY PaddedType
  <2>3. \A i \in 1 .. k : s[i] = (s \o z)[i]
    BY <1>4
  <2>4. \A i \in 1 .. l : z[i] = (s \o z)[k + i]
    BY <1>4
  <2>5. QED
    BY <2>1, <2>2, <2>3, <2>4
<1>6. Values(s)[k] = Values(t)[k]
  <2>1. \A i \in 0 .. k : Values(s)[i] = Values(t)[i]
    BY <1>3, <1>5, SameFront
  <2>2. QED
    BY <1>3, <2>1
<1>7. Values(t)[k + l] = Values(t)[k] * 2^l + Values(z)[l]
  BY <1>1, <1>3, <1>5, SplitValue
<1>8. Value(s) = Values(s)[k] /\ Value(s) \in Nat
  BY <1>3, WholeBound
<1>9. Value(t) = Values(t)[n] /\ Value(z) = Values(z)[l]
  BY WholeBound
<1>10. PICK v, p \in Nat : v = Value(s) /\ p = 2^l
  BY <1>8, PowType
<1>11. Value(t) = v * p
  <2>1. v * p \in Nat
    OBVIOUS
  <2>2. Value(t) = v * p + 0
    BY <1>1, <1>2, <1>6, <1>7, <1>8, <1>9, <1>10
  <2>3. QED
    BY <2>1, <2>2
<1>12. QED
  BY <1>1, <1>5, <1>10, <1>11

\* A carry in front has the next weight.
LEMMA WithCarryValue ==
    ASSUME NEW n \in Nat, NEW s \in Vector(n), NEW c \in {0, 1}
    PROVE  Value(WithCarry(c, s)) = c * 2^n + Value(s)
<1>1. CASE c = 1
  <2>1. 1 \in Bit
    BY DEF Bit
  <2>2. Value(<<1>> \o s) = 1 * 2^n + Value(s)
    BY <2>1, PrefixValue
  <2>3. QED
    BY <1>1, <2>2 DEF WithCarry
<1>2. CASE c = 0
  <2>1. Value(s) \in Nat /\ 2^n \in Nat
    BY WholeBound, PowType
  <2>2. 0 * 2^n + Value(s) = Value(s)
    BY <2>1
  <2>3. QED
    BY <1>2, <2>2 DEF WithCarry
<1>3. QED
  BY <1>1, <1>2

\* r has a one where s or t has one, and they never both do.
IsUnion(n, s, t, r) ==
    \A i \in 1 .. n : s[i] + t[i] < 2 /\ r[i] = (s[i] + t[i] + 0) % 2

\* Without a position where both have a one, no carry comes up, wherever carries run.
LEMMA NoCarry ==
    ASSUME NEW n \in Nat, NEW s \in Vector(n), NEW t \in Vector(n),
           NEW r \in Vector(n), IsUnion(n, s, t, r)
    PROVE  Value(r) = Value(s) + Value(t)
<1> DEFINE S == {k \in 0 .. n : Values(r)[k] = Values(s)[k] + Values(t)[k]}
<1>1. 0 \in S
  <2>1. Values(s)[0] = 0 /\ Values(t)[0] = 0 /\ Values(r)[0] = 0
    BY ValueSteps
  <2>2. QED
    BY <2>1
<1>2. ASSUME NEW k \in 0 .. n - 1, k \in S PROVE k + 1 \in S
  <2>1. PICK j \in 1 .. n : j = k + 1 /\ j - 1 = k /\ j \in 0 .. n
    OBVIOUS
  <2>2. PICK u, v, e \in Nat :
            /\ u = Values(s)[k] /\ v = Values(t)[k] /\ e = Values(r)[k]
    <3>1. k \in 0 .. n
      OBVIOUS
    <3>2. Values(s)[k] \in Nat
      BY <3>1, ValueSteps
    <3>3. Values(t)[k] \in Nat
      BY <3>1, ValueSteps
    <3>4. Values(r)[k] \in Nat
      BY <3>1, ValueSteps
    <3>5. QED
      BY <3>2, <3>3, <3>4
  <2>3. PICK sj, tj \in {0, 1} : sj = s[j] /\ tj = t[j]
    BY VectorIs
  <2>4. r[j] = sj + tj
    <3>1. sj + tj < 2 /\ r[j] = (sj + tj + 0) % 2
      BY <2>3 DEF IsUnion
    <3>2. QED
      BY <3>1
  <2>5. e = u + v
    BY <1>2, <2>2
  <2>6. Values(s)[j] = 2 * u + sj /\ Values(t)[j] = 2 * v + tj
        /\ Values(r)[j] = 2 * e + (sj + tj)
    <3>1. Values(s)[j] = 2 * Values(s)[j - 1] + s[j]
      BY ValueSteps
    <3>2. Values(t)[j] = 2 * Values(t)[j - 1] + t[j]
      BY ValueSteps
    <3>3. Values(r)[j] = 2 * Values(r)[j - 1] + r[j]
      BY ValueSteps
    <3>4. QED
      BY <2>1, <2>2, <2>3, <2>4, <3>1, <3>2, <3>3
  <2>7. Values(r)[j] = Values(s)[j] + Values(t)[j]
    BY <2>5, <2>6
  <2>8. QED
    BY <2>1, <2>7
<1> HIDE DEF S
<1>3. 0 .. n \subseteq S
  BY <1>1, <1>2, UpTo
<1>4. Values(r)[n] = Values(s)[n] + Values(t)[n]
  <2>1. n \in 0 .. n
    OBVIOUS
  <2>2. QED
    BY <1>3, <2>1 DEF S
<1>5. Value(s) = Values(s)[n] /\ Value(t) = Values(t)[n] /\ Value(r) = Values(r)[n]
  BY WholeBound
<1>6. QED
  BY <1>4, <1>5

\* Inverting a whole vector takes its number from 2^n - 1.
LEMMA InvertedWhole ==
    ASSUME NEW n \in Nat, NEW s \in Vector(n)
    PROVE  Inverted(s) \in Vector(n) /\ Value(Inverted(s)) = 2^n - 1 - Value(s)
<1>1. Inverted(s) \in Vector(n)
  BY InvertedValue
<1>2. n \in 0 .. n
  OBVIOUS
<1>3. Values(Inverted(s))[n] = 2^n - 1 - Values(s)[n]
  BY <1>2, InvertedValue
<1>4. Value(s) = Values(s)[n]
  BY WholeBound
<1>5. Value(Inverted(s)) = Values(Inverted(s))[n]
  BY <1>1, WholeBound
<1>6. QED
  BY <1>1, <1>3, <1>4, <1>5

\* The ripple adders' sum bits are a vector.
LEMMA SumBits ==
    ASSUME NEW n \in Nat, NEW s \in Vector(n), NEW t \in Vector(n),
           NEW c \in [1 .. n + 1 -> Bit]
    PROVE  [i \in 1 .. n |-> FullAdderSum(s[i], t[i], c[i + 1])] \in Vector(n)
<1>1. ASSUME NEW i \in 1 .. n PROVE FullAdderSum(s[i], t[i], c[i + 1]) \in Bit
  <2>1. s[i] \in {0, 1} /\ t[i] \in {0, 1}
    BY VectorIs
  <2>2. c[i + 1] \in {0, 1}
    BY DEF Bit
  <2>3. QED
    BY <2>1, <2>2 DEF FullAdderSum, Bit
<1>2. QED
  BY <1>1 DEF Vector

\* What the ripple adder and the subtractor make of two vectors.
LEMMA AddersValue ==
    ASSUME NEW k \in Nat, NEW l \in Nat, NEW s \in Vector(k), NEW t \in Vector(l),
           NEW n \in Nat, n = Longer(s, t)
    PROVE  /\ k \in 0 .. n /\ l \in 0 .. n
           /\ Value(ParallelAdder(s, t)) = Value(s) * 2^(n - k) + Value(t) * 2^(n - l)
           /\ Value(ParallelSubtractor(s, t))
                = (Value(s) * 2^(n - k) - Value(t) * 2^(n - l) - 1) % 2^n
<1>1. k \in 0 .. n /\ l \in 0 .. n
  <2>1. Len(s) = k /\ Len(t) = l
    BY VectorIs
  <2>2. QED
    BY <2>1 DEF Longer
<1>2. PICK a, b \in Vector(n) :
          /\ a = Padded(s, n) /\ Value(a) = Value(s) * 2^(n - k)
          /\ b = Padded(t, n) /\ Value(b) = Value(t) * 2^(n - l)
  <2>1. Padded(s, n) \in Vector(n) /\ Value(Padded(s, n)) = Value(s) * 2^(n - k)
    BY <1>1, PaddedValue
  <2>2. Padded(t, n) \in Vector(n) /\ Value(Padded(t, n)) = Value(t) * 2^(n - l)
    BY <1>1, PaddedValue
  <2>3. QED
    BY <2>1, <2>2
<1>3. Value(ParallelAdder(s, t)) = Value(a) + Value(b)
  <2>1. PICK c \in [1 .. n + 1 -> Bit] : c = RippleCarry(a, b)
    BY RippleCarryAre
  <2>2. PICK r \in Vector(n) :
            /\ r = [i \in 1 .. n |-> FullAdderSum(a[i], b[i], c[i + 1])]
            /\ \A i \in 1 .. n : r[i] = FullAdderSum(a[i], b[i], c[i + 1])
    <3>1. [i \in 1 .. n |-> FullAdderSum(a[i], b[i], c[i + 1])] \in Vector(n)
      BY SumBits
    <3>2. QED
      BY <3>1
  <2>3. PICK o \in {0, 1} : /\ o = c[1]
                          /\ Value(a) + Value(b) = o * 2^n + Value(r)
    <3>1. c = RippleCarry(a, b)
      BY <2>1
    <3>2. IsSum(n, a, b, r)
      BY <2>1, <2>2 DEF IsSum
    <3>3. c[1] \in {0, 1}
      BY <3>1, <3>2, RippleWhole
    <3>4. Value(a) + Value(b) = c[1] * 2^n + Value(r)
      BY <3>1, <3>2, RippleWhole
    <3>5. QED
      BY <3>3, <3>4
  <2>4. Value(WithCarry(o, r)) = o * 2^n + Value(r)
    BY <2>3, WithCarryValue
  <2>5. ParallelAdder(s, t) = WithCarry(o, r)
    BY <1>2, <2>1, <2>2, <2>3 DEF ParallelAdder
  <2>6. QED
    BY <2>3, <2>4, <2>5
<1>4. Value(ParallelSubtractor(s, t)) = (Value(a) - Value(b) - 1) % 2^n
  <2>1. PICK g \in Vector(n) : g = Inverted(b) /\ Value(g) = 2^n - 1 - Value(b)
    BY InvertedWhole
  <2>2. PICK c \in [1 .. n + 1 -> Bit] : c = RippleCarry(a, g)
    BY RippleCarryAre
  <2>3. PICK r \in Vector(n) :
            /\ r = [i \in 1 .. n |-> FullAdderSum(a[i], g[i], c[i + 1])]
            /\ \A i \in 1 .. n : r[i] = FullAdderSum(a[i], g[i], c[i + 1])
    <3>1. [i \in 1 .. n |-> FullAdderSum(a[i], g[i], c[i + 1])] \in Vector(n)
      BY SumBits
    <3>2. QED
      BY <3>1
  <2>4. PICK o \in {0, 1} : /\ o = c[1]
                          /\ Value(a) + Value(g) = o * 2^n + Value(r)
    <3>1. c = RippleCarry(a, g)
      BY <2>2
    <3>2. IsSum(n, a, g, r)
      BY <2>2, <2>3 DEF IsSum
    <3>3. c[1] \in {0, 1}
      BY <3>1, <3>2, RippleWhole
    <3>4. Value(a) + Value(g) = c[1] * 2^n + Value(r)
      BY <3>1, <3>2, RippleWhole
    <3>5. QED
      BY <3>3, <3>4
  <2>5. ParallelSubtractor(s, t) = r
    BY <1>2, <2>1, <2>2, <2>3 DEF ParallelSubtractor
  <2>6. PICK p \in Nat \ {0} : p = 2^n
    BY PowType
  <2>7. PICK u, v, e \in Nat : /\ u = Value(a) /\ v = Value(b) /\ e = Value(r)
                               /\ e \in 0 .. p - 1
    <3>1. Value(a) \in Nat
      BY WholeBound
    <3>2. Value(b) \in Nat
      BY WholeBound
    <3>3. Value(r) \in Nat /\ Value(r) \in 0 .. p - 1
      BY <2>4, <2>6, WholeBound
    <3>4. QED
      BY <3>1, <3>2, <3>3
  <2>8. e = (u - v - 1) % p
    <3>1. CASE o = 0
      <4>1. u + (p - 1 - v) = 0 * p + e
        BY <2>1, <2>4, <2>6, <2>7, <3>1
      <4>2. u - v - 1 = e - p
        BY <4>1
      <4>3. PICK d \in Int : d = u - v - 1
        OBVIOUS
      <4>4. PICK q \in Int : q = -1 /\ d = p * q + e
        BY <4>2, <4>3
      <4>5. d % p = e
        BY <2>7, <4>4, ModUnique
      <4>6. QED
        BY <4>3, <4>5
    <3>2. CASE o = 1
      <4>1. u + (p - 1 - v) = 1 * p + e
        BY <2>1, <2>4, <2>6, <2>7, <3>2
      <4>2. u - v - 1 = e
        BY <4>1
      <4>3. PICK d \in Int : d = u - v - 1
        OBVIOUS
      <4>4. d = p * 0 + e
        BY <4>2, <4>3
      <4>5. d % p = e
        BY <2>7, <4>4, ModUnique
      <4>6. QED
        BY <4>3, <4>5
    <3>3. QED
      BY <2>4, <3>1, <3>2
  <2>9. QED
    BY <2>5, <2>6, <2>7, <2>8
<1>5. QED
  BY <1>1, <1>2, <1>3, <1>4

\* The lookahead adder's carries run the wrong way; without two ones in one position
\* there are none.
LEMMA LookaheadValue ==
    ASSUME NEW k \in Nat, NEW l \in Nat, NEW s \in Vector(k), NEW t \in Vector(l),
           NEW n \in Nat, n = Longer(s, t),
           \A i \in 1 .. n : Padded(s, n)[i] + Padded(t, n)[i] < 2
    PROVE  Value(CarryLookaheadAdder(s, t)) = Value(s) * 2^(n - k) + Value(t) * 2^(n - l)
<1>1. k \in 0 .. n /\ l \in 0 .. n
  BY AddersValue
<1>2. PICK a \in Vector(n) : a = Padded(s, n) /\ Value(a) = Value(s) * 2^(n - k)
  <2>1. Padded(s, n) \in Vector(n) /\ Value(Padded(s, n)) = Value(s) * 2^(n - k)
    BY <1>1, PaddedValue
  <2>2. QED
    BY <2>1
<1>3. PICK b \in Vector(n) : b = Padded(t, n) /\ Value(b) = Value(t) * 2^(n - l)
  <2>1. Padded(t, n) \in Vector(n) /\ Value(Padded(t, n)) = Value(t) * 2^(n - l)
    BY <1>1, PaddedValue
  <2>2. QED
    BY <2>1
<1>4. \A i \in 1 .. n : a[i] \in {0, 1} /\ b[i] \in {0, 1} /\ a[i] + b[i] < 2
  <2>1. \A i \in 1 .. n : a[i] \in {0, 1}
    BY VectorIs
  <2>2. \A i \in 1 .. n : b[i] \in {0, 1}
    BY VectorIs
  <2>3. \A i \in 1 .. n : a[i] + b[i] < 2
    BY <1>2, <1>3
  <2>4. QED
    BY <2>1, <2>2, <2>3
<1>5. PICK c : /\ c = [i \in 0 .. n |-> IF i = 0 THEN 0
                                        ELSE Majority(a[i], b[i], c[i - 1])]
               /\ CarryLookaheadAdder(s, t)
                    = WithCarry(c[n], [i \in 1 .. n |-> FullAdderSum(a[i], b[i], c[i - 1])])
  <2> DEFINE Step(c) == [i \in 0 .. n |-> IF i = 0 THEN 0
                                          ELSE Majority(a[i], b[i], c[i - 1])]
  <2>1. PICK g \in [0 .. n -> Bit] :
            g[0] = 0 /\ \A i \in 1 .. n : g[i] = Majority(a[i], b[i], g[i - 1])
    BY Carrying, ZenonT(30)
  <2>2. g = Step(g)
    BY <2>1
  <2>3. PICK c : c = CHOOSE h : h = Step(h)
    OBVIOUS
  <2>4. c = Step(c)
    <3> HIDE DEF Step
    <3>1. QED
      BY <2>2, <2>3
  <2>5. CarryLookaheadAdder(s, t)
          = WithCarry(c[n], [i \in 1 .. n |-> FullAdderSum(a[i], b[i], c[i - 1])])
    BY <1>2, <1>3, <2>3 DEF CarryLookaheadAdder
  <2>6. QED
    BY <2>4, <2>5
<1>6. \A i \in 0 .. n : c[i] = 0
  <2> DEFINE S == {i \in 0 .. n : c[i] = 0}
  <2>1. 0 \in S
    BY <1>5
  <2>2. ASSUME NEW i \in 0 .. n - 1, i \in S PROVE i + 1 \in S
    <3>1. PICK j \in 1 .. n : j = i + 1 /\ j - 1 = i /\ j \in 0 .. n /\ j # 0
      OBVIOUS
    <3>2. c[j] = Majority(a[j], b[j], 0)
      BY <1>5, <2>2, <3>1
    <3>3. Majority(a[j], b[j], 0) = 0
      BY <1>4 DEF Majority
    <3>4. QED
      BY <3>1, <3>2, <3>3
  <2> HIDE DEF S
  <2>3. 0 .. n \subseteq S
    BY <2>1, <2>2, UpTo
  <2>4. QED
    BY <2>3 DEF S
<1>7. PICK r \in Vector(n) :
          /\ r = [i \in 1 .. n |-> FullAdderSum(a[i], b[i], c[i - 1])]
          /\ \A i \in 1 .. n : r[i] = (a[i] + b[i] + 0) % 2
  <2>1. ASSUME NEW i \in 1 .. n
        PROVE  /\ FullAdderSum(a[i], b[i], c[i - 1]) = (a[i] + b[i] + 0) % 2
               /\ (a[i] + b[i] + 0) % 2 \in {0, 1}
    <3>1. i - 1 \in 0 .. n
      OBVIOUS
    <3>2. c[i - 1] = 0
      BY <1>6, <3>1
    <3>3. FullAdderSum(a[i], b[i], c[i - 1]) = (a[i] + b[i] + 0) % 2
      BY <3>2 DEF FullAdderSum
    <3>4. (a[i] + b[i] + 0) % 2 \in {0, 1}
      BY <1>4
    <3>5. QED
      BY <3>3, <3>4
  <2>2. [i \in 1 .. n |-> FullAdderSum(a[i], b[i], c[i - 1])] \in Vector(n)
    BY <2>1 DEF Vector, Bit
  <2>3. QED
    BY <2>1, <2>2
<1>8. Value(r) = Value(a) + Value(b)
  <2>1. \A i \in 1 .. n : a[i] + b[i] < 2
    BY <1>4
  <2>2. \A i \in 1 .. n : r[i] = (a[i] + b[i] + 0) % 2
    BY <1>7
  <2>3. IsUnion(n, a, b, r)
    BY <2>1, <2>2 DEF IsUnion
  <2>4. QED
    BY <2>3, NoCarry
<1>9. CarryLookaheadAdder(s, t) = r
  <2>1. c[n] = 0
    BY <1>6
  <2>2. QED
    BY <1>5, <1>7, <2>1 DEF WithCarry
<1>10. QED
  BY <1>2, <1>3, <1>8, <1>9

\* What the adder prints.
Printed ==
    unit \in {"Addition", "Subtraction"} /\ pc = "done" =>
      LET a == MinimalBinary(x)
          b == MinimalBinary(y)
      IN  result = << Value(IF unit = "Addition" THEN ParallelAdder(a, b)
                            ELSE ParallelSubtractor(a, b)),
                      Value(ParallelAdder(a, b)), Value(CarryLookaheadAdder(a, b)) >>

LEMMA PrintedAlways == Spec => []Printed
<1>1. Init => Printed
  BY DEF Init, Printed
<1>2. Printed /\ [Next]_vars => Printed'
  <2> SUFFICES ASSUME Printed, [Next]_vars PROVE Printed'
    OBVIOUS
  <2>1. CASE Adder
    BY <2>1 DEF Adder, Finish, inputs, Printed
  <2>2. CASE UNCHANGED vars
    BY <2>2 DEF vars, Printed
  <2>3. CASE Next /\ ~Adder
    <3>1. unit' = unit /\ unit \notin {"Addition", "Subtraction"}
      BY <2>3 DEF Next, BoothStep, RestoringStep, NonRestoringStep, PrintProduct,
                  PrintQuotient, Multiplier, Finish, inputs, Dividers
    <3>2. QED
      BY <3>1 DEF Printed
  <2>4. QED
    BY <2>1, <2>2, <2>3
<1>3. QED
  BY <1>1, <1>2, PTL DEF Spec

\* The ripple adder prints the sum, and the subtractor the difference less one modulo a
\* power of two, of the operands shifted to one length; the lookahead adder prints the
\* same sum where no position has two ones.
LEMMA SumsOf == ASSUME IInv, Printed PROVE AdderSums
<1> SUFFICES ASSUME unit \in {"Addition", "Subtraction"}, pc = "done" PROVE AdderSums
  BY DEF AdderSums
<1>1. x \in Int /\ y \in Int
  BY Widths DEF IInv
<1>2. PICK k, l \in Nat :
          /\ MinimalBinary(x) \in Vector(k) /\ MinimalBinary(y) \in Vector(l)
  BY <1>1, MinimalType
<1>3. PICK a \in Vector(k) : a = MinimalBinary(x)
  BY <1>2
<1>4. PICK b \in Vector(l) : b = MinimalBinary(y)
  BY <1>2
<1>5. Len(a) = k /\ Len(b) = l
  BY VectorIs
<1>6. PICK n \in Nat : n = Longer(a, b)
  BY <1>5 DEF Longer
<1>7. PICK first, second : /\ first = Value(a) * 2^(n - k)
                           /\ second = Value(b) * 2^(n - l)
  OBVIOUS
<1>8. /\ Value(ParallelAdder(a, b)) = first + second
      /\ Value(ParallelSubtractor(a, b)) = (first - second - 1) % 2^n
  BY <1>6, <1>7, AddersValue
<1>9. ASSUME \A i \in 1 .. n : Padded(a, n)[i] + Padded(b, n)[i] < 2
      PROVE  Value(CarryLookaheadAdder(a, b)) = first + second
  BY <1>6, <1>7, <1>9, LookaheadValue
<1>10. /\ result[1] = (IF unit = "Addition" THEN Value(ParallelAdder(a, b))
                       ELSE Value(ParallelSubtractor(a, b)))
       /\ result[2] = Value(ParallelAdder(a, b))
       /\ result[3] = Value(CarryLookaheadAdder(a, b))
  BY <1>3, <1>4 DEF Printed
<1>11. QED
  BY <1>3, <1>4, <1>5, <1>6, <1>7, <1>8, <1>9, <1>10 DEF AdderSums

\* What the adders print is those sums, for every two operands.
THEOREM AddersRight == Spec => []AdderSums
<1>1. IInv /\ Printed => AdderSums
  BY SumsOf
<1>2. QED
  BY <1>1, Invariant, PrintedAlways, PTL

-----------------------------------------------------------------------------
(* What the conversions are. *)

\* A quotient is twice the one by twice the divisor, and a bit.
LEMMA Halved ==
    ASSUME NEW n \in Nat, NEW p \in Nat \ {0}
    PROVE  /\ n \div p \in Nat /\ n \div (p + p) \in Nat
           /\ n \div p = 2 * (n \div (p + p)) + ((n \div p) % 2)
<1>1. PICK q, r \in Nat : q = n \div p /\ r = n % p /\ r < p /\ n = p * q + r
  <2>1. n \div p \in Nat /\ n % p \in 0 .. p - 1
    OBVIOUS
  <2>2. n = p * (n \div p) + (n % p)
    BY Z3T(30)
  <2>3. QED
    BY <2>1, <2>2
<1>2. PICK h, b \in Nat : h = q \div 2 /\ b = q % 2 /\ b < 2 /\ q = 2 * h + b
  OBVIOUS
<1>3. PICK e \in Nat : e = p * b + r /\ e \in 0 .. (p + p) - 1
  <2>1. b = 0 \/ b = 1
    BY <1>2
  <2>2. p * b = (IF b = 0 THEN 0 ELSE p)
    BY <2>1
  <2>3. QED
    BY <1>1, <2>2
<1>4. n = (p + p) * h + e
  <2>1. PICK u, v \in Nat : u = p * h /\ v = p * b
    <3>1. p * h \in Nat /\ p * b \in Nat
      OBVIOUS
    <3>2. QED
      BY <3>1
  <2>2. p * (2 * h + b) = (u + u) + v /\ (p + p) * h = u + u
    BY <2>1
  <2>3. p * q = (u + u) + v
    BY <1>2, <2>2
  <2>4. e = v + r
    BY <1>3, <2>1
  <2>5. n = (u + u) + v + r
    BY <1>1, <2>3
  <2>6. QED
    BY <2>2, <2>4, <2>5
<1>5. n \div (p + p) = h
  <2>1. p + p \in Nat \ {0} /\ n \in Int /\ h \in Int
    OBVIOUS
  <2>2. QED
    BY <1>3, <1>4, <2>1, ModUnique
<1>6. QED
  BY <1>1, <1>2, <1>5

\* The bits of a number that fits spell it.
LEMMA SpelledValue ==
    ASSUME NEW n \in Nat, NEW w \in Nat, n < 2^w
    PROVE  Value(Spelled(n, w)) = n
<1>1. PICK s \in Vector(w) :
          s = Spelled(n, w) /\ \A i \in 1 .. w : s[i] = (n \div 2^(w - i)) % 2
  <2>1. Spelled(n, w) \in Vector(w)
    BY SpelledType
  <2>2. \A i \in 1 .. w : Spelled(n, w)[i] = (n \div 2^(w - i)) % 2
    BY DEF Spelled
  <2>3. QED
    BY <2>1, <2>2
<1> DEFINE S == {k \in 0 .. w : Values(s)[k] = n \div 2^(w - k)}
<1>2. 0 \in S
  <2>1. PICK p \in Nat \ {0} : p = 2^w /\ n < p /\ w - 0 = w
    BY PowType
  <2>2. n \div p = 0
    <3>1. n = p * 0 + n /\ n \in 0 .. p - 1 /\ n \in Int /\ 0 \in Int
      BY <2>1
    <3>2. QED
      BY <3>1, ModUnique
  <2>3. Values(s)[0] = 0
    BY ValueSteps
  <2>4. QED
    BY <2>1, <2>2, <2>3
<1>3. ASSUME NEW k \in 0 .. w - 1, k \in S PROVE k + 1 \in S
  <2>1. PICK j \in 1 .. w : j = k + 1 /\ j - 1 = k /\ j \in 0 .. w
    OBVIOUS
  <2>2. PICK l \in Nat : l = w - j /\ l + 1 = w - k
    BY <2>1
  <2>3. PICK p \in Nat \ {0} : p = 2^l /\ 2^(l + 1) = p + p
    BY PowType, PowDouble
  <2>4. Values(s)[k] = n \div (p + p)
    BY <1>3, <2>2, <2>3
  <2>5. s[j] = (n \div p) % 2
    BY <1>1, <2>2, <2>3
  <2>6. Values(s)[j] = 2 * Values(s)[j - 1] + s[j]
    BY ValueSteps
  <2>7. n \div p = 2 * (n \div (p + p)) + ((n \div p) % 2)
    BY Halved
  <2>8. Values(s)[j] = n \div p
    BY <2>1, <2>4, <2>5, <2>6, <2>7
  <2>9. QED
    BY <2>1, <2>2, <2>3, <2>8
<1> HIDE DEF S
<1>4. 0 .. w \subseteq S
  BY <1>2, <1>3, UpTo
<1>5. Values(s)[w] = n \div 2^(w - w)
  <2>1. w \in 0 .. w
    OBVIOUS
  <2>2. QED
    BY <1>4, <2>1 DEF S
<1>6. n \div 2^(w - w) = n
  <2>1. w - w = 0 /\ 2^0 = 1
    OBVIOUS
  <2>2. n \div 1 = n
    OBVIOUS
  <2>3. QED
    BY <2>1, <2>2
<1>7. QED
  BY <1>1, <1>5, <1>6, WholeBound

\* A vector that spells no zero has a last one.
LEMMA LastOne ==
    ASSUME NEW n \in Nat, NEW s \in Vector(n), Value(s) # 0
    PROVE  \E m \in 1 .. n : s[m] = 1 /\ \A j \in m + 1 .. n : s[j] = 0
<1> SUFFICES ASSUME \A m \in 1 .. n : s[m] = 1 => \E j \in m + 1 .. n : s[j] # 0
             PROVE  FALSE
  OBVIOUS
<1>1. \A i \in 1 .. n : s[i] \in {0, 1}
  BY VectorIs
<1> DEFINE S == {l \in 0 .. n : \A j \in (n - l) + 1 .. n : s[j] = 0}
<1>2. 0 \in S
  OBVIOUS
<1>3. ASSUME NEW l \in 0 .. n - 1, l \in S PROVE l + 1 \in S
  <2>1. PICK m \in 1 .. n : m = n - l /\ n - (l + 1) = m - 1
    OBVIOUS
  <2>2. \A j \in m + 1 .. n : s[j] = 0
    BY <1>3, <2>1
  <2>3. s[m] = 0
    BY <1>1, <2>2
  <2>4. \A j \in (m - 1) + 1 .. n : s[j] = 0
    <3> SUFFICES ASSUME NEW j \in (m - 1) + 1 .. n PROVE s[j] = 0
      OBVIOUS
    <3>1. j = m \/ j \in m + 1 .. n
      OBVIOUS
    <3>2. QED
      BY <2>2, <2>3, <3>1
  <2>5. l + 1 \in 0 .. n
    OBVIOUS
  <2>6. QED
    BY <2>1, <2>4, <2>5
<1> HIDE DEF S
<1>4. 0 .. n \subseteq S
  BY <1>2, <1>3, UpTo
<1>5. \A j \in 1 .. n : s[j] = 0
  <2>1. n \in 0 .. n /\ (n - n) + 1 = 1
    OBVIOUS
  <2>2. QED
    BY <1>4, <2>1 DEF S
<1>6. s = Zeros(n)
  BY <1>5 DEF Zeros, Vector
<1>7. QED
  BY <1>6, ZerosValue

\* The loop that is to add 1 subtracts 1.
LEMMA AddOneValue ==
    ASSUME NEW n \in Nat, NEW s \in Vector(n), Value(s) # 0
    PROVE  AddOneLoop(s) \in Vector(n) /\ Value(AddOneLoop(s)) = Value(s) - 1
<1>1. PICK m \in 1 .. n : s[m] = 1 /\ \A j \in m + 1 .. n : s[j] = 0
  BY LastOne
<1>2. PICK t \in Vector(n) :
          /\ t = AddOneLoop(s)
          /\ \A i \in 1 .. n : t[i] = IF i < m THEN s[i] ELSE 1 - s[i]
  <2>1. AddOneLoop(s) \in Vector(n)
    BY AddOneType
  <2>2. DOMAIN s = 1 .. n /\ Len(s) = n
    BY VectorIs
  <2>3. ASSUME NEW i \in 1 .. n
        PROVE  AddOneLoop(s)[i] = IF i < m THEN s[i] ELSE 1 - s[i]
    <3>1. AddOneLoop(s)[i] = IF \A j \in i + 1 .. n : s[j] = 0 THEN 1 - s[i] ELSE s[i]
      BY <2>2 DEF AddOneLoop
    <3>2. CASE i < m
      <4>1. m \in i + 1 .. n /\ s[m] # 0
        BY <1>1, <3>2
      <4>2. QED
        BY <3>1, <3>2, <4>1
    <3>3. CASE ~ (i < m)
      <4>1. \A j \in i + 1 .. n : s[j] = 0
        BY <1>1, <3>3
      <4>2. QED
        BY <3>1, <3>3, <4>1
    <3>4. QED
      BY <3>2, <3>3
  <2>4. QED
    BY <2>1, <2>3
<1> DEFINE S == {k \in 0 .. n : Values(t)[k] = Values(s)[k] - (IF k < m THEN 0 ELSE 1)}
<1>3. 0 \in S
  <2>1. Values(s)[0] = 0 /\ Values(t)[0] = 0
    BY ValueSteps
  <2>2. QED
    BY <2>1
<1>4. ASSUME NEW k \in 0 .. n - 1, k \in S PROVE k + 1 \in S
  <2>1. PICK j \in 1 .. n : j = k + 1 /\ j - 1 = k /\ j \in 0 .. n
    OBVIOUS
  <2>2. PICK u, v \in Nat : u = Values(s)[k] /\ v = Values(t)[k]
    <3>1. k \in 0 .. n
      OBVIOUS
    <3>2. Values(s)[k] \in Nat
      BY <3>1, ValueSteps
    <3>3. Values(t)[k] \in Nat
      BY <3>1, ValueSteps
    <3>4. QED
      BY <3>2, <3>3
  <2>3. v = u - (IF k < m THEN 0 ELSE 1)
    BY <1>4, <2>2
  <2>4. Values(s)[j] = 2 * u + s[j]
    <3>1. Values(s)[j] = 2 * Values(s)[j - 1] + s[j]
      BY ValueSteps
    <3>2. QED
      BY <2>1, <2>2, <3>1
  <2>5. Values(t)[j] = 2 * v + t[j]
    <3>1. Values(t)[j] = 2 * Values(t)[j - 1] + t[j]
      BY ValueSteps
    <3>2. QED
      BY <2>1, <2>2, <3>1
  <2>6. PICK b, c \in {0, 1} : b = s[j] /\ c = t[j]
    <3>1. s[j] \in {0, 1}
      BY VectorIs
    <3>2. t[j] \in {0, 1}
      BY VectorIs
    <3>3. QED
      BY <3>1, <3>2
  <2>7. c = IF j < m THEN b ELSE 1 - b
    BY <1>2, <2>6
  <2>8. j = m => b = 1
    BY <1>1, <2>6
  <2>9. j > m => b = 0
    BY <1>1, <2>6
  <2>10. 2 * v + c = 2 * u + b - (IF j < m THEN 0 ELSE 1)
    <3>1. CASE j < m
      BY <2>1, <2>3, <2>7, <3>1
    <3>2. CASE j = m
      BY <2>1, <2>3, <2>7, <2>8, <3>2
    <3>3. CASE j > m
      BY <2>1, <2>3, <2>7, <2>9, <3>3
    <3>4. QED
      BY <3>1, <3>2, <3>3
  <2>11. Values(t)[j] = Values(s)[j] - (IF j < m THEN 0 ELSE 1)
    BY <2>4, <2>5, <2>6, <2>10
  <2>12. QED
    BY <2>1, <2>11
<1> HIDE DEF S
<1>5. 0 .. n \subseteq S
  BY <1>3, <1>4, UpTo
<1>6. Values(t)[n] = Values(s)[n] - 1
  <2>1. n \in 0 .. n /\ ~ (n < m)
    OBVIOUS
  <2>2. QED
    BY <1>5, <2>1 DEF S
<1>7. Value(s) = Values(s)[n]
  BY WholeBound
<1>8. Value(t) = Values(t)[n]
  BY WholeBound
<1>9. QED
  BY <1>2, <1>6, <1>7, <1>8

\* The first bit tells the two halves of the numbers apart.
LEMMA SignBit ==
    ASSUME NEW n \in Nat \ {0}, NEW s \in Vector(n)
    PROVE  /\ s[1] \in {0, 1} /\ (s[1] = 1 <=> Value(s) >= 2^(n - 1))
           /\ 2^n = 2^(n - 1) + 2^(n - 1) /\ 2^(n - 1) \in Nat \ {0}
<1>1. PICK k \in Nat : k = n - 1 /\ k + 1 = n
  OBVIOUS
<1>2. 2^n = 2^(n - 1) + 2^(n - 1) /\ 2^(n - 1) \in Nat \ {0}
  BY <1>1, PowType, PowDouble
<1>3. n \in 1 .. n /\ 1 \in 1 .. n /\ n \in Nat
  OBVIOUS
<1>4. s[1] \in {0, 1}
  BY <1>3, VectorIs
<1>5. Values(s)[n] >= 2^(n - 1) <=> s[1] = 1
  BY <1>3, FirstBit
<1>6. Value(s) = Values(s)[n]
  BY <1>3, WholeBound
<1>7. QED
  BY <1>2, <1>4, <1>5, <1>6

\* What the number that is read back is.
LEMMA ReadBack ==
    ASSUME NEW n \in Nat \ {0}, NEW s \in Vector(n),
           NEW p \in Nat, p = 2^(n - 1), NEW v \in Nat, v = Value(s)
    PROVE  /\ v < p + p /\ 2^n = p + p
           /\ v < p => BinaryToInteger(s) = v
           /\ v >= p /\ v # (p + p) - 1 => BinaryToInteger(s) = (v + 2) - (p + p)
<1>1. /\ s[1] \in {0, 1} /\ (s[1] = 1 <=> v >= p) /\ 2^n = p + p /\ p \in Nat \ {0}
  BY SignBit
<1>2. v \in Nat /\ v < p + p
  <2>1. n \in Nat
    OBVIOUS
  <2>2. Value(s) \in 0 .. 2^n - 1 /\ Value(s) \in Nat
    BY <2>1, WholeBound
  <2>3. QED
    BY <1>1, <2>2
<1>3. ASSUME v < p PROVE BinaryToInteger(s) = v
  BY <1>1, <1>3, <1>2 DEF BinaryToInteger
<1>4. ASSUME v >= p, v # (p + p) - 1 PROVE BinaryToInteger(s) = (v + 2) - (p + p)
  <2>1. n \in Nat
    OBVIOUS
  <2>2. PICK t \in Vector(n) : t = Inverted(s) /\ Value(t) = (p + p) - 1 - v
    BY <1>1, <2>1, InvertedWhole
  <2>3. Value(t) # 0
    BY <1>1, <1>2, <1>4, <2>2
  <2>4. Value(AddOneLoop(t)) = Value(t) - 1
    BY <2>1, <2>3, AddOneValue
  <2>5. Value(AddOneLoop(t)) = (p + p) - 2 - v
    BY <1>1, <1>2, <2>2, <2>4
  <2>6. s[1] = 1
    BY <1>1, <1>4
  <2>7. BinaryToInteger(s) = - Value(AddOneLoop(t))
    BY <2>2, <2>6 DEF BinaryToInteger
  <2>8. QED
    BY <2>5, <2>7
<1>5. QED
  BY <1>1, <1>2, <1>3, <1>4

\* Writing a number whose magnitude leaves room for the sign, and reading it back.
LEMMA RoundTrip ==
    ASSUME NEW n \in Int, NEW w \in Nat \ {0}, Magnitude(n) < 2^(w - 1) - 1
    PROVE  /\ BinaryToInteger(IntegerToBinary(n, w)) = n
           /\ Value(IntegerToBinary(n, w)) = IF n < 0 THEN 2^w + n - 2 ELSE n
<1>0. w \in Nat
  OBVIOUS
<1>1. PICK s \in Vector(w) : s = IntegerToBinary(n, w)
  BY <1>0, ToBinaryType
<1>2. PICK p \in Nat \ {0} : p = 2^(w - 1) /\ 2^w = p + p
  BY <1>1, SignBit
<1>3. CASE n < 0
  <2>1. PICK m \in Nat : m = -n /\ m < p - 1 /\ m < 2^w
    BY <1>2, <1>3 DEF Magnitude
  <2>2. PICK a \in Vector(w) : a = Spelled(m, w) /\ Value(a) = m
    BY <1>0, <2>1, SpelledType, SpelledValue
  <2>3. PICK b \in Vector(w) : b = Inverted(a) /\ Value(b) = (p + p) - 1 - m
    BY <1>0, <1>2, <2>2, InvertedWhole
  <2>4. Value(b) # 0
    BY <2>1, <2>3
  <2>5. Value(AddOneLoop(b)) = Value(b) - 1
    BY <1>0, <2>4, AddOneValue
  <2>6. s = AddOneLoop(b)
    BY <1>1, <1>3, <2>1, <2>2, <2>3 DEF IntegerToBinary
  <2>7. PICK v \in Nat : v = Value(s) /\ v = (p + p) - 2 - m
    BY <2>1, <2>3, <2>5, <2>6
  <2>8. v >= p /\ v # (p + p) - 1
    BY <2>1, <2>7
  <2>9. BinaryToInteger(s) = (v + 2) - (p + p)
    <3>1. v = Value(s) /\ p = 2^(w - 1)
      BY <1>2, <2>7
    <3>2. v >= p /\ v # (p + p) - 1 => BinaryToInteger(s) = (v + 2) - (p + p)
      BY <3>1, ReadBack
    <3>3. QED
      BY <2>8, <3>2
  <2>10. BinaryToInteger(s) = n
    BY <2>1, <2>7, <2>9
  <2>11. Value(s) = (p + p) + n - 2
    BY <2>1, <2>7
  <2>12. QED
    BY <1>1, <1>2, <1>3, <2>10, <2>11
<1>4. CASE ~ (n < 0)
  <2>1. n \in Nat /\ n < p /\ n < 2^w
    BY <1>2, <1>4 DEF Magnitude
  <2>2. s = Spelled(n, w) /\ Value(s) = n
    BY <1>0, <1>1, <1>4, <2>1, SpelledValue DEF IntegerToBinary
  <2>3. BinaryToInteger(s) = n
    BY <1>2, <2>1, <2>2, ReadBack
  <2>4. QED
    BY <1>1, <1>4, <2>2, <2>3
<1>5. QED
  BY <1>3, <1>4

\* The programs leave that room.
LEMMA WidthHolds ==
    ASSUME NEW a \in Operands, NEW b \in Operands
    PROVE  /\ Magnitude(a) < 2^(WidthFor(a, b) - 1) - 1
           /\ Magnitude(b) < 2^(WidthFor(a, b) - 1) - 1
<1>1. PICK i, j \in Nat : i = Magnitude(a) /\ j = Magnitude(b)
  BY OperandDigits
<1>2. PICK g \in Nat : g = (IF i > j THEN i ELSE j) /\ i <= g /\ j <= g
  OBVIOUS
<1>3. PICK d \in 1 .. 10 : d = Digits(g) /\ g < 10^d
  <2>1. g = Magnitude(a) \/ g = Magnitude(b)
    BY <1>1, <1>2
  <2>2. Digits(g) \in 1 .. 10
    BY <2>1, OperandDigits
  <2>3. g < 10^Digits(g)
    BY <2>1, OperandDigits
  <2>4. QED
    BY <2>2, <2>3
<1>4. PICK w \in Nat : w = WidthFor(a, b) /\ w = IF d < 2 THEN 8 ELSE 4 * d
  BY <1>1, <1>2, <1>3 DEF WidthFor
<1>5. 10^d < 2^(w - 1) - 1
  <2>1. CASE d = 1
    BY <1>4, <2>1, Z3
  <2>2. CASE d = 2
    BY <1>4, <2>2, Z3
  <2>3. CASE d = 3
    BY <1>4, <2>3, Z3
  <2>4. CASE d = 4
    BY <1>4, <2>4, Z3
  <2>5. CASE d = 5
    BY <1>4, <2>5, Z3
  <2>6. CASE d = 6
    BY <1>4, <2>6, Z3
  <2>7. CASE d = 7
    BY <1>4, <2>7, Z3
  <2>8. CASE d = 8
    BY <1>4, <2>8, Z3
  <2>9. CASE d = 9
    BY <1>4, <2>9, Z3
  <2>10. CASE d = 10
    BY <1>4, <2>10, Z3
  <2>11. \/ d = 1 \/ d = 2 \/ d = 3 \/ d = 4 \/ d = 5
         \/ d = 6 \/ d = 7 \/ d = 8 \/ d = 9 \/ d = 10
    OBVIOUS
  <2>12. QED
    BY <2>1, <2>2, <2>3, <2>4, <2>5, <2>6, <2>7, <2>8, <2>9, <2>10, <2>11, Zenon
<1>6. PICK p, q \in Int : p = 10^d /\ q = 2^(w - 1)
  OBVIOUS
<1>7. QED
  BY <1>1, <1>2, <1>3, <1>4, <1>5, <1>6

\* Negating a vector that ends in 0 negates the number it is read as.
LEMMA NegatedRead ==
    ASSUME NEW n \in Nat \ {0}, NEW s \in Vector(n), s[n] = 0
    PROVE  BinaryToInteger(Negated(s)) = - BinaryToInteger(s)
<1>0. n \in Nat /\ n \in 1 .. n /\ n - 1 \in 0 .. n
  OBVIOUS
<1>1. PICK t \in Vector(n) : t = AddOneLoop(Inverted(s)) /\ t = Negated(s)
  <2>1. AddOneLoop(Inverted(s)) \in Vector(n)
    BY <1>0, InvertedValue, AddOneType
  <2>2. n \in DOMAIN s /\ s[n] # 1
    BY <1>0, VectorIs
  <2>3. Negated(s) = AddOneLoop(Inverted(s))
    BY <2>2 DEF Negated, WithCarry
  <2>4. QED
    BY <2>1, <2>3
<1>2. PICK p \in Nat \ {0} : p = 2^(n - 1) /\ 2^n = p + p
  BY SignBit
<1>3. p = 1 \/ \E k \in Nat : p = k + k
  <2>1. CASE n = 1
    <3>1. n - 1 = 0 /\ 2^0 = 1
      BY <2>1
    <3>2. QED
      BY <1>2, <3>1
  <2>2. CASE n # 1
    <3>1. PICK l \in Nat : l + 1 = n - 1
      <4>1. n - 2 \in Nat /\ (n - 2) + 1 = n - 1
        BY <2>2
      <4>2. QED
        BY <4>1
    <3>2. 2^(n - 1) = 2^l + 2^l /\ 2^l \in Nat
      BY <3>1, PowType, PowDouble
    <3>3. QED
      BY <1>2, <3>2
  <2>3. QED
    BY <2>1, <2>2
<1>4. PICK v, h \in Nat : v = Value(s) /\ v = h + h /\ v < p + p
  <2>1. Value(s) \in 0 .. 2^n - 1 /\ Value(s) = Values(s)[n]
    BY <1>0, WholeBound
  <2>2. Values(s)[n] = 2 * Values(s)[n - 1] + s[n]
    BY <1>0, ValueSteps
  <2>3. PICK h \in Nat : h = Values(s)[n - 1]
    BY <1>0, ValueSteps
  <2>4. Value(s) = h + h
    BY <2>1, <2>2, <2>3
  <2>5. QED
    BY <1>2, <2>1, <2>4
<1>5. Value(t) = (p + p) - 2 - v
  <2>1. PICK i \in Vector(n) : i = Inverted(s) /\ Value(i) = (p + p) - 1 - v
    <3>1. Inverted(s) \in Vector(n) /\ Value(Inverted(s)) = 2^n - 1 - Value(s)
      BY <1>0, InvertedWhole
    <3>2. QED
      BY <1>2, <1>4, <3>1
  <2>2. Value(i) # 0
    BY <1>4, <2>1
  <2>3. Value(AddOneLoop(i)) = Value(i) - 1
    BY <1>0, <2>2, AddOneValue
  <2>4. Value(t) = Value(i) - 1
    BY <1>1, <2>1, <2>3
  <2>5. QED
    BY <1>4, <2>1, <2>4
<1>6. PICK e \in Nat : e = Value(t) /\ e = (p + p) - 2 - v
  <2>1. Value(t) \in Nat
    BY <1>0, WholeBound
  <2>2. QED
    BY <1>5, <2>1
<1>7. v < p => BinaryToInteger(s) = v
  <2>1. v = Value(s)
    BY <1>4
  <2>2. QED
    BY <1>2, <2>1, ReadBack
<1>8. v >= p /\ v # (p + p) - 1 => BinaryToInteger(s) = (v + 2) - (p + p)
  <2>1. v = Value(s)
    BY <1>4
  <2>2. QED
    BY <1>2, <2>1, ReadBack
<1>9. e < p => BinaryToInteger(t) = e
  <2>1. e = Value(t)
    BY <1>6
  <2>2. QED
    BY <1>2, <2>1, ReadBack
<1>10. e >= p /\ e # (p + p) - 1 => BinaryToInteger(t) = (e + 2) - (p + p)
  <2>1. e = Value(t)
    BY <1>6
  <2>2. QED
    BY <1>2, <2>1, ReadBack
<1>11. BinaryToInteger(t) = - BinaryToInteger(s)
  <2>1. CASE v < p /\ e >= p
    <3>1. BinaryToInteger(s) = v
      BY <1>7, <2>1
    <3>2. BinaryToInteger(t) = (e + 2) - (p + p)
      BY <1>6, <1>10, <2>1
    <3>3. (e + 2) - (p + p) = - v
      BY <1>6
    <3>4. QED
      BY <3>1, <3>2, <3>3
  <2>2. CASE v < p /\ e < p
    <3>1. v = p - 1
      BY <1>6, <2>2
    <3>2. p = 1
      BY <1>3, <1>4, <3>1
    <3>3. v < 1 /\ e < 1
      BY <1>6, <3>1, <3>2
    <3>4. BinaryToInteger(s) = v /\ BinaryToInteger(t) = e
      BY <1>7, <1>9, <2>2
    <3>5. v \in Int /\ e \in Int /\ e = - v
      BY <3>3
    <3>6. QED
      BY <3>4, <3>5, Zenon
  <2>3. CASE v >= p
    <3>1. v # (p + p) - 1
      BY <1>4
    <3>2. BinaryToInteger(s) = (v + 2) - (p + p)
      BY <1>8, <2>3, <3>1
    <3>3. BinaryToInteger(t) = e
      BY <1>6, <1>9, <2>3
    <3>4. e = - ((v + 2) - (p + p))
      BY <1>6
    <3>5. QED
      BY <3>2, <3>3, <3>4
  <2>4. QED
    BY <2>1, <2>2, <2>3
<1>12. QED
  BY <1>1, <1>11

\* What the multiplier prints.
Multiplied ==
    unit = "Multiplication" /\ pc = "done" =>
      /\ SignedMultiplication(x, y) # <<>>
      /\ result = <<BinaryToInteger(SignedMultiplication(x, y))>>

LEMMA MultipliedAlways == Spec => []Multiplied
<1>1. Init => Multiplied
  BY DEF Init, Multiplied
<1>2. Multiplied /\ [Next]_vars => Multiplied'
  <2> SUFFICES ASSUME Multiplied, [Next]_vars PROVE Multiplied'
    OBVIOUS
  <2>1. CASE Multiplier
    BY <2>1 DEF Multiplier, Finish, inputs, Multiplied
  <2>2. CASE UNCHANGED vars
    BY <2>2 DEF vars, Multiplied
  <2>3. CASE Next /\ ~Multiplier
    <3>1. unit' = unit /\ unit # "Multiplication"
      BY <2>3 DEF Next, BoothStep, RestoringStep, NonRestoringStep, PrintProduct,
                  PrintQuotient, Adder, Finish, inputs, Dividers
    <3>2. QED
      BY <3>1 DEF Multiplied
  <2>4. QED
    BY <2>1, <2>2, <2>3
<1>3. QED
  BY <1>1, <1>2, PTL DEF Spec

\* The product of 0 and 0 has no bits.
LEMMA EmptyProduct == SignedMultiplication(0, 0) = <<>>
<1>1. Magnitude(0) = 0 /\ ~ ((0 < 0) # (0 < 0))
  BY DEF Magnitude
<1>2. PICK m \in Seq(Bit) : m = MinimalBinary(0) /\ Len(m) = 0
  <2>1. BitLength(0) = 0
    BY DEF BitLength
  <2>2. MinimalBinary(0) \in Vector(0)
    BY <2>1, MinimalType
  <2>3. QED
    BY <2>2, VectorIs
<1>3. UnsignedProduct(m, m) = Zeros(0)
  BY <1>2, ProductOfZero
<1>4. Zeros(0) = <<>>
  BY DEF Zeros
<1>5. QED
  BY <1>1, <1>2, <1>3, <1>4 DEF SignedMultiplication

\* The first bit is read as the sign.
LEMMA FirstBitSign ==
    ASSUME NEW n \in Nat \ {0}, NEW s \in Vector(n), NEW j, j = BinaryToInteger(s)
    PROVE  /\ s[1] \in {0, 1}
           /\ s[1] = 1 => j <= 0
           /\ s[1] = 0 => j >= 0
<1>1. n \in Nat /\ 1 \in 1 .. n
  OBVIOUS
<1>2. AddOneLoop(Inverted(s)) \in Vector(n)
  BY <1>1, InvertedValue, AddOneType
<1>3. PICK v, w \in Nat : v = Value(s) /\ w = Value(AddOneLoop(Inverted(s)))
  BY <1>1, <1>2, ToIntegerType
<1>4. s[1] \in {0, 1}
  BY <1>1, VectorIs
<1>5. j = IF s[1] = 1 THEN - w ELSE v
  BY <1>3 DEF BinaryToInteger
<1>6. QED
  BY <1>3, <1>4, <1>5

\* How the number i read from a product goes with its operands, the number j read
\* from the product of their magnitudes, and the first bit f of that.
SignRule(a, b, i, j, f) ==
    /\ (a < 0) # (b < 0) => i = - j
    /\ i # 0 => (i < 0 <=> ((a < 0) # (b < 0)) # (f = 1))
    /\ a = 0 \/ b = 0 => i = 0

\* The product's sign is that of the operands', turned by a first bit of 1, and zero
\* times anything else is zero.
LEMMA ProductSign ==
    ASSUME NEW a \in Int, NEW b \in Int, a # 0 \/ b # 0,
           NEW i, i = BinaryToInteger(SignedMultiplication(a, b)),
           NEW j, j = BinaryToInteger(SignedMultiplication(Magnitude(a), Magnitude(b))),
           NEW f, f = SignedMultiplication(Magnitude(a), Magnitude(b))[1]
    PROVE  SignRule(a, b, i, j, f)
<1>1. PICK k, l \in Nat : /\ k = Magnitude(a) /\ l = Magnitude(b) /\ k + l > 0
                          /\ Magnitude(k) = k /\ Magnitude(l) = l
                          /\ (a = 0 <=> k = 0) /\ (b = 0 <=> l = 0)
  BY DEF Magnitude
<1>2. PICK m \in Seq(Bit) : /\ m = MinimalBinary(k) /\ Len(m) \in Nat
                            /\ (Len(m) = 0 <=> k = 0)
  <2>1. /\ MinimalBinary(k) \in Vector(BitLength(k)) /\ BitLength(k) \in Nat
        /\ (k > 0 => BitLength(k) > 0)
    <3>1. k \in Int
      OBVIOUS
    <3>2. QED
      BY <3>1, MinimalType
  <2>2. k = 0 => BitLength(k) = 0
    BY DEF BitLength
  <2>3. Len(MinimalBinary(k)) = BitLength(k) /\ MinimalBinary(k) \in Seq(Bit)
    BY <2>1, VectorIs
  <2>4. QED
    BY <2>1, <2>2, <2>3
<1>3. PICK q \in Seq(Bit) : /\ q = MinimalBinary(l) /\ Len(q) \in Nat
                            /\ (Len(q) = 0 <=> l = 0)
  <2>1. /\ MinimalBinary(l) \in Vector(BitLength(l)) /\ BitLength(l) \in Nat
        /\ (l > 0 => BitLength(l) > 0)
    <3>1. l \in Int
      OBVIOUS
    <3>2. QED
      BY <3>1, MinimalType
  <2>2. l = 0 => BitLength(l) = 0
    BY DEF BitLength
  <2>3. Len(MinimalBinary(l)) = BitLength(l) /\ MinimalBinary(l) \in Seq(Bit)
    BY <2>1, VectorIs
  <2>4. QED
    BY <2>1, <2>2, <2>3
<1>4. PICK u \in Nat \ {0} : u = Len(m) + Len(q)
  BY <1>1, <1>2, <1>3
<1>5. PICK p \in Even(u) : p = UnsignedProduct(m, q)
  BY <1>4, ProductType
<1>6. PICK n \in Nat \ {0} : n = Len(p) /\ p \in Vector(n) /\ p[n] = 0
  <2>1. p \in Seq(Bit) /\ Len(p) >= u /\ p[Len(p)] = 0
    BY DEF Even, Long
  <2>2. Len(p) \in Nat \ {0} /\ p \in Vector(Len(p))
    BY <2>1, VectorOf
  <2>3. QED
    BY <2>1, <2>2
<1>7. /\ SignedMultiplication(a, b) = IF (a < 0) # (b < 0) THEN Negated(p) ELSE p
      /\ SignedMultiplication(k, l) = p
  BY <1>1, <1>2, <1>3, <1>5 DEF SignedMultiplication
<1>8. j = BinaryToInteger(p) /\ j \in Int
  <2>1. n \in Nat
    OBVIOUS
  <2>2. BinaryToInteger(p) \in Int
    BY <1>6, <2>1, ToIntegerType
  <2>3. QED
    BY <1>1, <1>7, <2>2
<1>9. BinaryToInteger(Negated(p)) = - j
  BY <1>6, <1>8, NegatedRead
<1>10. /\ (a < 0) # (b < 0) => i = - j
       /\ ~ ((a < 0) # (b < 0)) => i = j
  <2>1. CASE (a < 0) # (b < 0)
    BY <1>7, <1>8, <1>9, <2>1
  <2>2. CASE ~ ((a < 0) # (b < 0))
    BY <1>7, <1>8, <2>2
  <2>3. QED
    BY <2>1, <2>2
<1>11. ASSUME a = 0 \/ b = 0 PROVE j = 0
  <2>1. p = Zeros(u)
    BY <1>1, <1>2, <1>3, <1>4, <1>5, <1>11, ProductOfZero
  <2>2. u \in Nat /\ p \in Vector(u) /\ Value(p) = 0
    BY <2>1, ZeroVector, ZerosValue
  <2>3. PICK h \in Nat \ {0} : h = 2^(u - 1)
    BY <2>2, SignBit
  <2>4. PICK o \in Nat : o = 0 /\ o = Value(p) /\ o < h
    BY <2>2
  <2>5. BinaryToInteger(p) = o
    BY <2>2, <2>3, <2>4, ReadBack
  <2>6. QED
    BY <1>8, <2>4, <2>5
<1>12. i # 0 => (i < 0 <=> ((a < 0) # (b < 0)) # (f = 1))
  <2>1. f = p[1]
    BY <1>1, <1>7
  <2>2. (f = 0 \/ f = 1) /\ (f = 1 => j <= 0) /\ (f = 0 => j >= 0)
    BY <1>6, <1>8, <2>1, FirstBitSign
  <2>3. CASE (a < 0) # (b < 0)
    <3>1. i = - j
      BY <1>10, <2>3
    <3>2. i # 0 => (i < 0 <=> ~ (f = 1))
      BY <1>8, <2>2, <3>1
    <3>3. QED
      BY <2>3, <3>2
  <2>4. CASE ~ ((a < 0) # (b < 0))
    <3>1. i = j
      BY <1>10, <2>4
    <3>2. i # 0 => (i < 0 <=> f = 1)
      BY <1>8, <2>2, <3>1
    <3>3. QED
      BY <2>4, <3>2
  <2>5. QED
    BY <2>3, <2>4
<1>13. a = 0 \/ b = 0 => i = 0
  BY <1>8, <1>10, <1>11
<1>14. QED
  BY <1>10, <1>12, <1>13 DEF SignRule

\* Together: conversions undo each other, and products have the sign stated.
LEMMA SignsOf == ASSUME IInv, Multiplied PROVE SignsCancel
<1>1. /\ x \in Operands /\ y \in Operands /\ x \in Int /\ y \in Int
      /\ bitWidth \in Nat \ {0}
  BY Widths DEF IInv
<1>2. ASSUME NEW n \in {x, y}
      PROVE  /\ BinaryToInteger(IntegerToBinary(n, bitWidth)) = n
             /\ Value(IntegerToBinary(n, bitWidth)) = IF n < 0 THEN 2^bitWidth + n - 2 ELSE n
  <2>1. n \in Int /\ Magnitude(n) < 2^(bitWidth - 1) - 1
    BY <1>1, WidthHolds DEF bitWidth
  <2>2. QED
    BY <1>1, <2>1, RoundTrip
<1>3. ASSUME unit = "Multiplication", pc = "done"
      PROVE  LET p == SignedMultiplication(Magnitude(x), Magnitude(y))
             IN  /\ (x < 0) # (y < 0) => result[1] = - BinaryToInteger(p)
                 /\ result[1] # 0 =>
                        (result[1] < 0 <=> ((x < 0) # (y < 0)) # (p[1] = 1))
                 /\ x = 0 \/ y = 0 => result[1] = 0
  <2>1. SignedMultiplication(x, y) # <<>> /\ result[1] = BinaryToInteger(SignedMultiplication(x, y))
    BY <1>3 DEF Multiplied
  <2>2. x # 0 \/ y # 0
    BY <2>1, EmptyProduct
  <2>3. PICK j : j = BinaryToInteger(SignedMultiplication(Magnitude(x), Magnitude(y)))
    OBVIOUS
  <2>4. PICK i : i = BinaryToInteger(SignedMultiplication(x, y))
    OBVIOUS
  <2>5. PICK f : f = SignedMultiplication(Magnitude(x), Magnitude(y))[1]
    OBVIOUS
  <2>6. SignRule(x, y, i, j, f)
    <3>1. PICK a, b \in Int : a = x /\ b = y
      BY <1>1
    <3>2. a # 0 \/ b # 0
      BY <2>2, <3>1
    <3>3. i = BinaryToInteger(SignedMultiplication(a, b))
      BY <2>4, <3>1
    <3>4. j = BinaryToInteger(SignedMultiplication(Magnitude(a), Magnitude(b)))
      BY <2>3, <3>1
    <3>5. f = SignedMultiplication(Magnitude(a), Magnitude(b))[1]
      BY <2>5, <3>1
    <3>6. SignRule(a, b, i, j, f)
      BY <3>2, <3>3, <3>4, <3>5, ProductSign, ZenonT(30)
    <3>7. QED
      BY <3>1, <3>6, Zenon
  <2>7. QED
    BY <2>1, <2>3, <2>4, <2>5, <2>6 DEF SignRule
<1>4. QED
  BY <1>2, <1>3 DEF SignsCancel

\* Whatever the operands, what is converted is read back as it was, although every
\* negative pattern is off by two, and a product has the sign of the exact one just
\* when the bits made of the magnitudes do not begin with 1.
THEOREM SignsRight == Spec => []SignsCancel
<1>1. IInv /\ Multiplied => SignsCancel
  BY SignsOf
<1>2. QED
  BY <1>1, Invariant, MultipliedAlways, PTL

-----------------------------------------------------------------------------
(* The product of the Booth multiplier. *)

\* Bit i of a multiplier, from its low end, where 0 stands before the first.
LowBit(w, q, i) == IF i = 0 THEN 0 ELSE q[w - i + 1]

\* What is added at one end of a run of ones, when bit b comes after bit c.
Part(m, b, c) == IF b > c THEN m + 1 ELSE IF b < c THEN m ELSE 0

\* s holds the product as it is summed up from the low end of the multiplier.
PartialSums(s, w, m, q) ==
    /\ s \in [0 .. w -> Int] /\ s[0] = 0 /\ s[w] = Recoded(m, q)
    /\ \A i \in 1 .. w :
         s[i] = s[i - 1] + 2^(i - 1) * Part(m, LowBit(w, q, i), LowBit(w, q, i - 1))

\* Recoded sums it up in that way.
LEMMA RecodedSums ==
    ASSUME NEW w \in Nat, NEW m \in Int, NEW q \in Vector(w)
    PROVE  \E s : PartialSums(s, w, m, q)
<1> DEFINE low(i) == LowBit(w, q, i)
           part(i) == CASE low(i) > low(i - 1) -> m + 1
                        [] low(i) < low(i - 1) -> m
                        [] OTHER               -> 0
           Step(v) == [i \in 0 .. w |-> IF i = 0 THEN 0
                                        ELSE v[i - 1] + 2^(i - 1) * part(i)]
<1>1. Len(q) = w /\ \A i \in 1 .. w : q[i] \in {0, 1}
  BY VectorIs
<1>2. \A i \in 0 .. w : low(i) \in Int
  <2>1. ASSUME NEW i \in 0 .. w PROVE low(i) \in Int
    <3>1. i # 0 => w - i + 1 \in 1 .. w
      OBVIOUS
    <3>2. QED
      BY <1>1, <3>1 DEF LowBit
  <2>2. QED
    BY <2>1
<1>3. \A i \in 1 .. w : part(i) = Part(m, low(i), low(i - 1)) /\ part(i) \in Int
  <2>1. ASSUME NEW i \in 1 .. w
        PROVE  part(i) = Part(m, low(i), low(i - 1)) /\ part(i) \in Int
    <3>1. i \in 0 .. w /\ i - 1 \in 0 .. w
      OBVIOUS
    <3>2. PICK b, c \in Int : b = low(i) /\ c = low(i - 1)
      BY <1>2, <3>1
    <3>3. part(i) = CASE b > c -> m + 1 [] b < c -> m [] OTHER -> 0
      BY <3>2
    <3>4. Part(m, low(i), low(i - 1)) = IF b > c THEN m + 1 ELSE IF b < c THEN m ELSE 0
      BY <3>2 DEF Part
    <3> HIDE DEF part
    <3>5. QED
      BY <3>3, <3>4
  <2>2. QED
    BY <2>1
<1>4. Recoded(m, q) = (CHOOSE v : v = Step(v))[w]
  BY <1>1 DEF Recoded, LowBit
<1> HIDE DEF part, low
<1>5. PICK N : N = Int
  OBVIOUS
<1>6. PICK f \in [0 .. w -> N] :
          f[0] = 0 /\ \A i \in 1 .. w : f[i] = f[i - 1] + 2^(i - 1) * part(i)
  <2>1. PICK step \in [1 .. w -> [N -> N]] :
            \A i \in 1 .. w : \A v \in N : step[i][v] = v + 2^(i - 1) * part(i)
    <3>1. ASSUME NEW i \in 1 .. w, NEW v \in Int PROVE v + 2^(i - 1) * part(i) \in Int
      <4>1. PICK p \in Nat : p = 2^(i - 1)
        <5>1. i - 1 \in Nat
          OBVIOUS
        <5>2. QED
          BY <5>1, PowType
      <4>2. part(i) \in Int
        BY <1>3
      <4>3. QED
        BY <4>1, <4>2
    <3>2. [i \in 1 .. w |-> [v \in N |-> v + 2^(i - 1) * part(i)]] \in [1 .. w -> [N -> N]]
      BY <1>5, <3>1
    <3>3. QED
      BY <3>2
  <2>2. PICK g : Loop(g, w, N, 0, step)
    <3>1. 0 \in N
      BY <1>5
    <3>2. QED
      BY <3>1, Recursion, Zenon
  <2>3. /\ g \in [0 .. w -> N] /\ g[0] = 0
        /\ \A i \in 1 .. w : g[i] = step[i][g[i - 1]]
    BY <2>2 DEF Loop
  <2>4. \A i \in 1 .. w : g[i - 1] \in N
    BY <2>3
  <2>5. QED
    BY <2>1, <2>3, <2>4
<1>7. f = Step(f)
  BY <1>6
<1>8. PICK s : s = Step(s) /\ s[w] = Recoded(m, q)
  <2> HIDE DEF Step
  <2>1. QED
    BY <1>4, <1>7
<1>9. s[0] = 0 /\ \A i \in 1 .. w : s[i] = s[i - 1] + 2^(i - 1) * part(i)
  BY <1>8
<1>10. s = f
  <2> DEFINE S == {i \in 0 .. w : s[i] = f[i]}
  <2>1. 0 \in S
    BY <1>6, <1>9
  <2>2. ASSUME NEW k \in 0 .. w - 1, k \in S PROVE k + 1 \in S
    <3>1. k + 1 \in 1 .. w /\ (k + 1) - 1 = k
      OBVIOUS
    <3>2. QED
      BY <1>6, <1>9, <2>2, <3>1
  <2> HIDE DEF S
  <2>3. 0 .. w \subseteq S
    BY <2>1, <2>2, UpTo
  <2>4. s = [i \in 0 .. w |-> s[i]]
    BY <1>8
  <2>5. QED
    BY <1>6, <2>3, <2>4 DEF S
<1>11. /\ s \in [0 .. w -> Int] /\ s[0] = 0 /\ s[w] = Recoded(m, q)
       /\ \A i \in 1 .. w : s[i] = s[i - 1] + 2^(i - 1) * Part(m, low(i), low(i - 1))
  BY <1>3, <1>5, <1>6, <1>8, <1>9, <1>10
<1>12. PartialSums(s, w, m, q)
  BY <1>11 DEF PartialSums, low
<1>13. QED
  BY <1>12

\* A number v that stands for the signed t, halved with its sign kept: the quotient
\* stands for a signed number k as far from overflow as before.
LEMMA HalvedSum ==
    ASSUME NEW h \in Nat \ {0}, NEW t \in Int, - (h + h) < t, t < h + h,
           NEW v \in Nat, v < (h + h) + (h + h), NEW z \in Int,
           v = t + ((h + h) + (h + h)) * z
    PROVE  \E k \in Int :
              /\ - h <= k /\ k < h /\ t = (k + k) + (v % 2)
              /\ (IF v >= h + h THEN h + h ELSE 0) + (v \div 2)
                   = IF k < 0 THEN k + ((h + h) + (h + h)) ELSE k
<1>1. PICK e \in Nat, b \in {0, 1} :
          e = v \div 2 /\ b = v % 2 /\ v = (e + e) + b
  OBVIOUS
<1>2. ~ z <= -1
  <2>1. z <= -1 => ((h + h) + (h + h)) * z <= - ((h + h) + (h + h))
    OBVIOUS
  <2>2. QED
    BY <2>1
<1>3. ~ z >= 2
  <2>1. z >= 2 => ((h + h) + (h + h)) * z >= ((h + h) + (h + h)) + ((h + h) + (h + h))
    OBVIOUS
  <2>2. QED
    BY <2>1
<1>4. z = 0 \/ z = 1
  BY <1>2, <1>3
<1>5. CASE z = 0
  <2>1. v = t
    BY <1>5
  <2>2. /\ - h <= e /\ e < h /\ ~ e < 0 /\ ~ v >= h + h
        /\ t = (e + e) + b
    BY <1>1, <2>1
  <2>3. QED
    BY <1>1, <2>2
<1>6. CASE z = 1
  <2>1. v = t + ((h + h) + (h + h))
    BY <1>6
  <2>2. PICK k \in Int : k = e - (h + h)
    OBVIOUS
  <2>3. /\ - h <= k /\ k < h /\ k < 0 /\ v >= h + h
        /\ t = (k + k) + b
        /\ (h + h) + e = k + ((h + h) + (h + h))
    BY <1>1, <2>1, <2>2
  <2>4. QED
    BY <1>1, <2>3
<1>7. QED
  BY <1>4, <1>5, <1>6

\* How far the registers are after j iterations.  The low bits of the multiplier have
\* left r, the last of them for c; the number that a stands for as a signed one, and
\* the bits that came into r from a, make the sum so far; h is half the largest number
\* that fits, which leaves room for one more addition.
Holds(h, s, w, q, j, a, r, c) ==
    /\ \A i \in 1 .. w - j : r[j + i] = q[i]
    /\ c = LowBit(w, q, j)
    /\ \E k \in Int :
         /\ - h <= k /\ k < h
         /\ Value(a) = IF k < 0 THEN k + ((h + h) + (h + h)) ELSE k
         /\ s[j] = k * 2^j + Values(r)[j]

\* An iteration gets one bit further.
LEMMA BoothAdvances ==
    ASSUME NEW w \in Nat \ {0}, NEW h \in Nat \ {0},
           NEW p \in Nat, p = 2^w, p = (h + h) + (h + h), 2^(w - 1) = h + h,
           NEW m \in Int, - h < m, m < h,
           NEW vm \in Nat, vm = IF m < 0 THEN m + p ELSE m,
           NEW q \in Vector(w), NEW s, PartialSums(s, w, m, q),
           NEW a \in Vector(w), NEW r \in Vector(w), NEW c \in {0, 1},
           NEW j \in 0 .. w - 1, Holds(h, s, w, q, j, a, r, c),
           NEW d \in Vector(w),
           r[w] > c => Value(d) = (Value(a) + vm + 1) % p,
           r[w] < c => Value(d) = (Value(a) + vm) % p,
           r[w] = c => Value(d) = Value(a)
    PROVE  Holds(h, s, w, q, j + 1, <<d[1]>> \o SubSeq(d, 1, w - 1),
                 <<d[w]>> \o SubSeq(r, 1, w - 1), r[w])
<1>0. /\ w \in Nat /\ w \in 1 .. w /\ 1 \in 1 .. w /\ w \in 0 .. w
      /\ j \in Nat /\ j + 1 \in 1 .. w /\ j \in 0 .. w /\ (j + 1) - 1 = j
  OBVIOUS
<1>1. PICK low \in {0, 1} : low = r[w] /\ low = LowBit(w, q, j + 1)
  <2>1. w - j \in 1 .. w - j /\ j + (w - j) = w /\ w - (j + 1) + 1 = w - j /\ j + 1 # 0
    OBVIOUS
  <2>2. r[j + (w - j)] = q[w - j]
    BY <2>1 DEF Holds
  <2>3. LowBit(w, q, j + 1) = q[w - j]
    BY <2>1 DEF LowBit
  <2>4. r[w] \in {0, 1}
    BY <1>0, VectorIs
  <2>5. QED
    BY <2>1, <2>2, <2>3, <2>4
<1>2. PICK part \in Int :
          /\ part = IF low > c THEN m + 1 ELSE IF low < c THEN m ELSE 0
          /\ s[j + 1] = s[j] + 2^j * part
  <2>1. s[j + 1] = s[(j + 1) - 1] + 2^((j + 1) - 1)
                     * Part(m, LowBit(w, q, j + 1), LowBit(w, q, (j + 1) - 1))
    BY <1>0 DEF PartialSums
  <2>2. c = LowBit(w, q, j)
    BY DEF Holds
  <2>3. s[j + 1] = s[j] + 2^j * Part(m, low, c)
    BY <1>0, <1>1, <2>1, <2>2
  <2>4. Part(m, low, c) \in Int
    BY DEF Part
  <2>5. QED
    BY <2>3, <2>4 DEF Part
<1>3. PICK k \in Int : /\ - h <= k /\ k < h
                       /\ Value(a) = IF k < 0 THEN k + ((h + h) + (h + h)) ELSE k
                       /\ s[j] = k * 2^j + Values(r)[j]
  BY DEF Holds
<1>4. PICK t \in Int : t = k + part /\ - (h + h) < t /\ t < h + h
  <2>1. - (h + h) < k + part /\ k + part < h + h
    BY <1>2, <1>3
  <2>2. QED
    BY <2>1
<1>5. PICK va \in Nat : va = Value(a) /\ va = IF k < 0 THEN k + p ELSE k
  BY <1>0, <1>3, WholeBound
<1>6. PICK v \in Nat : v = Value(d) /\ v < p
  <2>1. Value(d) \in Nat /\ Value(d) \in 0 .. 2^w - 1
    BY <1>0, WholeBound
  <2>2. QED
    BY <2>1
<1>7. PICK z \in Int : v = t + p * z
  <2>1. PICK o, n \in Int : va = k + p * o /\ vm = m + p * n
    <3>1. PICK o \in Int : va = k + p * o
      <4>1. CASE k < 0
        <5>1. va = k + p * 1
          BY <1>5, <4>1
        <5> WITNESS 1 \in Int
        <5> QED
          BY <5>1
      <4>2. CASE ~ k < 0
        <5>1. va = k + p * 0
          BY <1>5, <4>2
        <5> WITNESS 0 \in Int
        <5> QED
          BY <5>1
      <4>3. QED
        BY <4>1, <4>2
    <3>2. PICK n \in Int : vm = m + p * n
      <4>1. CASE m < 0
        <5>1. vm = m + p * 1
          BY <4>1
        <5> WITNESS 1 \in Int
        <5> QED
          BY <5>1
      <4>2. CASE ~ m < 0
        <5>1. vm = m + p * 0
          BY <4>2
        <5> WITNESS 0 \in Int
        <5> QED
          BY <5>1
      <4>3. QED
        BY <4>1, <4>2
    <3>3. QED
      BY <3>1, <3>2
  <2>2. ASSUME NEW u \in Int PROVE \E g \in Int : u % p = u - p * g
    <3>1. PICK g, l \in Int : g = u \div p /\ l = u % p /\ u = p * g + l
      <4>1. p \in Nat \ {0}
        OBVIOUS
      <4>2. u = p * (u \div p) + (u % p) /\ u \div p \in Int /\ u % p \in Int
        BY <4>1
      <4>3. QED
        BY <4>2
    <3>2. u = p * g + l
      BY <3>1
    <3>3. PICK e \in Int : e = p * g
      OBVIOUS
    <3>4. u = e + l
      BY <3>2, <3>3, Zenon
    <3>5. l = u - e
      BY <3>4
    <3>6. QED
      BY <3>1, <3>3, <3>5, Zenon
  <2>3. CASE low > c
    <3>1. v = (va + vm + 1) % p /\ part = m + 1
      BY <1>1, <1>2, <1>5, <1>6, <2>3
    <3>2. PICK g \in Int : v = (va + vm + 1) - p * g
      <4>1. PICK u \in Int : u = va + vm + 1
        OBVIOUS
      <4>2. QED
        BY <2>2, <3>1, <4>1
    <3>3. v = t + p * ((o + n) - g)
      BY <1>4, <2>1, <3>1, <3>2
    <3>4. QED
      BY <3>3
  <2>4. CASE low < c
    <3>1. v = (va + vm) % p /\ part = m
      BY <1>1, <1>2, <1>5, <1>6, <2>4
    <3>2. PICK g \in Int : v = (va + vm) - p * g
      <4>1. PICK u \in Int : u = va + vm
        OBVIOUS
      <4>2. QED
        BY <2>2, <3>1, <4>1
    <3>3. v = t + p * ((o + n) - g)
      BY <1>4, <2>1, <3>1, <3>2
    <3>4. QED
      BY <3>3
  <2>5. CASE low = c
    <3>1. v = va /\ part = 0
      BY <1>1, <1>2, <1>5, <1>6, <2>5
    <3>2. v = t + p * o
      BY <1>4, <2>1, <3>1
    <3>3. QED
      BY <3>2
  <2>6. QED
    BY <2>3, <2>4, <2>5
<1>8. PICK l \in Int :
          /\ - h <= l /\ l < h /\ t = (l + l) + (v % 2)
          /\ (IF v >= h + h THEN h + h ELSE 0) + (v \div 2)
               = IF l < 0 THEN l + ((h + h) + (h + h)) ELSE l
  <2>1. v < (h + h) + (h + h) /\ v = t + ((h + h) + (h + h)) * z
    BY <1>6, <1>7
  <2>2. QED
    BY <1>4, <2>1, HalvedSum
<1>9. PICK b1, bw \in {0, 1} : /\ b1 = d[1] /\ bw = d[w] /\ v % 2 = bw
                               /\ (v >= h + h <=> b1 = 1)
  <2>1. d[1] \in {0, 1} /\ d[w] \in {0, 1}
    BY <1>0, VectorIs
  <2>2. Value(d) % 2 = d[w]
    BY HalfValue
  <2>3. Value(d) >= 2^(w - 1) <=> d[1] = 1
    BY SignBit
  <2>4. QED
    BY <1>6, <2>1, <2>2, <2>3
<1>10. PICK e : e = <<b1>> \o SubSeq(d, 1, w - 1)
  OBVIOUS
<1>11. PICK f : f = <<bw>> \o SubSeq(r, 1, w - 1)
  OBVIOUS
<1>12. Value(e) = IF l < 0 THEN l + ((h + h) + (h + h)) ELSE l
  <2>1. Value(e) = b1 * 2^(w - 1) + (Value(d) \div 2)
    BY <1>10, ShiftedRight, ZenonT(30)
  <2>2. Value(e) = b1 * (h + h) + (v \div 2)
    BY <1>6, <2>1
  <2>3. b1 * (h + h) = IF v >= h + h THEN h + h ELSE 0
    BY <1>9
  <2>4. QED
    BY <1>8, <2>2, <2>3
<1>13. /\ \A i \in 1 .. w - 1 : f[i + 1] = r[i]
       /\ Values(f)[j + 1] = bw * 2^j + Values(r)[j]
  <2>1. /\ \A i \in 1 .. w - 1 : (<<bw>> \o SubSeq(r, 1, w - 1))[i + 1] = r[i]
        /\ \A i \in 0 .. w - 1 : Values(<<bw>> \o SubSeq(r, 1, w - 1))[i + 1]
                                   = bw * 2^i + Values(r)[i]
    BY ShiftedRight, ZenonT(30)
  <2>2. QED
    BY <1>11, <2>1
<1>14. s[j + 1] = l * 2^(j + 1) + Values(f)[j + 1]
  <2>1. PICK g \in Nat : g = 2^j /\ 2^(j + 1) = g + g
    BY <1>0, PowType, PowDouble
  <2>2. PICK u \in Nat : u = Values(r)[j]
    <3>1. Values(r) \in [0 .. w -> Nat]
      BY <1>0, ValueSteps
    <3>2. QED
      BY <1>0, <3>1
  <2>3. s[j + 1] = (k * g + u) + g * part
    BY <1>2, <1>3, <2>1, <2>2
  <2>4. (k * g + u) + g * part = t * g + u
    BY <1>4
  <2>5. t * g = l * (g + g) + bw * g
    <3>1. t = (l + l) + bw
      BY <1>8, <1>9
    <3>2. QED
      BY <3>1
  <2>6. Values(f)[j + 1] = bw * g + u
    BY <1>13, <2>1, <2>2
  <2>7. QED
    BY <2>1, <2>3, <2>4, <2>5, <2>6
<1>15. \A i \in 1 .. w - (j + 1) : f[(j + 1) + i] = q[i]
  <2>1. ASSUME NEW i \in 1 .. w - (j + 1) PROVE f[(j + 1) + i] = q[i]
    <3>1. j + i \in 1 .. w - 1 /\ (j + i) + 1 = (j + 1) + i /\ i \in 1 .. w - j
      OBVIOUS
    <3>2. f[(j + i) + 1] = r[j + i]
      BY <1>13, <3>1
    <3>3. r[j + i] = q[i]
      BY <3>1 DEF Holds
    <3>4. QED
      BY <3>1, <3>2, <3>3
  <2>2. QED
    BY <2>1
<1>16. Holds(h, s, w, q, j + 1, e, f, low)
  BY <1>1, <1>8, <1>12, <1>14, <1>15 DEF Holds
<1>17. QED
  BY <1>1, <1>9, <1>10, <1>11, <1>16

\* Powers multiply.
LEMMA PowSquare ==
    ASSUME NEW w \in Nat
    PROVE  2^(2 * w) = 2^w * 2^w
<1>1. PICK p \in Nat : p = 2^w
  BY PowType
<1> DEFINE S == {i \in 0 .. w : 2^(w + i) = p * 2^i}
<1>2. 0 \in S
  <2>1. w + 0 = w /\ 2^0 = 1 /\ p * 1 = p
    OBVIOUS
  <2>2. QED
    BY <1>1, <2>1
<1>3. ASSUME NEW i \in 0 .. w - 1, i \in S PROVE i + 1 \in S
  <2>1. i \in Nat /\ w + i \in Nat /\ (w + i) + 1 = w + (i + 1)
    OBVIOUS
  <2>2. PICK g \in Nat : g = 2^i /\ 2^(i + 1) = g + g
    BY <2>1, PowType, PowDouble
  <2>3. 2^(w + (i + 1)) = 2^(w + i) + 2^(w + i)
    BY <2>1, PowDouble
  <2>4. 2^(w + i) = p * g
    BY <1>3, <2>2
  <2>5. p * g + p * g = p * (g + g)
    OBVIOUS
  <2>6. QED
    BY <2>2, <2>3, <2>4, <2>5
<1> HIDE DEF S
<1>4. w \in S
  <2>1. 0 .. w \subseteq S
    BY <1>2, <1>3, UpTo
  <2>2. QED
    BY <2>1
<1>5. 2 * w = w + w
  OBVIOUS
<1>6. QED
  BY <1>1, <1>4, <1>5 DEF S

\* Two registers side by side.
LEMMA Joined ==
    ASSUME NEW s \in Seq(Bit), NEW t \in Seq(Bit)
    PROVE  \E u \in Seq(Bit) : /\ u = s \o t /\ Len(u) = Len(s) + Len(t)
                               /\ \A i \in 1 .. Len(s) : u[i] = s[i]
                               /\ \A i \in 1 .. Len(t) : u[Len(s) + i] = t[i]
<1>1. s \o t \in Seq(Bit)
  OBVIOUS
<1>2. Len(s \o t) = Len(s) + Len(t)
  OBVIOUS
<1>3. \A i \in 1 .. Len(s) : (s \o t)[i] = s[i]
  OBVIOUS
<1>4. \A i \in 1 .. Len(t) : (s \o t)[Len(s) + i] = t[i]
  OBVIOUS
<1>5. QED
  BY <1>1, <1>2, <1>3, <1>4

\* After the last iteration the two registers are the sum modulo their size.
LEMMA BoothEnds ==
    ASSUME NEW w \in Nat \ {0}, NEW h \in Nat \ {0},
           NEW p \in Nat \ {0}, p = 2^w, p = (h + h) + (h + h),
           NEW m, NEW q, NEW s, PartialSums(s, w, m, q),
           NEW a \in Vector(w), NEW r \in Vector(w), NEW c,
           Holds(h, s, w, q, w, a, r, c)
    PROVE  Value(a \o r) = Recoded(m, q) % 2^(2 * w)
<1>0. w \in Nat /\ w \in 0 .. w /\ 2 * w \in Nat /\ w + w = 2 * w /\ w <= 2 * w
                /\ w \in 0 .. 2 * w
  OBVIOUS
<1>1. PICK t \in Vector(2 * w) : /\ t = a \o r
                                 /\ \A i \in 1 .. w : t[i] = a[i] /\ t[w + i] = r[i]
  <2>1. a \in Seq(Bit) /\ r \in Seq(Bit) /\ Len(a) = w /\ Len(r) = w
    BY <1>0, VectorIs
  <2>2. PICK t \in Seq(Bit) :
            /\ t = a \o r /\ Len(t) = Len(a) + Len(r)
            /\ \A i \in 1 .. Len(a) : t[i] = a[i]
            /\ \A i \in 1 .. Len(r) : t[Len(a) + i] = r[i]
    BY <2>1, Joined
  <2>3. Len(t) = 2 * w /\ \A i \in 1 .. w : t[i] = a[i] /\ t[w + i] = r[i]
    BY <1>0, <2>1, <2>2
  <2>4. t \in Vector(2 * w)
    BY <2>3, VectorOf
  <2>5. QED
    BY <2>2, <2>3, <2>4
<1>2. PICK va, vr \in Nat : va = Value(a) /\ vr = Value(r)
  BY <1>0, WholeBound
<1>3. Value(t) = va * p + vr
  <2>1. \A i \in 0 .. w : Values(t)[w + i] = Values(t)[w] * 2^i + Values(r)[i]
    <3>1. \A i \in 1 .. w : r[i] = t[w + i]
      BY <1>1
    <3>2. QED
      BY <1>0, <3>1, SplitValue
  <2>2. Values(t)[w] = Values(a)[w]
    <3>1. \A i \in 1 .. w : t[i] = a[i]
      BY <1>1
    <3>2. \A i \in 0 .. w : Values(t)[i] = Values(a)[i]
      BY <1>0, <3>1, SameFront
    <3>3. QED
      BY <1>0, <3>2
  <2>3. Value(t) = Values(t)[2 * w]
    BY <1>0, WholeBound
  <2>4. Values(a)[w] = va /\ Values(r)[w] = vr
    BY <1>0, <1>2, WholeBound
  <2>5. QED
    BY <1>0, <2>1, <2>2, <2>3, <2>4
<1>4. PICK k \in Int : /\ va = IF k < 0 THEN k + p ELSE k
                       /\ s[w] = k * p + vr
  <2>1. Values(r)[w] = vr
    BY <1>0, <1>2, WholeBound
  <2>2. QED
    BY <1>2, <2>1 DEF Holds
<1>5. PICK g \in Nat \ {0} : g = 2^(2 * w) /\ g = p * p
  BY <1>0, PowType, PowSquare
<1>6. PICK v \in Nat : v = Value(t) /\ v \in 0 .. g - 1
  <2>1. Value(t) \in 0 .. 2^(2 * w) - 1 /\ Value(t) \in Nat
    BY <1>0, WholeBound
  <2>2. QED
    BY <1>5, <2>1
<1>7. PICK n \in Int : s[w] \in Int /\ s[w] = g * n + v
  <2>1. CASE k < 0
    <3>1. v = (k + p) * p + vr
      BY <1>3, <1>4, <1>6, <2>1
    <3>2. (k + p) * p = k * p + p * p
      OBVIOUS
    <3>3. s[w] = g * (-1) + v
      BY <1>4, <1>5, <3>1, <3>2
    <3>4. QED
      BY <1>4, <3>3
  <2>2. CASE ~ k < 0
    <3>1. v = k * p + vr
      BY <1>3, <1>4, <1>6, <2>2
    <3>2. s[w] = g * 0 + v
      BY <1>4, <3>1
    <3>3. QED
      BY <1>4, <3>2
  <2>3. QED
    BY <2>1, <2>2
<1>8. s[w] % g = v
  <2>1. PICK o \in Int : o = s[w] /\ o = g * n + v
    BY <1>7
  <2>2. o % g = v
    BY <1>6, <2>1, ModUnique
  <2>3. QED
    BY <2>1, <2>2
<1>9. s[w] = Recoded(m, q)
  BY DEF PartialSums
<1>10. QED
  BY <1>1, <1>5, <1>6, <1>8, <1>9

\* The number that the multiplicand's pattern is in two's complement.
Multiplicand == IF x < 0 THEN x - 2 ELSE x
MultiplierBits == IntegerToBinary(y, bitWidth)

\* What every state of the Booth multiplier keeps.
BoothInv ==
    unit = "Booth" =>
      /\ pc = "done" => count = 0
      /\ Magnitude(Multiplicand) < 2^(bitWidth - 2) =>
           \E s : /\ PartialSums(s, bitWidth, Multiplicand, MultiplierBits)
                  /\ Holds(2^(bitWidth - 2), s, bitWidth, MultiplierBits, bitWidth - count,
                           A, Q, QMinus1)

\* The sizes in it.
LEMMA Quarters ==
    ASSUME NEW w \in 8 .. 40
    PROVE  \E h \in Nat \ {0} : /\ h = 2^(w - 2) /\ 2^(w - 1) = h + h
                                /\ 2^w = (h + h) + (h + h)
<1>1. /\ w - 2 \in Nat /\ w - 1 \in Nat
      /\ (w - 2) + 1 = w - 1 /\ (w - 1) + 1 = w
  OBVIOUS
<1>2. PICK h \in Nat \ {0} : h = 2^(w - 2)
  BY <1>1, PowType
<1>3. 2^(w - 1) = h + h
  BY <1>1, <1>2, PowDouble
<1>4. 2^w = 2^(w - 1) + 2^(w - 1)
  BY <1>1, PowDouble
<1>5. QED
  BY <1>2, <1>3, <1>4

\* A quarter of the registers' range is far from the ends.
LEMMA Roomy ==
    ASSUME NEW m \in Int, NEW h \in Nat, Magnitude(m) < h
    PROVE  - h < m /\ m < h
  BY DEF Magnitude

LEMMA BoothInit == ASSUME Init PROVE BoothInv
<1> SUFFICES ASSUME unit = "Booth",
                    Magnitude(Multiplicand) < 2^(bitWidth - 2)
             PROVE  \E s : /\ PartialSums(s, bitWidth, Multiplicand, MultiplierBits)
                           /\ Holds(2^(bitWidth - 2), s, bitWidth, MultiplierBits,
                                    bitWidth - count, A, Q, QMinus1)
  BY DEF Init, BoothInv
<1>1. PICK w \in 8 .. 40 : w = bitWidth /\ w \in Nat
  BY Widths DEF Init
<1>2. PICK h \in Nat \ {0} : h = 2^(w - 2)
  BY <1>1, Quarters
<1>3. x \in Int /\ y \in Int
  BY Widths DEF Init
<1>4. PICK q \in Vector(w) : q = MultiplierBits
  BY <1>1, <1>3, ToBinaryType DEF MultiplierBits
<1>5. PICK m \in Int : m = Multiplicand
  BY <1>3 DEF Multiplicand
<1>6. /\ A = Zeros(w) /\ Q = q /\ count = w /\ QMinus1 = 0
  BY <1>1, <1>4 DEF Init, Registers, MultiplierBits
<1>7. PICK s : PartialSums(s, w, m, q)
  BY <1>1, RecodedSums
<1>8. Holds(h, s, w, q, 0, A, Q, QMinus1)
  <2>1. \A i \in 1 .. w - 0 : Q[0 + i] = q[i]
    BY <1>1, <1>6
  <2>2. QMinus1 = LowBit(w, q, 0)
    BY <1>6 DEF LowBit
  <2>3. Value(A) = 0
    BY <1>1, <1>6, ZerosValue
  <2>4. s[0] = 0 * 2^0 + Values(Q)[0]
    <3>1. Values(Q)[0] = 0
      BY <1>1, <1>6, ValueSteps
    <3>2. s[0] = 0
      BY <1>7 DEF PartialSums
    <3>3. 2^0 = 1
      OBVIOUS
    <3>4. QED
      BY <3>1, <3>2, <3>3
  <2>5. 0 \in Int /\ - h <= 0 /\ 0 < h /\ ~ 0 < 0
    OBVIOUS
  <2>6. QED
    BY <2>1, <2>2, <2>3, <2>4, <2>5 DEF Holds
<1>9. bitWidth - count = 0
  BY <1>1, <1>6
<1>10. QED
  BY <1>1, <1>2, <1>4, <1>5, <1>7, <1>8, <1>9

LEMMA BoothStays == ASSUME IInv, BoothInv, BoothStep PROVE BoothInv'
<1>1. /\ unit = "Booth" /\ UNCHANGED <<unit, x, y, pc>> /\ count > 0 /\ count' = count - 1
  BY DEF BoothStep, inputs
<1>2. UNCHANGED <<bitWidth, Multiplicand, MultiplierBits>>
  BY <1>1 DEF bitWidth, Multiplicand, MultiplierBits
<1>3. PICK w \in 8 .. 40 : w = bitWidth /\ w \in Nat \ {0}
  BY Widths DEF IInv
<1>4. A \in Vector(w) /\ Q \in Vector(w) /\ QMinus1 \in {0, 1} /\ count \in 0 .. w
  BY <1>1, <1>3 DEF IInv, Shape, Registers, Bit
<1>5. pc' = "done" => count' = 0
  BY <1>1, <1>4 DEF BoothInv
<1>6. SUFFICES ASSUME Magnitude(Multiplicand) < 2^(w - 2)
               PROVE  \E s : /\ PartialSums(s, w, Multiplicand, MultiplierBits)
                             /\ Holds(2^(w - 2), s, w, MultiplierBits, w - count',
                                      A', Q', QMinus1')
  BY <1>1, <1>2, <1>3, <1>5 DEF BoothInv
<1>7. PICK p \in Nat, h \in Nat \ {0} : /\ h = 2^(w - 2) /\ 2^(w - 1) = h + h
                                        /\ p = 2^w /\ p = (h + h) + (h + h)
  <2>1. PICK h \in Nat \ {0} : /\ h = 2^(w - 2) /\ 2^(w - 1) = h + h
                                /\ 2^w = (h + h) + (h + h)
    BY Quarters
  <2>2. PICK p \in Nat : p = (h + h) + (h + h)
    OBVIOUS
  <2>3. p = 2^w
    BY <2>1, <2>2
  <2>4. QED
    BY <2>1, <2>2, <2>3
<1>8. x \in Operands /\ y \in Operands /\ x \in Int /\ y \in Int
  BY Widths DEF IInv
<1>9. PICK q \in Vector(w) : q = MultiplierBits
  BY <1>3, <1>8, ToBinaryType DEF MultiplierBits
<1>10. PICK n \in Int : n = Multiplicand /\ - h < n /\ n < h
  <2>1. PICK n \in Int : n = Multiplicand
    BY <1>8 DEF Multiplicand
  <2>2. Magnitude(n) < h
    BY <1>6, <1>7, <2>1
  <2>3. - h < n /\ n < h
    BY <2>2, Roomy
  <2>4. QED
    BY <2>1, <2>3
<1>11. PICK s : PartialSums(s, w, n, q) /\ Holds(h, s, w, q, w - count, A, Q, QMinus1)
  BY <1>1, <1>3, <1>6, <1>7, <1>9, <1>10 DEF BoothInv
<1>12. PICK m \in Vector(w) : m = M
  BY <1>3, Widths DEF IInv
<1>13. PICK vm \in Nat : vm = Value(m) /\ vm = IF n < 0 THEN n + p ELSE n
  <2>1. m = IntegerToBinary(x, w)
    BY <1>1, <1>3, <1>12 DEF M
  <2>2. Magnitude(x) < 2^(w - 1) - 1
    BY <1>3, <1>8, WidthHolds DEF bitWidth
  <2>3. Value(m) = IF x < 0 THEN 2^w + x - 2 ELSE x
    BY <1>3, <1>8, <2>1, <2>2, RoundTrip
  <2>4. Value(m) \in Nat
    BY <1>3, WholeBound
  <2>5. n = IF x < 0 THEN x - 2 ELSE x
    BY <1>10 DEF Multiplicand
  <2>6. QED
    BY <1>7, <1>8, <2>3, <2>4, <2>5
<1>14. PICK a \in Vector(w) :
          /\ Q' = <<a[w]>> \o SubSeq(Q, 1, w - 1)
          /\ A' = <<a[1]>> \o SubSeq(a, 1, w - 1)
          /\ QMinus1' = Q[w]
          /\ Q[w] > QMinus1 => Value(a) = (Value(A) + Value(m) + 1) % 2^w
          /\ Q[w] < QMinus1 => Value(a) = (Value(A) + Value(m)) % 2^w
          /\ Q[w] = QMinus1 => Value(a) = Value(A)
  BY <1>3, <1>12, BoothTurn
<1>15. PICK j \in 0 .. w - 1 : j = w - count /\ w - count' = j + 1
  <2>1. w - count \in 0 .. w - 1 /\ w - count' = (w - count) + 1
    BY <1>1, <1>4
  <2>2. QED
    BY <2>1
<1>16. PICK r \in Vector(w), b \in Vector(w), c \in {0, 1} : r = Q /\ b = A /\ c = QMinus1
  BY <1>4
<1>17. Holds(h, s, w, q, j, b, r, c)
  BY <1>11, <1>15, <1>16
<1>18. /\ r[w] > c => Value(a) = (Value(b) + vm + 1) % p
       /\ r[w] < c => Value(a) = (Value(b) + vm) % p
       /\ r[w] = c => Value(a) = Value(b)
  BY <1>7, <1>13, <1>14, <1>16
<1>19. Holds(h, s, w, q, j + 1, <<a[1]>> \o SubSeq(a, 1, w - 1),
             <<a[w]>> \o SubSeq(r, 1, w - 1), r[w])
  <2>1. w \in Nat \ {0}
    BY <1>3
  <2>2. p = 2^w /\ p = (h + h) + (h + h) /\ 2^(w - 1) = h + h
    BY <1>7
  <2>3. - h < n /\ n < h
    BY <1>10
  <2>4. vm = IF n < 0 THEN n + p ELSE n
    BY <1>13
  <2>5. PartialSums(s, w, n, q)
    BY <1>11
  <2>6. QED
    BY <2>1, <2>2, <2>3, <2>4, <2>5, <1>17, <1>18, BoothAdvances
<1>20. Holds(h, s, w, q, w - count', A', Q', QMinus1')
  BY <1>14, <1>15, <1>16, <1>19
<1>21. QED
  BY <1>7, <1>9, <1>10, <1>11, <1>20

LEMMA BoothOthers == ASSUME IInv, BoothInv, [Next]_vars, ~ BoothStep PROVE BoothInv'
<1>1. \/ unit' # "Booth"
      \/ /\ UNCHANGED <<unit, x, y, A, Q, QMinus1, count>>
         /\ pc' = "done" => count' = 0
  <2>1. CASE PrintProduct
    BY <2>1 DEF PrintProduct, Finish, inputs
  <2>2. CASE UNCHANGED vars
    BY <2>2 DEF vars, inputs, BoothInv
  <2>3. CASE RestoringStep \/ NonRestoringStep \/ PrintQuotient \/ Adder \/ Multiplier
    <3>1. unit' = unit /\ unit # "Booth"
      BY <2>3 DEF RestoringStep, NonRestoringStep, PrintQuotient, Adder, Multiplier,
                  Finish, inputs, Dividers
    <3>2. QED
      BY <3>1
  <2>4. QED
    BY <2>1, <2>2, <2>3 DEF Next
<1>2. CASE unit' # "Booth"
  BY <1>2 DEF BoothInv
<1>3. CASE /\ UNCHANGED <<unit, x, y, A, Q, QMinus1, count>>
           /\ pc' = "done" => count' = 0
  <2>1. UNCHANGED <<bitWidth, Multiplicand, MultiplierBits>>
    BY <1>3 DEF bitWidth, Multiplicand, MultiplierBits
  <2>2. QED
    BY <1>3, <2>1 DEF BoothInv
<1>4. QED
  BY <1>1, <1>2, <1>3

LEMMA BoothAlways == Spec => []BoothInv
<1>1. Init => BoothInv
  BY BoothInit
<1>2. IInv /\ BoothInv /\ [Next]_vars => BoothInv'
  BY BoothStays, BoothOthers
<1>3. QED
  BY <1>1, <1>2, Invariant, PTL DEF Spec

LEMMA ProductOf == ASSUME IInv, BoothInv PROVE BoothProduct
<1> SUFFICES ASSUME unit = "Booth", pc = "done",
                    Magnitude(Multiplicand) < 2^(bitWidth - 2)
             PROVE  Value(A \o Q) = Recoded(Multiplicand, MultiplierBits) % 2^(2 * bitWidth)
  BY DEF BoothProduct, Multiplicand, MultiplierBits
<1>1. PICK w \in 8 .. 40 : w = bitWidth /\ w \in Nat \ {0}
  BY Widths DEF IInv
<1>2. A \in Vector(w) /\ Q \in Vector(w) /\ count = 0
  BY <1>1 DEF IInv, Shape, Registers, BoothInv
<1>3. PICK p \in Nat \ {0}, h \in Nat \ {0} :
          h = 2^(w - 2) /\ p = 2^w /\ p = (h + h) + (h + h)
  BY <1>1, Quarters, PowType, ZenonT(30)
<1>4. PICK s : /\ PartialSums(s, w, Multiplicand, MultiplierBits)
               /\ Holds(h, s, w, MultiplierBits, w - count, A, Q, QMinus1)
  BY <1>1, <1>3 DEF BoothInv
<1>5. w - count = w
  BY <1>1, <1>2
<1>6. PICK m, q, c : m = Multiplicand /\ q = MultiplierBits /\ c = QMinus1
  OBVIOUS
<1>7. PICK a \in Vector(w), r \in Vector(w) : a = A /\ r = Q
  BY <1>2
<1>8. PartialSums(s, w, m, q) /\ Holds(h, s, w, q, w, a, r, c)
  BY <1>4, <1>5, <1>6, <1>7
<1>9. Value(a \o r) = Recoded(m, q) % 2^(2 * w)
  BY <1>1, <1>3, <1>8, BoothEnds
<1>10. QED
  BY <1>1, <1>6, <1>7, <1>9

\* The multiplier's two registers end as the sum over the runs of ones in the second
\* operand, whatever the operands, if the first leaves A room for one addition.
THEOREM ProductRight == Spec => []BoothProduct
<1>1. IInv /\ BoothInv => BoothProduct
  BY ProductOf
<1>2. QED
  BY <1>1, Invariant, BoothAlways, PTL
=============================================================================
