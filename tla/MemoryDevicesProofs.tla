------------------------ MODULE MemoryDevicesProofs ------------------------
(***************************************************************************)
(* Proofs about MemoryDevices, for devices of every size, any addresses    *)
(* and values, and logs of every length.                                   *)
(***************************************************************************)
EXTENDS MemoryDevices, FiniteSetTheorems, TLAPS

LogLine == [event : Event, device : Device, address : Int, data : Nat]

\* The memory is what the whole log says of it.
MemoryMatchesLog ==
    \A d \in Device, a \in Cell : Holds(Len(logs), d, a, memory[d][a])

\* Whether the PROM is programmed, and which blocks of the flash memory are
\* protected, is what the whole log says of them.
GuardsMatchLog ==
    /\ programmed <=> PromWritten(Len(logs))
    /\ \A a \in Cell : writeProtected[a] <=> BlockMarked(Len(logs), a)

\* Line k reports what the lines before it say its cell holds.
ReadRight(k) ==
    LET l == logs[k] IN
    /\ l.event = "Read" => Holds(k - 1, l.device, l.address, l.data)
    /\ l.event = "Corrupted" =>
           \E bit \in Bits, v \in Values \cup {0} :
               Holds(k - 1, l.device, l.address, v) /\ l.data = FlipBit(v, bit)

\* Line k was logged under the flags the lines before it account for.
GuardedRight(k) ==
    LET l == logs[k] IN
    /\ l.event = "Write" =>
           /\ l.device # "EPROM"
           /\ l.device = "PROM" => ~ PromWritten(k - 1)
           /\ l.device = "FlashMemory" => ~ BlockMarked(k - 1, l.address)
    /\ l.event = "Protected" =>
           \/ l.device = "PROM" /\ PromWritten(k - 1)
           \/ l.device = "FlashMemory" /\ BlockMarked(k - 1, l.address)

IInv == /\ TypeOK /\ StatisticsMatchLog /\ MemoryMatchesLog /\ GuardsMatchLog
        /\ ReadsReturnLastWrite /\ ProtectionHolds

-----------------------------------------------------------------------------

\* A flipped bit leaves a number one.
LEMMA FlipBitType == ASSUME NEW v \in Nat, NEW bit \in 0 .. 7 PROVE FlipBit(v, bit) \in Nat
<1>1. PICK p \in Nat \ {0} : p = 2^bit
  <2>1. \/ bit = 0 \/ bit = 1 \/ bit = 2 \/ bit = 3
        \/ bit = 4 \/ bit = 5 \/ bit = 6 \/ bit = 7
    OBVIOUS
  <2>2. 2^0 = 1 /\ 2^1 = 2 /\ 2^2 = 4 /\ 2^3 = 8
    OBVIOUS
  <2>3. 2^4 = 16 /\ 2^5 = 32 /\ 2^6 = 64 /\ 2^7 = 128
    OBVIOUS
  <2>4. \A k \in 0 .. 7 : bit = k => 2^bit = 2^k
    OBVIOUS
  <2>5. QED
    BY <2>1, <2>2, <2>3, <2>4
<1>2. FlipBit(v, bit) = IF (v \div p) % 2 = 0 THEN v + p ELSE v - p
  BY <1>1 DEF FlipBit
<1>3. v < p => v \div p = 0
  OBVIOUS
<1>4. QED
  BY <1>2, <1>3

\* A call adds one line and changes none.
LEMMA LogGrows ==
    ASSUME TypeOK, NEW event \in Event, NEW d \in Device, NEW a \in Int, NEW v \in Nat,
           Log(event, d, a, v)
    PROVE  /\ Line(event, d, a, v) \in LogLine
           /\ logs' \in Seq(LogLine) /\ Len(logs) \in Nat /\ Len(logs') = Len(logs) + 1
           /\ logs'[Len(logs) + 1] = Line(event, d, a, v)
           /\ \A k \in 1 .. Len(logs) : logs'[k] = logs[k]
<1>1. logs \in Seq(LogLine)
  BY DEF TypeOK, LogLine
<1>2. Line(event, d, a, v) \in LogLine
  BY DEF Line, LogLine
<1>3. logs' = Append(logs, Line(event, d, a, v))
  BY DEF Log
<1> HIDE DEF LogLine
<1>4. QED
  BY <1>1, <1>2, <1>3

\* What the lines so far say does not change when one is added.
LEMMA PastStands ==
    ASSUME TypeOK, NEW event \in Event, NEW d \in Device, NEW a \in Int, NEW v \in Nat,
           Log(event, d, a, v)
    PROVE  /\ \A e, b : \A k \in 1 .. Len(logs) : Wrote(k, e, b)' <=> Wrote(k, e, b)
           /\ \A e, b, w : \A n \in 0 .. Len(logs) : Holds(n, e, b, w) => Holds(n, e, b, w)'
<1>1. \A e, b : \A k \in 1 .. Len(logs) : Wrote(k, e, b)' <=> Wrote(k, e, b)
  BY LogGrows DEF Wrote
<1>2. ASSUME NEW n \in 0 .. Len(logs), NEW e, NEW b, NEW w, Holds(n, e, b, w)
      PROVE  Holds(n, e, b, w)'
  <2>1. Len(logs) \in Nat
    BY LogGrows
  <2>2. \A k \in 1 .. n : k \in 1 .. Len(logs) /\ k + 1 .. n \subseteq 1 .. Len(logs)
    BY <2>1
  <2>3. \A k \in 1 .. n : (Wrote(k, e, b)' <=> Wrote(k, e, b)) /\ logs'[k] = logs[k]
    BY <1>1, <2>2, LogGrows
  <2>4. CASE w = 0 /\ \A k \in 1 .. n : ~ Wrote(k, e, b)
    BY <2>3, <2>4 DEF Holds
  <2>5. ASSUME NEW k \in 1 .. n, Wrote(k, e, b), logs[k].data = w,
               \A m \in k + 1 .. n : ~ Wrote(m, e, b)
        PROVE  Holds(n, e, b, w)'
    <3>1. \A m \in k + 1 .. n : ~ Wrote(m, e, b)'
      BY <1>1, <2>2, <2>5
    <3>2. Wrote(k, e, b)' /\ logs'[k].data = w
      BY <2>3, <2>5
    <3>3. QED
      BY <3>1, <3>2 DEF Holds
  <2>6. QED
    BY <1>2, <2>4, <2>5 DEF Holds
<1>3. QED
  BY <1>1, <1>2

\* Nor does what they say of the PROM and of the protected blocks; and the line
\* added tells the rest.
LEMMA FlagsStand ==
    ASSUME TypeOK, NEW event \in Event, NEW d \in Device, NEW a \in Int, NEW v \in Nat,
           Log(event, d, a, v)
    PROVE  /\ \A n \in 0 .. Len(logs) : PromWritten(n)' <=> PromWritten(n)
           /\ \A n \in 0 .. Len(logs) : \A b : BlockMarked(n, b)' <=> BlockMarked(n, b)
           /\ PromWritten(Len(logs))' <=>
                  PromWritten(Len(logs)) \/ (event = "Write" /\ d = "PROM" /\ a \in Cell)
           /\ \A b : BlockMarked(Len(logs), b)' <=>
                  BlockMarked(Len(logs), b) \/ (event = "BlockProtected" /\ a = b)
<1>1. /\ Len(logs) \in Nat /\ Len(logs') = Len(logs) + 1
      /\ logs'[Len(logs) + 1] = Line(event, d, a, v)
      /\ \A k \in 1 .. Len(logs) : logs'[k] = logs[k]
  BY LogGrows
<1>2. /\ logs'[Len(logs) + 1].event = event /\ logs'[Len(logs) + 1].device = d
      /\ logs'[Len(logs) + 1].address = a
  BY <1>1 DEF Line
<1>3. \A e, b : \A k \in 1 .. Len(logs) : Wrote(k, e, b)' <=> Wrote(k, e, b)
  BY PastStands
<1>4. \A n \in 0 .. Len(logs) : \A k \in 1 .. n : k \in 1 .. Len(logs)
  BY <1>1
<1>5. \A n \in 0 .. Len(logs) : PromWritten(n)' <=> PromWritten(n)
  BY <1>3, <1>4 DEF PromWritten, Cell
<1>6. \A n \in 0 .. Len(logs) : \A b : BlockMarked(n, b)' <=> BlockMarked(n, b)
  BY <1>1, <1>4 DEF BlockMarked
<1>7. PICK n : n = Len(logs) + 1
  OBVIOUS
<1>8. 1 .. Len(logs') = (1 .. Len(logs)) \cup {n}
  BY <1>1, <1>7
<1>9. PromWritten(Len(logs))' <=>
          PromWritten(Len(logs)) \/ (event = "Write" /\ d = "PROM" /\ a \in Cell)
  <2>1. \A b : Wrote(n, "PROM", b)' <=> event = "Write" /\ d = "PROM" /\ a = b
    BY <1>2, <1>7 DEF Wrote
  <2>2. PromWritten(Len(logs))' <=>
            \E k \in (1 .. Len(logs)) \cup {n}, b \in Cell : Wrote(k, "PROM", b)'
    BY <1>8 DEF PromWritten, Cell
  <2>3. PromWritten(Len(logs))' <=>
            \/ \E k \in 1 .. Len(logs), b \in Cell : Wrote(k, "PROM", b)'
            \/ \E b \in Cell : Wrote(n, "PROM", b)'
    BY <2>2
  <2>4. (\E k \in 1 .. Len(logs), b \in Cell : Wrote(k, "PROM", b)') <=>
            PromWritten(Len(logs))
    BY <1>3 DEF PromWritten
  <2>5. (\E b \in Cell : Wrote(n, "PROM", b)') <=>
            event = "Write" /\ d = "PROM" /\ a \in Cell
    BY <2>1
  <2>6. QED
    BY <2>3, <2>4, <2>5
<1>10. \A b : BlockMarked(Len(logs), b)' <=>
                  BlockMarked(Len(logs), b) \/ (event = "BlockProtected" /\ a = b)
  <2> TAKE b
  <2>1. BlockMarked(Len(logs), b)' <=>
            \E k \in (1 .. Len(logs)) \cup {n} :
                logs'[k].event = "BlockProtected" /\ logs'[k].address = b
    BY <1>8 DEF BlockMarked
  <2>2. (\E k \in 1 .. Len(logs) :
             logs'[k].event = "BlockProtected" /\ logs'[k].address = b) <=>
            BlockMarked(Len(logs), b)
    BY <1>1 DEF BlockMarked
  <2>3. logs'[n].event = event /\ logs'[n].address = a
    BY <1>2, <1>7
  <2>4. QED
    BY <2>1, <2>2, <2>3
<1>11. QED
  BY <1>5, <1>6, <1>9, <1>10

\* The lines of an event, when one line is added.
LEMMA LinesGrow ==
    ASSUME TypeOK, NEW event \in Event, NEW d \in Device, NEW a \in Int, NEW v \in Nat,
           Log(event, d, a, v)
    PROVE  \A e \in Event :
              /\ Cardinality(Lines(e)) \in Nat
              /\ Cardinality(Lines(e))' =
                     Cardinality(Lines(e)) + (IF e = event THEN 1 ELSE 0)
<1> TAKE e \in Event
<1>1. Len(logs) \in Nat /\ Len(logs') = Len(logs) + 1
  BY LogGrows
<1>2. logs'[Len(logs) + 1].event = event
  <2>1. logs'[Len(logs) + 1] = Line(event, d, a, v)
    BY LogGrows
  <2>2. QED
    BY <2>1 DEF Line
<1>3. \A k \in 1 .. Len(logs) : logs'[k] = logs[k]
  BY LogGrows
<1>4. Lines(e)' = IF e = event THEN Lines(e) \cup {Len(logs) + 1} ELSE Lines(e)
  BY <1>1, <1>2, <1>3 DEF Lines
<1>5. IsFiniteSet(Lines(e))
  <2>1. Lines(e) \subseteq 1 .. Len(logs)
    BY DEF Lines
  <2>2. IsFiniteSet(1 .. Len(logs))
    BY <1>1, FS_Interval
  <2>3. QED
    BY <2>1, <2>2, FS_Subset
<1>6. Len(logs) + 1 \notin Lines(e)
  BY <1>1 DEF Lines
<1>7. QED
  BY <1>4, <1>5, <1>6, FS_AddElement, FS_CardinalityType

\* What every call does: one line is logged, its counter goes up, and what the line
\* says is what happened to the devices, under the flags they had.
Logged(event, d, a, v) ==
    /\ Log(event, d, a, v)
    /\ invalidAddressErrors' =
           invalidAddressErrors + (IF event = "InvalidAddress" THEN 1 ELSE 0)
    /\ writeProtectionErrors' =
           writeProtectionErrors + (IF event = "Protected" THEN 1 ELSE 0)
    /\ bitFlipErrors' = bitFlipErrors + (IF event = "Corrupted" THEN 1 ELSE 0)
    /\ IF event = "Write"
       THEN /\ a \in Cell /\ v \in Values
            /\ memory' = [memory EXCEPT ![d][a] = v]
            /\ d # "EPROM"
            /\ d = "PROM" => ~ programmed
            /\ d = "FlashMemory" => ~ writeProtected[a]
       ELSE UNCHANGED memory
    /\ event = "Protected" =>
           \/ d = "PROM" /\ programmed
           \/ d = "FlashMemory" /\ a \in Cell /\ writeProtected[a]
    /\ programmed' = IF event = "Write" /\ d = "PROM" THEN TRUE ELSE programmed
    /\ IF event = "BlockProtected"
       THEN a \in Cell /\ writeProtected' = [writeProtected EXCEPT ![a] = TRUE]
       ELSE UNCHANGED writeProtected
    /\ event = "Read" => a \in Cell /\ v = memory[d][a]
    /\ event = "Corrupted" =>
           a \in Cell /\ \E bit \in Bits : v = FlipBit(memory[d][a], bit)

\* Such a step keeps the invariant.
LEMMA LoggedIInv ==
    ASSUME IInv,
           NEW event \in Event, NEW d \in Device, NEW a \in Int, NEW v \in Nat,
           Logged(event, d, a, v)
    PROVE  IInv'
<1> USE DEF Logged
<1>0. PICK n : n = Len(logs)
  OBVIOUS
<1>1. /\ n \in Nat /\ Len(logs') = n + 1
      /\ logs'[n + 1] = Line(event, d, a, v)
      /\ \A k \in 1 .. n : logs'[k] = logs[k]
  BY <1>0, LogGrows DEF IInv
<1>2. /\ \A e, b : \A k \in 1 .. n : Wrote(k, e, b)' <=> Wrote(k, e, b)
      /\ \A e, b, w : \A m \in 0 .. n : Holds(m, e, b, w) => Holds(m, e, b, w)'
  BY <1>0, PastStands DEF IInv
<1>3. /\ logs'[n + 1].event = event /\ logs'[n + 1].device = d
      /\ logs'[n + 1].address = a /\ logs'[n + 1].data = v
  BY <1>1 DEF Line
<1>4. TypeOK'
  <2>1. logs' \in Seq(LogLine)
    BY LogGrows DEF IInv
  <2>2. /\ memory' \in [Device -> [Cell -> Values \cup {0}]]
        /\ writeProtected' \in [Cell -> BOOLEAN] /\ programmed' \in BOOLEAN
    <3>1. /\ memory \in [Device -> [Cell -> Values \cup {0}]]
          /\ writeProtected \in [Cell -> BOOLEAN] /\ programmed \in BOOLEAN
      BY DEF IInv, TypeOK
    <3>2. memory' \in [Device -> [Cell -> Values \cup {0}]]
      BY <3>1
    <3>3. writeProtected' \in [Cell -> BOOLEAN]
      BY <3>1
    <3>4. QED
      BY <3>1, <3>2, <3>3
  <2>3. /\ invalidAddressErrors' \in Nat /\ writeProtectionErrors' \in Nat
        /\ bitFlipErrors' \in Nat
    BY DEF IInv, TypeOK
  <2>4. QED
    BY <2>1, <2>2, <2>3 DEF TypeOK, LogLine
<1>5. StatisticsMatchLog'
  BY LinesGrow DEF IInv, StatisticsMatchLog, Event
<1>6. MemoryMatchesLog'
  <2> SUFFICES ASSUME NEW e \in Device, NEW b \in Cell
               PROVE  Holds(Len(logs), e, b, memory[e][b])'
    BY DEF MemoryMatchesLog
  <2>1. memory \in [Device -> [Cell -> Values \cup {0}]]
    BY DEF IInv, TypeOK
  <2>2. PICK u : u = memory[e][b]
    OBVIOUS
  <2>3. Holds(n, e, b, u)
    BY <1>0, <2>2 DEF IInv, MemoryMatchesLog
  <2>4. Holds(n, e, b, u)'
    BY <1>1, <1>2, <2>3
  <2>5. CASE event = "Write" /\ d = e /\ a = b
    <3>1. memory'[e][b] = v
      BY <2>1, <2>5
    <3>2. Wrote(n + 1, e, b)'
      BY <1>3, <2>5 DEF Wrote
    <3>3. QED
      BY <1>1, <1>3, <3>1, <3>2 DEF Holds
  <2>6. CASE ~ (event = "Write" /\ d = e /\ a = b)
    <3>1. memory'[e][b] = u
      BY <2>1, <2>2, <2>6
    <3>2. ~ Wrote(n + 1, e, b)'
      BY <1>3, <2>6 DEF Wrote
    <3>3. QED
      BY <1>1, <2>4, <3>1, <3>2 DEF Holds
  <2>7. QED
    BY <2>5, <2>6
<1>7. GuardsMatchLog'
  <2>1. /\ PromWritten(Len(logs))' <=>
               PromWritten(n) \/ (event = "Write" /\ d = "PROM" /\ a \in Cell)
        /\ \A b : BlockMarked(Len(logs), b)' <=>
               BlockMarked(n, b) \/ (event = "BlockProtected" /\ a = b)
    BY <1>0, FlagsStand DEF IInv
  <2>2. /\ programmed <=> PromWritten(n)
        /\ \A b \in Cell : writeProtected[b] <=> BlockMarked(n, b)
    BY <1>0 DEF IInv, GuardsMatchLog
  <2>3. programmed' <=> PromWritten(Len(logs))'
    <3>1. event = "Write" => a \in Cell
      OBVIOUS
    <3>2. programmed' = IF event = "Write" /\ d = "PROM" THEN TRUE ELSE programmed
      OBVIOUS
    <3>3. QED
      BY <2>1, <2>2, <3>1, <3>2
  <2>4. ASSUME NEW b \in Cell PROVE writeProtected'[b] <=> BlockMarked(Len(logs), b)'
    <3>1. writeProtected \in [Cell -> BOOLEAN]
      BY DEF IInv, TypeOK
    <3>2. CASE event = "BlockProtected" /\ a = b
      BY <2>1, <3>1, <3>2
    <3>3. CASE ~ (event = "BlockProtected" /\ a = b)
      <4>1. writeProtected'[b] = writeProtected[b]
        BY <3>1, <3>3
      <4>2. QED
        BY <2>1, <2>2, <3>1, <3>3, <4>1
    <3>4. QED
      BY <3>2, <3>3
  <2>5. QED
    BY <1>1, <2>3, <2>4 DEF GuardsMatchLog
<1>8. ReadsReturnLastWrite'
  <2> SUFFICES ASSUME NEW k \in 1 .. n + 1
               PROVE  ReadRight(k)'
    BY <1>1 DEF ReadsReturnLastWrite, ReadRight
  <2>1. k - 1 \in 0 .. n
    BY <1>1
  <2>2. CASE k \in 1 .. n
    <3>1. ReadRight(k)
      BY <1>0, <2>2 DEF IInv, ReadsReturnLastWrite, ReadRight
    <3>2. logs'[k] = logs[k]
      BY <1>1, <2>2
    <3>3. QED
      BY <1>2, <2>1, <3>1, <3>2 DEF ReadRight
  <2>3. CASE k = n + 1
    <3>1. k - 1 = n
      BY <1>1, <2>3
    <3>2. PICK u : u = memory[d][a]
      OBVIOUS
    <3>3. a \in Cell => Holds(n, d, a, u)' /\ u \in Values \cup {0}
      <4>1. a \in Cell => Holds(n, d, a, u) /\ u \in Values \cup {0}
        BY <1>0, <3>2 DEF IInv, MemoryMatchesLog, TypeOK
      <4>2. QED
        BY <1>1, <1>2, <4>1
    <3>4. QED
      BY <1>3, <2>3, <3>1, <3>2, <3>3 DEF ReadRight
  <2>4. QED
    BY <1>1, <2>2, <2>3
<1>9. ProtectionHolds'
  <2> SUFFICES ASSUME NEW k \in 1 .. n + 1
               PROVE  GuardedRight(k)'
    BY <1>1 DEF ProtectionHolds, GuardedRight
  <2>1. k - 1 \in 0 .. n
    BY <1>1
  <2>2. /\ PromWritten(k - 1)' <=> PromWritten(k - 1)
        /\ \A b : BlockMarked(k - 1, b)' <=> BlockMarked(k - 1, b)
    BY <1>0, <2>1, FlagsStand DEF IInv
  <2>3. CASE k \in 1 .. n
    <3>1. GuardedRight(k)
      BY <1>0, <2>3 DEF IInv, ProtectionHolds, GuardedRight
    <3>2. logs'[k] = logs[k]
      BY <1>1, <2>3
    <3>3. QED
      BY <2>2, <3>1, <3>2 DEF GuardedRight
  <2>4. CASE k = n + 1
    <3>1. k - 1 = n
      BY <1>1, <2>4
    <3>2. /\ programmed <=> PromWritten(k - 1)'
          /\ \A b \in Cell : writeProtected[b] <=> BlockMarked(k - 1, b)'
      BY <1>0, <2>2, <3>1 DEF IInv, GuardsMatchLog
    <3>3. event = "Write" => /\ a \in Cell /\ d # "EPROM"
                             /\ d = "PROM" => ~ programmed
                             /\ d = "FlashMemory" => ~ writeProtected[a]
      OBVIOUS
    <3>4. event = "Protected" =>
              \/ d = "PROM" /\ programmed
              \/ d = "FlashMemory" /\ a \in Cell /\ writeProtected[a]
      OBVIOUS
    <3>5. /\ logs'[k].event = event /\ logs'[k].device = d
          /\ logs'[k].address = a
      BY <1>3, <2>4
    <3>6. QED
      BY <3>2, <3>3, <3>4, <3>5 DEF GuardedRight
  <2>5. QED
    BY <1>1, <2>3, <2>4
<1>10. QED
  BY <1>4, <1>5, <1>6, <1>7, <1>8, <1>9 DEF IInv

\* The store of a write that passed its checks is one.
LEMMA StoreLogs ==
    ASSUME IInv, NEW d \in Device \ {"EPROM"}, NEW a \in Cell, NEW v \in Values,
           Store(d, a, v),
           UNCHANGED writeProtected,
           d = "PROM" => ~ programmed,
           d = "FlashMemory" => ~ writeProtected[a],
           programmed' = IF d = "PROM" THEN TRUE ELSE programmed
    PROVE  Logged("Write", d, a, v)
  BY DEF Store, counters, Logged, IInv, TypeOK

\* Every call of a device is such a step.
LEMMA CallLogs ==
    ASSUME IInv, Next
    PROVE  \/ Exit
           \/ \E event \in Event, e \in Device, b \in Int, w \in Nat :
                  Logged(event, e, b, w)
<1> DEFINE Goal == \E event \in Event, e \in Device, b \in Int, w \in Nat :
                       Logged(event, e, b, w)
<1>1. /\ Addresses \subseteq Int /\ Values \subseteq Nat /\ 0 \in Int /\ 0 \in Nat
      /\ Bits \subseteq 0 .. 7
      /\ invalidAddressErrors \in Nat /\ writeProtectionErrors \in Nat
      /\ bitFlipErrors \in Nat /\ programmed \in BOOLEAN
      /\ \A b \in Cell, e \in Device : memory[e][b] \in Nat
  <2>1. \A b \in Cell, e \in Device : memory[e][b] \in Values \cup {0}
    BY DEF IInv, TypeOK
  <2>2. /\ invalidAddressErrors \in Nat /\ writeProtectionErrors \in Nat
        /\ bitFlipErrors \in Nat /\ programmed \in BOOLEAN
    BY DEF IInv, TypeOK
  <2>3. Addresses \subseteq Int /\ Values \subseteq Nat /\ Bits \subseteq 0 .. 7
    BY MemoryInputs
  <2>4. Values \cup {0} \subseteq Nat /\ 0 \in Int /\ 0 \in Nat
    BY <2>3
  <2>5. \A b \in Cell, e \in Device : memory[e][b] \in Nat
    BY <2>1, <2>4, Zenon
  <2>6. QED
    BY <2>2, <2>3, <2>4, <2>5, Zenon
<1>2. /\ {"TTLLRAM", "PROM", "EPROM", "FlashMemory"} \subseteq Device
      /\ Event = {"Read", "Corrupted", "Write", "InvalidAddress", "Protected",
                  "NotAllowed", "Erased", "BlockProtected"}
  BY DEF Device, Event
<1>3. ASSUME NEW d \in Device, NEW a \in Addresses, InvalidAddress(d, a) PROVE Goal
  <2>1. Logged("InvalidAddress", d, a, 0)
    BY <1>1, <1>3 DEF InvalidAddress, CountInvalidAddress, Logged
  <2>2. QED
    BY <1>1, <1>2, <2>1
<1>4. ASSUME NEW d \in Device, NEW a \in Addresses, Read(d, a) PROVE Goal
  <2>1. CASE a \in Cell /\ Log("Read", d, a, memory[d][a]) /\ ~ InvalidAddress(d, a)
    <3>1. Logged("Read", d, a, memory[d][a])
      BY <1>1, <1>4, <2>1 DEF Read, Logged, counters
    <3>2. QED
      BY <1>1, <1>2, <2>1, <3>1
  <2>2. QED
    BY <1>1, <1>2, <1>3, <1>4, <2>1 DEF Read
<1>5. ASSUME NEW a \in Addresses, ReadCorrupted(a) PROVE Goal
  <2>1. PICK bit \in Bits :
            Log("Corrupted", "TTLLRAM", a, FlipBit(memory["TTLLRAM"][a], bit))
    BY <1>5 DEF ReadCorrupted
  <2>2. FlipBit(memory["TTLLRAM"][a], bit) \in Nat
    BY <1>1, <1>2, <1>5, FlipBitType DEF ReadCorrupted
  <2>3. Logged("Corrupted", "TTLLRAM", a, FlipBit(memory["TTLLRAM"][a], bit))
    BY <1>1, <1>5, <2>1 DEF ReadCorrupted, CountBitFlip, Logged
  <2>4. QED
    BY <1>1, <1>2, <2>2, <2>3
<1>6. ASSUME NEW d \in Device, NEW a \in Addresses, NEW v \in Values,
             WriteRam(d, a, v)
      PROVE  Goal
  <2>1. CASE InvalidAddress(d, a)
    BY <1>1, <1>2, <1>3, <2>1
  <2>2. CASE a \in Cell /\ Store(d, a, v) /\ UNCHANGED <<programmed, writeProtected>>
    BY <1>1, <1>2, <1>6, <2>2, StoreLogs DEF WriteRam
  <2>3. QED
    BY <1>6, <2>1, <2>2 DEF WriteRam
<1>7. ASSUME NEW a \in Addresses, NEW v \in Values, WriteProm(a, v) PROVE Goal
  <2>1. CASE programmed
    <3>1. /\ Log("Protected", "PROM", a, 0) /\ CountWriteProtection
          /\ UNCHANGED <<memory, programmed, writeProtected>>
      BY <1>7, <2>1 DEF WriteProm, InvalidAddress
    <3>2. Logged("Protected", "PROM", a, 0)
      BY <1>1, <2>1, <3>1 DEF CountWriteProtection, Logged
    <3>3. QED
      BY <1>1, <1>2, <3>2
  <2>2. CASE InvalidAddress("PROM", a)
    BY <1>1, <1>2, <1>3, <2>2
  <2>3. CASE ~ programmed /\ a \in Cell /\ Store("PROM", a, v) /\ programmed' = TRUE
             /\ UNCHANGED writeProtected
    BY <1>1, <1>2, <2>3, StoreLogs
  <2>4. QED
    BY <1>7, <2>1, <2>2, <2>3 DEF WriteProm
<1>8. ASSUME NEW a \in Addresses, WriteEprom(a) PROVE Goal
  <2>1. Logged("NotAllowed", "EPROM", a, 0)
    BY <1>1, <1>8 DEF WriteEprom, Logged, counters
  <2>2. QED
    BY <1>1, <1>2, <2>1
<1>11. CASE EraseEprom
  <2>1. Logged("Erased", "EPROM", 0, 0)
    BY <1>1, <1>11 DEF EraseEprom, Logged, counters
  <2>2. QED
    BY <1>1, <1>2, <2>1
<1>9. ASSUME NEW a \in Addresses, ProtectBlock(a) PROVE Goal
  <2>1. CASE InvalidAddress("FlashMemory", a)
    BY <1>1, <1>2, <1>3, <2>1
  <2>2. CASE ~ InvalidAddress("FlashMemory", a)
    <3>1. Logged("BlockProtected", "FlashMemory", a, 0)
      BY <1>1, <1>9, <2>2 DEF ProtectBlock, Logged, counters
    <3>2. QED
      BY <1>1, <1>2, <3>1
  <2>3. QED
    BY <2>1, <2>2
<1>10. ASSUME NEW a \in Addresses, NEW v \in Values, WriteFlash(a, v) PROVE Goal
  <2>1. CASE InvalidAddress("FlashMemory", a)
    BY <1>1, <1>2, <1>3, <2>1
  <2>2. CASE ~ InvalidAddress("FlashMemory", a) /\ writeProtected[a]
    <3>1. Logged("Protected", "FlashMemory", a, 0)
      BY <1>1, <1>10, <2>2 DEF WriteFlash, CountWriteProtection, Logged
    <3>2. QED
      BY <1>1, <1>2, <3>1
  <2>3. CASE ~ InvalidAddress("FlashMemory", a) /\ ~ writeProtected[a]
    BY <1>1, <1>2, <1>10, <2>3, StoreLogs DEF WriteFlash
  <2>4. QED
    BY <2>1, <2>2, <2>3
<1>12. QED
  BY <1>4, <1>5, <1>6, <1>7, <1>8, <1>9, <1>10, <1>11 DEF Next

\* Nothing is logged and nothing is stored to begin with.
LEMMA InitIInv == Init => IInv
<1> SUFFICES ASSUME Init PROVE IInv
  OBVIOUS
<1>1. /\ Len(logs) = 0 /\ logs \in Seq(LogLine)
      /\ \A e : Lines(e) = {}
  BY DEF Init, Lines
<1>2. TypeOK
  BY <1>1 DEF Init, TypeOK, LogLine
<1>3. StatisticsMatchLog
  BY <1>1, FS_EmptySet DEF Init, StatisticsMatchLog
<1>4. MemoryMatchesLog
  BY <1>1 DEF Init, MemoryMatchesLog, Holds
<1>5. GuardsMatchLog /\ ReadsReturnLastWrite /\ ProtectionHolds
  <2>1. 1 .. 0 = {}
    OBVIOUS
  <2>2. ~ PromWritten(Len(logs)) /\ \A a : ~ BlockMarked(Len(logs), a)
    BY <1>1, <2>1 DEF PromWritten, BlockMarked
  <2>3. GuardsMatchLog
    BY <2>2 DEF Init, GuardsMatchLog
  <2>4. ReadsReturnLastWrite /\ ProtectionHolds
    BY <1>1, <2>1 DEF ReadsReturnLastWrite, ProtectionHolds
  <2>5. QED
    BY <2>3, <2>4
<1>6. QED
  BY <1>2, <1>3, <1>4, <1>5 DEF IInv

\* No step leaves the invariant.
LEMMA NextIInv == IInv /\ [Next]_vars => IInv'
<1> SUFFICES ASSUME IInv, [Next]_vars PROVE IInv'
  OBVIOUS
<1>1. CASE UNCHANGED vars
  <2>1. TypeOK'
    BY <1>1 DEF IInv, TypeOK, vars, counters
  <2>2. StatisticsMatchLog'
    BY <1>1 DEF IInv, StatisticsMatchLog, Lines, vars, counters
  <2>3. MemoryMatchesLog'
    BY <1>1 DEF IInv, MemoryMatchesLog, Holds, Wrote, vars
  <2>4. GuardsMatchLog'
    BY <1>1 DEF IInv, GuardsMatchLog, PromWritten, BlockMarked, Wrote, vars
  <2>5. ReadsReturnLastWrite'
    BY <1>1 DEF IInv, ReadsReturnLastWrite, Holds, Wrote, vars
  <2>6. ProtectionHolds'
    BY <1>1 DEF IInv, ProtectionHolds, PromWritten, BlockMarked, Wrote, vars
  <2>7. QED
    BY <2>1, <2>2, <2>3, <2>4, <2>5, <2>6 DEF IInv
<1>2. CASE \E event \in Event, e \in Device, b \in Int, w \in Nat : Logged(event, e, b, w)
  BY <1>2, LoggedIInv
<1>3. CASE Exit
  BY <1>1, <1>3 DEF Exit
<1>4. QED
  BY <1>1, <1>2, <1>3, CallLogs

\* The inductive invariant holds of every sequence of calls.
THEOREM Invariant == Spec => []IInv
  BY InitIInv, NextIInv, PTL DEF Spec

\* The statistics printed at the end are those of the log, on devices of any size.
THEOREM Statistics == Spec => []MemoryInv
<1>1. IInv => MemoryInv
  BY DEF IInv, MemoryInv
<1>2. QED
  BY <1>1, Invariant, PTL

\* Every logged read returned the last value written to its cell.
THEOREM ReadLastWrite == Spec => []ReadsReturnLastWrite
<1>1. IInv => ReadsReturnLastWrite
  BY DEF IInv
<1>2. QED
  BY <1>1, Invariant, PTL

\* No write is stored where the PROM, the EPROM or a protected block forbids it, and
\* a protection error is only ever logged for one of these.
THEOREM Protection == Spec => []ProtectionHolds
<1>1. IInv => ProtectionHolds
  BY DEF IInv
<1>2. QED
  BY <1>1, Invariant, PTL
=============================================================================
