--------------------------- MODULE MemoryDevices ---------------------------
(***************************************************************************)
(* The memory devices of src/Memory.cpp and the Logger they share.         *)
(*                                                                         *)
(* Eight devices, one object of each class, are driven by calls in any     *)
(* order; all they tell the caller goes to the one Logger, as log lines    *)
(* and three error counters.  A log line is a record: what happened, on    *)
(* which device, at which address, with which data.  saveLogsToFile() and  *)
(* the printing functions only read the Logger and are left out.           *)
(*                                                                         *)
(* EEPROM::read lacks its closing brace in the source; the model is of the *)
(* class with that brace.                                                  *)
(***************************************************************************)
EXTENDS Integers, Sequences, FiniteSets

CONSTANTS Size,        \* cells of each device
          Addresses,   \* the addresses calls are made with, in range or not
          Values,      \* the data written
          Bits,        \* the bits a read of the TTL RAM may find flipped
          MaxLog       \* bound: calls made

ASSUME MemoryInputs == /\ Size \in Nat \ {0}
                       /\ Addresses \subseteq Int
                       /\ Values \subseteq Nat
                       /\ Bits \subseteq 0 .. 7
                       /\ MaxLog \in Nat

Cell == 0 .. Size - 1
Device == {"TTLLRAM", "MOSRAM", "SDRAM", "ADRAM", "PROM", "EPROM", "EEPROM",
           "FlashMemory"}

VARIABLES memory,           \* per device: its cells
          programmed,       \* PROM: written once
          writeProtected,   \* FlashMemory: per cell
          logs,             \* Logger: lines, oldest first
          invalidAddressErrors,
          writeProtectionErrors,
          bitFlipErrors

counters == <<invalidAddressErrors, writeProtectionErrors, bitFlipErrors>>
vars == <<memory, programmed, writeProtected, logs, counters>>

Event == {"Read", "Corrupted", "Write", "InvalidAddress", "Protected",
          "NotAllowed", "Erased", "BlockProtected"}

Line(event, d, a, v) ==
    [event |-> event, device |-> d, address |-> a, data |-> v]

Init == /\ memory = [d \in Device |-> [a \in Cell |-> 0]]
        /\ programmed = FALSE
        /\ writeProtected = [a \in Cell |-> FALSE]
        /\ logs = <<>>
        /\ invalidAddressErrors = 0
        /\ writeProtectionErrors = 0
        /\ bitFlipErrors = 0

\* Logger::logOperation()
Log(event, d, a, v) == /\ Len(logs) < MaxLog
                       /\ logs' = Append(logs, Line(event, d, a, v))

\* incrementInvalidAddressError() and its two siblings.
CountInvalidAddress == /\ invalidAddressErrors' = invalidAddressErrors + 1
                       /\ UNCHANGED <<writeProtectionErrors, bitFlipErrors>>
CountWriteProtection == /\ writeProtectionErrors' = writeProtectionErrors + 1
                        /\ UNCHANGED <<invalidAddressErrors, bitFlipErrors>>
CountBitFlip == /\ bitFlipErrors' = bitFlipErrors + 1
                /\ UNCHANGED <<invalidAddressErrors, writeProtectionErrors>>

\* d ^ (1 << bit)
FlipBit(d, bit) == IF (d \div 2^bit) % 2 = 0 THEN d + 2^bit ELSE d - 2^bit

\* The range check every read(), every write() but PROM's and EPROM's, and
\* protectBlock() start with.
InvalidAddress(d, a) == /\ a \notin Cell
                        /\ Log("InvalidAddress", d, a, 0)
                        /\ CountInvalidAddress
                        /\ UNCHANGED <<memory, programmed, writeProtected>>

-----------------------------------------------------------------------------

\* read() of every device.
Read(d, a) == \/ InvalidAddress(d, a)
              \/ /\ a \in Cell
                 /\ Log("Read", d, a, memory[d][a])
                 /\ UNCHANGED <<memory, programmed, writeProtected, counters>>

\* TTLLRAM::read(): one read in ten returns the cell with a bit flipped; the
\* cell itself keeps its value.
ReadCorrupted(a) ==
    /\ a \in Cell
    /\ \E bit \in Bits :
           Log("Corrupted", "TTLLRAM", a, FlipBit(memory["TTLLRAM"][a], bit))
    /\ CountBitFlip
    /\ UNCHANGED <<memory, programmed, writeProtected>>

\* Mutant of Store: a cell that already holds data keeps it.
StoreOnce(d, a, v) ==
    /\ memory' = [memory EXCEPT ![d][a] = IF @ = 0 THEN v ELSE @]
    /\ Log("Write", d, a, v)
    /\ UNCHANGED counters

\* The store of a write() that passes its checks.
Store(d, a, v) == /\ memory' = [memory EXCEPT ![d][a] = v]
                  /\ Log("Write", d, a, v)
                  /\ UNCHANGED counters

\* write() of the RAMs and the EEPROM.
WriteRam(d, a, v) ==
    /\ d \in Device \ {"PROM", "EPROM", "FlashMemory"}
    /\ \/ InvalidAddress(d, a)
       \/ /\ a \in Cell
          /\ Store(d, a, v)
          /\ UNCHANGED <<programmed, writeProtected>>

\* Mutant of WriteProm: a wild address is logged as one and counted as a
\* protection error.
WritePromMiscounts(a, v) ==
    \/ /\ programmed \/ a \notin Cell
       /\ Log(IF a \in Cell THEN "Protected" ELSE "InvalidAddress", "PROM", a, 0)
       /\ CountWriteProtection
       /\ UNCHANGED <<memory, programmed, writeProtected>>
    \/ /\ ~ programmed
       /\ a \in Cell
       /\ Store("PROM", a, v)
       /\ programmed' = TRUE
       /\ UNCHANGED writeProtected

\* Mutant of WriteProm: the flag is set before the address is checked, so that a
\* refused write programs the device.
WritePromFlagsFirst(a, v) ==
    \/ /\ programmed
       /\ Log("Protected", "PROM", a, 0)
       /\ CountWriteProtection
       /\ UNCHANGED <<memory, programmed, writeProtected>>
    \/ /\ ~ programmed
       /\ \/ /\ a \notin Cell
             /\ Log("InvalidAddress", "PROM", a, 0)
             /\ CountInvalidAddress
             /\ UNCHANGED memory
          \/ a \in Cell /\ Store("PROM", a, v)
       /\ programmed' = TRUE
       /\ UNCHANGED writeProtected

\* PROM::write(): one cell, once.  The flag is tested before the address, so a
\* programmed PROM reports even a wild address as a protection error.
WriteProm(a, v) ==
    \/ /\ programmed
       /\ Log("Protected", "PROM", a, 0)
       /\ CountWriteProtection
       /\ UNCHANGED <<memory, programmed, writeProtected>>
    \/ /\ ~ programmed
       /\ InvalidAddress("PROM", a)
    \/ /\ ~ programmed
       /\ a \in Cell
       /\ Store("PROM", a, v)
       /\ programmed' = TRUE
       /\ UNCHANGED writeProtected

\* EPROM::write() refuses every write, EPROM::erase() changes nothing: both only
\* log, and the refusal is counted nowhere.
WriteEprom(a) == /\ Log("NotAllowed", "EPROM", a, 0)
                 /\ UNCHANGED <<memory, programmed, writeProtected, counters>>

EraseEprom == /\ Log("Erased", "EPROM", 0, 0)
              /\ UNCHANGED <<memory, programmed, writeProtected, counters>>

\* FlashMemory::protectBlock(): for good, there is no way back.
ProtectBlock(a) ==
    \/ InvalidAddress("FlashMemory", a)
    \/ /\ a \in Cell
       /\ writeProtected' = [writeProtected EXCEPT ![a] = TRUE]
       /\ Log("BlockProtected", "FlashMemory", a, 0)
       /\ UNCHANGED <<memory, programmed, counters>>

\* FlashMemory::write()
WriteFlash(a, v) ==
    \/ InvalidAddress("FlashMemory", a)
    \/ /\ a \in Cell
       /\ writeProtected[a]
       /\ Log("Protected", "FlashMemory", a, 0)
       /\ CountWriteProtection
       /\ UNCHANGED <<memory, programmed, writeProtected>>
    \/ /\ a \in Cell
       /\ ~ writeProtected[a]
       /\ Store("FlashMemory", a, v)
       /\ UNCHANGED <<programmed, writeProtected>>

\* main() has made its calls.
Exit == Len(logs) = MaxLog /\ UNCHANGED vars

Next == \/ \E d \in Device, a \in Addresses : Read(d, a)
        \/ \E a \in Addresses : ReadCorrupted(a)
        \/ \E d \in Device, a \in Addresses, v \in Values : WriteRam(d, a, v)
        \/ \E a \in Addresses, v \in Values : WriteProm(a, v)
        \/ \E a \in Addresses : WriteEprom(a)
        \/ EraseEprom
        \/ \E a \in Addresses : ProtectBlock(a)
        \/ \E a \in Addresses, v \in Values : WriteFlash(a, v)
        \/ Exit

Spec == Init /\ [][Next]_vars

-----------------------------------------------------------------------------

\* Every variable has its type.
TypeOK == /\ memory \in [Device -> [Cell -> Values \cup {0}]]
          /\ programmed \in BOOLEAN
          /\ writeProtected \in [Cell -> BOOLEAN]
          /\ logs \in Seq([event : Event, device : Device, address : Int,
                           data : Nat])
          /\ invalidAddressErrors \in Nat
          /\ writeProtectionErrors \in Nat
          /\ bitFlipErrors \in Nat

\* Line k records a write of cell a of device d.
Wrote(k, d, a) == logs[k].event = "Write" /\ logs[k].device = d
                                          /\ logs[k].address = a

\* Going by the first n lines, cell a of device d holds v: the last write of it
\* stored v, or it was never written and v is the initial 0.
Holds(n, d, a, v) ==
    \/ /\ v = 0
       /\ \A k \in 1 .. n : ~ Wrote(k, d, a)
    \/ \E k \in 1 .. n : /\ Wrote(k, d, a)
                         /\ logs[k].data = v
                         /\ \A m \in k + 1 .. n : ~ Wrote(m, d, a)

\* Whatever the calls on all devices, a logged read returns what the log says was
\* last written there, and a corrupted one that value with one bit flipped.
ReadsReturnLastWrite ==
    \A k \in 1 .. Len(logs) :
        LET l == logs[k] IN
        /\ l.event = "Read" => Holds(k - 1, l.device, l.address, l.data)
        /\ l.event = "Corrupted" =>
               \E bit \in Bits, v \in Values \cup {0} :
                   Holds(k - 1, l.device, l.address, v) /\ l.data = FlipBit(v, bit)

\* Going by the first n lines, the PROM has been programmed; block a of the flash
\* memory has been protected.
PromWritten(n) == \E k \in 1 .. n, a \in Cell : Wrote(k, "PROM", a)
BlockMarked(n, a) ==
    \E k \in 1 .. n : logs[k].event = "BlockProtected" /\ logs[k].address = a

\* What is protected stays as it is, and nothing else is refused: a write of the
\* PROM is done only if none was done before, one of a flash block only before its
\* protection, one of the EPROM never; and a protection error is logged only for a
\* PROM some earlier write did program, not one that was itself refused for its
\* address, or for a block that was protected by then.
ProtectionHolds ==
    \A k \in 1 .. Len(logs) :
        LET l == logs[k] IN
        /\ l.event = "Write" =>
               /\ l.device # "EPROM"
               /\ l.device = "PROM" => ~ PromWritten(k - 1)
               /\ l.device = "FlashMemory" => ~ BlockMarked(k - 1, l.address)
        /\ l.event = "Protected" =>
               \/ l.device = "PROM" /\ PromWritten(k - 1)
               \/ l.device = "FlashMemory" /\ BlockMarked(k - 1, l.address)

\* The lines of an event.
Lines(event) == {k \in 1 .. Len(logs) : logs[k].event = event}

\* The statistics printed at the end agree with the log printed with them.
StatisticsMatchLog ==
    /\ invalidAddressErrors = Cardinality(Lines("InvalidAddress"))
    /\ writeProtectionErrors = Cardinality(Lines("Protected"))
    /\ bitFlipErrors = Cardinality(Lines("Corrupted"))

\* Types, and the counts that go with the log.
MemoryInv == TypeOK /\ StatisticsMatchLog
=============================================================================
