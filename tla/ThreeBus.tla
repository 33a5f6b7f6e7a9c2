------------------------------ MODULE ThreeBus ------------------------------
(***************************************************************************)
(* The processor of src/ThreeBus.cpp: that of src/SingleBus.cpp with a     *)
(* data, an address and a control bus that hold what last went over them.  *)
(* It implements SingleBus.                                                *)
(***************************************************************************)
EXTENDS Datapath

VARIABLES registers, memory, programCounter, instructionRegister, aluResult,
          labelAddress, dataBus, addressBus, controlBus,
          lastTarget,  \* history: where the last BRANCH went, 0 before the first
          fetches      \* history: FETCH_INSTRUCTIONs since

buses == <<dataBus, addressBus, controlBus>>
history == <<lastTarget, fetches>>
vars == <<registers, memory, programCounter, instructionRegister, aluResult,
          labelAddress, buses, history>>

Init == /\ registers = [r \in Register |-> 0]
        /\ memory = [a \in Cell |-> 0]
        /\ programCounter = 0
        /\ instructionRegister = 0
        /\ aluResult = 0
        /\ labelAddress = [l \in {} |-> 0]
        /\ dataBus = 0
        /\ addressBus = 0
        /\ controlBus = 0
        /\ lastTarget = 0
        /\ fetches = 0

\* defineLabel(): a label may be moved.
DefineLabel(l, a) ==
    /\ labelAddress' = [k \in DOMAIN labelAddress \cup {l} |->
                            IF k = l THEN a ELSE labelAddress[k]]
    /\ UNCHANGED <<registers, memory, programCounter, instructionRegister,
                   aluResult, buses, history>>

\* LOAD_REG: transferBetweenRegisters(), by way of the data bus.
LoadReg(src, dest) ==
    /\ dataBus' = registers[src]
    /\ registers' = [registers EXCEPT ![dest] = dataBus']
    /\ UNCHANGED <<memory, programCounter, instructionRegister, aluResult,
                   labelAddress, addressBus, controlBus, history>>

\* PERFORM_ALU: no bus carries the operands or the result.
PerformALU(op, a, b, dest) ==
    /\ aluResult' = ALU(op, registers[a], registers[b])
    /\ registers' = [registers EXCEPT ![dest] = aluResult']
    /\ UNCHANGED <<memory, programCounter, instructionRegister, labelAddress,
                   buses, history>>

\* fetchWordFromMemory() at an address that is there.
FetchWord(a, dest) == /\ addressBus' = a
                      /\ dataBus' = memory[addressBus']
                      /\ registers' = [registers EXCEPT ![dest] = dataBus']

\* LOAD_MEMORY
LoadMemory(a, dest) ==
    /\ a \in Cell
    /\ FetchWord(a, dest)
    /\ UNCHANGED <<memory, programCounter, instructionRegister, aluResult,
                   labelAddress, controlBus, history>>

\* Mutants of StoreMemory: the word on the data bus is stored, or its address is
\* that of the last access.
StoreMemoryOldData(src, a) ==
    /\ a \in Cell
    /\ addressBus' = a
    /\ memory' = [memory EXCEPT ![a] = dataBus]
    /\ dataBus' = registers[src]
    /\ UNCHANGED <<registers, programCounter, instructionRegister, aluResult,
                   labelAddress, controlBus, history>>

StoreMemoryOffBus(src, a) ==
    /\ a \in Cell
    /\ dataBus' = registers[src]
    /\ memory' = [memory EXCEPT ![a] = dataBus']
    /\ UNCHANGED <<registers, programCounter, instructionRegister, aluResult,
                   labelAddress, addressBus, controlBus, history>>

\* STORE_MEMORY: storeWordInMemory()
StoreMemory(src, a) ==
    /\ a \in Cell
    /\ addressBus' = a
    /\ dataBus' = registers[src]
    /\ memory' = [memory EXCEPT ![addressBus'] = dataBus']
    /\ UNCHANGED <<registers, programCounter, instructionRegister, aluResult,
                   labelAddress, controlBus, history>>

\* FETCH_INSTRUCTION: the word goes to the register the IR numbers, not to the IR;
\* the PC moves on even where there is no memory.
Fetch == /\ programCounter < MaxPC
         /\ IF programCounter \in Cell
            THEN FetchWord(programCounter, instructionRegister)
            ELSE UNCHANGED <<registers, dataBus, addressBus>>
         /\ programCounter' = programCounter + 1
         /\ fetches' = fetches + 1
         /\ UNCHANGED <<memory, instructionRegister, aluResult, labelAddress,
                        controlBus, lastTarget>>

\* Mutant of Branch: the control bus still has the last target.
BranchLate(l) == /\ l \in DOMAIN labelAddress
                 /\ controlBus' = programCounter
                 /\ programCounter' = labelAddress[l]
                 /\ lastTarget' = labelAddress[l] /\ fetches' = 0
                 /\ UNCHANGED <<registers, memory, instructionRegister, aluResult,
                                labelAddress, dataBus, addressBus>>

\* BRANCH
Branch(l) == /\ l \in DOMAIN labelAddress
             /\ programCounter' = labelAddress[l]
             /\ controlBus' = programCounter'
             /\ lastTarget' = labelAddress[l] /\ fetches' = 0
             /\ UNCHANGED <<registers, memory, instructionRegister, aluResult,
                            labelAddress, dataBus, addressBus>>

Next == \/ \E l \in Labels, a \in LabelAddresses : DefineLabel(l, a)
        \/ \E src, dest \in Register : LoadReg(src, dest)
        \/ \E op \in ALUOperation, a, b, dest \in Register :
               PerformALU(op, a, b, dest)
        \/ \E a \in Addresses, dest \in Register : LoadMemory(a, dest)
        \/ \E src \in Register, a \in Addresses : StoreMemory(src, a)
        \/ Fetch
        \/ \E l \in Labels : Branch(l)

Spec == Init /\ [][Next]_vars

-----------------------------------------------------------------------------

\* Every variable has its type.
TypeOK == /\ registers \in [Register -> Word]
          /\ memory \in [Cell -> Word]
          /\ programCounter \in Int
          /\ instructionRegister \in Register
          /\ aluResult \in Word
          /\ DOMAIN labelAddress \subseteq Labels
          /\ \A l \in DOMAIN labelAddress : labelAddress[l] \in LabelAddresses
          /\ dataBus \in Word
          /\ addressBus \in Cell \cup {0}
          /\ controlBus \in LabelAddresses \cup {0}
          /\ lastTarget \in LabelAddresses \cup {0}
          /\ fetches \in Nat

\* The control bus holds the target of the last jump, even when its label has been
\* moved since, and the PC is past it by exactly the fetches made since.
ControlBusIsLastTarget == /\ controlBus = lastTarget
                          /\ programCounter = controlBus + fetches

\* The inductive invariant.  FETCH_INSTRUCTION takes the instruction register for the
\* number of a register: it is still 0 whatever has been fetched.
BusInv == TypeOK /\ ControlBusIsLastTarget /\ instructionRegister = 0

\* Memory is reached over the buses: the one word a step changes is at the address
\* on the address bus and becomes what is on the data bus.
MemoryOverBuses ==
    [][memory' # memory => memory' = [memory EXCEPT ![addressBus'] = dataBus']]_vars

\* Whatever the buses carry, registers, memory and PC behave as the single-bus
\* processor's do.
Single == INSTANCE SingleBus
SingleBusSpec == Single!Spec
=============================================================================
