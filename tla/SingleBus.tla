----------------------------- MODULE SingleBus -----------------------------
(***************************************************************************)
(* The processor of src/SingleBus.cpp: one action per control signal of    *)
(* executeInstruction() that changes state, and defineLabel().  DECODE and *)
(* EXECUTE only print, as do a branch to an unknown label and a load or    *)
(* store at an address that is not there.                                  *)
(***************************************************************************)
EXTENDS Datapath

VARIABLES registers, memory, programCounter, instructionRegister, aluResult,
          labelAddress    \* label -> address, for the labels defined so far

vars == <<registers, memory, programCounter, instructionRegister, aluResult,
          labelAddress>>

Init == /\ registers = [r \in Register |-> 0]
        /\ memory = [a \in Cell |-> 0]
        /\ programCounter = 0
        /\ instructionRegister = 0
        /\ aluResult = 0
        /\ labelAddress = [l \in {} |-> 0]

\* defineLabel(): a label may be moved.
DefineLabel(l, a) ==
    /\ labelAddress' = [k \in DOMAIN labelAddress \cup {l} |->
                            IF k = l THEN a ELSE labelAddress[k]]
    /\ UNCHANGED <<registers, memory, programCounter, instructionRegister,
                   aluResult>>

\* LOAD_REG: transferBetweenRegisters()
LoadReg(src, dest) ==
    /\ registers' = [registers EXCEPT ![dest] = registers[src]]
    /\ UNCHANGED <<memory, programCounter, instructionRegister, aluResult,
                   labelAddress>>

\* PERFORM_ALU
PerformALU(op, a, b, dest) ==
    /\ aluResult' = ALU(op, registers[a], registers[b])
    /\ registers' = [registers EXCEPT ![dest] = aluResult']
    /\ UNCHANGED <<memory, programCounter, instructionRegister, labelAddress>>

\* LOAD_MEMORY: fetchWordFromMemory()
LoadMemory(a, dest) ==
    /\ a \in Cell
    /\ registers' = [registers EXCEPT ![dest] = memory[a]]
    /\ UNCHANGED <<memory, programCounter, instructionRegister, aluResult,
                   labelAddress>>

\* STORE_MEMORY: storeWordInMemory()
StoreMemory(src, a) ==
    /\ a \in Cell
    /\ memory' = [memory EXCEPT ![a] = registers[src]]
    /\ UNCHANGED <<registers, programCounter, instructionRegister, aluResult,
                   labelAddress>>

\* FETCH_INSTRUCTION: the word goes to the register the IR numbers, not to the IR;
\* the PC moves on even where there is no memory.
Fetch == /\ programCounter < MaxPC
         /\ registers' = IF programCounter \in Cell
                         THEN [registers EXCEPT ![instructionRegister] =
                                   memory[programCounter]]
                         ELSE registers
         /\ programCounter' = programCounter + 1
         /\ UNCHANGED <<memory, instructionRegister, aluResult, labelAddress>>

\* BRANCH
Branch(l) == /\ l \in DOMAIN labelAddress
             /\ programCounter' = labelAddress[l]
             /\ UNCHANGED <<registers, memory, instructionRegister, aluResult,
                            labelAddress>>

Next == \/ \E l \in Labels, a \in LabelAddresses : DefineLabel(l, a)
        \/ \E src, dest \in Register : LoadReg(src, dest)
        \/ \E op \in ALUOperation, a, b, dest \in Register :
               PerformALU(op, a, b, dest)
        \/ \E a \in Addresses, dest \in Register : LoadMemory(a, dest)
        \/ \E src \in Register, a \in Addresses : StoreMemory(src, a)
        \/ Fetch
        \/ \E l \in Labels : Branch(l)

Spec == Init /\ [][Next]_vars
=============================================================================
