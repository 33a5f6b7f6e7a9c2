------------------------------- MODULE Pipeline -------------------------------
(***************************************************************************)
(* The instruction pipeline of src/Pipeline.cpp, with the program main()   *)
(* loads.  clockCycle is only printed and is left out.  A register or a    *)
(* memory cell that was never written reads as 0.  pipelineRegister has no *)
(* elements once it is flushed; the next cycle would index it all the same.*)
(***************************************************************************)
EXTENDS Integers, Sequences

\* The constructor's pipelineStages: nothing ever changes it.
pipelineStages == <<"FETCH", "DECODE", "EXECUTE", "MEMORY", "WRITEBACK">>
FETCH     == 1
DECODE    == 2
EXECUTE   == 3
MEMORY    == 4
WRITEBACK == 5

Instruction(op, a, b, dest, mode) ==
    [operation |-> op, operand1 |-> a, operand2 |-> b, destination |-> dest,
     addressingMode |-> mode]

Empty == Instruction("", 0, 0, 0, "")

\* R0 = 5 + 10; R1 = R0 - R0; R2 = Mem[100]; a store; a branch.
instructions == << Instruction("ADD", 5, 10, 0, "Immediate"),
                   Instruction("SUB", 0, 0, 1, "Register"),
                   Instruction("LOAD", 100, 0, 2, "Memory"),
                   Instruction("STORE", 2, 0, 200, "Memory"),
                   Instruction("BRANCH", 0, 0, 0, "Control") >>

Cell == UNION {{p.operand1, p.operand2, p.destination} :
               p \in {instructions[k] : k \in DOMAIN instructions}}

VARIABLES instructionQueue,
          pipelineRegister,    \* per stage, its instruction
          prevInstruction,
          registers, memory,   \* per cell
          flags                \* Zero, Negative, Carry

vars == <<instructionQueue, pipelineRegister, prevInstruction, registers, memory, flags>>

Init == /\ instructionQueue = instructions
        /\ pipelineRegister = [s \in DOMAIN pipelineStages |-> Empty]
        /\ prevInstruction = Empty
        /\ registers = [c \in Cell |-> 0]
        /\ memory = [c \in Cell |-> 0]
        /\ flags = [Zero |-> FALSE, Negative |-> FALSE, Carry |-> FALSE]

\* The three hazard tests, the first of which looks at the stages' names.
StructuralHazard == /\ pipelineStages[MEMORY] # "WRITEBACK"
                    /\ pipelineStages[EXECUTE] # "FETCH"
DataHazard(inst) == prevInstruction.destination \in {inst.operand1, inst.operand2}
ControlHazard(inst) == inst.operation = "BRANCH"

Result(inst) ==
    LET is(mode, op) == inst.addressingMode = mode /\ inst.operation = op
    IN  CASE is("Immediate", "ADD") -> inst.operand1 + inst.operand2
          [] is("Immediate", "SUB") -> inst.operand1 - inst.operand2
          [] is("Register", "ADD")  -> registers[inst.operand1] + registers[inst.operand2]
          [] is("Register", "SUB")  -> registers[inst.operand1] - registers[inst.operand2]
          [] is("Memory", "LOAD")   -> memory[inst.operand1]
          [] OTHER                  -> 0

ExecuteInstruction(inst) ==
    LET result == Result(inst)
    IN  /\ memory' = IF inst.addressingMode = "Memory" /\ inst.operation = "STORE"
                     THEN [memory EXCEPT ![inst.operand1] = registers[inst.operand2]]
                     ELSE memory
        /\ registers' = [registers EXCEPT ![inst.destination] = result]
        /\ flags' = [Zero |-> result = 0, Negative |-> result < 0, Carry |-> result > 255]

\* One turn of runPipeline()'s loop: fetch, then the first hazard ends the cycle;
\* without one the instruction in EXECUTE is executed and the stages move up.
Cycle ==
    LET waiting == instructionQueue # <<>>
        fetched == IF waiting
                   THEN [pipelineRegister EXCEPT ![FETCH] = Head(instructionQueue)]
                   ELSE pipelineRegister
        stalls == StructuralHazard \/ DataHazard(fetched[DECODE])
    IN  /\ pipelineRegister # <<>>
        /\ instructionQueue' = IF waiting THEN Tail(instructionQueue) ELSE <<>>
        /\ \/ /\ stalls
              /\ pipelineRegister' = fetched
              /\ UNCHANGED <<prevInstruction, registers, memory, flags>>
           \/ /\ ~ stalls /\ ControlHazard(fetched[DECODE])
              /\ pipelineRegister' = <<>>
              /\ UNCHANGED <<prevInstruction, registers, memory, flags>>
           \/ /\ ~ stalls /\ ~ ControlHazard(fetched[DECODE])
              /\ ExecuteInstruction(fetched[EXECUTE])
              /\ pipelineRegister' =
                    [s \in DOMAIN fetched |-> IF s \in {FETCH, DECODE} THEN fetched[FETCH]
                                              ELSE IF s = WRITEBACK THEN Empty
                                              ELSE fetched[s - 1]]
              /\ prevInstruction' = fetched[MEMORY]

Spec == Init /\ [][Cycle]_vars

\* runPipeline() waits for nothing.
FairSpec == Spec /\ WF_vars(Cycle)

-----------------------------------------------------------------------------

\* src/Pipeline.cpp:181, "R0 = 5 + 10": the first instruction of the program gets
\* executed some time.
FirstExecuted == <>(registers[0] = 15)
=============================================================================
