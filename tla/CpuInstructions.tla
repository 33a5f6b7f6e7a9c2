-------------------------- MODULE CpuInstructions --------------------------
(***************************************************************************)
(* The per-task CPU of src/cpu_simulator.c: its registers, program counter *)
(* and stack, and execute_instruction(), the function that advances it.    *)
(*                                                                         *)
(* An instruction is the decoded form of a program line: op is the         *)
(* mnemonic, r and s the first and second register operand, v the literal  *)
(* of LOAD.  execute_instruction() scans a third operand and never uses    *)
(* it, so "ADD R2, R0, R1" is R2 = R2 + R0 and there is no third field.    *)
(* heap[] is cleared by initialize_cpu() and never touched again: left     *)
(* out.                                                                    *)
(***************************************************************************)
EXTENDS Integers, Sequences

CONSTANTS NumRegisters,   \* NUM_REGISTERS
          StackSize       \* STACK_SIZE

ASSUME CpuSizes == NumRegisters \in Nat \ {0} /\ StackSize \in Nat \ {0}

Register == 0 .. NumRegisters - 1
Cell     == 0 .. StackSize - 1

\* "OTHER" stands for every mnemonic the if-chain does not know.
Mnemonic == {"LOAD", "ADD", "SUB", "MUL", "PUSH", "POP", "HALT", "OTHER"}

Instruction == [op : Mnemonic, r : Register, s : Register, v : Int]

\* The stack grows down: sp is the next free cell, -1 when the stack is full
\* and StackSize - 1 when it is empty.
CPU == [registers : [Register -> Int],
        pc        : Nat,
        sp        : -1 .. StackSize - 1,
        stack     : [Cell -> Int]]

\* initialize_cpu()
InitialCPU == [registers |-> [k \in Register |-> 0],
               pc        |-> 0,
               sp        |-> StackSize - 1,
               stack     |-> [k \in Cell |-> 0]]

\* The stack is an array of (signed, 8 bit) char: storing an int keeps its low
\* byte.
AsChar(n) == ((n + 128) % 256) - 128

\* Mutant of Push: the bound is off by one.
PushOffByOne(c, r) ==
    IF c.sp >= -1
    THEN [c EXCEPT !.stack[c.sp] = AsChar(c.registers[r]), !.sp = @ - 1]
    ELSE c

\* Stack overflow and underflow only print: the instruction is a no-op.
Push(c, r) ==
    IF c.sp >= 0
    THEN [c EXCEPT !.stack[c.sp] = AsChar(c.registers[r]), !.sp = @ - 1]
    ELSE c

Pop(c, r) ==
    IF c.sp < StackSize - 1
    THEN [c EXCEPT !.registers[r] = c.stack[c.sp + 1], !.sp = @ + 1]
    ELSE c

Arithmetic(op, a, b) == CASE op = "ADD" -> a + b
                          [] op = "SUB" -> a - b
                          [] op = "MUL" -> a * b

Effect(c, ins) ==
    CASE ins.op = "LOAD" -> [c EXCEPT !.registers[ins.r] = ins.v]
      [] ins.op \in {"ADD", "SUB", "MUL"} ->
            [c EXCEPT !.registers[ins.r] =
                          Arithmetic(ins.op, @, c.registers[ins.s])]
      [] ins.op = "PUSH" -> Push(c, ins.r)
      [] ins.op = "POP"  -> Pop(c, ins.r)
      [] OTHER           -> c

\* execute_instruction(): the effect, then (*pc)++, whatever the mnemonic.
Execute(c, ins) == [Effect(c, ins) EXCEPT !.pc = @ + 1]

\* program[pc]: the arrays are indexed from 0 and end with a NULL entry.
AtNull(p, k) == k = Len(p)
AtHalt(p, k) == k < Len(p) /\ p[k + 1].op = "HALT"
=============================================================================
