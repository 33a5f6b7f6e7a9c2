--------------------------- MODULE MCCpuSimulator ---------------------------
(* Small instances of CpuSimulator for TLC. *)
EXTENDS CpuSimulator

Ins(op, r, s, v) == [op |-> op, r |-> r, s |-> s, v |-> v]
Load(r, v) == Ins("LOAD", r, 0, v)
Halt == Ins("HALT", 0, 0, 0)

\* program2 and program3 of main(), folded together; a SUB that is not idempotent.
SubMul == <<Load(0, 3), Ins("SUB", 1, 0, 0), Ins("MUL", 1, 0, 0), Halt>>
\* program1 of main(), stretched: fills the two-cell stack with a value no char
\* holds, overflows it, drains it, underflows it.
Overflow == <<Load(0, 200), Ins("PUSH", 0, 0, 0), Ins("PUSH", 0, 0, 0),
              Ins("PUSH", 1, 0, 0), Ins("POP", 1, 0, 0), Ins("POP", 1, 0, 0),
              Ins("POP", 0, 0, 0), Ins("OTHER", 0, 0, 0), Halt>>
\* Programs nothing stops main() from adding: no HALT, HALT first, empty.
NoHalt == <<Load(0, 1), Ins("ADD", 0, 0, 0)>>
HaltFirst == <<Halt, Load(0, 1), Halt>>

MCPrograms == {SubMul, Overflow, NoHalt, HaltFirst, <<>>}
MCPriorities == {1}
=============================================================================
