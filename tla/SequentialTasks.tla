-------------------------- MODULE SequentialTasks --------------------------
(***************************************************************************)
(* What the task scheduler of src/cpu_simulator.c promises its tasks: each *)
(* task is a machine of its own that runs its program from the first line  *)
(* to the HALT, one instruction at a time, and nothing else ever touches   *)
(* its CPU.  No scheduler, no threads, no preemption.                      *)
(***************************************************************************)
EXTENDS CpuInstructions

CONSTANTS Programs,   \* the programs a task may be given
          MaxTasks    \* MAX_TASKS

Slot == 0 .. MaxTasks - 1

VARIABLES task_count, program, cpu, is_complete

vars == <<task_count, program, cpu, is_complete>>

Init == /\ task_count = 0
        /\ program = [t \in Slot |-> <<>>]
        /\ cpu = [t \in Slot |-> InitialCPU]
        /\ is_complete = [t \in Slot |-> FALSE]

Add(p) == /\ task_count < MaxTasks
          /\ task_count' = task_count + 1
          /\ program' = [program EXCEPT ![task_count] = p]
          /\ UNCHANGED <<cpu, is_complete>>

\* Task t runs the instruction its own pc points at, from its own registers,
\* and is complete when the next line is HALT.
Step(t) == /\ t < task_count
           /\ ~ is_complete[t]
           /\ cpu[t].pc < Len(program[t])
           /\ cpu' = [cpu EXCEPT ![t] = Execute(@, program[t][@.pc + 1])]
           /\ is_complete' = [is_complete EXCEPT
                                 ![t] = AtHalt(program[t], cpu'[t].pc)]
           /\ UNCHANGED <<task_count, program>>

Next == \/ \E p \in Programs : Add(p)
        \/ \E t \in Slot : Step(t)

Spec == Init /\ [][Next]_vars
=============================================================================
