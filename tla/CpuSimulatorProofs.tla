------------------------- MODULE CpuSimulatorProofs -------------------------
(***************************************************************************)
(* Proofs about CpuSimulator, for every table size, set of programs,       *)
(* number of registers and stack size.                                     *)
(***************************************************************************)
EXTENDS CpuSimulator, WellFoundedInduction, TLAPS

\* A char read back is an int.
LEMMA AsCharType == ASSUME NEW n \in Int PROVE AsChar(n) \in Int
  BY DEF AsChar

\* initialize_cpu() yields a CPU.
LEMMA InitialCPUType == InitialCPU \in CPU
  BY CpuSizes DEF InitialCPU, CPU, Register, Cell

\* execute_instruction() maps a CPU to a CPU, and adds one to its pc.
LEMMA ExecuteType ==
    ASSUME NEW c \in CPU, NEW ins \in Instruction
    PROVE  /\ Execute(c, ins) \in CPU
           /\ Execute(c, ins).pc = c.pc + 1
<1>1. PICK g \in [Register -> Int], k \in Nat, sp \in -1 .. StackSize - 1,
           st \in [Cell -> Int] :
              c = [registers |-> g, pc |-> k, sp |-> sp, stack |-> st]
  BY DEF CPU
<1>2. /\ ins.op \in Mnemonic /\ ins.r \in Register /\ ins.s \in Register
      /\ ins.v \in Int
  BY DEF Instruction
<1>3. Effect(c, ins) \in CPU /\ Effect(c, ins).pc = c.pc
  <2>1. CASE ins.op = "LOAD"
    BY <2>1, <1>1, <1>2 DEF Effect, CPU
  <2>2. CASE ins.op \in {"ADD", "SUB", "MUL"}
    <3>1. Arithmetic(ins.op, g[ins.r], g[ins.s]) \in Int
      <4>1. g[ins.r] \in Int /\ g[ins.s] \in Int
        BY <1>2
      <4>2. QED
        BY <4>1, <2>2 DEF Arithmetic
    <3>2. Effect(c, ins) =
            [c EXCEPT !.registers[ins.r] =
                 Arithmetic(ins.op, c.registers[ins.r], c.registers[ins.s])]
      BY <2>2 DEF Effect
    <3>3. QED
      BY <3>1, <3>2, <1>1, <1>2 DEF CPU
  <2>3. CASE ins.op = "PUSH"
    <3>1. AsChar(g[ins.r]) \in Int
      BY <1>2, AsCharType
    <3>2. CASE sp >= 0
      <4>1. Effect(c, ins) =
              [registers |-> g, pc |-> k, sp |-> sp - 1,
               stack |-> [st EXCEPT ![sp] = AsChar(g[ins.r])]]
        BY <2>3, <3>2, <1>1 DEF Effect, Push
      <4>2. sp - 1 \in -1 .. StackSize - 1
        BY <3>2, CpuSizes
      <4>3. [st EXCEPT ![sp] = AsChar(g[ins.r])] \in [Cell -> Int]
        BY <3>1
      <4>4. QED
        BY <4>1, <4>2, <4>3, <1>1 DEF CPU
    <3>3. CASE ~ (sp >= 0)
      BY <2>3, <3>3, <1>1 DEF Effect, Push
    <3>4. QED
      BY <3>2, <3>3
  <2>4. CASE ins.op = "POP"
    <3>1. CASE sp < StackSize - 1
      <4>1. Effect(c, ins) =
              [registers |-> [g EXCEPT ![ins.r] = st[sp + 1]], pc |-> k,
               sp |-> sp + 1, stack |-> st]
        BY <2>4, <3>1, <1>1 DEF Effect, Pop
      <4>2. sp + 1 \in -1 .. StackSize - 1 /\ sp + 1 \in Cell
        BY <3>1, CpuSizes DEF Cell
      <4>3. [g EXCEPT ![ins.r] = st[sp + 1]] \in [Register -> Int]
        BY <4>2
      <4>4. QED
        BY <4>1, <4>2, <4>3, <1>1 DEF CPU
    <3>2. CASE ~ (sp < StackSize - 1)
      BY <2>4, <3>2, <1>1 DEF Effect, Pop
    <3>3. QED
      BY <3>1, <3>2
  <2>5. CASE ins.op \notin {"LOAD", "ADD", "SUB", "MUL", "PUSH", "POP"}
    BY <2>5, <1>1 DEF Effect
  <2>6. QED
    BY <2>1, <2>2, <2>3, <2>4, <2>5
<1>4. QED
  <2>1. PICK e \in CPU : e = Effect(c, ins) /\ e.pc = c.pc
    BY <1>3
  <2>2. Execute(c, ins) = [e EXCEPT !.pc = e.pc + 1]
    BY <2>1 DEF Execute
  <2>3. c.pc \in Nat
    BY <1>1
  <2>4. QED
    BY <2>1, <2>2, <2>3 DEF CPU

-----------------------------------------------------------------------------

\* What a slot holds.
LEMMA SlotTypes ==
    ASSUME TypeOK, NEW t \in Slot
    PROVE  /\ program[t] \in Seq(Instruction) /\ Len(program[t]) \in Nat
           /\ cpu[t] \in CPU /\ cpu[t].pc \in Nat
<1>1. <<>> \in Seq(Instruction)
  OBVIOUS
<1>2. program[t] \in Seq(Instruction) /\ cpu[t] \in CPU
  BY <1>1, CpuInputs DEF TypeOK
<1>3. QED
  BY <1>2 DEF CPU

\* The initial state has no task, no thread and nothing counted.
LEMMA InitIInv == Init => IInv
<1>1. InitialCPU.pc = 0 /\ Len(<<>>) = 0
  BY DEF InitialCPU
<1>2. QED
  BY <1>1, CpuInputs, InitialCPUType
     DEF Init, IInv, TypeOK, ThreadOwner, ThreadLive, PassCount, UnusedSlots,
         DoneMeansAllComplete, Slot, ThreadState, Phase

\* add_task() fills the next slot and leaves the others.
LEMMA AddTaskIInv ==
    ASSUME IInv, NEW p \in Programs, NEW prio \in Priorities, AddTask(p, prio)
    PROVE  IInv'
<1> USE CpuInputs DEF IInv, AddTask, Slot, taskVars, schedVars
<1>1. TypeOK'
  BY InitialCPUType DEF TypeOK
<1>2. ThreadOwner'
  BY DEF TypeOK, ThreadOwner
<1>3. p \in Seq(Instruction) /\ Len(p) \in Nat /\ InitialCPU.pc = 0
  BY DEF InitialCPU
<1>4. ThreadLive'
  BY <1>3 DEF TypeOK, ThreadOwner, ThreadLive
<1>5. PassCount' /\ DoneMeansAllComplete'
  BY DEF TypeOK, PassCount, DoneMeansAllComplete
<1>6. UnusedSlots'
  BY DEF TypeOK, UnusedSlots
<1>7. QED
  BY <1>1, <1>2, <1>4, <1>5, <1>6

\* Scheduler steps other than the pass's end: the loop index and the count.
LEMMA SchedulerIInv ==
    ASSUME IInv, Start \/ SkipComplete \/ Dispatch \/ Signal \/ Join
    PROVE  IInv'
<1> USE CpuInputs DEF IInv, Slot, taskVars, schedVars
<1>1. CASE Start
  BY <1>1 DEF Start, TypeOK, ThreadOwner, ThreadLive, PassCount, UnusedSlots,
              DoneMeansAllComplete, Phase
<1>2. CASE SkipComplete
  BY <1>2 DEF SkipComplete, TypeOK, ThreadOwner, ThreadLive, PassCount,
              UnusedSlots, DoneMeansAllComplete
<1>3. CASE Dispatch
  <2>1. TypeOK'
    BY <1>3 DEF Dispatch, TypeOK, ThreadState, Phase
  <2>2. ThreadOwner' /\ ThreadLive'
    BY <1>3 DEF Dispatch, TypeOK, ThreadOwner, ThreadLive
  <2>3. PassCount' /\ UnusedSlots' /\ DoneMeansAllComplete'
    BY <1>3 DEF Dispatch, TypeOK, PassCount, UnusedSlots, DoneMeansAllComplete
  <2>4. QED
    BY <2>1, <2>2, <2>3
<1>4. CASE Signal
  BY <1>4 DEF Signal, TypeOK, ThreadOwner, ThreadLive, PassCount, UnusedSlots,
              DoneMeansAllComplete, Phase
<1>5. CASE Join
  <2>1. TypeOK'
    BY <1>5 DEF Join, TypeOK, ThreadOwner, ThreadState, Phase
  <2>2. ThreadOwner' /\ ThreadLive'
    BY <1>5 DEF Join, TypeOK, ThreadOwner, ThreadLive
  <2>3. PassCount' /\ UnusedSlots' /\ DoneMeansAllComplete'
    BY <1>5 DEF Join, TypeOK, PassCount, UnusedSlots, DoneMeansAllComplete
  <2>4. QED
    BY <2>1, <2>2, <2>3
<1>6. QED
  BY <1>1, <1>2, <1>3, <1>4, <1>5

\* A pass that ends with nothing active has passed over every task.
LEMMA EndPassIInv == ASSUME IInv, EndPass PROVE IInv'
<1> USE DEF IInv, EndPass, Slot, taskVars, schedVars
<1>1. TypeOK' /\ ThreadOwner' /\ ThreadLive' /\ UnusedSlots'
  BY DEF TypeOK, ThreadOwner, ThreadLive, UnusedSlots, Phase
<1>2. PassCount' /\ DoneMeansAllComplete'
  BY DEF TypeOK, PassCount, DoneMeansAllComplete
<1>3. QED
  BY <1>1, <1>2

\* A thread with an instruction in front of it holds an instruction.
LEMMA ExecType ==
    ASSUME IInv, NEW t \in Slot, thread[t] = "exec", phase # "crashed"
    PROVE  LET next == Execute(cpu[t], program[t][cpu[t].pc + 1])
           IN  next \in CPU /\ next.pc = cpu[t].pc + 1
<1>1. /\ t < task_count /\ cpu[t] \in CPU /\ program[t] \in Seq(Instruction)
      /\ cpu[t].pc \in Nat /\ cpu[t].pc < Len(program[t])
  BY CpuInputs DEF IInv, TypeOK, ThreadOwner, ThreadLive, UnusedSlots, CPU
<1>2. program[t][cpu[t].pc + 1] \in Instruction
  BY <1>1
<1>3. QED
  BY <1>1, <1>2, ExecuteType

\* Steps of a task's thread.
LEMMA ThreadIInv == ASSUME IInv, NEW t \in Slot, Thread(t) PROVE IInv'
<1> USE CpuInputs DEF IInv, Slot, taskVars, schedVars
<1>1. CASE ThreadRun(t)
  <2>1. TypeOK' /\ UnusedSlots' /\ PassCount' /\ DoneMeansAllComplete'
    BY <1>1 DEF ThreadRun, TypeOK, UnusedSlots, PassCount,
                DoneMeansAllComplete, ThreadState
  <2>2. ThreadOwner'
    BY <1>1 DEF ThreadRun, TypeOK, ThreadOwner
  <2>3. cpu[t].pc < Len(program[t])
    BY <1>1, SlotTypes DEF ThreadRun, AtNull, ThreadLive
  <2>4. ThreadLive'
    BY <1>1, <2>3 DEF ThreadRun, TypeOK, ThreadLive
  <2>5. QED
    BY <2>1, <2>2, <2>4
<1>2. CASE ThreadStop(t)
  BY <1>2 DEF ThreadStop, TypeOK, ThreadOwner, ThreadLive, PassCount,
              UnusedSlots, DoneMeansAllComplete, ThreadState
<1>3. CASE ThreadExec(t)
  <2> DEFINE next == Execute(cpu[t], program[t][cpu[t].pc + 1])
  <2>1. next \in CPU /\ next.pc = cpu[t].pc + 1
    BY <1>3, ExecType DEF ThreadExec
  <2>2. /\ cpu' = [cpu EXCEPT ![t] = next]
        /\ thread[t] = "exec" /\ phase # "crashed"
        /\ UNCHANGED <<taskVars, preempt_flag, i, active_tasks>>
    BY <1>3 DEF ThreadExec
  <2>3. \/ phase' = "crashed" /\ UNCHANGED <<is_complete, thread>>
        \/ /\ is_complete' = [is_complete EXCEPT ![t] = TRUE]
           /\ thread' = [thread EXCEPT ![t] = "exited"]
           /\ UNCHANGED phase
        \/ /\ thread' = [thread EXCEPT ![t] = "test"]
           /\ UNCHANGED <<is_complete, phase>>
    BY <1>3 DEF ThreadExec
  <2> HIDE DEF next
  <2>4. TypeOK'
    BY <2>1, <2>2, <2>3 DEF TypeOK, ThreadState, Phase
  <2>5. ThreadOwner'
    BY <2>2, <2>3 DEF TypeOK, ThreadOwner
  <2>6. ThreadLive'
    <3>1. /\ cpu[t].pc \in Nat /\ Len(program[t]) \in Nat
          /\ cpu[t].pc < Len(program[t])
      BY <2>2, SlotTypes DEF ThreadLive
    <3>2. \A u \in Slot \ {t} : cpu'[u] = cpu[u] /\ thread'[u] = thread[u]
                                /\ is_complete'[u] = is_complete[u]
      BY <2>2, <2>3 DEF TypeOK
    <3>3. cpu'[t].pc <= Len(program'[t])
      BY <2>1, <2>2, <3>1 DEF TypeOK
    <3>4. /\ thread'[t] \in {"test", "exec"} => ~ is_complete'[t]
          /\ ~ (thread'[t] = "exec" /\ phase' # "crashed")
      BY <2>2, <2>3, <1>3 DEF TypeOK, ThreadLive
    <3>5. QED
      BY <2>2, <3>2, <3>3, <3>4 DEF ThreadLive
  <2>7. PassCount'
    BY <2>2, <2>3 DEF TypeOK, PassCount
  <2>8. UnusedSlots'
    BY <2>2, <2>3 DEF TypeOK, ThreadOwner, UnusedSlots
  <2>9. DoneMeansAllComplete'
    BY <2>2, <2>3 DEF TypeOK, DoneMeansAllComplete
  <2>10. QED
    BY <2>4, <2>5, <2>6, <2>7, <2>8, <2>9
<1>4. QED
  BY <1>1, <1>2, <1>3 DEF Thread

\* No step leaves the invariant.
LEMMA NextIInv == IInv /\ [Next]_vars => IInv'
<1> SUFFICES ASSUME IInv, [Next]_vars PROVE IInv'
  OBVIOUS
<1>1. CASE UNCHANGED vars
  BY <1>1 DEF IInv, TypeOK, ThreadOwner, ThreadLive, PassCount, UnusedSlots,
              DoneMeansAllComplete, vars, taskVars, schedVars
<1>2. CASE Next
  <2>1. CASE \E p \in Programs, prio \in Priorities : AddTask(p, prio)
    BY <2>1, AddTaskIInv
  <2>2. CASE Start \/ SkipComplete \/ Dispatch \/ Signal \/ Join
    BY <2>2, SchedulerIInv
  <2>3. CASE EndPass
    BY <2>3, EndPassIInv
  <2>4. CASE \E t \in Slot : Thread(t)
    BY <2>4, ThreadIInv
  <2>5. CASE Ended
    BY <2>5, <1>1 DEF Ended
  <2>6. QED
    BY <1>2, <2>1, <2>2, <2>3, <2>4, <2>5 DEF Next, Scheduler
<1>3. QED
  BY <1>1, <1>2

\* The inductive invariant holds of every behaviour, whatever the programs.
THEOREM Invariant == Spec => []IInv
  BY InitIInv, NextIInv, PTL DEF Spec

\* Every variable of the scheduler keeps its type.
THEOREM TypeCorrect == Spec => []TypeOK
<1>1. IInv => TypeOK
  BY DEF IInv
<1>2. QED
  BY <1>1, Invariant, PTL

\* scheduler() never lets two task threads be alive at once.
THEOREM Exclusive == Spec => []OneThread
<1>1. IInv => OneThread
  BY DEF IInv, ThreadOwner, OneThread
<1>2. QED
  BY <1>1, Invariant, PTL

\* "All tasks completed!" is only printed when it is true.
THEOREM ReportIsTrue == Spec => []DoneMeansAllComplete
<1>1. IInv => DoneMeansAllComplete
  BY DEF IInv
<1>2. QED
  BY <1>1, Invariant, PTL

-----------------------------------------------------------------------------

\* On a well-formed program a thread stops at HALT, before the NULL entry.
LEMMA NextBeforeHalt ==
    ASSUME IInv, BeforeHalt, NoCrash, [Next]_vars
    PROVE  BeforeHalt' /\ NoCrash'
<1> USE CpuInputs DEF Slot, taskVars, schedVars
<1>1. CASE /\ UNCHANGED <<task_count, program, cpu, is_complete>>
           /\ phase' # "crashed" \/ UNCHANGED <<phase, i>>
  BY <1>1 DEF BeforeHalt, NoCrash, AtHalt, WellFormed
<1>2. ASSUME NEW p \in Programs, NEW prio \in Priorities, AddTask(p, prio)
      PROVE  BeforeHalt' /\ NoCrash'
  <2>1. InitialCPU.pc = 0 /\ (WellFormed(p) => Len(p) >= 2)
    BY DEF InitialCPU, WellFormed
  <2>2. BeforeHalt'
    BY <1>2, <2>1 DEF AddTask, BeforeHalt, WellFormed, AtHalt, IInv, TypeOK
  <2>3. NoCrash'
    BY <1>2 DEF AddTask, NoCrash
  <2>4. QED
    BY <2>2, <2>3
<1>3. ASSUME NEW t \in Slot, ThreadExec(t)
      PROVE  BeforeHalt' /\ NoCrash'
  <2> DEFINE next == Execute(cpu[t], program[t][cpu[t].pc + 1])
  <2>1. next \in CPU /\ next.pc = cpu[t].pc + 1
    BY <1>3, ExecType DEF ThreadExec
  <2>2. /\ thread[t] = "exec" /\ t = i /\ t < task_count /\ ~ is_complete[t]
        /\ program[t] \in Programs
        /\ cpu[t].pc \in Nat /\ Len(program[t]) \in Nat
    BY <1>3, SlotTypes DEF ThreadExec, IInv, ThreadOwner, ThreadLive, UnusedSlots
  <2>3. WellFormed(program[t]) => cpu[t].pc + 1 < Len(program[t])
    BY <2>2 DEF WellFormed, BeforeHalt, AtHalt
  <2>4. /\ cpu' = [cpu EXCEPT ![t] = next]
        /\ UNCHANGED <<task_count, program, i>>
        /\ \/ UNCHANGED is_complete /\ AtNull(program[t], next.pc)
           \/ is_complete' = [is_complete EXCEPT ![t] = TRUE]
           \/ is_complete' = is_complete /\ ~ AtHalt(program[t], next.pc)
        /\ phase' = "crashed" => AtNull(program[t], next.pc)
    BY <1>3 DEF ThreadExec
  <2> HIDE DEF next
  <2>5. WellFormed(program'[t]) =>
            /\ cpu'[t].pc < Len(program'[t])
            /\ ~ is_complete'[t] => ~ AtHalt(program'[t], cpu'[t].pc)
    BY <2>1, <2>2, <2>3, <2>4 DEF IInv, TypeOK, AtNull
  <2>6. \A u \in Slot \ {t} : cpu'[u] = cpu[u] /\ is_complete'[u] = is_complete[u]
    BY <2>4 DEF IInv, TypeOK
  <2>7. BeforeHalt'
    BY <2>4, <2>5, <2>6 DEF BeforeHalt
  <2>8. NoCrash'
    BY <2>1, <2>2, <2>3, <2>4 DEF NoCrash, AtNull
  <2>9. QED
    BY <2>7, <2>8
<1>4. CASE Start \/ Scheduler \/ Ended \/ \E t \in Slot : ThreadRun(t) \/ ThreadStop(t)
  BY <1>4, <1>1
     DEF Start, Scheduler, SkipComplete, Dispatch, Signal, Join, EndPass, Ended,
         ThreadRun, ThreadStop, vars
<1>5. QED
  BY <1>1, <1>2, <1>3, <1>4 DEF Next, Thread, vars

\* A task whose program ends in HALT, after at least one instruction, never makes
\* the process compare the NULL entry with "HALT".
THEOREM NeverCrashes == Spec => []NoCrash
<1> DEFINE Safe == BeforeHalt /\ NoCrash
<1>1. Init => Safe
  BY DEF Init, BeforeHalt, NoCrash, Slot
<1>2. IInv /\ Safe /\ [Next]_vars => Safe'
  BY NextBeforeHalt
<1>3. QED
  BY <1>1, <1>2, Invariant, PTL DEF Spec

-----------------------------------------------------------------------------

\* Both specifications use the same CPU.
LEMMA SameCPU == /\ Sequential!InitialCPU = InitialCPU
                 /\ \A c, ins : Sequential!Execute(c, ins) = Execute(c, ins)
                 /\ \A p, k : Sequential!AtHalt(p, k) = AtHalt(p, k)
<1>1. Sequential!InitialCPU = InitialCPU
  BY DEF Sequential!InitialCPU, InitialCPU, Sequential!Register, Register,
         Sequential!Cell, Cell
<1>2. ASSUME NEW c, NEW ins PROVE Sequential!Effect(c, ins) = Effect(c, ins)
  BY DEF Sequential!Effect, Effect, Sequential!Push, Push, Sequential!Pop, Pop,
         Sequential!Arithmetic, Arithmetic, Sequential!AsChar, AsChar
<1>3. \A c, ins : Sequential!Execute(c, ins) = Execute(c, ins)
  BY <1>2 DEF Sequential!Execute, Execute
<1>4. \A p, k : Sequential!AtHalt(p, k) = AtHalt(p, k)
  BY DEF Sequential!AtHalt, AtHalt
<1>5. QED
  BY <1>1, <1>3, <1>4

\* A step of the scheduler or of a thread is a step of one sequential machine,
\* or changes nothing a sequential machine has.
LEMMA StepSimulation ==
    ASSUME IInv, [Next]_vars PROVE [Sequential!Next]_Sequential!vars
<1> USE CpuInputs DEF taskVars, schedVars, Sequential!vars
<1>1. ASSUME NEW p \in Programs, NEW prio \in Priorities, AddTask(p, prio)
      PROVE  Sequential!Add(p)
  <2>1. task_count \in Slot /\ cpu[task_count] = InitialCPU
        /\ ~ is_complete[task_count]
    BY <1>1 DEF AddTask, IInv, TypeOK, UnusedSlots, Slot
  <2>2. cpu' = cpu /\ is_complete' = is_complete
    BY <1>1, <2>1 DEF AddTask, IInv, TypeOK
  <2>3. QED
    BY <1>1, <2>2 DEF AddTask, Sequential!Add
<1>2. ASSUME NEW t \in Slot, ThreadExec(t) PROVE Sequential!Step(t)
  <2> DEFINE next == Execute(cpu[t], program[t][cpu[t].pc + 1])
  <2>1. next \in CPU /\ next.pc = cpu[t].pc + 1
    BY <1>2, ExecType DEF ThreadExec
  <2>2. /\ thread[t] = "exec" /\ t < task_count /\ ~ is_complete[t]
        /\ cpu[t].pc < Len(program[t])
    BY <1>2 DEF ThreadExec, IInv, ThreadOwner, ThreadLive
  <2> HIDE DEF next
  <2>3. /\ cpu' = [cpu EXCEPT ![t] = next]
        /\ UNCHANGED <<task_count, program>>
        /\ \/ AtNull(program[t], next.pc) /\ UNCHANGED is_complete
           \/ /\ AtHalt(program[t], next.pc)
              /\ is_complete' = [is_complete EXCEPT ![t] = TRUE]
           \/ ~ AtHalt(program[t], next.pc) /\ UNCHANGED is_complete
    BY <1>2 DEF ThreadExec, next
  <2>4. /\ cpu'[t] = next
        /\ is_complete \in [Slot -> BOOLEAN] /\ is_complete[t] = FALSE
    BY <2>2, <2>3 DEF IInv, TypeOK
  <2>5. is_complete' = [is_complete EXCEPT ![t] = AtHalt(program[t], next.pc)]
    <3>1. CASE AtHalt(program[t], next.pc)
      <4>1. ~ AtNull(program[t], next.pc)
        BY <3>1, SlotTypes DEF AtHalt, AtNull, IInv
      <4>2. AtHalt(program[t], next.pc) = TRUE
        BY <3>1 DEF AtHalt
      <4>3. QED
        BY <2>3, <3>1, <4>1, <4>2
    <3>2. CASE ~ AtHalt(program[t], next.pc)
      <4>1. AtHalt(program[t], next.pc) = FALSE
        BY <3>2 DEF AtHalt
      <4>2. QED
        BY <2>3, <2>4, <3>2, <4>1
    <3>3. QED
      BY <3>1, <3>2
  <2>6. cpu' = [cpu EXCEPT ![t] = Execute(cpu[t], program[t][cpu[t].pc + 1])]
    BY <2>3 DEF next
  <2>7. QED
    BY <2>2, <2>3, <2>4, <2>5, <2>6, SameCPU DEF Sequential!Step
<1>3. CASE UNCHANGED vars
  BY <1>3 DEF vars
<1>4. CASE Start \/ Scheduler \/ Ended \/ \E t \in Slot : ThreadRun(t) \/ ThreadStop(t)
  BY <1>4 DEF Start, Scheduler, SkipComplete, Dispatch, Signal, Join, EndPass,
              Ended, ThreadRun, ThreadStop, vars
<1>5. QED
  BY <1>1, <1>2, <1>3, <1>4
     DEF Next, Thread, Slot, Sequential!Next, Sequential!Slot

\* Whatever the interleaving of scheduler and threads, each task is a machine
\* that runs its own program from the first line to HALT.
THEOREM Refinement == Spec => SequentialSpec
<1>1. Init => Sequential!Init
  BY SameCPU DEF Init, Sequential!Init, Slot, Sequential!Slot
<1>2. IInv /\ [Next]_vars => [Sequential!Next]_Sequential!vars
  BY StepSimulation
<1>3. QED
  BY <1>1, <1>2, Invariant, PTL DEF Spec, SequentialSpec, Sequential!Spec
-----------------------------------------------------------------------------

\* run is what an uninterrupted run of the first n instructions of p goes through.
RunsTo(p, run, n) ==
    /\ run \in [0 .. n -> CPU]
    /\ run[0] = InitialCPU
    /\ \A k \in 1 .. n : run[k] = Execute(run[k - 1], p[k])

\* Every program has an uninterrupted run of every length up to its own: one more
\* instruction takes the shortest run there is none of from a run there is.
LEMMA RunExists ==
    ASSUME NEW p \in Seq(Instruction) PROVE \E run : RunsTo(p, run, Len(p))
<1> DEFINE T == {n \in 0 .. Len(p) : ~ \E run : RunsTo(p, run, n)}
           R == {ss \in Nat \X Nat : ss[1] < ss[2]}
<1> SUFFICES ASSUME T # {} PROVE FALSE
  <2>1. Len(p) \in 0 .. Len(p)
    OBVIOUS
  <2>2. QED
    BY <2>1
<1>1. PICK n \in T : \A y \in T : n <= y
  <2>1. IsWellFoundedOn(R, Nat)
    BY NatLessThanWellFounded DEF OpToRel
  <2>2. \A x, y \in Nat : <<y, x>> \notin R => x <= y
    OBVIOUS
  <2>3. T \subseteq Nat
    BY DEF T
  <2> HIDE DEF R, T
  <2>4. PICK x \in T : \A y \in T : <<y, x>> \notin R
    BY <2>1, <2>3, WFMin
  <2>5. QED
    BY <2>2, <2>3, <2>4
<1>2. n \in 0 .. Len(p) /\ Len(p) \in Nat /\ ~ \E run : RunsTo(p, run, n)
  BY DEF T
<1>3. CASE n = 0
  <2>1. RunsTo(p, [k \in 0 .. 0 |-> InitialCPU], 0)
    BY InitialCPUType DEF RunsTo
  <2>2. QED
    BY <1>2, <1>3, <2>1
<1>4. CASE n \in 1 .. Len(p)
  <2>1. n - 1 \in 0 .. Len(p) /\ ~ (n <= n - 1) /\ n \in Nat
    BY <1>4
  <2>2. n - 1 \notin T
    BY <1>1, <2>1
  <2>3. PICK run : RunsTo(p, run, n - 1)
    BY <2>1, <2>2
  <2> HIDE DEF T
  <2> DEFINE last == Execute(run[n - 1], p[n])
             more == [k \in 0 .. n |-> IF k < n THEN run[k] ELSE last]
  <2>4. /\ run \in [0 .. n - 1 -> CPU] /\ run[0] = InitialCPU
        /\ \A k \in 1 .. n - 1 : run[k] = Execute(run[k - 1], p[k])
    BY <2>3 DEF RunsTo
  <2>5. last \in CPU
    <3>1. run[n - 1] \in CPU /\ p[n] \in Instruction
      BY <1>4, <2>1, <2>4
    <3>2. QED
      BY <3>1, ExecuteType
  <2>6. more[n] = Execute(more[n - 1], p[n])
    BY <1>4, <2>1
  <2> HIDE DEF last
  <2>7. more \in [0 .. n -> CPU]
    <3>1. \A k \in 0 .. n : k < n => run[k] \in CPU
      BY <2>1, <2>4
    <3>2. QED
      BY <2>5, <3>1
  <2>8. more[0] = InitialCPU
    BY <1>4, <2>4
  <2>9. \A k \in 1 .. n - 1 : more[k] = Execute(more[k - 1], p[k])
    BY <2>1, <2>4
  <2> HIDE DEF more
  <2>10. \A k \in 1 .. n : more[k] = Execute(more[k - 1], p[k])
    BY <1>4, <2>1, <2>6, <2>9
  <2>11. RunsTo(p, more, n)
    BY <2>7, <2>8, <2>10 DEF RunsTo
  <2>12. QED
    BY <1>2, <2>11
<1>5. QED
  BY <1>2, <1>3, <1>4

\* What RunOf() computes.
LEMMA RunOfSteps ==
    ASSUME NEW p \in Seq(Instruction)
    PROVE  /\ RunOf(p)[0] = InitialCPU
           /\ \A k \in 1 .. Len(p) : RunOf(p)[k] = Execute(RunOf(p)[k - 1], p[k])
<1> DEFINE Step(run) == [k \in 0 .. Len(p) |-> IF k = 0 THEN InitialCPU
                                               ELSE Execute(run[k - 1], p[k])]
<1>1. RunOf(p) = CHOOSE run : run = Step(run)
  BY DEF RunOf
<1>2. PICK run : RunsTo(p, run, Len(p))
  BY RunExists
<1>3. run = Step(run)
  <2>1. run = [k \in 0 .. Len(p) |-> run[k]]
    BY <1>2 DEF RunsTo
  <2>2. \A k \in 0 .. Len(p) : run[k] = IF k = 0 THEN InitialCPU
                                        ELSE Execute(run[k - 1], p[k])
    BY <1>2 DEF RunsTo
  <2>3. QED
    BY <2>1, <2>2
<1>4. RunOf(p) = Step(RunOf(p))
  <2> HIDE DEF Step
  <2>1. QED
    BY <1>1, <1>3
<1>5. QED
  BY <1>4

\* No step puts a CPU where the uninterrupted run of its program is not.
LEMMA NextTransparent ==
    ASSUME IInv, PreemptionTransparent, [Next]_vars PROVE PreemptionTransparent'
<1> USE CpuInputs DEF taskVars, schedVars
<1>1. CASE UNCHANGED <<task_count, program, cpu>>
  BY <1>1 DEF PreemptionTransparent
<1>2. ASSUME NEW p \in Programs, NEW prio \in Priorities, AddTask(p, prio)
      PROVE  PreemptionTransparent'
  <2>1. RunOf(p)[InitialCPU.pc] = InitialCPU
    BY RunOfSteps DEF InitialCPU
  <2>2. ASSUME NEW t \in Slot, t < task_count'
        PROVE  cpu'[t] = RunOf(program'[t])[cpu'[t].pc]
    BY <1>2, <2>1, <2>2 DEF AddTask, IInv, TypeOK, PreemptionTransparent, Slot
  <2>3. QED
    BY <2>2 DEF PreemptionTransparent
<1>3. ASSUME NEW t \in Slot, ThreadExec(t) PROVE PreemptionTransparent'
  <2> DEFINE k == cpu[t].pc
             next == Execute(cpu[t], program[t][k + 1])
  <2>1. /\ next \in CPU /\ next.pc = k + 1 /\ cpu' = [cpu EXCEPT ![t] = next]
        /\ UNCHANGED <<task_count, program>>
    BY <1>3, ExecType DEF ThreadExec
  <2>2. /\ t < task_count /\ program[t] \in Seq(Instruction)
        /\ k \in Nat /\ Len(program[t]) \in Nat /\ k < Len(program[t])
    BY <1>3, SlotTypes DEF ThreadExec, IInv, ThreadOwner, ThreadLive
  <2>3. next = RunOf(program[t])[k + 1]
    <3>1. k + 1 \in 1 .. Len(program[t]) /\ (k + 1) - 1 = k
      BY <2>2
    <3>2. RunOf(program[t])[k + 1] = Execute(RunOf(program[t])[k], program[t][k + 1])
      BY <2>2, <3>1, RunOfSteps
    <3>3. cpu[t] = RunOf(program[t])[k]
      BY <2>2 DEF PreemptionTransparent
    <3>4. QED
      BY <3>2, <3>3
  <2> HIDE DEF next, k
  <2>4. ASSUME NEW u \in Slot, u < task_count'
        PROVE  cpu'[u] = RunOf(program'[u])[cpu'[u].pc]
    BY <2>1, <2>3, <2>4 DEF IInv, TypeOK, PreemptionTransparent
  <2>5. QED
    BY <2>4 DEF PreemptionTransparent
<1>4. CASE Start \/ Scheduler \/ Ended \/ \E t \in Slot : ThreadRun(t) \/ ThreadStop(t)
  BY <1>1, <1>4
     DEF Start, Scheduler, SkipComplete, Dispatch, Signal, Join, EndPass, Ended,
         ThreadRun, ThreadStop, vars
<1>5. QED
  BY <1>1, <1>2, <1>3, <1>4 DEF Next, Thread, vars

\* Preemption is transparent: wherever its slices begin and end, and whatever runs
\* between them, a task's CPU is the one an uninterrupted run of its program has.
THEOREM Transparent == Spec => []PreemptionTransparent
<1>1. Init => PreemptionTransparent
  BY DEF Init, PreemptionTransparent, Slot
<1>2. IInv /\ PreemptionTransparent /\ [Next]_vars => PreemptionTransparent'
  BY NextTransparent
<1>3. QED
  BY <1>1, <1>2, Invariant, PTL DEF Spec
=============================================================================
