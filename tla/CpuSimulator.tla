---------------------------- MODULE CpuSimulator ----------------------------
(***************************************************************************)
(* The preemptive task scheduler of src/cpu_simulator.c.                   *)
(*                                                                         *)
(* main() adds tasks and calls scheduler(), which walks the task table     *)
(* again and again; for every incomplete task it clears preempt_flag,      *)
(* starts a thread running execute_task(), sleeps TIME_SLICE seconds,      *)
(* raises the flag and joins the thread.  Two threads are live during a    *)
(* slice: the scheduler and the task; the flag is all they share while     *)
(* both run.  A step of the model ends at each access to it.               *)
(*                                                                         *)
(* sleep() bounds nothing: the flag may be raised before the task's first  *)
(* look at it, or long after the task has ended.  scheduler_mutex is only  *)
(* ever taken by scheduler(), uncontended, and is left out, as is output.  *)
(***************************************************************************)
EXTENDS CpuInstructions

CONSTANTS Programs,     \* the programs main() may give a task
          Priorities,   \* the priorities main() may give a task
          MaxTasks      \* MAX_TASKS

ASSUME CpuInputs == /\ Programs \subseteq Seq(Instruction)
                    /\ Priorities \subseteq Int
                    /\ MaxTasks \in Nat \ {0}

Slot == 0 .. MaxTasks - 1

VARIABLES
    task_count,    \* tasks added so far
    program,       \* per task: its program (<<>>: the slot is unused)
    priority,      \* per task
    cpu,           \* per task: cpu_state
    is_complete,   \* per task
    preempt_flag,  \* per task: set by the scheduler, read by the task's thread
    thread,        \* per task: where its thread stands in execute_task()
    phase,         \* where the main thread stands
    i,             \* loop index of scheduler()
    active_tasks   \* tasks found incomplete in this pass

taskVars  == <<task_count, program, priority>>
schedVars == <<phase, i, active_tasks>>
vars == <<taskVars, cpu, is_complete, preempt_flag, thread, schedVars>>

\* "none": no thread; "test": at the loop condition and the flag test;
\* "exec": past both, committed to one more instruction; "exited": returned.
ThreadState == {"none", "test", "exec", "exited"}

\* "adding": before scheduler(); "scan": at the head of the for loop; "slice":
\* asleep; "join": the flag is raised, in pthread_join(); "done": all tasks
\* completed; "crashed": the process died in strcmp(NULL, "HALT").
Phase == {"adding", "scan", "slice", "join", "done", "crashed"}

Init == /\ task_count = 0
        /\ program = [t \in Slot |-> <<>>]
        /\ priority = [t \in Slot |-> 0]
        /\ cpu = [t \in Slot |-> InitialCPU]
        /\ is_complete = [t \in Slot |-> FALSE]
        /\ preempt_flag = [t \in Slot |-> FALSE]
        /\ thread = [t \in Slot |-> "none"]
        /\ phase = "adding"
        /\ i = 0
        /\ active_tasks = 0

\* add_task(); with a full table it only prints.
AddTask(p, prio) ==
    /\ phase = "adding"
    /\ task_count < MaxTasks
    /\ program' = [program EXCEPT ![task_count] = p]
    /\ priority' = [priority EXCEPT ![task_count] = prio]
    /\ cpu' = [cpu EXCEPT ![task_count] = InitialCPU]
    /\ is_complete' = [is_complete EXCEPT ![task_count] = FALSE]
    /\ preempt_flag' = [preempt_flag EXCEPT ![task_count] = FALSE]
    /\ task_count' = task_count + 1
    /\ UNCHANGED <<thread, schedVars>>

\* main() calls scheduler().
Start == /\ phase = "adding"
         /\ phase' = "scan"
         /\ UNCHANGED <<taskVars, cpu, is_complete, preempt_flag, thread, i,
                        active_tasks>>

\* The for loop passes over a completed task.
SkipComplete == /\ phase = "scan"
                /\ i < task_count
                /\ is_complete[i]
                /\ i' = i + 1
                /\ UNCHANGED <<taskVars, cpu, is_complete, preempt_flag, thread,
                               phase, active_tasks>>

-----------------------------------------------------------------------------
(* Mutants of Dispatch: the pc is rewound with every slice; a completed     *)
(* task is dispatched again; the flag of the last slice is left up.         *)

DispatchRewinds ==
    /\ phase = "scan" /\ i < task_count /\ ~ is_complete[i]
    /\ active_tasks' = active_tasks + 1
    /\ preempt_flag' = [preempt_flag EXCEPT ![i] = FALSE]
    /\ thread' = [thread EXCEPT ![i] = "test"]
    /\ cpu' = [cpu EXCEPT ![i].pc = 0]
    /\ phase' = "slice"
    /\ UNCHANGED <<taskVars, is_complete, i>>

DispatchAny ==
    /\ phase = "scan" /\ i < task_count
    /\ active_tasks' = active_tasks + 1
    /\ preempt_flag' = [preempt_flag EXCEPT ![i] = FALSE]
    /\ thread' = [thread EXCEPT ![i] = "test"]
    /\ phase' = "slice"
    /\ UNCHANGED <<taskVars, cpu, is_complete, i>>

DispatchFlagUp ==
    /\ phase = "scan" /\ i < task_count /\ ~ is_complete[i]
    /\ active_tasks' = active_tasks + 1
    /\ thread' = [thread EXCEPT ![i] = "test"]
    /\ phase' = "slice"
    /\ UNCHANGED <<taskVars, cpu, is_complete, preempt_flag, i>>

-----------------------------------------------------------------------------

\* An incomplete task gets a slice: count it, lower its flag, create its thread.
Dispatch == /\ phase = "scan"
            /\ i < task_count
            /\ ~ is_complete[i]
            /\ active_tasks' = active_tasks + 1
            /\ preempt_flag' = [preempt_flag EXCEPT ![i] = FALSE]
            /\ thread' = [thread EXCEPT ![i] = "test"]
            /\ phase' = "slice"
            /\ UNCHANGED <<taskVars, cpu, is_complete, i>>

\* sleep(TIME_SLICE) returns: raise the flag and wait in pthread_join().
Signal == /\ phase = "slice"
          /\ preempt_flag' = [preempt_flag EXCEPT ![i] = TRUE]
          /\ phase' = "join"
          /\ UNCHANGED <<taskVars, cpu, is_complete, thread, i, active_tasks>>

\* Mutant of Join: the thread is not waited for.
JoinEarly == /\ phase = "join"
             /\ i' = i + 1
             /\ phase' = "scan"
             /\ UNCHANGED <<taskVars, cpu, is_complete, preempt_flag, thread,
                            active_tasks>>

\* pthread_join() returns once the thread has; on to the next task.
Join == /\ phase = "join"
        /\ thread[i] = "exited"
        /\ thread' = [thread EXCEPT ![i] = "none"]
        /\ i' = i + 1
        /\ phase' = "scan"
        /\ UNCHANGED <<taskVars, cpu, is_complete, preempt_flag, active_tasks>>

\* The pass is over: stop if it found nothing to run, else start another.
EndPass == /\ phase = "scan"
           /\ i = task_count
           /\ IF active_tasks = 0
              THEN /\ phase' = "done"
                   /\ UNCHANGED <<i, active_tasks>>
              ELSE /\ i' = 0
                   /\ active_tasks' = 0
                   /\ UNCHANGED phase
           /\ UNCHANGED <<taskVars, cpu, is_complete, preempt_flag, thread>>

-----------------------------------------------------------------------------

\* execute_task(), head of the loop: an instruction is left and the flag is down.
ThreadRun(t) == /\ phase # "crashed"
                /\ thread[t] = "test"
                /\ ~ AtNull(program[t], cpu[t].pc)
                /\ ~ preempt_flag[t]
                /\ thread' = [thread EXCEPT ![t] = "exec"]
                /\ UNCHANGED <<taskVars, cpu, is_complete, preempt_flag,
                               schedVars>>

\* execute_task(), head of the loop: program exhausted or preempted.
ThreadStop(t) == /\ phase # "crashed"
                 /\ thread[t] = "test"
                 /\ AtNull(program[t], cpu[t].pc) \/ preempt_flag[t]
                 /\ thread' = [thread EXCEPT ![t] = "exited"]
                 /\ UNCHANGED <<taskVars, cpu, is_complete, preempt_flag,
                                schedVars>>

\* execute_task(), body of the loop: one instruction, then the look at the line
\* after it.  HALT completes the task without being executed; comparing the
\* NULL entry with "HALT" kills the process.
ThreadExec(t) ==
    LET next == Execute(cpu[t], program[t][cpu[t].pc + 1])
    IN  /\ phase # "crashed"
        /\ thread[t] = "exec"
        /\ cpu' = [cpu EXCEPT ![t] = next]
        /\ \/ /\ AtNull(program[t], next.pc)
              /\ phase' = "crashed"
              /\ UNCHANGED <<is_complete, thread>>
           \/ /\ AtHalt(program[t], next.pc)
              /\ is_complete' = [is_complete EXCEPT ![t] = TRUE]
              /\ thread' = [thread EXCEPT ![t] = "exited"]
              /\ UNCHANGED phase
           \/ /\ ~ AtNull(program[t], next.pc)
              /\ ~ AtHalt(program[t], next.pc)
              /\ thread' = [thread EXCEPT ![t] = "test"]
              /\ UNCHANGED <<is_complete, phase>>
        /\ UNCHANGED <<taskVars, preempt_flag, i, active_tasks>>

\* The process has exited or died.
Ended == phase \in {"done", "crashed"} /\ UNCHANGED vars

Thread(t) == ThreadRun(t) \/ ThreadStop(t) \/ ThreadExec(t)
Scheduler == SkipComplete \/ Dispatch \/ Signal \/ Join \/ EndPass

Next == \/ \E p \in Programs, prio \in Priorities : AddTask(p, prio)
        \/ Start
        \/ Scheduler
        \/ \E t \in Slot : Thread(t)
        \/ Ended

Spec == Init /\ [][Next]_vars

\* Both threads keep running (the operating system schedules them), and a
\* task that is given slices for ever is not beaten to its first look at the
\* flag every single time: the flag goes up TIME_SLICE = 2 seconds after the
\* thread was created.
FairSpec == /\ Spec
            /\ WF_vars(Scheduler)
            /\ \A t \in Slot : WF_vars(Thread(t)) /\ SF_vars(ThreadRun(t))

-----------------------------------------------------------------------------

\* Every variable has its type.
TypeOK == /\ task_count \in 0 .. MaxTasks
          /\ program \in [Slot -> Programs \cup {<<>>}]
          /\ priority \in [Slot -> Priorities \cup {0}]
          /\ cpu \in [Slot -> CPU]
          /\ is_complete \in [Slot -> BOOLEAN]
          /\ preempt_flag \in [Slot -> BOOLEAN]
          /\ thread \in [Slot -> ThreadState]
          /\ phase \in Phase
          /\ i \in 0 .. task_count
          /\ active_tasks \in Nat

\* pthread_join() before the next task's pthread_create(): two task threads
\* are never alive at once, so no two tasks run concurrently.
OneThread == \A s, t \in Slot : /\ thread[s] # "none"
                                /\ thread[t] # "none"
                                => s = t

\* The CPU after the first k instructions of p, run without interruption.
RunOf(p) == LET run[k \in 0 .. Len(p)] ==
                    IF k = 0 THEN InitialCPU ELSE Execute(run[k - 1], p[k])
            IN  run

\* Preemption is transparent: wherever slices begin and end, a task's CPU is
\* the one an uninterrupted run of its program has at the same pc.
PreemptionTransparent ==
    \A t \in Slot : t < task_count => cpu[t] = RunOf(program[t])[cpu[t].pc]

\* scheduler() reports "All tasks completed!" only when they all are.
DoneMeansAllComplete ==
    phase = "done" => \A t \in Slot : t < task_count => is_complete[t]

\* A program that has an instruction before its final HALT.
WellFormed(p) == Len(p) >= 2 /\ p[Len(p)].op = "HALT"

\* The process dies comparing NULL with "HALT" only in a task whose program is not
\* well formed, whatever the other tasks' programs are.
NoCrash == phase = "crashed" => ~ WellFormed(program[i])

\* The threaded scheduler implements one independent machine per task.
Sequential == INSTANCE SequentialTasks
SequentialSpec == Sequential!Spec

-----------------------------------------------------------------------------
(* The inductive invariant behind the safety properties. *)

\* Only the task at the loop index has a thread, only during its slice, and a
\* slice has one.
ThreadOwner ==
    /\ \A t \in Slot : thread[t] # "none"
           => t = i /\ t < task_count /\ phase \in {"slice", "join", "crashed"}
    /\ phase \in {"slice", "join"} => i < task_count /\ thread[i] # "none"

\* No pc runs past the NULL entry; a thread that may still execute belongs to an
\* incomplete task and, past the loop condition, has an instruction before it.
ThreadLive ==
    \A t \in Slot :
        /\ cpu[t].pc <= Len(program[t])
        /\ thread[t] \in {"test", "exec"} => ~ is_complete[t]
        /\ thread[t] = "exec" /\ phase # "crashed"
               => cpu[t].pc < Len(program[t])

\* A pass that has found nothing active has only passed over completed tasks.
PassCount ==
    /\ phase = "adding" => i = 0
    /\ phase = "scan" /\ active_tasks = 0
           => \A t \in Slot : t < i => is_complete[t]
    /\ phase \in {"slice", "join"} => active_tasks > 0

\* Slots without a task are as the zero-initialised table has them.
UnusedSlots ==
    \A t \in Slot : IF t < task_count
                    THEN program[t] \in Programs
                    ELSE cpu[t] = InitialCPU /\ ~ is_complete[t]

\* Everything the safety of the scheduler rests on, closed under every step.
IInv == /\ TypeOK
        /\ ThreadOwner
        /\ ThreadLive
        /\ PassCount
        /\ UnusedSlots
        /\ DoneMeansAllComplete

\* A task with a well-formed program is at a line of it and, while incomplete, at
\* its first line or at one that is not HALT.
BeforeHalt ==
    \A t \in Slot : t < task_count /\ WellFormed(program[t]) =>
        /\ cpu[t].pc < Len(program[t])
        /\ ~ is_complete[t] => cpu[t].pc = 0 \/ ~ AtHalt(program[t], cpu[t].pc)

-----------------------------------------------------------------------------

\* Once scheduling starts on well-formed programs, every task completes and the
\* scheduler stops.
AllTasksComplete ==
    (phase = "scan" /\ \A t \in Slot : t < task_count => WellFormed(program[t]))
        ~> phase = "done"
=============================================================================
