---------------------------- MODULE OsSimulator ----------------------------
(***************************************************************************)
(* The operating-system simulator of src/os_simulator.c: process table,    *)
(* page table, round-robin scheduler, file table and one I/O device.       *)
(*                                                                         *)
(* All of it runs on main()'s thread; process_mutex and the device's       *)
(* semaphore are never contended and are left out, as are names, files'    *)
(* contents, priority, which nothing reads, and the text of a request.     *)
(* execute_process() is declared and never defined.  main() is modelled as *)
(* any sequence of calls; a step of schedule_processes() ends at a sleep.  *)
(***************************************************************************)
EXTENDS Integers, FiniteSets

CONSTANTS MaxProcesses,   \* MAX_PROCESSES
          NumPages,       \* MEMORY_SIZE / PAGE_SIZE
          MaxFiles,       \* MAX_FILES
          MaxDeviceQueue, \* MAX_DEVICE_QUEUE
          TimeSlice,      \* TIME_SLICE
          BurstTimes,     \* burst times main() may ask for
          Ids             \* process ids main() passes to the memory calls

ASSUME OsSizes == /\ {MaxProcesses, NumPages, MaxFiles} \subseteq Nat
                  /\ {TimeSlice, MaxDeviceQueue} \subseteq Nat \ {0}
                  /\ BurstTimes \subseteq Int /\ Ids \subseteq Nat

Process == 0 .. MaxProcesses - 1
Page    == 0 .. NumPages - 1

VARIABLES process_count,
          state,          \* per process: NEW, READY, RUNNING, TERMINATED
          burst_time,     \* per process: time left
          pages,          \* per page: its process, -1 when it has none
          page_usage,     \* pages handed out so far
          file_count,
          queue_count,    \* the device's requests
          performing,     \* main() is in perform_io_operation()
          scheduling,     \* main() is in schedule_processes()
          i,              \* its loop index
          active_processes,
          slices          \* history: slices each process had in this call

procVars  == <<process_count, state, burst_time>>
memVars   == <<pages, page_usage>>
ioVars    == <<queue_count, performing>>
schedVars == <<scheduling, i, active_processes, slices>>
vars == <<procVars, memVars, file_count, ioVars, schedVars>>

Init == /\ process_count = 0
        /\ state = [p \in Process |-> "NEW"]
        /\ burst_time = [p \in Process |-> 0]
        /\ pages = [g \in Page |-> -1]
        /\ page_usage = 0
        /\ file_count = 0
        /\ queue_count = 0
        /\ performing = FALSE
        /\ scheduling = FALSE
        /\ i = 0
        /\ active_processes = 0
        /\ slices = [p \in Process |-> 0]

\* main() is between two calls.
Idle == ~ scheduling /\ ~ performing

\* create_process(); a full table only prints.
CreateProcess(burst) ==
    /\ Idle
    /\ process_count < MaxProcesses
    /\ state' = [state EXCEPT ![process_count] = "NEW"]
    /\ burst_time' = [burst_time EXCEPT ![process_count] = burst]
    /\ process_count' = process_count + 1
    /\ UNCHANGED <<memVars, file_count, ioVars, schedVars>>

\* allocate_memory(): pages are handed out in order, none a second time; when the
\* last is gone the call only prints.
AllocateMemory(id) ==
    /\ Idle
    /\ page_usage < NumPages
    /\ pages' = [pages EXCEPT ![page_usage] = id]
    /\ page_usage' = page_usage + 1
    /\ UNCHANGED <<procVars, file_count, ioVars, schedVars>>

\* Mutant of DeallocateMemory: the pages go back to allocate_memory().
DeallocateReusable(id) ==
    /\ Idle
    /\ pages' = [g \in Page |-> IF g < page_usage /\ pages[g] = id THEN -1
                               ELSE pages[g]]
    /\ page_usage' = 0
    /\ UNCHANGED <<procVars, file_count, ioVars, schedVars>>

\* deallocate_memory(): page_usage stays where it is.
DeallocateMemory(id) ==
    /\ Idle
    /\ pages' = [g \in Page |-> IF g < page_usage /\ pages[g] = id THEN -1
                               ELSE pages[g]]
    /\ UNCHANGED <<procVars, page_usage, file_count, ioVars, schedVars>>

\* create_file(); a full table only prints.
CreateFile == /\ Idle
              /\ file_count < MaxFiles
              /\ file_count' = file_count + 1
              /\ UNCHANGED <<procVars, memVars, ioVars, schedVars>>

\* perform_io_operation() on the device, up to sem_wait(); an unknown device and a
\* full queue only print.
StartIo == /\ Idle
           /\ queue_count < MaxDeviceQueue
           /\ queue_count' = queue_count + 1
           /\ performing' = TRUE
           /\ UNCHANGED <<procVars, memVars, file_count, schedVars>>

\* ... and from there to its return.
FinishIo == /\ performing
            /\ queue_count' = queue_count - 1
            /\ performing' = FALSE
            /\ UNCHANGED <<procVars, memVars, file_count, schedVars>>

-----------------------------------------------------------------------------

\* main() calls schedule_processes().
Schedule == /\ Idle
            /\ scheduling' = TRUE
            /\ i' = 0 /\ active_processes' = 0
            /\ slices' = [p \in Process |-> 0]
            /\ UNCHANGED <<procVars, memVars, file_count, ioVars>>

\* The for loop passes over a terminated process.
SkipTerminated == /\ scheduling
                  /\ i < process_count
                  /\ state[i] = "TERMINATED"
                  /\ i' = i + 1
                  /\ UNCHANGED <<procVars, memVars, file_count, ioVars, scheduling,
                                 active_processes, slices>>

\* A process that is not terminated gets the slice, up to the sleep.
Run == /\ scheduling
       /\ i < process_count
       /\ state[i] \notin {"TERMINATED", "RUNNING"}
       /\ active_processes' = active_processes + 1
       /\ state' = [state EXCEPT ![i] = "RUNNING"]
       /\ UNCHANGED <<process_count, burst_time, memVars, file_count, ioVars, scheduling,
                      i, slices>>

\* Mutants of SliceEnd: the process runs again at once; a process that has just
\* used its time up gets another slice.
SliceEndStays ==
    /\ scheduling /\ i < process_count /\ state[i] = "RUNNING"
    /\ burst_time' = [burst_time EXCEPT ![i] = @ - TimeSlice]
    /\ state' = [state EXCEPT ![i] = IF burst_time'[i] <= 0
                                     THEN "TERMINATED" ELSE "READY"]
    /\ slices' = [slices EXCEPT ![i] = @ + 1]
    /\ UNCHANGED <<process_count, memVars, file_count, ioVars, scheduling, i,
                   active_processes>>

SliceEndLate ==
    /\ scheduling /\ i < process_count /\ state[i] = "RUNNING"
    /\ burst_time' = [burst_time EXCEPT ![i] = @ - TimeSlice]
    /\ state' = [state EXCEPT ![i] = IF burst_time'[i] < 0
                                     THEN "TERMINATED" ELSE "READY"]
    /\ slices' = [slices EXCEPT ![i] = @ + 1]
    /\ i' = i + 1
    /\ UNCHANGED <<process_count, memVars, file_count, ioVars, scheduling,
                   active_processes>>

\* The sleep is over: the slice is charged.
SliceEnd == /\ scheduling
            /\ i < process_count
            /\ state[i] = "RUNNING"
            /\ burst_time' = [burst_time EXCEPT ![i] = @ - TimeSlice]
            /\ state' = [state EXCEPT ![i] = IF burst_time'[i] <= 0
                                             THEN "TERMINATED" ELSE "READY"]
            /\ slices' = [slices EXCEPT ![i] = @ + 1]
            /\ i' = i + 1
            /\ UNCHANGED <<process_count, memVars, file_count, ioVars, scheduling,
                           active_processes>>

\* Mutant of EndPass: the count is not reset for the next pass.
EndPassKeepsCount ==
    /\ scheduling /\ i = process_count
    /\ IF active_processes = 0
       THEN scheduling' = FALSE /\ UNCHANGED i
       ELSE i' = 0 /\ UNCHANGED scheduling
    /\ UNCHANGED <<procVars, memVars, file_count, ioVars, active_processes, slices>>

\* The end of a pass: return if nothing ran, else go round again.
EndPass == /\ scheduling
           /\ i = process_count
           /\ IF active_processes = 0
              THEN scheduling' = FALSE /\ UNCHANGED <<i, active_processes>>
              ELSE i' = 0 /\ active_processes' = 0 /\ UNCHANGED scheduling
           /\ UNCHANGED <<procVars, memVars, file_count, ioVars, slices>>

Scheduler == SkipTerminated \/ Run \/ SliceEnd \/ EndPass

Calls == \/ \E burst \in BurstTimes : CreateProcess(burst)
         \/ \E id \in Ids : AllocateMemory(id) \/ DeallocateMemory(id)
         \/ CreateFile \/ StartIo \/ FinishIo \/ Schedule

Next == Calls \/ Scheduler

Spec == Init /\ [][Next]_vars

\* The scheduler is a loop with nothing to wait for but sleep().
FairSpec == Spec /\ WF_vars(Scheduler)

-----------------------------------------------------------------------------

\* Every variable has its type.
TypeOK == /\ process_count \in 0 .. MaxProcesses
          /\ state \in [Process -> {"NEW", "READY", "RUNNING", "TERMINATED"}]
          /\ burst_time \in [Process -> Int]
          /\ pages \in [Page -> Ids \cup {-1}]
          /\ page_usage \in 0 .. NumPages
          /\ file_count \in 0 .. MaxFiles
          /\ queue_count \in 0 .. MaxDeviceQueue
          /\ performing \in BOOLEAN /\ scheduling \in BOOLEAN
          /\ i \in 0 .. process_count
          /\ active_processes \in 0 .. process_count
          /\ slices \in [Process -> Nat]

\* Round robin: a process that is still alive has had as many slices in this call
\* as any other, or one fewer when its turn in the pass is still to come.
FairShare ==
    scheduling =>
        \A p, q \in Process :
            p < process_count /\ q < process_count /\ state[p] # "TERMINATED"
            => slices[q] <= slices[p] + (IF i <= p /\ q < i THEN 1 ELSE 0)

\* A process is terminated exactly when a slice has used its time up, and never
\* overshoots it by a whole slice.
TerminatedWhenDone ==
    \A p \in Process : p < process_count =>
        /\ state[p] = "TERMINATED" => burst_time[p] <= 0
        /\ state[p] = "READY" => burst_time[p] > 0
        /\ state[p] = "TERMINATED" /\ slices[p] > 1 => burst_time[p] > - TimeSlice

\* Between two calls of main() no process is READY or RUNNING, so that
\* schedule_processes() returned only when all it had were terminated, and the
\* device has no request: its "queue full" branch is never reached.
OsInv == /\ TypeOK
         /\ ~ scheduling => \A p \in Process : state[p] \in {"NEW", "TERMINATED"}
         /\ TerminatedWhenDone
         /\ queue_count = IF performing THEN 1 ELSE 0
         /\ ~ (scheduling /\ performing)

\* deallocate_memory() looks at the pages handed out so far only and leaves its
\* process no page at all, yet frees nothing for good: a page that was handed out
\* once is never handed out again, whether it has been given back or not.
PagesHandedOutOnce ==
    [][/\ \A id \in Ids : DeallocateMemory(id) => \A g \in Page : pages'[g] # id
       /\ \A g \in Page : g < page_usage /\ pages'[g] # pages[g] => pages'[g] = -1]_vars

\* A call of schedule_processes() returns.
SchedulingEnds == scheduling ~> ~ scheduling
=============================================================================
