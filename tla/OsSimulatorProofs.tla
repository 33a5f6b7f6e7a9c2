-------------------------- MODULE OsSimulatorProofs --------------------------
(***************************************************************************)
(* Proofs about OsSimulator, for every table size, time slice and set of   *)
(* burst times.                                                            *)
(***************************************************************************)
EXTENDS OsSimulator, TLAPS

\* The slots create_process() has not filled are as Init left them.
UnusedSlots ==
    \A p \in Process : p >= process_count => state[p] = "NEW" /\ slices[p] = 0

\* The pages allocate_memory() has not handed out belong to nobody.
FreshPages == \A g \in Page : g >= page_usage => pages[g] = -1

\* The loop index splits the table: processes before it have had their turn, only
\* the one at it may be running, and none is between turns when main() is.
PassOrder ==
    /\ ~ scheduling => \A p \in Process : state[p] \in {"NEW", "TERMINATED"}
    /\ scheduling =>
           \A p \in Process :
               /\ p < i => state[p] \in {"READY", "TERMINATED"}
               /\ state[p] = "RUNNING" => p = i

\* active_processes counts turns of this pass, and is 0 only while all that the
\* pass has come by were terminated.
PassCount ==
    scheduling =>
        /\ active_processes <= i + (IF i < process_count /\ state[i] = "RUNNING"
                                    THEN 1 ELSE 0)
        /\ active_processes = 0 =>
               \A p \in Process : /\ p < i => state[p] = "TERMINATED"
                                  /\ state[p] # "RUNNING"

\* What a process's state says of the time it has left.
TimeLeft ==
    \A p \in Process : p < process_count =>
        /\ state[p] = "TERMINATED" => burst_time[p] <= 0
        /\ state[p] = "READY" => burst_time[p] > 0
        /\ state[p] = "NEW" => slices[p] = 0
        /\ state[p] = "RUNNING" /\ slices[p] > 0 => burst_time[p] > 0
        /\ state[p] = "TERMINATED" /\ slices[p] > 1 => burst_time[p] > - TimeSlice

\* main() is in one call at a time, and the device holds the request of that call.
OneCall == /\ queue_count = IF performing THEN 1 ELSE 0
           /\ ~ (scheduling /\ performing)

\* Slices given after r full passes, when the pass that is under way has come to j.
Share(r, j, p) == r + (IF p < j THEN 1 ELSE 0)

\* A process that is alive has had its slice in every pass so far; one that is not
\* has had no more.
InRound(r) == \A p \in Process : p < process_count =>
                  /\ slices[p] <= Share(r, i, p)
                  /\ state[p] # "TERMINATED" => slices[p] = Share(r, i, p)

Rounds == scheduling => \E r \in Nat : InRound(r)

IInv == /\ TypeOK /\ UnusedSlots /\ FreshPages /\ PassOrder /\ PassCount
        /\ TimeLeft /\ OneCall /\ Rounds

-----------------------------------------------------------------------------

\* The sizes, one by one.
LEMMA Sizes == /\ MaxProcesses \in Nat /\ NumPages \in Nat /\ MaxFiles \in Nat
               /\ TimeSlice \in Nat \ {0} /\ MaxDeviceQueue \in Nat \ {0}
               /\ BurstTimes \subseteq Int /\ Ids \subseteq Nat
  BY OsSizes

\* Before the first call nothing is in use.
LEMMA InitIInv == Init => IInv
<1> SUFFICES ASSUME Init PROVE IInv
  OBVIOUS
<1>1. TypeOK
  <2>1. 0 \in 0 .. MaxProcesses /\ 0 \in 0 .. NumPages /\ 0 \in 0 .. MaxFiles
        /\ 0 \in 0 .. MaxDeviceQueue /\ 0 \in 0 .. 0 /\ 0 \in Int /\ 0 \in Nat
    BY Sizes
  <2>2. QED
    BY <2>1 DEF Init, TypeOK
<1>2. OneCall /\ PassCount /\ Rounds
  BY DEF Init, OneCall, PassCount, Rounds
<1>3. UnusedSlots /\ FreshPages /\ PassOrder /\ TimeLeft
  BY Sizes DEF Init, UnusedSlots, FreshPages, PassOrder, TimeLeft, Process, Page
<1>4. QED
  BY <1>1, <1>2, <1>3 DEF IInv

\* create_process() fills the next slot with a process that has had no slice.
LEMMA CreateIInv ==
    ASSUME IInv, NEW burst \in BurstTimes, CreateProcess(burst) PROVE IInv'
<1> USE Sizes DEF IInv, CreateProcess, Idle, memVars, ioVars, schedVars, Process
<1>1. TypeOK' /\ FreshPages' /\ OneCall' /\ UnusedSlots'
  BY DEF TypeOK, FreshPages, OneCall, UnusedSlots
<1>2. PassOrder' /\ PassCount' /\ Rounds'
  BY DEF TypeOK, PassOrder, PassCount, Rounds
<1>3. TimeLeft'
  BY DEF TypeOK, TimeLeft, UnusedSlots
<1>4. QED
  BY <1>1, <1>2, <1>3

\* The memory, file and device calls touch no process.
LEMMA OtherCallsIInv ==
    ASSUME IInv,
           \/ \E id \in Ids : AllocateMemory(id) \/ DeallocateMemory(id)
           \/ CreateFile \/ StartIo \/ FinishIo
    PROVE  IInv'
<1>1. /\ UNCHANGED <<procVars, schedVars>>
      /\ TypeOK' /\ FreshPages' /\ OneCall'
  <2> USE Sizes DEF IInv, TypeOK, FreshPages, OneCall, Idle, procVars, memVars, ioVars,
                      schedVars, Page
  <2>1. CASE \E id \in Ids : AllocateMemory(id)
    BY <2>1 DEF AllocateMemory
  <2>2. CASE \E id \in Ids : DeallocateMemory(id)
    BY <2>2 DEF DeallocateMemory
  <2>3. CASE CreateFile
    BY <2>3 DEF CreateFile
  <2>4. CASE StartIo
    BY <2>4 DEF StartIo
  <2>5. CASE FinishIo
    <3>1. queue_count = 1 /\ queue_count' = 0 /\ performing' = FALSE
      BY <2>5 DEF FinishIo
    <3>2. 0 \in 0 .. MaxDeviceQueue
      OBVIOUS
    <3>3. QED
      BY <2>5, <3>1, <3>2 DEF FinishIo
  <2>6. QED
    BY <2>1, <2>2, <2>3, <2>4, <2>5
<1>2. QED
  BY <1>1 DEF IInv, UnusedSlots, PassOrder, PassCount, TimeLeft, Rounds, InRound,
              procVars, schedVars

\* schedule_processes() starts a pass with no slice given.
LEMMA ScheduleIInv == ASSUME IInv, Schedule PROVE IInv'
<1> USE Sizes DEF IInv, Schedule, Idle, procVars, memVars, ioVars, Process
<1>1. TypeOK' /\ UnusedSlots' /\ FreshPages' /\ OneCall' /\ PassOrder' /\ PassCount'
  BY DEF TypeOK, UnusedSlots, FreshPages, OneCall, PassOrder, PassCount
<1>2. TimeLeft'
  BY DEF TypeOK, TimeLeft, PassOrder
<1>3. InRound(0)'
  BY DEF TypeOK, InRound, Share
<1>4. Rounds'
  BY <1>3 DEF Rounds
<1>5. QED
  BY <1>1, <1>2, <1>4

\* The loop goes past a terminated process.
LEMMA SkipIInv == ASSUME IInv, SkipTerminated PROVE IInv'
<1> USE Sizes DEF IInv, SkipTerminated, procVars, memVars, ioVars, Process
<1>1. TypeOK' /\ UnusedSlots' /\ FreshPages' /\ OneCall' /\ TimeLeft'
  BY DEF TypeOK, UnusedSlots, FreshPages, OneCall, TimeLeft
<1>2. PassOrder' /\ PassCount'
  BY DEF TypeOK, PassOrder, PassCount
<1>3. PICK r \in Nat : InRound(r)
  BY DEF Rounds
<1>4. InRound(r)'
  <2> SUFFICES ASSUME NEW p \in Process, p < process_count
               PROVE  /\ slices[p] <= Share(r, i + 1, p)
                      /\ state[p] # "TERMINATED" => slices[p] = Share(r, i + 1, p)
    BY DEF InRound
  <2>1. /\ slices[p] <= Share(r, i, p)
        /\ state[p] # "TERMINATED" => slices[p] = Share(r, i, p)
    BY <1>3 DEF InRound
  <2>2. slices[p] \in Nat /\ i \in Nat /\ p \in Nat
    BY DEF TypeOK
  <2>3. QED
    BY <2>1, <2>2 DEF Share
<1>5. QED
  BY <1>1, <1>2, <1>4 DEF Rounds

\* The process at the loop index starts its slice.
LEMMA RunIInv == ASSUME IInv, Run PROVE IInv'
<1> USE Sizes DEF IInv, Run, memVars, ioVars, Process
<1>1. UnusedSlots' /\ FreshPages' /\ OneCall' /\ PassOrder'
  BY DEF TypeOK, UnusedSlots, FreshPages, OneCall, PassOrder
<1>2. TypeOK' /\ PassCount'
  BY DEF TypeOK, PassCount
<1>3. TimeLeft'
  BY DEF TypeOK, TimeLeft
<1>4. PICK r \in Nat : InRound(r)
  BY DEF Rounds
<1>5. InRound(r)'
  BY <1>4 DEF TypeOK, InRound, Share
<1>6. QED
  BY <1>1, <1>2, <1>3, <1>5 DEF Rounds

\* The slice is charged, and the process has had its turn of the pass.
LEMMA SliceEndIInv == ASSUME IInv, SliceEnd PROVE IInv'
<1> USE Sizes DEF IInv, SliceEnd, memVars, ioVars, Process
<1>1. /\ UnusedSlots' /\ FreshPages' /\ OneCall'
      /\ i \in Process /\ i + 1 \in 0 .. process_count
  BY DEF TypeOK, UnusedSlots, FreshPages, OneCall
<1>2. TypeOK'
  <2>1. burst_time[i] - TimeSlice \in Int /\ slices[i] + 1 \in Nat
    BY <1>1 DEF TypeOK
  <2>2. /\ burst_time' \in [Process -> Int] /\ slices' \in [Process -> Nat]
        /\ state' \in [Process -> {"NEW", "READY", "RUNNING", "TERMINATED"}]
    BY <2>1, <1>1 DEF TypeOK
  <2>3. QED
    BY <2>2, <1>1 DEF TypeOK
<1>3. PassOrder' /\ PassCount'
  BY DEF TypeOK, PassOrder, PassCount
<1>4. TimeLeft'
  <2>1. \A p \in Process \ {i} : /\ state'[p] = state[p] /\ slices'[p] = slices[p]
                                 /\ burst_time'[p] = burst_time[p]
    BY DEF TypeOK
  <2>2. /\ burst_time'[i] = burst_time[i] - TimeSlice /\ slices'[i] = slices[i] + 1
        /\ state'[i] = IF burst_time'[i] <= 0 THEN "TERMINATED" ELSE "READY"
    BY <1>1 DEF TypeOK
  <2>3. slices[i] > 0 => burst_time[i] > 0
    BY <1>1 DEF TimeLeft
  <2>4. burst_time[i] \in Int /\ slices[i] \in Nat
    BY <1>1 DEF TypeOK
  <2>5. QED
    BY <2>1, <2>2, <2>3, <2>4, <1>1 DEF TimeLeft
<1>5. PICK r \in Nat : InRound(r)
  BY DEF Rounds
<1>6. InRound(r)'
  BY <1>1, <1>5, SMTT(30) DEF TypeOK, InRound, Share
<1>7. QED
  BY <1>1, <1>2, <1>3, <1>4, <1>6 DEF Rounds

\* A pass in which nothing ran ends the call; after any other begins the next.
LEMMA EndPassIInv == ASSUME IInv, EndPass PROVE IInv'
<1> USE Sizes DEF IInv, EndPass, procVars, memVars, ioVars, Process
<1>1. UnusedSlots' /\ FreshPages' /\ OneCall' /\ TimeLeft'
  BY DEF UnusedSlots, FreshPages, OneCall, TimeLeft
<1>2. TypeOK'
  <2>1. 0 \in 0 .. process_count
    BY DEF TypeOK
  <2>2. CASE active_processes = 0
    BY <2>2 DEF TypeOK
  <2>3. CASE active_processes # 0
    BY <2>1, <2>3 DEF TypeOK
  <2>4. QED
    BY <2>2, <2>3
<1>3. PassOrder' /\ PassCount'
  <2>1. \A p \in Process : state[p] # "RUNNING"
    BY DEF TypeOK, PassOrder, UnusedSlots
  <2>2. CASE active_processes = 0
    BY <2>1, <2>2 DEF TypeOK, PassOrder, PassCount, UnusedSlots
  <2>3. CASE active_processes # 0
    BY <2>1, <2>3 DEF PassOrder, PassCount
  <2>4. QED
    BY <2>2, <2>3
<1>4. PICK r \in Nat : InRound(r)
  BY DEF Rounds
<1>5. scheduling' => InRound(r + 1)'
  BY <1>4 DEF TypeOK, InRound, Share
<1>6. QED
  BY <1>1, <1>2, <1>3, <1>5 DEF Rounds

\* No step leaves the invariant.
LEMMA NextIInv == IInv /\ [Next]_vars => IInv'
<1> SUFFICES ASSUME IInv, [Next]_vars PROVE IInv'
  OBVIOUS
<1>1. CASE UNCHANGED vars
  BY <1>1 DEF IInv, TypeOK, UnusedSlots, FreshPages, PassOrder, PassCount, TimeLeft,
              OneCall, Rounds, InRound, vars, procVars, memVars, ioVars, schedVars
<1>2. CASE Next
  BY <1>2, CreateIInv, OtherCallsIInv, ScheduleIInv, SkipIInv, RunIInv, SliceEndIInv,
     EndPassIInv DEF Next, Calls, Scheduler
<1>3. QED
  BY <1>1, <1>2

\* The inductive invariant holds of every behaviour.
THEOREM Invariant == Spec => []IInv
  BY InitIInv, NextIInv, PTL DEF Spec

\* schedule_processes() returns only when every process it had is terminated, a
\* process is terminated exactly when a slice used its time up, and the device's
\* queue is never full.
THEOREM OsCorrect == Spec => []OsInv
<1>1. IInv => OsInv
  BY DEF IInv, OsInv, TerminatedWhenDone, PassOrder, TimeLeft, OneCall
<1>2. QED
  BY <1>1, Invariant, PTL

\* The scheduler is fair: no process alive is more than one slice behind another.
THEOREM RoundRobin == Spec => []FairShare
<1>1. IInv => FairShare
  <2> SUFFICES ASSUME IInv, scheduling PROVE FairShare
    BY DEF FairShare
  <2>1. PICK r \in Nat : InRound(r)
    BY DEF IInv, Rounds
  <2>2. ASSUME NEW p \in Process, NEW q \in Process,
               p < process_count, q < process_count, state[p] # "TERMINATED"
        PROVE  slices[q] <= slices[p] + (IF i <= p /\ q < i THEN 1 ELSE 0)
    <3>1. slices[q] <= Share(r, i, q) /\ slices[p] = Share(r, i, p)
      BY <2>1, <2>2 DEF InRound
    <3>2. slices[p] \in Nat /\ slices[q] \in Nat /\ i \in Nat /\ p \in Nat /\ q \in Nat
      BY DEF IInv, TypeOK, Process
    <3>3. QED
      BY <3>1, <3>2 DEF Share
  <2>3. QED
    BY <2>2 DEF FairShare
<1>2. QED
  BY <1>1, Invariant, PTL

\* A page that was handed out is never handed out again, and giving a process's
\* pages back leaves it none.
THEOREM NoPageTwice == Spec => PagesHandedOutOnce
<1>1. ASSUME IInv, [Next]_vars
      PROVE  /\ \A id \in Ids : DeallocateMemory(id) => \A g \in Page : pages'[g] # id
             /\ \A g \in Page : g < page_usage /\ pages'[g] # pages[g] => pages'[g] = -1
  <2> USE Sizes DEF IInv, TypeOK, FreshPages, Page
  <2>1. \A id \in Ids : DeallocateMemory(id) => \A g \in Page : pages'[g] # id
    BY <1>1 DEF DeallocateMemory
  <2>2. ASSUME NEW g \in Page, g < page_usage, pages'[g] # pages[g]
        PROVE  pages'[g] = -1
    <3>1. CASE \E id \in Ids : AllocateMemory(id)
      BY <1>1, <2>2, <3>1 DEF AllocateMemory
    <3>2. CASE \E id \in Ids : DeallocateMemory(id)
      BY <1>1, <2>2, <3>2 DEF DeallocateMemory
    <3>3. CASE UNCHANGED memVars
      BY <2>2, <3>3 DEF memVars
    <3>4. QED
      BY <1>1, <3>1, <3>2, <3>3
         DEF Next, Calls, Scheduler, CreateProcess, CreateFile, StartIo, FinishIo,
             Schedule, SkipTerminated, Run, SliceEnd, EndPass, vars
  <2>3. QED
    BY <2>1, <2>2
<1>2. QED
  BY <1>1, Invariant, PTL DEF Spec, PagesHandedOutOnce
=============================================================================
