# Specifications of the SKCET second-year programs

TLA+ modules for the programs in `src/`, TLC runs of them on small instances,
and TLAPS proofs of the properties that matter most.

The repository is a set of eighteen programs, each in one source file with its
own `main()`. They share no code, call each other nowhere and keep no files in
common, so what interacts is inside one program: two threads in
`cpu_simulator.c`; a cache and the memory behind it; a linker and the modules
it links; passes of an assembler over one symbol table; devices and the logger
they share; registers, memory and buses; a pipeline and its hazard tests. Where
two programs are versions of one another the specifications are related: the
three-bus processor is shown to implement the single-bus one, and the register
loops of the multiplier and the two dividers one integer specification.

## Inventory

| program | state | operations | what is hard | correct when |
|---|---|---|---|---|
| `cpu_simulator.c` | task table: program, pc, registers, stack, `is_complete`, `preempt_flag`; scheduler's loop index and count | `add_task`, `scheduler` (main thread), `execute_task`, `execute_instruction` (one thread per slice) | the flag is raised at any point of the task's loop; a line is compared with HALT before the test for the end | preemption is invisible to a task; one task runs at a time; the report of completion is true; scheduling ends |
| `Cache.cpp` | lines (tag, data, valid, dirty), main memory, non-cacheable map, write buffer | `accessMemory`, `fetchBlockFromMemory`, `flushCache`, `markNonCacheableMemory` | write-backs delayed until a line is replaced or flushed; three write policies | a program sees one memory; non-cacheable words are never touched by the cache |
| `loaderandlinker.c` | modules (symbols, relocations, code), global symbol table | load, build the table, relocate, execute | order of definitions and of patches; exits in the middle of a module | linked code is what the relocations ask for; nothing unresolved is executed |
| `os_simulator.c` | process, page and file tables; an I/O device | create, schedule, allocate, deallocate, create file, I/O | processes that end in the middle of a pass; a page counter that never goes down | fair shares; the scheduler returns when all are done; no page is given out twice |
| `compiler.c` | token array, position, symbol table | read, tokenize, parse, check, prompt | the array is reused from line to line, and so is the line itself at the end of input | what is accepted is what the grammar says |
| `assembler.c` | symbol table, code, errors | first, second, single pass; optimize; print | two passes must agree on addresses; an operand that is never read in | symbols stand for their lines; each line gets code or an error |
| `Memory.cpp` | eight devices, PROM and flash protection; the logger's lines and counters | `read`, `write`, `erase`, `protectBlock` | one shared logger; protection set at any time | reads return the last write; protection holds; statistics match the log |
| `SingleBus.cpp`, `ThreeBus.cpp` | registers, memory, PC, IR, labels; three buses | one per control signal | buses that keep an earlier access's content | memory is reached over the buses; both behave alike |
| `MicroprogrammedControl.cpp` | microprogram, sequence counter, branch address | sequence, branch, modify branch | a loop that ends on one kind of entry only | the unit halts on HALT |
| `macroprocessor.c` | input position, macro table, output | define, look up, expand, copy | unterminated and repeated definitions, calls short of values, blank lines and arrays nothing was written to | the output is the input with its calls replaced |
| `Pipeline.cpp` | instruction queue, stage registers, registers, memory, flags | one cycle: fetch, three hazard tests, execute, shift | a hazard test that compares constants | instructions are executed (they are not) |
| `BoothsAlgorithm.cpp`, `RestoringDivision.cpp`, `NonRestoringDivision.cpp` | registers A, Q, M, Q(-1), the count | one per iteration | carries taken from the wrong bit, a register that grows at the wrong end | the loops amount to a known integer function |
| `Adder.cpp`, `Multiplication.cpp` | none | add, subtract, multiply on bit vectors | alignment, carries into a growing vector, the empty vector | a number is read back as it was converted; a product's sign is right unless an overflow bit stands in front; the adders agree with each other |
| `HardwiredControl.cpp` | none | prints four fixed signal lists | nothing | not modelled: no state decides anything |

Six files do not compile as committed: `Cache.cpp` declares
`fetchBlockFromMemory` twice, `Memory.cpp` lacks the brace that closes
`EEPROM::read`, `Adder.cpp` binds a `bool&` to an element of a `vector<bool>`,
and `BoothsAlgorithm.cpp`, `RestoringDivision.cpp` and
`NonRestoringDivision.cpp` mix `int` and `size_t` in a `max`. The specifications
are of the program with the evident repair: the reference assigns the element,
the maximum is that of the numbers.

## Modules

| module | models |
|---|---|
| `CpuInstructions` | the CPU record and `execute_instruction()` |
| `SequentialTasks` | what the task scheduler promises: one undisturbed machine per task (abstract) |
| `CpuSimulator`, `MCCpuSimulator`, `CpuSimulatorProofs` | the threaded scheduler, its instance, its proofs |
| `BlockStore` | what a write-back cache promises: one word per cacheable block, one per non-cacheable address (abstract) |
| `Cache`, `CacheProofs` | the cache simulator and its proofs |
| `LoaderLinker`, `MCLoaderLinker`, `LoaderLinkerProofs` | the loader and linker, its proofs |
| `OsSimulator`, `OsSimulatorProofs` | processes, scheduler, pages, files, the I/O device; their proofs |
| `Compiler`, `MCCompiler` | the read-compile loop |
| `Assembler`, `MCAssembler` | both modes of the assembler |
| `MemoryDevices`, `MemoryDevicesProofs` | the eight devices and the logger, their proofs |
| `Datapath` | words, registers and ALU of both processors |
| `SingleBus`, `ThreeBus` | the two processors |
| `MicroprogramControl` | the microprogrammed control unit |
| `ProcessorProofs` | proofs about the three-bus processor, that it implements the other one, and about the control unit |
| `BitVectors` | the bit-vector helpers of the multiplier and the dividers |
| `Adders`, `ShiftAndAdd` | the functions of `Adder.cpp` and of `Multiplication.cpp` |
| `RegisterArithmetic` | what the three register loops compute, over integers (abstract) |
| `ArithmeticUnits`, `MCArithmeticUnits`, `ArithmeticProofs` | the five arithmetic programs, their proofs |
| `MacroProcessor`, `MCMacroProcessor` | the macro processor |
| `TranslatorProofs` | proofs about the compiler, the assembler and the macro processor |
| `Pipeline` | the instruction pipeline with `main()`'s program |

Names are those of the source where TLA+ allows it (`task_count`,
`preempt_flag`, `mainMemory`, `page_usage`, `currentToken`, `codeCount`, ...).
Each action is one call, or one step between two points where something else
can happen. Definitions whose comment begins with "Mutant of" are wrong on
purpose: each is the definition it names with a plausible slip, and shows that
some property notices.

### CpuSimulator

Two threads are live during a slice. The main thread is `phase`: adding tasks,
at the head of the `for` loop (`scan`), asleep (`slice`), in `pthread_join`
(`join`), finished (`done`). A task's thread is `thread[t]`: at the loop
condition and the flag test (`test`), past them (`exec`), returned (`exited`).
`Dispatch` is lines 124-133 (count, lower the flag, create the thread),
`Signal` the end of `sleep` and the raising of the flag, `Join` the return of
`pthread_join`. `ThreadRun`/`ThreadStop` are one evaluation of the loop
condition and the flag; `ThreadExec` is the loop's body, which touches nothing
the main thread reads before the join. So every interleaving of accesses to the
shared flag is a behaviour. `phase = "crashed"` is the end of the process in
`strcmp(NULL, "HALT")`.

Abstracted: a program line is its decoded record; output; the mutex, which only
the main thread takes; the heap, which nothing touches. `int` is unbounded, so
overflow of ADD, SUB and MUL is outside the model; the truncation of a pushed
register to a `char` is inside.

### Cache

One action per path through `accessMemory()`: non-cacheable, hit or miss, read
or write; `Evicted` is the write-back of the line to be replaced. The source
keeps a single `int` for a whole block, and a write-back goes to the block's
first address, so the promise of `BlockStore` is a word per block, not per
address. `Spec` lets regions be marked non-cacheable at any time; `MarkedSpec`
marks whole blocks before the first access, as `main()` does. The difference is
needed: a block marked while it is dirty in the cache is later written back
over the marked region.

Nothing is promised of the write-through policies beyond the placement of
lines: a write that misses changes the line and neither memory nor the write
buffer (`Cache.cpp:149`), and a hit writes at its own address, from which a
later miss of the block does not read.

### LoaderLinker, OsSimulator, Compiler, Assembler

`LoaderLinker` runs `main()` once: a step per file loaded, one per
symbol entered in the global table, one per relocation, each of the exits. An object file is the record its
lines parse to. `UndefinedIsUndefined` says what "undefined" really covers: a
symbol whose first definition is at address -1 is reported so as well, since -1
is also the answer of the lookup that failed.

`OsSimulator` takes `main()` to be any sequence of calls; a call of
`schedule_processes()` is one step per slice. `slices` is a history variable
that counts a process's slices in the current call. `perform_io_operation()` is
cut in two at `sem_wait()`, which never waits: one thread enters and leaves the
device's queue in one call, so that its limit is never met (`OsInv`). Pages are
handed out by `page_usage`, which nothing lowers: `PagesHandedOutOnce` is both
the guarantee that no page has two owners in turn and the leak it comes from.

`Compiler` has a step per line read and per statement parsed. `tokens` is never
cleared, as in the source, so the slot behind the EOF token is what an earlier
line left there. `line` is `sourceCode`: at the end of input `fgets()` leaves it
alone, its result is not looked at, and the last line is compiled again, for
ever if it is accepted (`EndOfInputLoops`); before the first line it is
uninitialized and may be any. A declaration that names a value, and every other statement
that enters the symbol table, then fails the semantic check: nothing ever sets
`initialized` (`compiler.c:229`).

`Assembler` has a step per source line and pass. Only the operation reaches
`assembleInstruction()`, so `operand[]` is never filled and any string may be in
it. `codeCount` counts instructions while they are stored by address, so after
a refused line the last instructions are not printed; `OneHalt` is therefore
stated for files without a refused line.

### MemoryDevices, SingleBus, ThreeBus, MicroprogramControl

`MemoryDevices` drives one object of each class with calls in any order. The
log is a sequence of records, and the properties are read off it: it is all the
program tells. A read of the TTL RAM may be corrupted, at random in the source
and by choice here. The EPROM refuses every write, the one after an erase too.

`SingleBus` and `ThreeBus` have an action per control signal that changes
state. Words are residues modulo `2^Width`. A fetch passes the instruction
register's content as the number of the destination register, so that it
overwrites register 0; both sources do, and both models. The PC is bounded by
`MaxPC`. `ThreeBus` has two history variables beside the program's: `lastTarget`,
the address of the last jump taken, and `fetches`, the fetches made since. No
guard looks at them; `ControlBusIsLastTarget`, a part of `BusInv`, compares the
control bus and the PC with them.

`MicroprogramControl` takes the loop of `executeMicrosequencing()` one
microinstruction at a time. Entries 0 to 3 are a cycle, so from the reset state
the loop does not end and `main()`, which sequences from there first, never gets
to its branch; `HaltsFromHorizontal` is of the entries from 4 on.

### ArithmeticUnits and what it is built from

One behaviour is one run of one of the five programs on two operands. The
adders and the shift-and-add multiplier are functions and take one step; the
loops of Booth's multiplication and of the two divisions take one step per
iteration on the registers A and Q. Nothing is idealised: `AddOneLoop` is the
loop that subtracts one where it says it adds one, `Subtracted` ripples a borrow
over inverted bits, `ShiftedA` puts the dividend's bit at A's front, which makes
A grow, `Padded` puts zeros after the least significant bit.

`RegisterArithmetic` says what that comes to over integers: "A - M" is
A + M + 1; Booth's step recodes runs of ones accordingly; a divider's arithmetic
is on the first w bits of an A that has one bit more after every step, the rest
(`TailFrozen`) only moving along. `IntegerSpec` maps the bit vectors to the
numbers they spell. `BoothProduct` sums the steps up; `AdderSums` does the same
for the adders. `SignsCancel` shows that operands are read back with the right
sign although every negative bit pattern is off by two, and what becomes of a
product's: for one negative operand it is the opposite of what the magnitudes
give, so that it is right just when the bits made of the magnitudes begin with
0. An overflow bit in front turns it, and 2 * 1 is printed as -2, 2 * -1 as 2.
The outputs of the model on pairs of operands were compared with those of
the compiled (repaired) programs and are the same.

### MacroProcessor, Pipeline

`MacroProcessor` has a step per line of input outside a definition and one per
definition. A line is its first word and the items between its parentheses.
Memory nothing was written to is the item `Stale`; a blank line is looked up
under a name that may be any, so `BlankLine` chooses. `OutputIsExpansion` is
stated apart from the table the program builds: from the input alone, which
line is in which definition and what each line contributes. A macro has at most
nine parameters (`ValidInputs`): the placeholder of a tenth begins with that of
the first, and the items of a line would no longer be replaced one by one. `StaleNeedsCause`
bounds the damage: no unwritten memory without a blank line or a call with too
few values before. Its outputs, too, were compared with the compiled program's.

`Pipeline` is `runPipeline()` on the program `main()` loads, a cycle per step.

## Runs

| run | module | instance | states |
|---|---|---|---|
| `cpu_tasks` | `MCCpuSimulator` | 3 tasks, 5 programs, 2 registers, a stack of 2 | 161583 |
| `cache_write_back` | `Cache` | 2 lines, 3 blocks of 2 words, direct-mapped | 17940 |
| `linker` | `MCLoaderLinker` | up to 4 of 6 files and a missing one | 19826 |
| `os` | `OsSimulator` | 3 processes, 3 pages, 1 file, slice of 2 | 168416 |
| `compiler` | `MCCompiler` | all lines of up to 3 tokens of 5 classes, 6 longer ones, end of input | 5188 |
| `assembler` | `MCAssembler` | all files of up to 4 lines out of 6 | 86495 |
| `memory` | `MemoryDevices` | 8 devices of 2 cells, 2 values, 3 calls | 241137 |
| `bus_three` | `ThreeBus` | 2 registers, 2 words of 2 bits, a label at 2 addresses | 104192 |
| `micro` | `MicroprogramControl` | every branch address of interest | 141 |
| `arithmetic` | `MCArithmeticUnits` | 6 units, 15 x 15 operands | 8772 |
| `macro` | `MCMacroProcessor` | all files of up to 4 pieces out of 10 | 67391 |
| `pipeline` | `Pipeline` | `main()`'s five instructions: violated | 6 |

What they show, and why the bounds are enough:

* `cpu_tasks`. `PreemptionTransparent`: at every point a task's CPU is the one
  an uninterrupted run has at the same pc. `SequentialSpec`: the scheduler
  implements `SequentialTasks`. `OneThread`, `NoCrash`, the inductive
  invariant `IInv` (with it `DoneMeansAllComplete`), and `AllTasksComplete`. Three tasks give a
  first, a middle and a last one in a pass, each of which may complete in an
  earlier pass than the others; the programs overflow and underflow the stack,
  push a value no `char` holds, lack a HALT, begin with one, or are empty.
* `cache_write_back`. Three blocks on two lines make two blocks compete for a
  line, with a third beside them; every choice of non-cacheable blocks is an
  initial state. `BlockStoreSpec` is the refinement, `CacheInv` says that
  what would be dropped without a write-back is in memory,
  `NonCacheableIsolated` that no eviction or flush reaches a non-cacheable word.
* `linker`. Four modules allow a definer before, after and between users, a
  file named twice, and two definers. `LinkedCode` is an independent statement
  of what every byte must be; `LinkerInv` has that nothing unresolved is executed.
* `os`. Burst times 0, 3 and 4 for a slice of 2 are the boundary cases: done at
  once, one over, an exact multiple. `FairShare` compares any two processes at
  every point of a pass, `SchedulingEnds` is termination of every call, and `OsInv` that it ends
  with all processes terminated, none a whole slice overdue.
* `compiler`. `ParsesPrograms` compares the parser with a grammar stated on
  token sequences; lines of up to three tokens reach every incomplete form of
  every statement but `if`, of which a complete and an incomplete line are
  added. `CompilerInv` is what the parser relies on in the array;
  `LineAnswered` and `EndOfInputLoops` are the two sides of its liveness.
* `assembler`. Six lines include a comment, a blank, labelled and unlabelled
  HALTs, a label used twice and an unknown operation; four of them show any
  three in a row and what follows. `AssemblerInv` has the addresses of the
  symbols.
* `memory`. Three calls are a write, a protection or second write, and a read;
  two values tell the second write of a cell from the first. The properties
  relate a log line to those before it on the same cell: a read to the last write,
  a write to the protections, and a protection error to what it is blamed on, so
  that a write refused for its address leaves the PROM as it was.
  `MemoryInv` relates the statistics to the log.
* `bus_three`. Two bits per word are enough for a sum that wraps; addresses 0,
  1 and 2 are in and out of range, and the label is entered for 1 and for 2, also
  again after a jump, when the control bus must keep the address the jump went
  to. `BusInv`: the control bus holds the last jump's target, the PC is past it
  by the fetches made since, and the instruction register is never loaded.
* `micro`. Branches to entries of both microprograms and to absent ones;
  `MicroInv`: no entry appears in the map, and the unit halts on HALT only.
* `arithmetic`. 0, 1, 2, 3, 6, 13, 99 and 100, and their negatives: runs of ones
  of every length in a nibble, dividends below and above the divisor, both zero
  cases, and 99 and 100 on the two sides of a change from 8 to 12 bits.
* `macro`. Two macros with one, two and no parameters, defined twice and
  unterminated; calls with enough values and with too few, a value that is
  itself a placeholder, a call inside a definition. Four pieces are two
  definitions and two calls in any order.
* `pipeline`. `detectStructuralHazard()` compares entries of `pipelineStages`,
  which only the constructor writes, and is always true: the five instructions
  are fetched over one another and nothing is executed, for ever.

Every property of a run that passes has a mutant of the model that violates it.

## Fairness

* `CpuSimulator!FairSpec`: the operating system runs both threads (weak fairness
  of the scheduler and of each thread), and a task given slices for ever is not
  beaten to its first look at the flag in all of them (strong fairness of
  `ThreadRun`): the flag goes up two seconds after the thread was created.
  Without the last, a task need never execute anything. Well-formed programs
  (an instruction before the final HALT) are needed too: a task with an empty
  program is never marked complete and keeps the scheduler running for ever.
* `OsSimulator!FairSpec`: `schedule_processes()` waits for `sleep()` only.
* `Compiler!Spec`: the parser goes on once it has a line; nothing makes the
  user type one.
* At its end, input is no longer waited for: `Reread` is in the compiler's `Work`.
* `MicroprogramControl!FairSpec`: the loop goes on once entered.
* `Pipeline!FairSpec`: `runPipeline()` waits for nothing.

## Proofs

`CpuSimulatorProofs`, for every table size, set of programs, number of registers
and stack size (assumptions `CpuSizes`, `CpuInputs`):

* `Invariant`: `Spec => []IInv`. `IInv` is `TypeOK`; `ThreadOwner`, only the task
  at the loop index has a thread, and exactly during its slice; `ThreadLive`, a
  thread that may execute belongs to an incomplete task and has an instruction
  before it; `PassCount`, a pass that counted nothing saw only completed tasks;
  `UnusedSlots`; and `DoneMeansAllComplete`. None is inductive alone: that a
  completed task stays so rests on `ThreadLive`, that on `ThreadOwner`, and the
  report on `PassCount`.
* `TypeCorrect`, `Exclusive` (`OneThread`) and `ReportIsTrue`
  (`DoneMeansAllComplete`) follow.
* `Transparent` (`PreemptionTransparent`): a task's CPU is the one the uninterrupted
  run has at the same pc. That there is such a run is shown first, by building the
  function one line longer at a time.
* `NeverCrashes` (`NoCrash`): with `IInv`, an incomplete task with a well-formed
  program is at its first line or at one that is not HALT (`BeforeHalt`), so the
  line after it exists.
* `Refinement`: `Spec => SequentialSpec`, with the identity on the variables the
  abstract specification has; every step but `AddTask` and `ThreadExec` stutters.

`CacheProofs`, for every geometry and mapping (`CacheSizes`, `CachePolicies`):

* `LinesPlaced`: `Spec => []LineInv`, under every write policy and with regions
  marked at any time: a line holds a block that maps to it, and only write-back
  makes a line dirty.
* `CacheCoherent`: `MarkedSpec => []CacheInv`, where `CacheInv` adds
  `CleanMatchesMemory` and that non-cacheable blocks are not cached; a write-back
  to a block's first address keeps clean lines right because lines hold
  different blocks (`LineInv`). `CleanMatches` and `Isolated`
  (`NonCacheableIsolated`) follow.
* `BlockStoreRefinement`: under `WritePolicy = "WriteBack"`, `MarkedSpec`
  implements `BlockStore` (`INSTANCE BlockStore WITH store <- words`). `words` reads a cached block's
  word from its line and every other word from memory.

`OsSimulatorProofs`, for any numbers of processes, pages, files, device queue and
slice (`OsSizes`):

* `Invariant`: `IInv` adds to the types what a call of the scheduler has done so
  far. `PassOrder` and `PassCount` tell processes before and behind the loop
  index apart: a pass that counted no active process leaves only terminated
  ones before the index. `TimeLeft` ties a process's state to the time it has
  left. `Rounds` says that there is a number of full passes such that everyone
  alive has had exactly that many slices, and one more if before the index.
* `OsCorrect` (`OsInv`) needs `PassCount` and `TimeLeft`; `RoundRobin` (`FairShare`) is
  `Rounds` for two processes; `NoPageTwice` (`PagesHandedOutOnce`) is an action
  property and needs `FreshPages`: pages from `page_usage` on have no owner.

`LoaderLinkerProofs`, for any files (`LinkerInputs`):

* `Invariant`: the loops of `linkModules()` are at module `m`, entry `r`, so the
  invariant says for every symbol and every relocation whether its turn has
  passed. `TableRight`: what the lookup finds for a name is its first
  definition among those entered. `CodeRight`: each byte is what the last of
  the relocations carried out there has put, or as loaded. `PatchesDefined`: what
  was carried out has a definer.
* `LinkedSymbols` (`LinkerInv`), `CodeIsLinked` (`LinkedCode`) and `Undefined`
  (`UndefinedIsUndefined`) are what these say once all turns have passed.

`TranslatorProofs` is about three programs, which share nothing. It extends all three
modules, so that `Assembler` and `MacroProcessor` (and `MicroprogramControl`, for
`ProcessorProofs`) have the component's name before `Init`, `Next` and `Spec`, and
`Assembler` calls `phase` and `symbolTable`, which `Compiler` has too, `pass` and
`labelTable`.

The compiler, on lines of any length that fit the array (`CompilerInputs`):

* `Invariant`: `ParsesPrograms` speaks of lines that are cut into statements, which
  the parser knows nothing of. `Reached` says that some sequence of statements ends
  where the parser stands, `Unavoidable` that every way of cutting the line has a
  cut there; the step of each statement form keeps both, since no statement is
  the beginning of another at the same place.
* `ArrayHoldsLine` (`CompilerInv`) and `ParserRight` (`ParsesPrograms`) follow.

The assembler, on files of at most `MaxLines` lines (what its arrays hold), with any
labels (`AssemblerInputs`):

* `AssemblerInvariant`: an address is the number of lines before it that take one
  (`AddressOf`), so the two passes agree because they count the same lines, and
  the invariant can say for every line read, whichever pass reads it, where its
  label and its code are. `Collected` is of the table: each symbol is at the first
  line it labels, and no label read is missing. `Generated` is of the code: every
  line read has its opcode or an error at its address, nothing is at an address
  not reached, and `codeCount` is the number of entries filled.
* `AddressesAgree` (`AssemblerInv`), `LinesAnswered` (`CodeOrError`) and `HaltsMerged`
  (`OneHalt`) follow. The last needs that without a refused line the filled entries
  are the first `codeCount`, so that the loop that compares neighbours compares
  lines that follow one another.

The macro processor, on any files of lines (`MacroInputs`):

* `MacroInvariant`: the position is outside every definition (`AtBoundary`), the table
  is the sequence of the definitions that start before it, in order (`TableAt`),
  and the output is what the lines before it contribute (`OutputAt`). That a
  position stays outside rests on how the next `#end` and the lines in a
  definition, two separate readings of the input, agree (`LinesOfDefinition`).
* `MacroTableWhole` (`MacroInv`) and `StaleCaused` (`StaleNeedsCause`) follow; for the
  latter an expansion with a value for every parameter holds only texts
  (`ExpansionTyped`).
* `OutputRight` (`OutputIsExpansion`). The program replaces one placeholder after the
  other in a list already changed; `ReplaceOneMore` shows that, when no value is a
  placeholder, each replacement finds exactly the item it would have found in
  the list as it was, and `ExpandedLineSubstituted` that all of them together are
  one substitution. `FindMacroIs` identifies the macro the table yields with the first
  definition in the input.

`MemoryDevicesProofs`, for devices of any size (`MemoryInputs`):

* `Invariant`: each cell holds what the log says was last written to it
  (`MemoryMatchesLog`), and the PROM is programmed, a flash block protected, if and
  only if the log has a line that did it (`GuardsMatchLog`): one direction is why
  protection holds, the other why a refusal has a cause. A log line's properties
  speak of lines before it only, so a new line disturbs none of the old ones.
* `Statistics` (`MemoryInv`), `ReadLastWrite` (`ReadsReturnLastWrite`) and
  `Protection` (`ProtectionHolds`) follow.

`ProcessorProofs`, for any width, memory and number of registers (`DatapathSizes`):

* `BusesCorrect` (`BusInv`), which is inductive with the histories of the last jump in
  it, and `OverBuses` (`MemoryOverBuses`).
* `SingleBusRefinement`: `Spec => SingleBusSpec`, every signal of the three-bus
  processor being the same signal of the other, whatever the buses hold: each signal
  puts what it needs there itself before it takes it back.
* `HaltsOnHALT` (`MicroInv`), for any branch addresses: the entries of the microprogram lead to entries or halt on
  HALT (`MicroprogramEntries`), and a branch is refused an absent entry.

`ArithmeticProofs`, for every two operands an `int` holds (`OperandsAreInts`); its
lemmas are for vectors of every length:

* `Invariant` and `LengthsRight` (`ArithmeticInv`): the widths of A and Q in
  iteration `count`, which make every index of the loops valid; and that the
  product of two vectors not both empty is not empty. `TailOnlyMoves`
  (`TailFrozen`) follows from the widths and from what a ripple leaves alone.
* `RegisterRefinement`: `Spec => IntegerSpec`. A ripple is followed from its last
  position to its first: what the bits behind position i spell, with the carry
  into i in front, is the sum so far (`RippleAdds`, `RippleSubtracts`, the second
  over inverted bits, which is where the one too much comes from). `SumValues` is
  the sum modulo 2^w. A divider's A, longer than M, is split at M's width
  (`SplitValue`, `PartsValue`), and a shift is a doubling or a halving
  (`DoubleValue`, `HalfValue`).
* `AddersRight` (`AdderSums`): the same for the adders, whose carry out is kept or
  dropped (`RippleWhole`); the lookahead's carries, although they run the wrong
  way, are all 0 where no position has two ones, and then nothing depends on
  them (`LookaheadValue`).
* `SignsRight` (`SignsCancel`): the add-1 loop subtracts 1 from every vector that is
  not all zeros (`AddOneValue`), so writing a negative number and reading it back
  are off by two in opposite directions (`RoundTrip`). The width is enough for any
  operand's digits (`WidthHolds`). A product's last bit is 0 because every shifted
  copy of the multiplicand is shorter than the product and padded at its end
  (`ProductType`), and negating such a vector negates the number it is read as
  (`NegatedRead`); the sign of that number is its first bit (`FirstBitSign`), so the
  product's sign is settled by those of the operands and that bit (`ProductSign`).
* `ProductRight` (`BoothProduct`). `BoothInv` says how far the registers are: the bits
  of the multiplier still in Q, the one in Q-1, and a signed number in A that
  makes, with the bits that came into Q from A, the sum so far (`Holds`). That
  number is always within a quarter of the range, so adding M or M + 1 cannot
  overflow and halving brings it back (`HalvedSum`); that is why the theorem is
  about multiplicands below a quarter of the range.

Induction is done inside first-order logic throughout, on sets of numbers below a
bound: such a set that has 0 and with k the number after it has them all
(`UpTo`, from the least number that is missing). That the recursive functions of the
model exist at all, as functions of the values they are meant to have, is shown in
the same way (`Recursion` for loops, `Carrying`, `ValueSteps`, `InDefinitionIs`,
`ExpandedLineIs`, `ExpandedIs`), and 2^n, of which
the provers know nothing, is the number of subsets of `1 .. n` (`PowCounts`).

Model-checked only: the liveness properties `AllTasksComplete`, `SchedulingEnds`,
`LineAnswered`, `EndOfInputLoops` and `HaltsFromHorizontal`, which rest on fairness. Every
other property of a passing run is a theorem.

## Noted while reading

Disagreements between a comment or message and the code that no run reports: slices
are given in table order, although `cpu_simulator.c:26` speaks of priorities;
write-through policies lose writes that miss (`Cache.cpp:149`); a linked byte
that is NUL cuts the printed code short (`loaderandlinker.c:155`);
`deallocate_memory()` marks pages free that `allocate_memory()`, which looks at
`page_usage` only, never gives out again (`os_simulator.c:148`); every
declared variable is "uninitialized" (`compiler.c:229`), and an incomplete line is
accepted or not by what an earlier line left in the token array
(`compiler.c:161`); instructions after a refused line are not all printed
(`assembler.c:236`); the EPROM stays unwritable after an erase
(`Memory.cpp:250`); a fetched instruction overwrites register 0 and never reaches
the instruction register (`SingleBus.cpp:110`, `ThreeBus.cpp:126`); an ALU result
said to go "via Data Bus" does not (`ThreeBus.cpp:68`); the microprogram's first
four entries never halt (`MicroprogrammedControl.cpp:73`), so that `main()`'s
"additional microinstructions post-branching" (`MicroprogrammedControl.cpp:118`)
are not reached. Of the arithmetic
programs: "two's complement" is off by two (`BoothsAlgorithm.cpp:31`); "A - M" adds
M + 1 (`BoothsAlgorithm.cpp:97`, `RestoringDivision.cpp:105`), so that products and
quotients are seldom right; the dividend's bits enter A at its front, not at its
"LSB" (`RestoringDivision.cpp:92`); operands of different lengths are added left
aligned (`Adder.cpp:60`), and the lookahead's carries run from the most significant
bit (`Adder.cpp:119`); the multiplier's carry is a new bit in front
(`Multiplication.cpp:83`), which is read as the product's sign, so that "XOR to
determine result sign" (`Multiplication.cpp:69`) does not hold, and 0 * 0 reads the first bit of an empty vector
(`Multiplication.cpp:41`). A macro defined twice keeps its first definition
(`macroprocessor.c:127`), and only the first occurrence of a placeholder in a line
is replaced (`macroprocessor.c:166`).

## Not modelled

* `HardwiredControl.cpp`: each of four methods prints a list of signals fixed in the
  source. What the object keeps, the lists and a counter each loop restarts,
  selects nothing.
* Array overruns by inputs longer than a program's limits: tokens of a line,
  symbols of all modules, lines, names and arguments of macros. What lies past
  the arrays is undefined.
* Overflow of an `int` in the arithmetic programs: an operand is one whose magnitude
  is an `int` too (`OperandsAreInts`), and a result is the number its bits spell even
  where 32 bits do not hold it.
* Printing, logging to a file, and the texts of commands, requests and files.
* In `Pipeline.cpp`, what follows a flush: `pipelineRegister` is empty then and the
  next cycle indexes it. No run of the program gets there.

## Plan

1. Done: the task scheduler and the cache with their abstract specifications and
   proofs; the linker, operating system, compiler, assembler, memory devices,
   processors and control unit, model-checked.
2. Done: the macro processor, the pipeline, the five arithmetic programs and their
   integer specification; the I/O device; the compiler at the end of its input.
3. Done: the proofs listed above.
4. Done: the assembler, the macro processor and the control unit proved.
