------------------------ MODULE MicroprogramControl ------------------------
(***************************************************************************)
(* The microprogrammed control unit of src/MicroprogrammedControl.cpp.     *)
(* main() may call modifyBranchAddress(), executeBranch() and              *)
(* executeMicrosequencing() in any order; the last one loops until the     *)
(* sequence counter is -1 and is modelled one microinstruction at a time.  *)
(***************************************************************************)
EXTENDS Integers, Sequences

CONSTANT BranchAddresses   \* what main() may pass to modifyBranchAddress()

ASSUME BranchAddressesAreInt == BranchAddresses \subseteq Int

VARIABLES microprogramMemory,    \* address -> microinstruction
          microsequenceCounter,
          branchAddress,
          executing,             \* inside the loop of executeMicrosequencing()
          printed                \* the control signals printed last

microVars == <<microprogramMemory, microsequenceCounter, branchAddress, executing,
               printed>>

Micro(signals, next) == [controlSignals |-> signals, nextAddress |-> next]

Vertical(a) == CASE a = 0 -> Micro(<<"LOAD_REG", "ALU_EXECUTE">>, 1)
                 [] a = 1 -> Micro(<<"MEMORY_READ">>, 2)
                 [] a = 2 -> Micro(<<"MEMORY_WRITE">>, 3)
                 [] a = 3 -> Micro(<<"BRANCH">>, 0)
                 [] a = 4 -> Micro(<<"HALT">>, -1)

\* Mutants of Horizontal: the write goes back to the first entry; the last entry
\* halts without its signal.
HorizontalLoops(a) == CASE a = 5 -> Micro(<<"LOAD_REG">>, 6)
                        [] a = 6 -> Micro(<<"ALU_EXECUTE">>, 7)
                        [] a = 7 -> Micro(<<"MEMORY_READ", "MEMORY_WRITE">>, 5)
                        [] a = 8 -> Micro(<<"HALT">>, -1)

HorizontalUnhalted(a) == CASE a = 5 -> Micro(<<"LOAD_REG">>, 6)
                           [] a = 6 -> Micro(<<"ALU_EXECUTE">>, 7)
                           [] a = 7 -> Micro(<<"MEMORY_READ", "MEMORY_WRITE">>, -1)
                           [] a = 8 -> Micro(<<"HALT">>, -1)

Horizontal(a) == CASE a = 5 -> Micro(<<"LOAD_REG">>, 6)
                   [] a = 6 -> Micro(<<"ALU_EXECUTE">>, 7)
                   [] a = 7 -> Micro(<<"MEMORY_READ", "MEMORY_WRITE">>, 8)
                   [] a = 8 -> Micro(<<"HALT">>, -1)

\* initializeMicroprogram()
InitialMicroprogram ==
    [a \in 0 .. 8 |-> IF a <= 4 THEN Vertical(a) ELSE Horizontal(a)]

MicroInit == /\ microprogramMemory = InitialMicroprogram
             /\ microsequenceCounter = 0
             /\ branchAddress = 0
             /\ executing = FALSE
             /\ printed = <<>>

\* map::operator[]: looking an address up that is not there adds an entry without
\* signals that goes on at 0.
LookedUp(a) == [b \in DOMAIN microprogramMemory \cup {a} |->
                    IF b \in DOMAIN microprogramMemory
                    THEN microprogramMemory[b]
                    ELSE Micro(<<>>, 0)]

\* main() calls executeMicrosequencing().
StartSequencing == /\ ~ executing
                   /\ executing' = TRUE
                   /\ UNCHANGED <<microprogramMemory, microsequenceCounter,
                                  branchAddress, printed>>

\* executeMicroinstruction(), called for the entry at the counter.
ExecuteMicroinstruction ==
    /\ executing
    /\ microsequenceCounter # -1
    /\ microprogramMemory' = LookedUp(microsequenceCounter)
    /\ LET microinst == microprogramMemory'[microsequenceCounter]
       IN  /\ printed' = microinst.controlSignals
           /\ microsequenceCounter' = microinst.nextAddress
    /\ UNCHANGED <<branchAddress, executing>>

\* The halt condition: executeMicrosequencing() returns.
EndSequencing == /\ executing
                 /\ microsequenceCounter = -1
                 /\ executing' = FALSE
                 /\ UNCHANGED <<microprogramMemory, microsequenceCounter,
                                branchAddress, printed>>

ModifyBranchAddress(a) ==
    /\ ~ executing
    /\ branchAddress' = a
    /\ UNCHANGED <<microprogramMemory, microsequenceCounter, executing, printed>>

\* An address without an entry is refused.
ExecuteBranch ==
    /\ ~ executing
    /\ branchAddress \in DOMAIN microprogramMemory
    /\ microsequenceCounter' = branchAddress
    /\ UNCHANGED <<microprogramMemory, branchAddress, executing, printed>>

Sequencing == ExecuteMicroinstruction \/ EndSequencing

MicroNext == \/ StartSequencing
             \/ Sequencing
             \/ \E a \in BranchAddresses : ModifyBranchAddress(a)
             \/ ExecuteBranch

MicroSpec == MicroInit /\ [][MicroNext]_microVars

\* The loop runs on once entered; nothing makes main() call it.
FairSpec == MicroSpec /\ WF_microVars(Sequencing)

-----------------------------------------------------------------------------

\* Every variable has its type, and only addresses of the microprogram are ever
\* looked up: operator[] adds no entry to the map.
MicroTypeOK == /\ microprogramMemory = InitialMicroprogram
               /\ microsequenceCounter \in DOMAIN microprogramMemory \cup {-1}
               /\ branchAddress \in BranchAddresses \cup {0}
               /\ executing \in BOOLEAN
               /\ printed \in Seq({"LOAD_REG", "ALU_EXECUTE", "MEMORY_READ",
                                   "MEMORY_WRITE", "BRANCH", "HALT"})

\* A unit that has halted did so on a HALT signal, and sent none after it.
HaltedAfterHALT ==
    microsequenceCounter = -1 => printed # <<>> /\ printed[Len(printed)] = "HALT"

\* The inductive invariant.
MicroInv == MicroTypeOK /\ HaltedAfterHALT

\* From an entry of the horizontal microprogram, or from 4, the unit halts.
HaltsFromHorizontal ==
    (executing /\ microsequenceCounter >= 4) ~> ~ executing
=============================================================================
