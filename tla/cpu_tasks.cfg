SPECIFICATION FairSpec
CONSTANTS
    NumRegisters = 2
    StackSize = 2
    MaxTasks = 3
    Programs <- MCPrograms
    Priorities <- MCPriorities
INVARIANTS
    IInv
    OneThread
    PreemptionTransparent
    NoCrash
PROPERTIES
    SequentialSpec
    AllTasksComplete
