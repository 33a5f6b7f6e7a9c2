CONSTANTS
    MaxPieces = 4
    Text <- MCText
    Inputs <- MCInputs
SPECIFICATION MacroSpec
INVARIANTS
    MacroInv
    OutputIsExpansion
    StaleNeedsCause
CHECK_DEADLOCK FALSE
