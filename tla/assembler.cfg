SPECIFICATION AssemblerSpec
CONSTANTS
    Files <- MCFiles
    Labels <- MCLabels
    MaxLines = 4
INVARIANTS
    AssemblerInv
    CodeOrError
    OneHalt
