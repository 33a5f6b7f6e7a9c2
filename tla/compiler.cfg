SPECIFICATION Spec
CONSTANTS
    Lines <- MCLines
    MaxTokens = 8
INVARIANTS
    CompilerInv
    ParsesPrograms
PROPERTIES
    LineAnswered
    EndOfInputLoops
