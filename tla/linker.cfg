SPECIFICATION Spec
CONSTANTS
    Files <- MCFiles
    Names <- MCNames
    MaxArgs = 4
    CodeSize = 3
INVARIANTS
    LinkerInv
    LinkedCode
    UndefinedIsUndefined
