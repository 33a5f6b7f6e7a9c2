SPECIFICATION Spec
CONSTANTS
    Size = 2
    Addresses = {0, 1, 2}
    Values = {1, 2}
    Bits = {0, 7}
    MaxLog = 3
INVARIANTS
    MemoryInv
    ReadsReturnLastWrite
    ProtectionHolds
