SPECIFICATION Spec
CONSTANTS
    RegCount = 2
    MemorySize = 2
    Width = 2
    Labels = {"START"}
    LabelAddresses = {1, 2}
    Addresses = {0, 1, 2}
    MaxPC = 3
INVARIANTS
    BusInv
PROPERTIES
    MemoryOverBuses
    SingleBusSpec
