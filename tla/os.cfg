SPECIFICATION FairSpec
CONSTANTS
    MaxProcesses = 3
    NumPages = 3
    MaxFiles = 1
    MaxDeviceQueue = 2
    TimeSlice = 2
    BurstTimes = {0, 3, 4}
    Ids = {0, 1}
INVARIANTS
    OsInv
    FairShare
PROPERTIES
    PagesHandedOutOnce
    SchedulingEnds
