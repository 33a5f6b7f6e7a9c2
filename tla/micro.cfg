SPECIFICATION FairSpec
CONSTANT
    BranchAddresses = {3, 4, 5, 7, 9}
INVARIANTS
    MicroInv
PROPERTY
    HaltsFromHorizontal
