SPECIFICATION MarkedSpec
CONSTANTS
    CacheSize = 2
    BlockSize = 2
    MainMemorySize = 6
    Associativity = 2
    WritePolicy = "WriteBack"
    MappingFunction = "Direct"
    Values = {1, 2}
INVARIANTS
    CacheInv
PROPERTIES
    NonCacheableIsolated
    BlockStoreSpec
