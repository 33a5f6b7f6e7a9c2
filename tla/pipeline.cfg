SPECIFICATION FairSpec
PROPERTIES
    FirstExecuted
CHECK_DEADLOCK FALSE
