SPECIFICATION FairSpec
CONSTANTS
    Components = {c1, c2}
    Host = c1
    Nested = {c2}
    Registers = TRUE
INVARIANTS
    OnceEach
    NoUpdateAfterDestroy
    AwakeFirst
PROPERTIES
    AddedIsUpdated
    RemovedIsDestroyed
CHECK_DEADLOCK FALSE
