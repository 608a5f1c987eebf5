SPECIFICATION FairSpec
CONSTANTS
    Addrs = {a1, a2}
    MaxMiss = 1
    LogSize = 2
    SetStatuses = {"WebClose"}
    Debug = FALSE
PROPERTIES
    EvictedOnlyWhenQuiet
    GoneIsForgotten
    LiveIsListed
