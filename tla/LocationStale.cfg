SPECIFICATION LocSpec
CONSTANTS
    Addrs = {a1}
    MaxMiss = 1
    LogSize = 1
    SetStatuses = {"WebClose"}
    Debug = FALSE
PROPERTIES
    LocationForgets
