SPECIFICATION FairSpec
CONSTANTS
    MaxClients = 3
INVARIANTS
    OneConnection
PROPERTIES
    Reconnects
    DestroyReturns
CHECK_DEADLOCK FALSE
