SPECIFICATION ClusterSpec
CONSTANTS
    Addrs = {a1}
    MaxMiss = 1
    LogSize = 1
    SetStatuses = {"WebClose"}
    Debug = FALSE
    Hosts = {h1}
    Selectors = {"Group", "Default", "MinLoad", "Polling", "SpecialIp"}
    Lookups = {c1}
    Getters = {g1, g2}
    MaxFaults = 1
    Askers = {u1, u2}
    MaxRounds = 1
    MaxDials = 2
    NoClient = NoClient
    Registrants = {r1, r2}
    MaxRestarts = 1
    MaxCalls = 2
    NoActor = NoActor
INVARIANTS
    LookupFinds
    FreshClient
    CallHeals
    ExecutedOnce
PROPERTIES
    LocationLearns
    LocationRegained
    ClaimReleased
CHECK_DEADLOCK FALSE
