SPECIFICATION FairSpec
CONSTANTS
    Timed = {}
    Waiting = {}
    OneWay = {}
    Pings = {p1}
    Rejected = {}
    Closers = {k}
    MaxPing = 1
    DebugMode = FALSE
    Input = Input
    Heart = Heart
    Nobody = Nobody
    NoCall = NoCall
PROPERTIES
    CloseReturns
CHECK_DEADLOCK FALSE
