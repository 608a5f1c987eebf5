SPECIFICATION FairSpec
CONSTANTS
    Timed = {}
    Waiting = {w}
    OneWay = {}
    Pings = {p1, p2}
    Rejected = {}
    Closers = {}
    MaxPing = 0
    DebugMode = FALSE
    Input = Input
    Heart = Heart
    Nobody = Nobody
    NoCall = NoCall
PROPERTIES
    CallsReturn
    HalfOpenNoticed
CHECK_DEADLOCK FALSE
