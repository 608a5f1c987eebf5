SPECIFICATION Spec
CONSTANTS
    Timed = {}
    Waiting = {w}
    OneWay = {o}
    Pings = {p1}
    Rejected = {o}
    Closers = {k}
    MaxPing = 0
    DebugMode = FALSE
    Input = Input
    Heart = Heart
    Nobody = Nobody
    NoCall = NoCall
INVARIANTS
    CompletedOnce
    NoCallForgotten
    AnswersOwnCall
CHECK_DEADLOCK FALSE
