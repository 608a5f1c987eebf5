SPECIFICATION FairSpec
CONSTANTS
    Ask = {a1}
    AskWait = {w1}
    Post = {p1}
    MaxHandlers = 2
    Cap = 1
    Modes = {TRUE, FALSE}
    NoMsg = NoMsg
INVARIANTS
    SyncInOrder
    ReplyTruthful
PROPERTIES
    AcceptedIsHandled
    AsksReturn
CHECK_DEADLOCK FALSE
