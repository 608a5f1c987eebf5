SPECIFICATION LaunchSpec
CONSTANTS
    Sessions = {1, 2}
    NumWorkers = 2
    QueueCap = 1
    SharedCap = 1
    MaxMessages = 2
    MaxParallel = 1
    NoWorker = NoWorker
    MaxClosers = 1
    TrafficModes = {TRUE}
    StartStatuses = {"Offline", "WaitPm2Close"}
INVARIANTS
    SessionOrder
    PlayersServed
    NoneCutOff
PROPERTIES
    
    MessagesHandled
CHECK_DEADLOCK FALSE
