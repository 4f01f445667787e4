SPECIFICATION LoggerFairSpec
CONSTANTS
    w1 = w1
    w2 = w2
    c1 = c1
    c2 = c2
    Destructor = Destructor
    Workers = {w1, w2}
    Clients = {c1, c2}
    MaxTasks = 2
INVARIANTS
    ReadyMeansWritten
    NoLineTwice
    OnlyRacesMixFutures
PROPERTIES
    WaitAllReturns
    LogReturns
CHECK_DEADLOCK FALSE
