SPECIFICATION FairSpec
CONSTANTS
    w1 = w1
    w2 = w2
    w3 = w3
    c1 = c1
    c2 = c2
    Workers = {w1, w2}
    Clients = {c1}
    MaxTasks = 1
PROPERTIES
    StopReturns
CHECK_DEADLOCK FALSE
