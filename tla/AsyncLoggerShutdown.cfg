SPECIFICATION LoggerSpec
CONSTANTS
    w1 = w1
    w2 = w2
    c1 = c1
    c2 = c2
    Destructor = Destructor
    Workers = {w1}
    Clients = {c1}
    MaxTasks = 1

INVARIANTS
    SafeShutdown
CHECK_DEADLOCK FALSE
