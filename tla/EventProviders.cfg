SPECIFICATION Spec
CONSTANTS
    t1 = t1
    w1 = w1
    w2 = w2
    Threads = {t1, w1, w2}
    Workers = {w1, w2}
    MaxIds = 2
    MaxFires = 3
    MaxDepth = 2
    MaxAsyncFires = 2
INVARIANTS
    FiresSubscribersOnly
    AllTasksRun
    DisconnectCutsOff
PROPERTIES
    OnlyHandlersBlock
    DestructorReturns
CHECK_DEADLOCK FALSE
