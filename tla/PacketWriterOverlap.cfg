SPECIFICATION Spec
CONSTANTS
    s1 = s1
    s2 = s2
    Io = Io
    Senders = {s1}
    Chunks = 2
    Window = 2
    MaxPackets = 2
INVARIANTS
    StreamIntact
CHECK_DEADLOCK FALSE
