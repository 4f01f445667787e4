SPECIFICATION ConnectionSpec
CONSTANTS
    s1 = s1
    Io = Io
    Senders = {s1}
    Chunks = 1
    Window = 2
    MaxPackets = 2
    MaxArrivals = 2
    MaxPeers = 1
    Registered = {"flat"}
INVARIANTS
    PacketsAccountedFor
    OnlyOverlapDamages
    NeverDeaf
    PacketsDelivered
PROPERTIES
    SessionReleased
    QueuedPacketLeaves
    PeersAccepted
CHECK_DEADLOCK FALSE
