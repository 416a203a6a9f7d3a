SPECIFICATION FairSpec
CONSTANTS
    MaxConn = 2
    MaxBytes <- ServerWritesOne
    Chunk = {1}
    AckEvery = 2
    MaxAttempts = 1
    Closers = {"client", "server"}
CHECK_DEADLOCK FALSE
PROPERTIES
    DeliveredOrClosed
    ReplayDrains
    PeerCloses
