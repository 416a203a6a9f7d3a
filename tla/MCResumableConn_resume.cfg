SPECIFICATION Spec
CONSTANTS
    MaxConn = 3
    MaxBytes <- ServerWritesOne
    Chunk = {1}
    AckEvery = 1
    MaxAttempts = 1
    Closers = {"server"}
CHECK_DEADLOCK FALSE
INVARIANTS
    TypeOK
    NoLostWakeup
    HelloCurrent
    AcksBehind
    ClientSatisfied
    NoLeak
