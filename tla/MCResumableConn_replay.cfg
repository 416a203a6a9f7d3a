SPECIFICATION Spec
CONSTANTS
    MaxConn = 2
    MaxBytes <- ClientWritesTwo
    Chunk = {1, 2}
    AckEvery = 1
    MaxAttempts = 2
    Closers = {}
CHECK_DEADLOCK FALSE
INVARIANTS
    StreamIntact
    ReplayCovers
    PromiseInv
