SPECIFICATION Spec
CONSTANTS
    MaxConn = 3
    MaxBytes <- ServerWritesOne
    Chunk = {1}
    AckEvery = 1
    MaxAttempts = 2
    Closers = {}
CHECK_DEADLOCK FALSE
INVARIANT NoProtocolViolation
