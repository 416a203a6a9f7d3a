SPECIFICATION Spec
CONSTANTS
    MaxConn = 2
    MaxBytes <- EachWritesOne
    Chunk = {1}
    AckEvery = 1
    MaxAttempts = 1
    Closers = {}
CHECK_DEADLOCK FALSE
INVARIANT IInv
PROPERTY StreamSpec
