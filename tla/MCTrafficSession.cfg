SPECIFICATION FairSpec
CONSTANTS
    MaxMade = 3
    MaxDrops = 1
    MaxStarts = 1
    maxRetries = 1
CHECK_DEADLOCK FALSE
INVARIANTS
    TypeOK
    HandlersCovered
    OneTransport
PROPERTIES
    GivesUpAfterRetries
    StillTrying
    OrphansLeave
    StreamsSettle
    StopFinishes
