SPECIFICATION FairSpec
CONSTANTS
    Hosts <- AllHosts
    HostName <- Names
    DefaultAllow <- Allowed
    DefaultDeny <- Nobody
    DefaultProxied <- Allowed
    Targets <- Asked
    ServerFiles <- SomeServerFile
    ClientFiles <- SomeClientFile
    UsesProxy <- Only
    UserBytes = 2
    TargetBytes = 1
    Window = 1
CHECK_DEADLOCK FALSE
INVARIANTS
    TypeOK
    RightTarget
    InOrder
    RelayLasts
    HeardInFull

    
