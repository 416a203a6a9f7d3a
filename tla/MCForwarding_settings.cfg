SPECIFICATION Spec
CONSTANTS
    Hosts <- AllHosts
    HostName <- Names
    DefaultAllow <- Allowed
    DefaultDeny <- Nobody
    DefaultProxied <- Allowed
    Targets <- Unlisted
    ServerFiles <- NoServerFile
    ClientFiles <- NoClientFile
    UsesProxy <- Only
    UserBytes = 0
    TargetBytes = 0
    Window = 1
CHECK_DEADLOCK FALSE
INVARIANT DefaultPolicyHolds
