SPECIFICATION Spec
CONSTANTS
    Clients = {"a", "b"}
    Cmds = {k1, k2, k3}
    Parallel = 1
    MaxPid = 1
    Port = {1}
    Reuse = TRUE
SYMMETRY CmdSymmetry
CHECK_DEADLOCK FALSE
PROPERTY StopsItsOwn
