SPECIFICATION Spec
CONSTANTS
    Clients = {"a"}
    Cmds = {k1, k2, k3}
    Parallel = 2
    MaxPid = 2
    Port = {1}
    Reuse = FALSE
SYMMETRY CmdSymmetry
CHECK_DEADLOCK FALSE
PROPERTY ClearRefusesRunning
