SPECIFICATION Spec
CONSTANTS
    k1 = k1
    k2 = k2
    r1 = r1
    l1 = l1
    l2 = l2
    l3 = l3
    NoCmd = NoCmd
    Cmds = {k1}
    RCmds = {}
    Listeners <- MCListeners
    SelfRemoving = {l1, l2, l3}
    MaxExtra = 1
INVARIANTS AllListenersTold
CHECK_DEADLOCK FALSE
