SPECIFICATION Spec
CONSTANTS
    k1 = k1
    k2 = k2
    r1 = r1
    l1 = l1
    l2 = l2
    l3 = l3
    NoCmd = NoCmd
    Cmds <- MCCmds
    RCmds <- MCRCmds
    Listeners <- MCListeners
    SelfRemoving = {}
    MaxExtra = 1
INVARIANTS TypeOK CompletesOnce CanceledNotTransmitted TransmitOrder TeardownOnce EosIsLast NoInvalidToken
PROPERTIES LifecycleSpec CommandsSettle CloseIsTold
CHECK_DEADLOCK FALSE
