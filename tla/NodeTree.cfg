SPECIFICATION Spec
CONSTANTS
    dev = dev
    core = core
    vio = vio
    Ctx = {dev, core, vio}
    Root = Root
    Parent <- MCParent
    MaxChanges = 3
INVARIANTS TypeOK InStep
PROPERTIES SeesServer
CHECK_DEADLOCK FALSE
