SPECIFICATION Spec
CONSTANTS
    Kinds <- MCKinds
    MaxChunks = 5
    Window = 2
    MaxOther = 2
INVARIANTS TypeOK CompletesOnce SuccessIsWhole
PROPERTIES NothingAfterError TransferEnds
CHECK_DEADLOCK FALSE
