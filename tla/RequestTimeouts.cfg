SPECIFICATION Spec
CONSTANTS
    q1 = q1
    q2 = q2
    q3 = q3
    q4 = q4
    n1 = n1
    n2 = n2
    NoReq = NoReq
    NoObj = NoObj
    Env = Env
    Reqs <- MCReqs
    Nodes = {n1}
    NodeOf <- MCOneNodeOf
    Futures = {q1, q2}
    UsesSelf = {q1}
    HoldsPending = {q1, q2, q3}
    Picky = {q2, q3}
    Timeouts = {q1, q2, q3}
    Removable = {}
    MaxGen = 0
    MaxBusy = 1
INVARIANTS GroupSerial OwnAnswer
CHECK_DEADLOCK FALSE
