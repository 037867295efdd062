SPECIFICATION Spec
CONSTANTS
    q1 = q1
    q2 = q2
    q3 = q3
    q4 = q4
    n1 = n1
    n2 = n2
    NoReq = NoReq
    NoObj = NoObj
    Env = Env
    Reqs <- MCReqs
    Nodes <- MCNodes
    NodeOf <- MCNodeOf
    Futures = {q1}
    UsesSelf = {}
    HoldsPending = {}
    Picky = {q1}
    Timeouts = {}
    Removable = {}
    MaxGen = 0
    MaxBusy = 0
PROPERTIES QueueMovesOn
CHECK_DEADLOCK FALSE
