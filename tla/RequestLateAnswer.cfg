SPECIFICATION Spec
CONSTANTS
    q1 = q1
    q2 = q2
    q3 = q3
    q4 = q4
    n1 = n1
    n2 = n2
    NoReq = NoReq
    NoObj = NoObj
    Env = Env
    Reqs <- MCReqs
    Nodes <- MCNodes
    NodeOf <- MCNodeOf
    Futures = {q1, q2}
    UsesSelf = {q1, q2}
    HoldsPending = {}
    Picky = {}
    Timeouts = {q1}
    Removable = {}
    MaxGen = 0
    MaxBusy = 0
INVARIANTS OwnAnswer
CHECK_DEADLOCK FALSE
