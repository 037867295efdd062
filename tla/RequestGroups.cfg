SPECIFICATION Spec
CONSTANTS
    q1 = q1
    q2 = q2
    q3 = q3
    q4 = q4
    n1 = n1
    n2 = n2
    NoReq = NoReq
    NoObj = NoObj
    Env = Env
    Reqs <- MCMoreReqs
    Nodes <- MCNodes
    NodeOf <- MCMoreNodeOf
    Futures = {q1}
    UsesSelf = {q1}
    HoldsPending = {q2, q3}
    Picky = {q4}
    Timeouts = {}
    Removable = {n2}
    MaxGen = 1
    MaxBusy = 1
INVARIANTS TypeOK GroupSerial OneDriver DoneOnce
PROPERTIES GroupsSpec CallsReturn
CHECK_DEADLOCK FALSE
