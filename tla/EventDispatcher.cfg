SPECIFICATION Spec
CONSTANTS
    c1 = c1
    s1 = s1
    p1 = p1
    t0 = t0
    t1 = t1
    t2 = t2
    NoJob = NoJob
    MaxTime = 2
    Clients = {c1, s1}
    Discovery = {s1}
    Posts = {p1}
    Timed <- MCTimed
    Delay <- MCDelay
INVARIANTS TypeOK FifoDispatch NoLostWakeup WaiterHasJob DrainedOnReturn
PROPERTIES TimersInOrder CallersReturn TimersFire StopReturns
CHECK_DEADLOCK FALSE
