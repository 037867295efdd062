SPECIFICATION Spec
CONSTANTS
    c1 = c1
    s1 = s1
    p1 = p1
    t0 = t0
    t1 = t1
    t2 = t2
    NoJob = NoJob
    MaxTime = 2
    Clients = {}
    Discovery = {}
    Posts = {}
    Timed = {}
    Delay <- MCNoDelay
PROPERTIES TimerThreadEnds
CHECK_DEADLOCK FALSE
