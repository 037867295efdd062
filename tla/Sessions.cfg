SPECIFICATION Spec
CONSTANTS
    s1 = s1
    s2 = s2
    Session = {s1, s2}
    Sharing = {s1, s2}
    Closer = Closer
    MaxServers = 3
    MaxLeaks = 1
    MaxCloses = 1
INVARIANTS TypeOK InUseIsOpen CountIsUsers OpenIsCounted
PROPERTIES CallsEnd
