SPECIFICATION FairSpec
CONSTANTS
    Ids = {1, 2, 3, 4, 5}
    Timeout = 4
    MaxInterval = 2
    MaxDelay = 1
    MaxOthers = 1
    MaxFaults = 1
INVARIANTS
    NoLateRequest
    FewBogusPools
PROPERTIES
    CallsAtomic
    CallEnds
