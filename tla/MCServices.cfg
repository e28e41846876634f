SPECIFICATION FairSpec
CONSTANTS
    Pods = {p1, p2}
    PortSpecs <- MCPortSpecs
    TargetPort <- MCTargetPort
    Ids = {1, 2}
    MaxChanges = 1
    MaxLives = 1
    MaxPending = 1
    MaxFaults = 1
INVARIANTS
    LookupsFound
    NothingLeaked
    NothingImagined
PROPERTIES
    Converges
    Reclaimed
