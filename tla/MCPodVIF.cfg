SPECIFICATION FairSpec
CONSTANTS
    NoPort = NoPort
    Ports = {p1, p2, p3, p4}
    MaxUid = 2
    MaxTroubles = 2
INVARIANTS
    TypeOK
    ActiveMeansUp
    OwnPortExists
    NoOrphanPort
PROPERTIES
    VifStable
    PodConnected
    PortsReclaimed
