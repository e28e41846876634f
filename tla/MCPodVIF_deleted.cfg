SPECIFICATION Spec
CONSTANTS
    NoPort = NoPort
    Ports = {p1, p2, p3}
    MaxUid = 2
    MaxTroubles = 0
INVARIANTS
    PodHasItsPort
