SPECIFICATION Spec
CONSTANTS
    p1 = p1
    p2 = p2
    p3 = p3
    t1 = t1
    t2 = t2
    NoPort = NoPort
    NoVlan = NoVlan
    Pods = {p1, p2, p3}
    Trunks = {t1, t2}
    Trunk <- MCTrunk
    Ports = {n1, n2, n3, n4}
    Vlans = {v1, v2, v3}
    MaxFaults = 1
    MaxOthers = 2
SYMMETRY IdSymmetry
INVARIANTS
    VifOnTrunk
    OnlyOthersConflict
    NothingLeaked
