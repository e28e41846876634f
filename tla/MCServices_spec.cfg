SPECIFICATION Spec
CONSTANTS
    Pods = {p1}
    PortSpecs <- MCPortSpecs
    TargetPort <- MCTargetPort
    Ids = {1, 2}
    MaxChanges = 2
    MaxLives = 1
    MaxPending = 2
    MaxFaults = 0
INVARIANTS
    SpecsAgree
