SPECIFICATION FairSpec
CONSTANTS
    SubnetIds = {1, 2, 3, 4, 5}
    IPv6 = {3, 5}
    AutoAddress = {5}
    Gateways = {1, 3, 4, 5}
    Mappings = {{1, 3}, {1, 3, 4}, {2, 3}}
    MaxUid = 2
    MaxCommands = 3
    MaxTroubles = 1
INVARIANTS
    OkMeansDone
    ResultIsPlugged
PROPERTIES
    Answered
\* Nothing is left to do once the pods of the name are gone.
CHECK_DEADLOCK FALSE
