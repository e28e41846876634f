SPECIFICATION FairSpec
CONSTANTS
    Handlers = {h1, h2, h3}
    Kinds = {Pod, Endpoints}
    NoHandler = NoHandler
    Timeout = 7
    Interval = 2
    MaxRun = 2
    MaxNow = 40
INVARIANTS
    TypeOK
    BackoffKept
    NoLateAttempt
PROPERTIES
    AllCalled
    PipelineReturns
