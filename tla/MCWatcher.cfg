SPECIFICATION FairSpec
CONSTANTS
    Paths = {pods, services, endpoints}
    Threads = {t1, t2, t3}
    NoPath = NoPath
    NoThread = NoThread
INVARIANTS
    OneLoopPerPath
    BooksMatch
    ListedIsWatched
PROPERTIES
    HandlerNotInterrupted
    StopEndsLoops
    RemoveEndsLoop
