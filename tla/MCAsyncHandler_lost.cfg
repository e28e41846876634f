SPECIFICATION Spec
CONSTANTS
    w1 = w1
    w2 = w2
    g1 = g1
    g2 = g2
    g3 = g3
    t1 = t1
    t2 = t2
    NoThread = NoThread
    NoGroup = NoGroup
    Watchers = {w1, w2}
    Groups = {g1, g2}
    Stream <- MCStream2
    Threads = {t1}
    QueueDepth = 2
    MaxEvents = 3
INVARIANTS
    NothingLost
