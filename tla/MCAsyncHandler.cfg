SPECIFICATION FairSpec
CONSTANTS
    w1 = w1
    w2 = w2
    g1 = g1
    g2 = g2
    g3 = g3
    t1 = t1
    t2 = t2
    NoThread = NoThread
    NoGroup = NoGroup
    Watchers = {w1, w2}
    Groups = {g1, g2, g3}
    Stream <- MCStream3
    Threads = {t1, t2}
    QueueDepth = 1
    MaxEvents = 2
INVARIANTS
    TypeOK
    OneThreadPerGroup
    NewestEventKept
    QueueIsTheTail
PROPERTIES
    MailboxSpec
    EventsHandled
    WatcherUnblocked
