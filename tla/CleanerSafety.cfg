CONSTANTS
    w1 = w1
    w2 = w2
    w3 = w3
    Workers <- MCWorkers
    CleanerThr = CleanerThr
    NoThread = NoThread
SPECIFICATION Spec
INVARIANTS TypeOK FreedNotSchedulable CleanerQueueAccounting
PROPERTIES ReclaimSpec
CHECK_DEADLOCK FALSE
