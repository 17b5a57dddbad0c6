SPECIFICATION FairSpec
CONSTANTS
    Threads = {t1, t2, t3}
    NoThread = NoThread
    Sessions = {s1, s2}
    MaxOpens = 4
INVARIANTS MutexAlive NeverRefused CountIsExact
PROPERTY LocksGivenBack
CHECK_DEADLOCK FALSE
