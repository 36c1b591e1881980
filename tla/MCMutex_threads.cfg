CONSTANTS
    c1 = c1
    c2 = c2
    c3 = c3
    Coroutines = {c1, c2, c3}
    Home <- OwnThreads
    Guarded = {}
    Cancels = {}
    MaxWaiters = 3
    MaxShared = 3
SPECIFICATION FairSpec
INVARIANTS MutualExclusion WaitersHaveWaker

PROPERTY RefinesRWLock
