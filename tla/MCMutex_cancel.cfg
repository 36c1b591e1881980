CONSTANTS
    c1 = c1
    c2 = c2
    c3 = c3
    Coroutines = {c1, c2, c3}
    Home <- OneThread
    Guarded = {c1, c2, c3}
    Cancels = {c1, c2}
    MaxWaiters = 4
    MaxShared = 3

SPECIFICATION FairSpec

INVARIANT GuardOwnsAfterLock
PROPERTY WaiterServed
