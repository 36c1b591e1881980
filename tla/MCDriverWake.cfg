CONSTANTS
    p1 = p1
    p2 = p2
    Posters = {p1, p2}
    Closers = {p2}
    MaxPosts = 2

SPECIFICATION FairSpec

INVARIANT NoLostWakeup
PROPERTY PostRuns
