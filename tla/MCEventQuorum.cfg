CONSTANTS
    t1 = t1
    t2 = t2
    c1 = c1
    c2 = c2
    c3 = c3
    e1 = e1
    e2 = e2
    e3 = e3
    q1 = q1
    q2 = q2
    None = None
    Threads = {t1, t2}
    Coroutines = {c1, c2, c3}
    Home <- Mixed
    Events = {e1, e2, e3}
    Quorums = {q1, q2}
    Members <- Nested
    Needed <- NestedNeeds
    Timers = {e2, e3}
    Manual = {e1, e3}
    Given <- HandedOut
    Shared = {e3, q2}
    Prompt = TRUE

SPECIFICATION Spec
CONSTRAINT QuorumOrCoroutines
CHECK_DEADLOCK FALSE

INVARIANTS NoDangling NoLeak QuorumExact NobodyStranded SomebodyMoves
