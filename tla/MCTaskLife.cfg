CONSTANTS
    o = o
    g = g
    m = m
    r = r
    f = f
    l = l
    b = b
    e1 = e1
    e2 = e2
    e3 = e3
    e4 = e4
    None = None
    Tasks = {o, g, m, r, f, l, b}
    Events = {e1, e2, e3, e4}
    Script <- RaceScript
    Args <- RaceArgs
    Parent <- RaceParent

SPECIFICATION Spec
CHECK_DEADLOCK FALSE

INVARIANTS AwaitersLive NothingLost NobodyStuck AwaitsDone InterestServed
