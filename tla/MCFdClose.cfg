CONSTANTS
    d1 = d1
    d2 = d2
    b1 = b1
    b2 = b2
    k1 = k1
    w1 = w1
    w2 = w2
    None = None
    Drivers = {d1, d2}
    Bodies = {b1, b2}
    Numbers = {k1}
    Watches = {w1, w2}
    Kinds = {"read", "write"}
    MaxRef = 2
    Serial = TRUE

SPECIFICATION Spec
SYMMETRY Symmetry
CHECK_DEADLOCK FALSE

INVARIANTS CtlNeverFails ClosedWakes InUseAlive
PROPERTY RightFile
