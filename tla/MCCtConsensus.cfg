CONSTANTS
    N = 3
    Colors = {"red", "blue"}
    Starts <- LeaderRed
    MaxTimeouts = 1
SPECIFICATION FairSpec
CHECK_DEADLOCK FALSE
INVARIANTS Agreement ColorLocked
PROPERTY Terminates
