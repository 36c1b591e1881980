CONSTANTS
    e1 = e1
    e2 = e2
    Events = {e1, e2}
    Quota = 1
    Delays = {1, 3}
    MaxTime = 1
    MaxGuards = 1
    GuardsSurvive = FALSE

SPECIFICATION FairSpec

PROPERTIES JumpOnlyWhenIdle KeepsRunning TimerFires ClearReturns LoopReturns
