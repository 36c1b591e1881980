CONSTANTS
    Times = {1, 2}
    Arity = 4
    CullSize = 9
    OrderMod = 32
    Orders = {28}
    Early <- Four
    MaxTimers = 10
    MaxEmpty = 2
    MaxOut = 2

SPECIFICATION Spec
CHECK_DEADLOCK FALSE

PROPERTIES CullFinds RefinesTimerQueue
