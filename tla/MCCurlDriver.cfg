CONSTANTS
    Sockets = {"s", "t"}
    Fetches = {"f", "g"}
    Masks <- InOrBoth
    Timeouts = {0, 1}
SPECIFICATION CurlFairSpec
CHECK_DEADLOCK FALSE
INVARIANTS NoSuicide  TimeoutKept
PROPERTIES FetchEnds
