CONSTANTS
    MaxAddrs = 2
    MaxListen = 1
    Requests = {1, 2}
    Plain = {}
    ReqBody <- Bodies
    ResBody <- Ones
    Chunked = {1}
    ReqCloses = {}
    ResCloses = {2}
    Capacity = 2
    bufsize = 2
    MaxResets = 1
SPECIFICATION FairSpec
CHECK_DEADLOCK FALSE
INVARIANTS OwnResponse NeverGarbled ErrorsAreReal SocketsHeld
PROPERTY SessionsEnd
