CONSTANTS
    MaxAddrs = 2
    MaxListen = 1
    Requests = {1}
    Plain = {1}
    ReqBody <- Bodies
    ResBody <- Ones
    Chunked = {1}
    ReqCloses = {}
    ResCloses = {}
    Capacity = 2
    bufsize = 2
    MaxResets = 0
SPECIFICATION FairSpec
CHECK_DEADLOCK FALSE
PROPERTY Answered
