SPECIFICATION FairSpec
CONSTANTS
    c1 = c1
    c2 = c2
    Conns = {c1}
    MaxConns = 2
    Cap = 1
    BufferSize = 0
    MaxMsgs = 2
    MaxToRoom = 2
    MaxPeer = 0
PROPERTY LoopRuns
CHECK_DEADLOCK FALSE
