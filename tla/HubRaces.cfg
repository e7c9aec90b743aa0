SPECIFICATION Spec
CONSTANTS
    c1 = c1
    c2 = c2
    Conns = {c1, c2}
    MaxConns = 2
    Cap = 4
    BufferSize = 0
    MaxMsgs = 2
    MaxToRoom = 1
    MaxPeer = 1
SYMMETRY ConnSymmetry
INVARIANT NoGhostConnection
PROPERTY InOrder
