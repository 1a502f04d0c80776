CONSTANTS
    NSock = 1
    ReqCap = 2
    EvtCap = 2
    RxSize = 3
    MaxGen = 3
    Protocol = {"TCP"}
    Commands = {"OPEN", "LISTEN", "CONNECT", "CLOSE", "RECV"}
    TxLen = 2
    MaxTx = 0
    MaxSaves = 0
    MaxPeer = 1
    MaxFrames = 0
    Frame = {"ip", "bcast", "foreign"}
SPECIFICATION Spec
PROPERTY ClosedStaysClosed
