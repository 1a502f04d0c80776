CONSTANTS
    NSock = 1
    ReqCap = 3
    EvtCap = 2
    RxSize = 3
    MaxGen = 4
    Protocol = {"TCP"}
    Commands = {"OPEN", "LISTEN", "CONNECT", "RECV"}
    TxLen = 2
    MaxTx = 0
    MaxSaves = 2
    MaxPeer = 1
    MaxFrames = 0
    Frame = {"ip", "bcast", "foreign"}
SPECIFICATION Spec
INVARIANT OpenHasWindow
