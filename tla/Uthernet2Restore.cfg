CONSTANTS
    NSock = 1
    ReqCap = 2
    EvtCap = 1
    RxSize = 2
    MaxGen = 4
    Protocol = {"TCP"}
    Commands = {"OPEN", "LISTEN", "CONNECT"}
    TxLen = 2
    MaxTx = 0
    MaxSaves = 2
    MaxPeer = 0
    MaxFrames = 0
    Frame = {"ip", "bcast", "foreign"}
SPECIFICATION Spec
INVARIANTS StatusAgrees GenerationOrder
