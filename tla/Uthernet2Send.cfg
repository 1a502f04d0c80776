CONSTANTS
    NSock = 1
    ReqCap = 2
    EvtCap = 2
    RxSize = 2
    MaxGen = 2
    Protocol = {"TCP", "UDP", "MACRAW_MF", "IPRAW"}
    Commands = {"OPEN", "IR", "CONNECT", "DISCON", "SEND", "SEND_KEEP", "STOP"}
    TxLen = 2
    MaxTx = 4
    MaxSaves = 0
    MaxPeer = 0
    MaxFrames = 1
    Frame = {"ip"}
SPECIFICATION FairSpec
INVARIANTS TxStreamIntact SendOkAfterSent
PROPERTIES ConnectEnds StopEnds
