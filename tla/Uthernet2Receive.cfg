CONSTANTS
    NSock = 1
    ReqCap = 2
    EvtCap = 2
    RxSize = 4
    MaxGen = 3
    Protocol = {"TCP", "UDP", "MACRAW_MF", "IPRAW"}
    Commands = {"OPEN", "LISTEN", "CONNECT", "DISCON", "CLOSE", "RECV", "RESET"}
    TxLen = 2
    MaxTx = 0
    MaxSaves = 0
    MaxPeer = 2
    MaxFrames = 1
    Frame = {"ip", "foreign"}
SPECIFICATION Spec
INVARIANTS TypeOK RxStreamIntact CloseWaitAfterData CreditFitsBuffer StatusAgrees DatagramsFresh DatagramsWhole
