CONSTANTS
    RingCap = 1
    BufCap = 1
    ReadMax = 3
    Slices = 1
    Char = {"dial", "plus", "ff"}
    MaxEvents = 5
    Script <- MCScript
    MaxConn = 2
SPECIFICATION FairSpec
INVARIANTS TypeOK RxIntact TxIntact
PROPERTIES DcdFollows StopReturns
