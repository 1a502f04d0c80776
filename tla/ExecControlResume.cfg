CONSTANTS
    Pc <- MCPc
    Start = "call"
    Op <- MCOp
    Flow <- MCFlow
    Return <- MCReturn
    Touch <- MCTouch
    ExecAt = {"spin"}
    DataAt = {"io"}
    NoPc = NoPc
    MaxEntries = 2
    MaxIds = 2
    Asks <- MCAsks
    MaxStep = 2
SPECIFICATION Spec
PROPERTY LeavesBreakpoint
