CONSTANTS
    FifoCap = 1
    InCap = 1
    OutCap = 3
    SetUp <- MCSetUp
    Wr0 <- MCWr0
    Wr1 <- MCWr1
    Wr3 <- MCWr3
    Wr5 <- MCWr5
    Wr9 <- MCWr9
    Wr11 <- MCWr11
    Wr14 <- MCWr14
    Wr15 <- MCWr15
    Message <- MCMessage
SPECIFICATION Spec
CONSTANTS
    Port = {"A"}
    MaxAccess = 3
INVARIANTS ExtNotLostAfterReset
