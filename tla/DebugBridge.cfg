CONSTANTS
    MaxConn = 2
    MaxReq = 3
    MaxEvents = 1
    Kinds = {"hello", "on", "off", "pause", "continue", "quit", "query", "bad", "long"}
    HelloFirst = TRUE
    AgentCap = 4
    ByteCap = 2
SPECIFICATION FairSpec
INVARIANTS ExecutedOnce NeverBusy EventsFollowReply QuitAcked SubscribedMeansObserved StreamComplete
PROPERTIES StopReturns ObserverRemoved
