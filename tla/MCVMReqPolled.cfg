CONSTANTS
    gui = gui  io = io  emt0 = emt0  emt1 = emt1
    Callers <- OneCaller
    Waiters <- OneCaller
    Pollers <- OneCaller
    EMTs <- OneEMT
    EMTCallers <- NoThread
    Failing <- NoThread
    ANY = ANY  ALL = ALL
    cPackets = 1
    Dests <- OnlyAny
    MaxCalls = 1
SPECIFICATION FairSpec
CHECK_DEADLOCK FALSE
PROPERTY PollsReturn
