CONSTANTS
    gui = gui  io = io  emt0 = emt0  emt1 = emt1
    Callers <- TwoCallers
    Waiters <- OneCaller
    Pollers <- NoThread
    EMTs <- OneEMT
    EMTCallers <- NoThread
    Failing <- NoThread
    ANY = ANY  ALL = ALL
    cPackets = 3
    Dests <- OnlyOne
    MaxCalls = 3
SPECIFICATION FairSpec
CHECK_DEADLOCK FALSE
PROPERTIES ImplementsCalls CallsReturn
