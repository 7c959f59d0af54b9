CONSTANTS
    gui = gui  io = io  emt0 = emt0  emt1 = emt1
    Callers <- TwoCallers
    Waiters <- OneCaller
    Pollers <- OneCaller
    EMTs <- TwoEMTs
    EMTCallers <- OneEMT
    Failing <- OneEMT
    ANY = ANY  ALL = ALL
    cPackets = 2
    Dests <- AnyOneAll
    MaxCalls = 2
SPECIFICATION CarefulSpec
CHECK_DEADLOCK FALSE
INVARIANTS NoRequestStranded NoLostWakeup Assertions AnswerIsMine
