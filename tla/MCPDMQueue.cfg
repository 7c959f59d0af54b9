CONSTANTS
    emt = emt  emt2 = emt2  io = io
    None = None
    Threads <- EMTsAndIO
    Inserters <- EMTAndIO
    EMTs <- TwoEMTs
    TimerEMT = emt
    cForced = 1
    cTimed = 1
    RZQueues <- Q2
    RZContexts <- R0Only
    Fussy <- Q1
    cItems = 2
    Slack = 1
    MaxInserts = 2
SPECIFICATION Spec
CHECK_DEADLOCK FALSE
INVARIANTS Assertions PendingBitKnows
PROPERTIES ImplementsMailbox
