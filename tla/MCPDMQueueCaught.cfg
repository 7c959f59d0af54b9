CONSTANTS
    emt = emt  emt2 = emt2  io = io
    None = None
    Threads <- EMTsAndIO
    Inserters <- EMTAndIO
    EMTs <- TwoEMTs
    TimerEMT = emt
    cForced = 1
    cTimed = 0
    RZQueues <- NoQueue
    RZContexts <- R0Only
    Fussy <- NoQueue
    cItems = 2
    Slack = 1
    MaxInserts = 1
SPECIFICATION Spec
CHECK_DEADLOCK FALSE
INVARIANT InsertsAreCaught
