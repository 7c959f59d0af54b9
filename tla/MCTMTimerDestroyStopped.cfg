CONSTANTS
    emt = emt  emt2 = emt2  io = io  io2 = io2
    t1 = t1  t2 = t2  t3 = t3
    NULL = NULL
    TimerCpu = emt
    Threads <- EMTAndIO
    EMTs <- OneEMT
    Timers <- T12
    Crit <- T12
    Stops <- T2
    Mortal <- T2
    MaxTime = 1
    MaxCalls = 4
SPECIFICATION Spec
INVARIANT ActiveListed
