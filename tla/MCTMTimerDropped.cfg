CONSTANTS
    emt = emt  emt2 = emt2  io = io  io2 = io2
    t1 = t1  t2 = t2  t3 = t3
    NULL = NULL
    TimerCpu = emt
    Threads <- EMTAndIO
    EMTs <- OneEMT
    Timers <- T12
    Crit <- T1
    Stops <- T1
    Mortal <- T2
    MaxTime = 1
    MaxCalls = 4
SPECIFICATION Spec
INVARIANT PendingScheduled
