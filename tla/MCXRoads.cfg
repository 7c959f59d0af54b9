CONSTANTS
    Threads = {t1, t2, t3, t4}
    MaxEnters = 6
SPECIFICATION FairSpec
CHECK_DEADLOCK FALSE
INVARIANTS Exclusion Assertions NoLostWakeup
PROPERTIES EveryoneCrosses
