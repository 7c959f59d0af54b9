SPECIFICATION Spec
CONSTANTS
    emt1 = emt1
    emt2 = emt2
    io = io
    Threads <- EMTsAndIO
    EMTs <- TwoEMTs
    Sects = {1}
    MaxNest = 2
    NIL = NIL
SYMMETRY Symmetry
INVARIANTS TypeOK EnterFirstAlone LockerCount NoLostWakeup
INVARIANTS OneInside OwnerHolds NestingCount ExitEventOwned
PROPERTIES ImplementsLock NoBarging
