SPECIFICATION FairSpec
CONSTANTS
    emt1 = emt1
    emt2 = emt2
    io = io
    Threads <- EMTAndIO
    EMTs <- OneEMT
    Sects = {1, 2}
    MaxNest = 1
    NIL = NIL
INVARIANT QueuedOnce
PROPERTIES QueueDrains HandedOver
