SPECIFICATION FairSpec
CONSTANTS
    Size = 2
    MaxBuffers = 4
    MaxStops = 2
    Feeders <- Both
INVARIANTS
    TypeOK
    SlotsAccounted
    NoneStranded
PROPERTIES
    InOrder
    EveryBufferLeaves
    JoinReturns
CHECK_DEADLOCK FALSE
