SPECIFICATION Spec
CONSTANTS
    Callers = {c1, c2}
    MaxPlayers = 2
    Mode <- BothSystem
    Data <- LastOne
    Calls <- CallKinds
    MaxCalls = 3
INVARIANTS
    TypeOK
    SoleOwner
    SomeoneMoves
    VolumeRestored
PROPERTIES
    EventOrder
SYMMETRY Alike
CHECK_DEADLOCK FALSE
