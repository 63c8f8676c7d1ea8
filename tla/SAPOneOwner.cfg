SPECIFICATION Spec
CONSTANTS
    Callers = {c1, c2}
    MaxPlayers = 2
    Mode <- BothSystem
    Data <- NoneFed
    Calls <- PlayOnly
    MaxCalls = 2
INVARIANTS
    OneOwner
CHECK_DEADLOCK FALSE
