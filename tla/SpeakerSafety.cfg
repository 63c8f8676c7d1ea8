SPECIFICATION Spec
CONSTANTS
    MaxSpeech = 2
    MaxCalls = 3
    Calls <- ClientCalls
    Preemptive = TRUE
    HasLocal = FALSE
    LocalType = "PCM"
    MaxFailures = 1
INVARIANTS
    TypeOK
    CurrentIsServed
    NeverAsleepOnWork
    OneFate
    ToldWhileServed
PROPERTIES
    ImplementsLifecycle
CHECK_DEADLOCK FALSE
