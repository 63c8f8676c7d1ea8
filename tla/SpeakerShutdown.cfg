SPECIFICATION FairSpec
CONSTANTS
    MaxSpeech = 1
    MaxCalls = 1
    Calls <- Bringup
    Preemptive = TRUE
    HasLocal = FALSE
    LocalType = "PCM"
    MaxFailures = 1
PROPERTIES
    DestructorReturns
CHECK_DEADLOCK FALSE
