SPECIFICATION FairSpec
CONSTANTS
    MaxSpeech = 2
    MaxCalls = 2
    Calls <- NoShutdown
    Preemptive = FALSE
    HasLocal = TRUE
    LocalType = "PCM"
    MaxFailures = 1
PROPERTIES
    EverySpeechEnds
CHECK_DEADLOCK FALSE
