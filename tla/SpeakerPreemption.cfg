SPECIFICATION Spec
CONSTANTS
    MaxSpeech = 2
    MaxCalls = 1
    Calls <- Bringup
    Preemptive = TRUE
    HasLocal = FALSE
    LocalType = "PCM"
    MaxFailures = 1
PROPERTIES
    PreemptedStaysSilent
CHECK_DEADLOCK FALSE
