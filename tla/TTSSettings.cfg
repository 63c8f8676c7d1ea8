SPECIFICATION Spec
CONSTANTS
    Languages = {"en", "fr", "es"}
    NoLanguage = "none"
    Voices = {"carol", "claire"}
    NoVoice = "silence"
    VoiceFor <- MCVoiceFor
    LocalVoiceFor <- MCLocalVoiceFor
    Language = "en"
    HasLocal = TRUE
    Texts = {"A", "B"}
    NoText = "none"
    Levels = {1, 2}
    NoLevel = 0
    Clients = {"c1", "c2"}
    NoClient = "nobody"
    Batches <- MCBatches
    MaxBatches = 3
    MaxStarts = 2
    Caches = {"sat", "net", "rfc"}
    MaxChanges = 2
    MaxText = 4
    Settings <- MCSettings
    UtteranceRates <- MCUtteranceRates
INVARIANTS TypeOK CachesExplained SettingsHold StoreIsCurrent RequestHolds
PROPERTIES DownloadsEnd
CHECK_DEADLOCK FALSE
