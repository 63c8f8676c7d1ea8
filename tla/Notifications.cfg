SPECIFICATION Spec
CONSTANTS
    Plugins = {"TTS", "SAP", "UCAS"}
    Shell = "shell"
    Clients = {"c1", "c2"}
    Callsigns = {"k1", "k2"}
    NoCallsign = "none"
    NoSink = "nobody"
    Workers = {"w1", "w2"}
    Nobody = "nobody"
    MaxEvents <- EventsOf
    MaxNamed = 2
INVARIANTS NotifTypeOK RefsBalanced QuietAfterUnregister
PROPERTIES EventReaches DispatchReturns NoOrphan
CHECK_DEADLOCK FALSE
