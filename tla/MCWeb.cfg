CONSTANTS
    AutoReconnect = TRUE
    Faults <- OneKind
    Types = {"freq", "band"}
    MaxPuts = 3
    Viewers = {v1}
    Fields = {"freq", "mode"}
    Absent = Absent
    FullInterval = 2
    QueueLimit = 2
    ScopeClients = {s1, s2}
    MaxRetries = 2
    MaxTasks = 2
SPECIFICATION MCSpec
INVARIANTS WebTypesOK CleanDisconnect DisconnectingIsWorkedOn LastWriteWins SlotRestored ViewAgrees
PROPERTIES LaneIsExact ExternalGetsSilence ScopeServed
