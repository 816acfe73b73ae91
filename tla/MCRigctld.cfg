CONSTANTS
    Clients = {c1, c2}
    MaxClients = 2
    Threshold = 2
    Prewarms = TRUE
    WaitsForClients = FALSE
    MaxSpawned = 3
    Callers = {c1, c2}
    Nothing = Nothing
    MaxReports = 1
    MaxCalls <- OneModeCall
    Pollers = {poller}
    Kinds = {freq, mode}
    Attempts = 2
    ErrorLimit = 2
    MaxLines = 2
SPECIFICATION MCSpec
INVARIANTS ServerTypesOK PollerFollowsClients HoldHasWriter StopLeavesNothing ReadYourWrite QueryGetsItsAnswer
PROPERTIES PollYields BreakerCloses PortComesBack
