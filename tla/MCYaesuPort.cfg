CONSTANTS
    Pollers = {poller}
    Kinds = {freq}
    Attempts = 1
    ErrorLimit = 2
    MaxLines = 1
SPECIFICATION YaesuSpec
INVARIANT ConnectedHasPort
