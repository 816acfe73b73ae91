CONSTANTS
    Faults = {"glitch"}
    MaxFaults = 1
    MaxCalls = 2
    MaxOpens = 3
SPECIFICATION SerialSpec
PROPERTIES WatchdogStops
\* the calls of a behaviour are finite
CHECK_DEADLOCK FALSE
