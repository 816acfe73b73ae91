SPECIFICATION Spec
CONSTANTS
    AutoReconnect = FALSE
    Faults <- Stalls
INVARIANT StaysDown
