CONSTANTS
    cmd_a = cmd_a
    cmd_b = cmd_b
    cmd_c = cmd_c
    cmd_d = cmd_d
    cmd_e = cmd_e
    cmd_f = cmd_f
    freqKey = freqKey
    modeKey = modeKey
    NoCmd = NoCmd
    Commands <- FourCommands
    reqKey <- MCReqKey
    kind <- PollMix
    BacklogSize = 1
    MaxGeneration = 1
    MaxUnsolicited = 0
SPECIFICATION CivSpec
INVARIANT VerdictIsOwn
\* every command of a behaviour is executed once
CHECK_DEADLOCK FALSE
