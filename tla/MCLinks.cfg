CONSTANTS
    WireMod = 8
    MaxMissing = 2
    MaxRetries = 1
    QueueSize = 2
    Attempts = 2
    ReadyReads = 2
    FirstNumbers = {5}
    Traffic <- FourPackets
    MaxReplies = 1
    MaxSessions = 2
    SendSeqMod = 4
    BufSize = 2
    MaxOut = 7
    MaxFrame = 4
    MaxChunk = 4
    MaxBytes = 10
    Receivers = {main, sub}
    Sweeps = {s1, s2}
    NoSweep = NoSweep
    SeqMaxes = {1, 3}
    MaxPieces = 2
    AudioSeqMod = 12
    Depth = 3
    FirstAudio = 8
    LastAudio = 16
    Displaced = 2
    Consumers = {web, bridge}
    MaxSubs = 4
    MaxDrops = 1
    MaxTries = 1
    MaxTalks = 1
    cmd_a = cmd_a
    cmd_b = cmd_b
    cmd_c = cmd_c
    cmd_d = cmd_d
    cmd_e = cmd_e
    cmd_f = cmd_f
    freqKey = freqKey
    modeKey = modeKey
    NoCmd = NoCmd
    Commands <- AllCommands
    reqKey <- MCReqKey
    kind <- LinkMix
    BacklogSize = 2
    MaxGeneration = 1
    MaxUnsolicited = 1
    Faults = {"glitch", "unplugged", "eof", "writer"}
    MaxFaults = 2
    MaxCalls = 4
    MaxOpens = 4
SPECIFICATION MCSpec
INVARIANTS LinkTypesOK MissingExactly RightPacketResent FramesAgree SweepsShownWhole PlayedInPlace NoDyingStream
INVARIANTS AnswerIsOwn WaitersAgree CurrentGeneration SerialClean
PROPERTIES MissingEnds VerdictArrives
\* the packets, bytes and subscriptions of a behaviour are finite
CHECK_DEADLOCK FALSE
