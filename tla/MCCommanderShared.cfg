CONSTANTS
    poll1 = poll1
    poll2 = poll2
    urgent = urgent
    meter = meter
    NoReq = NoReq
    NoKey = NoKey
    Requests <- MCPolls
    Keys <- MCKeys
    prio <- MCPrio
    key <- MCKey
    dedupe <- MCDedupe
SPECIFICATION PollsSpec
PROPERTIES OnlyOwnCancel
\* the calls of a behaviour are finite: when all have ended and a stop hangs,
\* nothing is left to do
CHECK_DEADLOCK FALSE
