CONSTANTS
    Consumers = {web}
    MaxSubs = 1
    MaxDrops = 1
    MaxTries = 1
    MaxTalks = 0
SPECIFICATION AudioSpec
INVARIANT AudioComesBack
\* the subscriptions and losses of a behaviour are finite
CHECK_DEADLOCK FALSE
