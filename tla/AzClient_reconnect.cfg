CONSTANTS
    MaxId = 1
    SEND_EVENT_RETRY_COUNT = 2
    Trials = 2
    ConnTrials = 2
    TickLoops = 2
SPECIFICATION FairSpec
PROPERTIES
    Reconnects
