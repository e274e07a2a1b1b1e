CONSTANTS
    MaxId = 2
    SEND_EVENT_RETRY_COUNT = 2
    Trials = 2
    ConnTrials = 2
    TickLoops = 2
SPECIFICATION FairSpec
INVARIANTS
    TrueMeansDelivered
    AtMostOneOutstanding
    EventHasOneOwner
PROPERTIES
    CallsReturn
    ResetIsServed
