CONSTANTS
    Delays = {1, 2}
    Speeds = {7, 306}
    Documents <- MCDocuments
    INTIAL_DELAY_VALUE = 2
    Horizon = 3
    MaxChanges = 2
SPECIFICATION FairSpec
INVARIANT HubIsMirrored
PROPERTIES
    Converges
    LoopIsReached
    ReportsGoOn
    TicksGoOn
