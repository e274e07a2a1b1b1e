CONSTANTS
    MAX_SAMPLES = 2
    MAX_FAILURES = 2
    MAX_RESTARTS = 1
SPECIFICATION Spec
INVARIANTS
    Configured
    ShadowIsDevice
    SettersRecover
    OneReading
    PairInOrder
PROPERTY ConfigIsTaken
