CONSTANTS
    Task <- TheTasks
    SCREEN_WIDTH = 2
    SCREEN_HIGH = 4
    Char <- TheChars
    Calls <- TheCalls
    Endless <- TheEndless
    MAX_FAILURES = 1
    MAX_RESTARTS = 1
SPECIFICATION Spec
INVARIANTS InitSettles InStep
CONSTRAINT FirstGarbledText
PROPERTY IsScreen
