CONSTANTS
    Task <- TheTasks
    SCREEN_WIDTH = 2
    SCREEN_HIGH = 4
    Char <- TheChars
    Calls <- TheCalls
    Endless <- TheEndless
    MAX_FAILURES = 0
    MAX_RESTARTS = 0
SPECIFICATION Spec
PROPERTY CursorIsSet
