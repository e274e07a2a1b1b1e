CONSTANTS
    Reminder = {r1, r2}
    Speed = {0, 50, 300}
    Absent = Absent
    NULL = NULL
    FREED = FREED
    MAX_EDITS = 3
    MAX_DROPS = 1
    MAX_FAILURES = 1
SPECIFICATION FairSpec
INVARIANTS
    SpeedMirrored
PROPERTY SpeedSettles
CHECK_DEADLOCK FALSE
