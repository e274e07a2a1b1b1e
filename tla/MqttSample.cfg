CONSTANTS
    MESSAGE_COUNT = 4
    DOWORK_LOOP_NUM = 3
SPECIFICATION FairSpec
INVARIANTS
    SharedInstance
    DestroyedWhenAnswered
    ConfirmedInTurn
PROPERTIES
    EndsUnlessLost
