CONSTANTS
  MaxLater = 2
  MaxRestarts = 1
  MaxLosses = 1
SPECIFICATION ModesSpec
INVARIANTS ModeReached CalibratesAwake
PROPERTIES StartUpEnds
CHECK_DEADLOCK FALSE
