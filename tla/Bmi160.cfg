CONSTANTS
  Used <- MCUsed
  Inputs <- MCInputs
  Observed <- MCObserved
  Contents <- MCContents
  MaxCalls = 2
  MaxFailures = 2
SPECIFICATION Spec
INVARIANTS HeldAsAsked
PROPERTIES IsSettings
CHECK_DEADLOCK FALSE
