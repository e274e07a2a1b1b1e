CONSTANTS
    Msgs = {m1}
    MaxSize = 1
    MAX_RCV_COUNT = 1
    Options = {}
    AllocFailures = {}
    Reentry <- NoReentry
    Reuse = {}
    MaxDepth = 4
SPECIFICATION Spec
PROPERTIES
    ErrorIsReported
