CONSTANTS
    Msgs = {m1, m2, m3}
    MaxSize = 2
    MAX_RCV_COUNT = 1
    Options = {"x509_cert", "x509_key"}
    AllocFailures = {"hostname", "list"}
    Reentry <- CarefulReentry
    Reuse = {}
    MaxDepth = 8
SPECIFICATION FairSpec
INVARIANTS
    TypeOK
    CompletedOnceInOrder
    OKMeansSent
    WireIsInOrder
    ClosedIsEmpty
    OneOpenResult
    NoFault
PROPERTIES
    IsSendQueue
    CallsReturn
    EveryMessageCompletes
