CONSTANTS
    N = 3
    Limit = 2
    Timeout = 2
    MaxTime = 4
SPECIFICATION FairSpec
INVARIANTS
    FailoverInOrder
    WithinDeadline
    KillEndsQuery
PROPERTIES
    CallReturns
    ImplementsCandidateStream
