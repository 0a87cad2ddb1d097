CONSTANTS
    Ids = {i1, i2, i3, i4}
    Args = {empty, some}
    Empty = empty
    Catalogs = {shard}
    MaxStages = 2
    MaxFailures = 1
SPECIFICATION ReadsSpec
SYMMETRY Symmetry
INVARIANTS
    ExclusiveOwnership
    OnlyLookupsLeak
    InputsSurvive
PROPERTIES
    FailureTakesNothing
    ImplementsLedger
