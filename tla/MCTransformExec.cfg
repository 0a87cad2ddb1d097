CONSTANTS
    UpBufs = {u1, u2, u3}
    OwnBufs = {o1, o2}
    NoBuf = NoBuf
    MaxRows = 2
    MaxPauses = 1
SPECIFICATION FairSpec
INVARIANTS
    NothingLeaks
    MetadataBelongsToRow
    SyntheticOnlyWhenEmpty
PROPERTIES
    RowDeliveredOrReported
    Drains
