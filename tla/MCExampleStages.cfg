CONSTANTS
    Documents = {m1, m2}
    Keys = {"bytes_read", "lines_read", "empty_lines_skipped", "documents_returned", "parse_errors", "rows_out", "rows", "time"}
    Width = 4
    Inputs <- MCInputs
    DemoRoot <- MCDemoRoot
    Nodes <- MCNodes
    Directories <- MCDirs
    Links <- MCLinks
    MaxWalk = 12
    DefaultLine = 4
    DefaultDocument = 2
    StageNames = {"jsonl", "fibonacci", "perf", "lookup", "any"}
    Counts <- MCCounts
    Cap = 7
    PerfRequests <- MCPerf
    DefaultRows = 1
    MostRows = 2
    MostSleeps = 2
    LookupRequests <- MCLookups
    Deltas <- MCDeltas
    Elapsed = {9}
    Patches <- MCPatches
    MaxRows = 1
SPECIFICATION Spec
INVARIANTS
    TypeOK
    HandlesCounted
    StatusesOwned
    FilesUnderRoot
    RowsAsAsked
    SnapshotsAddUp
    InterruptedPullsFail
PROPERTIES
    PullsReturn
CHECK_DEADLOCK FALSE
