CONSTANTS
    File = {"f", "g"}
    Chunk = {"a", "b"}
    Content <- SharedContent
    MaxVer = 1
    MaxSnap = 2
    MaxEvents = 2
    BatchSize = 2
    Workers = 2
    MaxPending = 2
    Mode = {"safe", "remote"}
    Synced = {"b"}
SPECIFICATION FairSpec
INVARIANT RowsDescribeFiles
INVARIANT QuietCapturesKept
PROPERTY SettledSnapshots
 
CHECK_DEADLOCK FALSE
