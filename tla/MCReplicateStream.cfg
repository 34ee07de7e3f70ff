CONSTANTS
    s1 = s1
    c1 = c1
    c2 = c2
    Stream = {s1}
    Hash = {c1, c2}
    Bad = {c2}
    NoHash = NoHash
    Sent <- OneStream
    MaxPending = 1
    Workers = 1
    MayClose = TRUE
SPECIFICATION StreamFairSpec
INVARIANT AcksAreReal
INVARIANT NoSilentTruncation
PROPERTY HandlerEnds
PROPERTY SlotsReturn
CHECK_DEADLOCK FALSE
