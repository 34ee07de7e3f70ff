CONSTANTS
    DataRpc = {d1, d2}
    MemRpc = {m1}
    Op = {c1}
    Stopper = {s1}
SPECIFICATION FairSpec
INVARIANT TeardownAfterHandlers
INVARIANT StoppedIsTrue
PROPERTY ImplementsContract
PROPERTY DrainCompletes
CHECK_DEADLOCK FALSE
