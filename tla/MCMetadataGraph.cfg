CONSTANTS
    MaxState = 2
    Graph <- Shared
    Proc = {r1, r2}
    MaxFaults = 1
    MaxGen = 2
SPECIFICATION FairSpec
INVARIANT LatestClosed
 
 
CHECK_DEADLOCK FALSE
