CONSTANTS
    n1 = n1
    n2 = n2
    n3 = n3
    c1 = c1
    c2 = c2
    Node <- Nodes3
    ChunkOrder <- TwoChunks
    Size <- Sizes
    PackSize = 4
    Rank <- Ranks
    Specs <- Mirror
    Pusher = {q1, q2}
    Scheduler = q1
    Scopes <- First
    CommitEvery = 2
    MaxCommands = 1
    MaxFaults = 1
SPECIFICATION FairSpec
INVARIANT StateIsStored
 
PROPERTY EventuallyPlaced
