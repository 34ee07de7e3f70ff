CONSTANTS
    f1 = f1
    f2 = f2
    c1 = c1
    c2 = c2
    FileOrder <- TwoFiles
    Recipe <- Recipes
    Source <- Chain
    Remote <- Network
    Copies <- OnlyReplica
    Restorer = {r1, r2}
    Window = 2
    SyncEvery = 2
    MaxInode = 8
    MaxFaults = 1
SPECIFICATION FairSpec
 
PROPERTY ProgressKept
PROPERTY EventuallyRestored
CHECK_DEADLOCK FALSE
