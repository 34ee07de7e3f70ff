CONSTANTS
    Node = {1, 2}
    Chunk = {"c"}
    Score <- Score2
    CaptureRf = {1, 2}
    PushRf = {2}
    CommitEvery = 1
    MaxFaults = 2
SPECIFICATION FairSpec
INVARIANT SufficientIsStored
INVARIANT ProtectedCoversIntent
PROPERTY EventuallyProtected
CHECK_DEADLOCK FALSE
