CONSTANTS
    N = 3
    OwnerOf <- Owners3
    Size <- Sizes3
    MaxPacks = 1
    OwnerBytes = 2
    StoreBytes = 3
    MaxAge = 1
    MaxTime = 3
    MaxFaults = 1
    MaxGc = 1
SPECIFICATION Spec
INVARIANT AcceptedServed
INVARIANT ServingWithinQuota
PROPERTY NoNeedlessLoss
CHECK_DEADLOCK FALSE
