CONSTANTS
    N = 2
    MaxSize = 1
SPECIFICATION ClientFairSpec
INVARIANT FinishLosesNothing
INVARIANT AcksAreEvidence
PROPERTY CallReturns
CHECK_DEADLOCK FALSE
