CONSTANTS
    Node = {1, 2}
    Pack = {1, 2}
    Score <- Scores
    r1 = r1
    r2 = r2
    Command <- Commands
    Rf = {1, 2}
    Parallelism = 2
    MaxCommands = 3
    MaxFaults = 1
SYMMETRY Symmetry
SPECIFICATION Spec
INVARIANT ConfirmedIsReal
INVARIANT NoFalseAlarm
INVARIANT NewestRecovered
CHECK_DEADLOCK FALSE
