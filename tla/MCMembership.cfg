CONSTANTS
    a = a
    b = b
    Node = {a, b}
    Thread = {t1}
    MaxInc <- MCMaxInc
    Leavers = {a}
    Idle = Idle
    Picking = Picking
SPECIFICATION Spec
INVARIANT PersistedFirst
INVARIANT NoFalseLeft
 
PROPERTY FreshRunSupersedes
CHECK_DEADLOCK FALSE
