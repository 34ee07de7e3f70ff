SPECIFICATION Spec
CONSTANTS
    Chunk <- MCChunk
    Size <- MCSize
    Prefix <- MCPrefix
    Trees <- MCTrees
    Contents <- MCContents
    v1 = v1
    v2 = v2
    Vault = {v1, v2}
    Uuid <- MCUuid
    Seconds <- MCSeconds
    EcSpec <- MCSpec
    n1 = n1
    n2 = n2
    n3 = n3
    Node = {n1, n2, n3}
    States <- MCStates
    Rf = 2
    DefaultRf = 1
    MaxLosses = 1
    MaxAfter = 1
    MaxLive = 1
    MaxWork = 2
SYMMETRY Perms
INVARIANT ExportAccepted
INVARIANT RecoveredFaithfully
INVARIANT ChunksTracked
CHECK_DEADLOCK FALSE
