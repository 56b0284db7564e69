SPECIFICATION Spec
CONSTANTS
    Txids = {x, y}
    Values = {v, w}
    Pruned = Pruned
    BlockHashes = {g, b}
    Genesis = g
    Null = Null
    None = None
    DiskMayFail = TRUE
    MaxCommits = 2
INVARIANTS ViewAnswers FlushAssertHolds
PROPERTY ImplementsLayers
