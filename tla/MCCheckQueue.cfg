SPECIFICATION FairSpec
CONSTANTS
    w1 = w1
    c1 = c1 c2 = c2 c3 = c3 c4 = c4
    Master = master
    Workers = {w1}
    Checks = {c1, c2, c3, c4}
    nBatchSize = 2
    MaxBlocks = 2
INVARIANTS TypeOK IdleAtConstruction
PROPERTIES ImplementsVerifier WaitReturns
\* the master may stop verifying blocks
CHECK_DEADLOCK FALSE
