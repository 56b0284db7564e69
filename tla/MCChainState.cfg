SPECIFICATION Spec
SYMMETRY Symmetry
CONSTANTS
    g = g a1 = a1 a2 = a2 b1 = b1 b2 = b2
    t1 = t1 t2 = t2
    Blocks <- Fork
    Genesis = g
    Parent <- ForkParent
    Anc <- ForkAnc
    ChainWork <- ForkWork
    Height <- ForkHeight
    Ptr <- ForkPtr
    PoS = {b1, b2}
    BadContext = {}
    BadConnect = {b2}
    Threads = {t1, t2}
    MaxReorganizationDepth = 2
    DiskMayFail = FALSE
    ReprocessDepth = 1
    Budgets <- OneOfThem
INVARIANTS IndexConsistent BestChainActive CandidatesLeft ActiveChainValid CoinsMatchTip DiskTipOnChain
CHECK_DEADLOCK FALSE
