SPECIFICATION FairSpec
CONSTANTS
    g = g a1 = a1 a2 = a2 b1 = b1 b2 = b2
    t1 = t1 t2 = t2
    Blocks <- Short
    Genesis = g
    Parent <- ShortParent
    Anc <- ShortAnc
    ChainWork <- ShortWork
    Height <- ShortHeight
    Ptr <- ShortPtr
    PoS = {}
    BadContext = {}
    BadConnect = {b2}
    Threads = {t1, t2}
    MaxReorganizationDepth = 3
    DiskMayFail = FALSE
    ReprocessDepth = 1
    Budgets <- Undisturbed
PROPERTIES ActivationEnds GoodBlockActivated
