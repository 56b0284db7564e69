SPECIFICATION Spec
SYMMETRY Symmetry
CONSTANTS
    g = g a1 = a1 a2 = a2 b1 = b1 b2 = b2
    t1 = t1 t2 = t2
    Blocks <- Siblings
    Genesis = g
    Parent <- SiblingsParent
    Anc <- SiblingsAnc
    ChainWork <- SiblingsHeight
    Height <- SiblingsHeight
    Ptr <- SiblingsPtr
    PoS = {a2}
    BadContext = {a2}
    BadConnect = {b2}
    Threads = {t1, t2}
    MaxReorganizationDepth = 3
    DiskMayFail = TRUE
    ReprocessDepth = 1
    Budgets <- Faults
INVARIANTS TypeOK DurableTip
CHECK_DEADLOCK FALSE
