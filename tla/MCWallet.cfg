SPECIFICATION WalletSpec
SYMMETRY Symmetry
CONSTANTS
    fd = fd cA = cA cB = cB cC = cC cD = cD cE = cE cF = cF s = s t1 = t1 t2 = t2 t3 = t3 t4 = t4 t5 = t5 x = x z = z
    g = g d = d e = e a1 = a1 a2 = a2 a3 = a3 b1 = b1 p1 = p1 p2 = p2
    None = None
    Txs <- Transactions
    Vin <- Inputs
    NOut <- Outputs
    CoinBases = {fd, cA, cB, cC, cD, cE, cF}
    CoinStakes = {s}
    BigTxs = {t4}
    Blocks <- Tree
    Base = g
    Parent <- TreeParent
    Height <- TreeHeight
    Vtx <- TreeVtx
    COINBASE_MATURITY = 2
    Peers = {p1, p2}
    MaxOrphanTx = 2
    Mine <- Owned
    Made = {t1, t3, t4, x}
    HashOrders <- ByHash
INVARIANTS PoolConsistent CoinsMatchChain OrphansConsistent WalletComplete
PROPERTIES NoOrphanLeftBehind CommitAccepted
