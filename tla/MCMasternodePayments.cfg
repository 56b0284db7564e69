SPECIFICATION Spec
SYMMETRY Symmetry
CONSTANTS
    m1 = m1 m2 = m2 m3 = m3 a = a b = b
    None = None
    Masternodes = {m1, m2, m3}
    Payees = {a, b}
    MNPAYMENTS_SIGNATURES_REQUIRED = 2
    MNPAYMENTS_SIGNATURES_TOTAL = 2
    Ahead = 1
    Future = 2
    Recent = 0
    Limit = 0
    MaxTip = 2
    MaxRestarts = 2
    MaxReorgs = 1
INVARIANTS TallyMatchesVotes OneWinner
CHECK_DEADLOCK FALSE
