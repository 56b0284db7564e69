------------------------ MODULE MCMasternodePayments ------------------------
EXTENDS MasternodePayments, TLC
CONSTANTS m1, m2, m3, a, b

Symmetry == Permutations({m1, m2, m3}) \cup Permutations({a, b})
=============================================================================
