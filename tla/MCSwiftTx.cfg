SPECIFICATION Spec
CONSTANTS
    t = t u = u i = i j = j m1 = m1 m2 = m2
    None = None
    Txs = {t, u}
    Vin <- Inputs
    Masternodes = {m1, m2}
    Self = m2
    LockHeight <- InputHeights
    Heights = {0, 1}
    Top <- Ranked
    SWIFTTX_SIGNATURES_REQUIRED = 2
INVARIANT VotersDistinct
PROPERTIES CompletionLocksInputs LocksEnd
