SPECIFICATION SyncSpec
CONSTANTS
    h = h p1 = p1 p2 = p2 s8 = s8
    Absent = Absent
    SporkIDs = {s8}
    SporkMessages <- TwoSporks
    Peers = {p1, p2}
    Modern = {p1}
    Items = {h}
    MASTERNODE_SYNC_THRESHOLD = 1
    SPORK_8_MASTERNODE_PAYMENT_ENFORCEMENT = s8
    MaxReboots = 1
INVARIANT SyncTypeOK
PROPERTIES NewestSporkWins HeardAssetEnds SyncStartsAgain
