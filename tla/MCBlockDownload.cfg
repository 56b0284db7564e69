SPECIFICATION FairSpec
CONSTANTS
    g = g a1 = a1 a2 = a2 b1 = b1 p1 = p1 p2 = p2
    None = None
    Peers = {p1, p2}
    Blocks = {g, a1, a2, b1}
    Genesis = g
    Anc <- Ancestors
    Height <- Heights
    MAX_BLOCKS_IN_TRANSIT_PER_PEER = 2
    BLOCK_DOWNLOAD_WINDOW = 1
    BLOCK_STALLING_TIMEOUT = 0
    HalfSpacing = 0
    Announces <- Inventory
    MaxSessions = 2
INVARIANTS InFlightConsistent CountersExact StallerOwesBlock CommonBlockLinked
PROPERTY RequestsEnd
