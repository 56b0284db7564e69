SPECIFICATION Spec
CONSTANTS
    Services <- MCServices
    Net <- MCNet
    Sources <- MCBuckets
    Keys = {1}
    GetNewBucket <- MCGetNewBucket
    GetTriedBucket <- MCGetTriedBucket
    GetBucketPosition <- MCGetBucketPosition
    NewBuckets <- MCBuckets
    TriedBuckets = {0}
    Positions = {0, 1}
    ADDRMAN_NEW_BUCKETS_PER_ADDRESS = 2
    MaxIds = 4
INVARIANTS CheckPasses ReloadKeepsTables
PROPERTY EvictedBecomesNew
