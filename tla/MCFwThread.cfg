CONSTANTS
    Name <- MCName
    Prefix <- MCPrefix
    Face <- MCFace
    NonLocal <- MCNonLocal
    Nonce = {1, 2}
    Key <- MCKey
    Localhost <- MCLocalhost
    Localhop <- MCLocalhop
    LocalHops <- MCLocalHops
    NetHops <- MCNetHops
    Strategy <- MCStrategy
    Traffic <- MCTraffic
    Capacity = 1
    SuppressionTime = 1
    DnlLifetime = 1
    DnlBatch = 2
    MaxTime = 2
    r1 = r1
    r2 = r2
    Router <- MCRouter
    BitString <- MCBitString
    Egress <- MCEgress
    BfrId = {0, 1, 2}
    BiftFace = {11, 12}
    Cost = {1, 2}
    Thread = {t1}
    LocalId = 0
    NoRouter = NoRouter
    MaxChanges = 4
    Never = Never
    None = None
SPECIFICATION PartsSpec
SYMMETRY RouterSymmetry
INVARIANTS EveryEntryTimed OutNoncesGuarded EachBitLeavesOnce NoBitSkipped QuiescentMasksPartition
PROPERTIES OutNoncesDead PendingKept DataSatisfiesAll RetransmissionsSpaced RebuildPicksBestHop
