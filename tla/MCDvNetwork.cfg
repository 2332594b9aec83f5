CONSTANTS
    Node = {1, 2, 3, 4}
    Infinity = 4
    Dest = {4}
    Links <- Tailed
    UpAtStart <- Start
    MaxChanges = 2
    MaxSeq = 2
    MaxFaults = 1
    None = None
    NoVersion = NoVersion
    Unreadable <- MCUnreadable
SPECIFICATION PartsSpec
ACTION_CONSTRAINT LinkChanges
PROPERTIES Converges AdvertNeverOlder EventuallyLatest
INVARIANTS RoutesFollowAdverts AdvertFollowsRib FibFollowsRib WantedNotForgotten
CHECK_DEADLOCK FALSE
