CONSTANTS
    Threshold = 2
    MaxPipeline = 1
    MaxSeq = 4
    MaxBoot = 2
    MayCongest = FALSE
    Prefix = {p}
    Face = {1, 2}
    Always = Always
    Validity = {Always, short}
    Node = {1, 2}
    MayBePassive = {2}
    MaxNumber = 2
    MaxBoots = 3
    Future = {3}
    MaxEvents = 2
    MaxInbox = 2
SPECIFICATION SyncSpec
INVARIANTS CopyLacksNothing PassiveCanTell
PROPERTIES EventuallyInSync VectorsAgree
CHECK_DEADLOCK FALSE
