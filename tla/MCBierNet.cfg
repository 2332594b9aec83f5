CONSTANTS
    x1 = x1
    x2 = x2
    App = App
    None = None
    Node <- MCNode
    Nonce <- TwoNonces
    Scenarios <- AllScenarios
SPECIFICATION FairSpec
INVARIANT EachBitCarriedOnce
PROPERTIES AllMembersReached ImplementsGroupDelivery
CHECK_DEADLOCK FALSE
