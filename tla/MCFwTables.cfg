SPECIFICATION PartsSpec
CONSTANTS
    f1 = f1
    f2 = f2
    a = a
    x = x
    b = b
    Component = {a, x, b}
    Face = {f1, f2}
    Cost = {0, 1}
    Router = {r1}
    RibName <- MCRibName
    FibName <- MCFibName
    PetName <- MCFibName
    Route <- MCRoutes
    m = 1
    HashName <- MCName
    HashLookup <- MCLookup
    Strategy = {s1}
    Default = s1
    None = None
    Extension = {1000, 1001}
    MaxVary = 3
    Mtu = {1000, 1420}
    PacketSize = {1374}
    Extra = {0, 5}
    RingSize = 2
    Fragmenting = {TRUE, FALSE}
    Indicating = {TRUE, FALSE}
    Lossy = TRUE
    MaxCopies = 1
    MaxPackets = 2
    MaxRestarts = 1
INVARIANTS FibFollowsRib FindsLongest RoundTrip ReadsWhatIsThere WholePacketsOnly NothingStuck
PROPERTY CleanUpRemovesFace
CHECK_DEADLOCK FALSE
