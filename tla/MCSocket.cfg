CONSTANTS
    Face = {f1, f2}
    Destroyable = {f1}
    HistoryLimit = 3
    Nothing = Nothing
    Closers = {mgmt}
    Socket = {s1, s2}
    NoConn = NoConn
    Prefix = {p}
    LocalFace = {1, 2}
    Me = me
    Other = other
    Always = Always
    Validity = {Always, short}
    Inserter = {i1}
    MaxVersion = 1
    MaxCalls = 2
    MaxVectors = 2
    ChannelSize = 1
    PublSize = 1
    Group = group
    None = None
SPECIFICATION FacesSpec
INVARIANT NoSocketLost
CHECK_DEADLOCK FALSE
