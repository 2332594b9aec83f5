CONSTANTS
    Digest = {d}
    None = None
    MaxCalls = 2
    Window = 1
    Timer = {t1}
    MaxFaults = 1
    a = a
    b = b
SPECIFICATION ClientSpec
PROPERTIES CalledBackOnce FetchesWhole
CHECK_DEADLOCK FALSE
