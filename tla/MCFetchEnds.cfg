CONSTANTS
    Window = 1
    Timer = {t1}
    MaxFaults = 0
    a = a
    Loads <- Uncertified
SPECIFICATION Spec
PROPERTY FetchEnds
CHECK_DEADLOCK FALSE
