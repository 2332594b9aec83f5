CONSTANTS
    Extension = {1000, 1001}
    MaxVary = 1
SPECIFICATION Spec
INVARIANT UnknownSkipped
CHECK_DEADLOCK FALSE
