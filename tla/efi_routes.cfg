SPECIFICATION Spec
CONSTANTS
    Ids = {b1, b2, b3}
    None = None
    Operations = {"default"}
    MaxFaults = 1
INVARIANT RoutesSurvive
SYMMETRY Numbers
CHECK_DEADLOCK FALSE
