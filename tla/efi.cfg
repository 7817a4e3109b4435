SPECIFICATION Spec
CONSTANTS
    Ids = {b1, b2, b3}
    None = None
    Operations = {"reorder", "delete", "rename", "default"}
    MaxFaults = 2
INVARIANTS TypeOK PruningKeepsRoutes ReportIsTrue FailureIsUndone
PROPERTIES ActiveKept HostKept
SYMMETRY Numbers
CHECK_DEADLOCK FALSE
