SPECIFICATION Spec
CONSTANTS
    MaxRollbacks = 1
    Scopes = {"host", "target"}
INVARIANT AutomaticRestore
CHECK_DEADLOCK FALSE
