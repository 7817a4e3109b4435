SPECIFICATION Spec
CONSTANTS
    MaxRollbacks = 3
    Scopes = {"host", "target"}
INVARIANTS TypeOK RestoredIsRestored SuccessIsSwitched NeverRootless
PROPERTIES RootsKept HomesKept
CHECK_DEADLOCK FALSE
