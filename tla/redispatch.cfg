SPECIFICATION Spec
CONSTANTS
    MaxRequests = 1
    NumStages = 1
    PromptBudget = 2
    Kinds = {"shell"}
    SignalOutcomes <- Never
    FifoOutcomes <- Always
INVARIANT DispatchedOnce
CHECK_DEADLOCK FALSE
