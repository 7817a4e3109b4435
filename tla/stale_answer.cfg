SPECIFICATION Spec
CONSTANTS
    MaxRequests = 1
    NumStages = 2
    PromptBudget = 2
    Kinds = {"repair"}
    SignalOutcomes <- Never
    FifoOutcomes <- Always
INVARIANT ConsentedStages
CHECK_DEADLOCK FALSE
