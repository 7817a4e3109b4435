SPECIFICATION CancelSpec
CONSTANTS
    MaxRequests = 1
    NumStages = 1
    PromptBudget = 2
    Kinds <- RepairKinds
    SignalOutcomes <- Never
    FifoOutcomes <- Always
PROPERTY CancelEnds
CHECK_DEADLOCK FALSE
