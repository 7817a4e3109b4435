SPECIFICATION Spec
CONSTANTS
    MaxRequests = 1
    NumStages = 2
    PromptBudget = 1
    Kinds <- AllKinds
    SignalOutcomes <- Either
    FifoOutcomes <- Either
INVARIANTS TypeOK TruthfulSuccess
CHECK_DEADLOCK FALSE
