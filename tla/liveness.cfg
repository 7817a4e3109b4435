SPECIFICATION FairSpec
CONSTANTS
    MaxRequests = 1
    NumStages = 1
    PromptBudget = 2
    Kinds <- BoundedKinds
    SignalOutcomes <- Either
    FifoOutcomes <- Always
PROPERTIES RequestCompletes DiagnosticReturns EarlyCancelHonoured BrokerExits
CHECK_DEADLOCK FALSE
