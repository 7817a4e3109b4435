SPECIFICATION Spec
CONSTANTS
    MaxRequests = 2
    NumStages = 1
    PromptBudget = 1
    Kinds <- RepairThenDiagnostic
    SignalOutcomes <- Either
    FifoOutcomes <- Always
INVARIANTS OneRequestAtATime GateDiscipline CancelIsolation
PROPERTIES DialogCancelsItsRequest ImplementsService
CHECK_DEADLOCK FALSE
