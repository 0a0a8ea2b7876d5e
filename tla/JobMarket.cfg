SPECIFICATION Spec
CONSTANTS
    Jobs = {je, jw}
    ExecJobs = {je}
    Providers = {1}
    Price <- MCPrice
    MaxBudget = 1
    Available = 3
    Reserve = 1
    MaxCompleted = 1
    None = None
    MaxEscrows = 2
    MaxFailures = 1
    MaxCrashes = 0
INVARIANTS
    OnePhase
    EscrowsApart
PROPERTY
    ToldForward
CHECK_DEADLOCK FALSE
