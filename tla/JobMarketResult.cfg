SPECIFICATION Spec
CONSTANTS
    Jobs = {je}
    ExecJobs = {je}
    Providers = {1}
    Price <- MCPrice
    MaxBudget = 1
    Available = 3
    Reserve = 1
    MaxCompleted = 1
    None = None
    MaxEscrows = 1
    MaxFailures = 0
    MaxCrashes = 0
INVARIANTS
    ResultFound
CHECK_DEADLOCK FALSE
