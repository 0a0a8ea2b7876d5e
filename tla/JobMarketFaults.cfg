SPECIFICATION Spec
CONSTANTS
    Jobs = {je}
    ExecJobs = {je}
    Providers = {1, 2, 3}
    Price <- MCPrice
    MaxBudget = 2
    Available = 4
    Reserve = 1
    MaxCompleted = 1
    None = None
    MaxEscrows = 2
    MaxFailures = 1
    MaxCrashes = 1
INVARIANTS
    WorkPaid
    UncommittedUntilAccepted
CHECK_DEADLOCK FALSE
