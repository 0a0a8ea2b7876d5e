SPECIFICATION Spec
CONSTANTS
    Tasks = {t1}
    Amounts = {1}
    Timeouts = {0}
    Reserve = 1
    MaxPerTx = 1
    MaxPerHour = 1
    MaxPerDay = 1
    InitialGrant = 3
    HourLen = 1
    DayLen = 1
    MaxEscrows = 2
    MaxCredited = 3
    MaxTime = 0
    MaxCrashes = 0
INVARIANTS
    HourlyLimit
CHECK_DEADLOCK FALSE
