SPECIFICATION FairSpec
CONSTANTS
    Tasks = {t1, t2}
    Amounts = {1}
    Timeouts = {0}
    Reserve = 1
    MaxPerTx = 1
    MaxPerHour = 1
    MaxPerDay = 2
    InitialGrant = 3
    HourLen = 1
    DayLen = 3
    MaxEscrows = 2
    MaxCredited = 4
    MaxTime = 1
    MaxCrashes = 3

INVARIANTS
    EscrowBacked
    Conserved
    GrantedOnce
    PersistedWhenQuiet
    OvershootBounded
PROPERTIES
    NoLockup
    SettledOnce
    ImplementsLedger
CHECK_DEADLOCK FALSE
