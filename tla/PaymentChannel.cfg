SPECIFICATION Spec
CONSTANTS
    Peers = {alice, bob}
    Tasks = {t1, t2}
    Capacities = {1, 2}
    Amounts = {1}
    MaxOpens = 3
    MaxCalls = 2
    MaxCloses = 1
    MaxUpdates = 2
SYMMETRY Symmetry
INVARIANTS CapacityKept NoReplay Mirrored IndexAgrees
PROPERTY ClosedFrozen
CHECK_DEADLOCK FALSE
