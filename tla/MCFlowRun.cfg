SPECIFICATION FairSpec
CONSTANTS
    s = s
    a = a
    b = b
    e = e
    Nodes <- MCNodes
    InputFlows <- MCFlows
    Template = Template
    None = None
    DefaultCap = 2
    MaxSteps = 16
INVARIANTS
    SortDecides
    LegacyOrder
    RoutedUnlessNote
    OutputsReady
PROPERTIES
    MCRunEnds
CHECK_DEADLOCK FALSE
