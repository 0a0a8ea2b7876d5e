SPECIFICATION Spec
CONSTANTS
    None = None
    Models = {1, 2}
    Names = {1, 2, 3, 4}
    Norm <- MCNorm
    Begins <- MCBegins
    Callers = {1, 2, 3}
    ModelOf <- MCModelOf
    MaxQueue = 1
    MaxBatch = 3
    MinBatch = 2
    Loaders = {1, 2}
    Size <- MCSize
    Largest = 2
    MaxModels = 1
    MaxMemory = 2
    Versions = {v1, v2}
    Chunks = {c1, c2}
    Drivers = {d1}
    Fetches = {d1, d2}
    Web = {d1}
    Length = 2
    Pieces = {"x", "y", "z"}
    Stops <- MCStops
    Prompts = {1, 2, 3, 4, 5}
    Limits = {0, 1, 2, 3, 4}
    Batch = 2
    Context = 5
    Replies <- MCReplies
INVARIANTS
    CountersCover
    AsAsked
    StreamSound
PROPERTY
    WaitsEnd
CHECK_DEADLOCK FALSE
