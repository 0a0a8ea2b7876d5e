SPECIFICATION Spec
CONSTANTS
    None = None
    Chats = {c1, c2}
    MaxQuestions = 3
    Tasks = {t1, t2}
    MaxInference = 1
    MaxWasm = 1
    Threads = {h1, h2}
    Points = {p1}
    Dims = {1, 2}
    MaxCreated = 3
    Torn = Torn
    Routines = {r1}
    MaxStarts = 2
    MaxEvents = 2
    Reloads = {r1, r2}
    Calls = {k1, k2}
    Callers = {c1}
    MaxUpdates = 3
    Filtered = {2}
    Friends = {peer}
    Strangers = {other}
    Capacity = 2
    MaxConnects = 2
    Neighbours = {peer}
    MaxLinks = 2
    MaxSent = 2
    OldAge = 0
    DialRoom = 1
    Posts = {post}
    A2aTasks = {a1}
    Handlers = {r1, r2}
    MaxRequests = 3
    RuleSets <- MCRuleSets
    DefaultPrice = 1
    Paths <- MCPaths
    Amounts = {0, 1}
    FreeLimit = 1
    RateLimit = 1
    MaxMinutes = 2
    MinutesInHour = 2
    Names = {name}
    Providers = {peer, other, me}
    Prices = {1, 2}
    Me = me
    MaxEdits = 2
    MaxBatches = 2
    Broken = Broken
    Pieces = {1, 2}
    Pipe = 1
    MaxInput = 2
    MaxOutput = 2
    Kept = 1
    MaxChildren = 1
    MaxLength = 2
    Installed = {name}
    Executions = {c1, c2}
    Fuel = 2
    MemorySize = 2
    InputLength = 1
    Word = 16
    Arguments <- MCArguments
    Programs = {c1, c2}
    Saves = {r1, r2}
    Asked <- MCAsked
    FlagSets = {{"ollama"}}
SYMMETRY Symmetry
INVARIANTS
    AccountsAgree
    CallsCanEnd
    NothingLost
    PricesAndLimits
CHECK_DEADLOCK FALSE
