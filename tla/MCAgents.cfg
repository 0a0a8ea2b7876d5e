SPECIFICATION Spec
CONSTANTS
    None = None
    MaxIterations = 2
    KeepRecent = 2
    Space = 4
    SystemSize = 2
    Large = 2
    Limits <- MCLimits
    MaxCost = 1
    Histories = {0, 2}
    AgentTasks = 3
    Signatures = {s1, s2, s3}
    MaxPasses = 4
    MaxCalls = 2
    MaxRepeats = 2
    MaxNudges = 1
    MaxReply = 3
    PerRequest = 2
    LoopTasks = 1
    Runs = {k1, k2}
    Crews <- MCCrews
    Agents = {anna, bert}
    TaskIds = {draft, review, unknown}
    Capacity = 1
    Requests = {r1, r2, r3}
    MaxMessages = 4
    MaxTurns = 2
    Restarts = 1
    WebTaskIds = {w1, w2}
    MaxChunks = 1
    Clients = {client1, client2}
    Wanted <- MCWanted
    SseRoom = 1
    AnswerChunks = 2
    AnswerPasses = 2
    Halted = Halted
    Locals = {l1, l2}
    Remotes = {remote}
    Peers = {neighbour}
    Callers = {c1, c2}
    MaxHistory = 2
    MaxActions = 3
    Notes = {note1, note2, note3, note4, note5, note6}
    SavedTasks = {note1, note2, note3}
    Scores <- MCScores
    Limit = 1
    MaxMemories = 1
    MaxTop = 2
    MinScore = 10
    Ids = {anna}
    Specs = {s1, s2}
    Editors = {client1, client2}
    Pages = {w1}
    PageRoom = 1
    MaxChanges = 3
    MaxOther = 1
    MaxLoads = 2
    MaxStarts = 1
    anna = anna  bert = bert  absent = absent
    draft = draft  review = review  unknown = unknown
    client1 = client1  client2 = client2
    note1 = note1  note2 = note2  note3 = note3  note4 = note4  note5 = note5  note6 = note6
SYMMETRY Symmetry
INVARIANTS
    LimitsKept
    ContextKept
    RecordsTrue
PROPERTY
    StatusIsFinal
CHECK_DEADLOCK FALSE
