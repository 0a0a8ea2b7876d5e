SPECIFICATION Spec
CONSTANTS
    Chats = {}
    Tasks = {task}
    Submits = {submit}
    Agents = {}
    Crews = {}
    Flows = {flow}
    Offers = {offer}
    SubAgent = SubAgent
    None = None
    Capacity = 1
    MaxTurns = 1
INVARIANTS
    NeverPaidTwice
    RunRecordsTrue
PROPERTIES
    SelfWaitIsFinal
CHECK_DEADLOCK FALSE
