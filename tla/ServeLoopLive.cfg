SPECIFICATION Spec
CONSTANTS
    Chats = {}
    Tasks = {task}
    Submits = {}
    Agents = {agent}
    Crews = {crew}
    Flows = {}
    Offers = {}
    SubAgent = SubAgent
    None = None
    Capacity = 1
    MaxTurns = 1
PROPERTIES
    ServedOrSelfWait
CHECK_DEADLOCK FALSE
