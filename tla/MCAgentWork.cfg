SPECIFICATION WorkSpec
CONSTANTS
    WrAgents = {a, b}
    Assignee = a
    MaxComments = 2
    MaxWrRuns = 3
    MaxChanges = 1
    MaxParts = 1
    MaxLives = 2
    MaxOcFaults = 2
    EventWriters = {1, 2}
    MaxEvents = 2
    HubBuffer = 1
    EventPage = 1
    EventPages = 1
    MaxBreaks = 2
    MaxSteps = 2
    MaxMessages = 2
    MaxUsageFaults = 1
CHECK_DEADLOCK FALSE
INVARIANTS
    RequestsSafe
    
    EventsSafe
PROPERTIES
    UsageSafe
    
    
    EventsArrive
