SPECIFICATION RecordsSpec
CONSTANTS
    Columns = {"BACKLOG", "REVIEW"}
    MaxCards = 3
    MaxIntents = 2
    ExAgents = {"a", "b"}
    ConfigWriters = {1}
    MaxExRuns = 2
    MaxPosts = 4
    MaxDepth = 1
    MaxContext = 2
    PageLimits = {1, 3}
    RootCandidates = 3
    MaskRuns = {1, 2}
    Executions = {1, 2}
    Letters = {"a", "b"}
    Vocabularies <- MCVocabularies
    Candidates <- MCCandidates
    MaxFed = 5
    MaxChunk = 3
    People = {u, v}
    Projects = {p}
    Groups = {g}
    Callers = {c, d}
    Tabs = {t1, t2}
    MaxPasswords = 3
    MaxTokens = 2
    MaxRefreshes = 3
CHECK_DEADLOCK FALSE
INVARIANTS
    
    MasksSafe
    
    AdminsRemain
PROPERTIES
    BoardSafe
    
    CredentialsSafe
