SPECIFICATION CapacitySpec
CONSTANTS
    r1 = r1 r2 = r2 r3 = r3 r4 = r4 a1 = a1 a2 = a2 m1 = m1 m2 = m2 w1 = w1 w2 = w2 n1 = n1 n2 = n2 inf = inf t1 = t1 t2 = t2
    Runs <- MCRuns
    NoRun = NoRun
    AgentOf <- MCAgentOf
    ModelOf <- MCModelOf
    WorkspaceOf <- MCWorkspaceOf
    PriorityOf <- MCPriorityOf
    ParentOf <- MCParentOf
    CommentDelegated = {}
    AgentLimit <- MCAgentLimit
    ModelLimit <- MCModelLimit
    Unlimited = inf
    Runners = {n1, n2}
    RunnerRank <- MCRunnerRank
    RunnerLimit <- MCRunnerLimit
    Policy <- MCPolicy
    Questions = {}
    QuestionRun <- MCQuestionRun
    Interactive = {}
    Tokens <- MCTokens
    NoToken = NoToken
    MaxInFlight = 2
    Unsteady = {n1}
    Editable = {a2}
    Cancellable = {}
    ExitStatuses = {"FAILED"}
SYMMETRY MCSymmetry
INVARIANTS
    ClaimOwnsCapacity
    CapacityRespected
    RunAgreesWithJobs
