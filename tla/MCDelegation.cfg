SPECIFICATION Spec
CONSTANTS
    r1 = r1 r2 = r2 a1 = a1 a2 = a2 m1 = m1 w1 = w1 n1 = n1 n2 = n2 inf = inf
    q1 = q1 q2 = q2 t1 = t1 t2 = t2 t3 = t3
    Runs = {r1, r2}
    NoRun = NoRun
    AgentOf <- MCAgentOf
    ModelOf <- MCModelOf
    WorkspaceOf <- MCWorkspaceOf
    PriorityOf <- MCPriorityOf
    ParentOf <- ParentAndChild
    CommentDelegated = {}
    AgentLimit <- MCAgentLimit
    ModelLimit <- TwoModels
    Unlimited = inf
    Runners = {n1}
    RunnerRank <- MCRunnerRank
    RunnerLimit <- TwoOfEach
    Policy <- MCPolicy
    Questions = {}
    QuestionRun <- MCQuestionRun
    Interactive = {}
    Tokens <- TwoTokens
    NoToken = NoToken
    MaxInFlight = 2
    Unsteady = {}
    Editable = {}
    Cancellable = {r1}
    ExitStatuses = {}
SYMMETRY MCSymmetry
INVARIANTS
    HandoffSafe
PROPERTY EndedStaysEnded
