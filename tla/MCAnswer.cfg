SPECIFICATION FairSpec
CONSTANTS
    r1 = r1 r2 = r2 a1 = a1 a2 = a2 m1 = m1 w1 = w1 n1 = n1 n2 = n2 inf = inf
    q1 = q1 q2 = q2 t1 = t1 t2 = t2 t3 = t3
    Runs = {r1}
    NoRun = NoRun
    AgentOf <- MCAgentOf
    ModelOf <- MCModelOf
    WorkspaceOf <- MCWorkspaceOf
    PriorityOf <- MCPriorityOf
    ParentOf <- NoParents
    CommentDelegated = {}
    AgentLimit <- MCAgentLimit
    ModelLimit <- OneModel
    Unlimited = inf
    Runners = {n1}
    RunnerRank <- MCRunnerRank
    RunnerLimit <- OneOfEach
    Policy <- MCPolicy
    Questions = {q1}
    QuestionRun <- MCQuestionRun
    Interactive = {q1}
    Tokens <- TwoTokens
    NoToken = NoToken
    MaxInFlight = 2
    Unsteady = {}
    Editable = {}
    Cancellable = {}
    ExitStatuses = {"FAILED"}
PROPERTIES
    AnswerContinuesRun
    
