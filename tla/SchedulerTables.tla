--------------------------- MODULE SchedulerTables ---------------------------
(***************************************************************************)
(* The durable state the scheduler works on: the Postgres tables runs,      *)
(* scheduler_jobs, scheduler_leases, scheduler_capacity_reservations,       *)
(* delegations, questions, engine_question_bindings, execution_sessions and *)
(* the run evidence events that recovery reads.                             *)
(*                                                                          *)
(* Every store function is one READ COMMITTED transaction that locks the    *)
(* rows it decides on, so it is one action.  Row identities that the code   *)
(* draws at random (a run created later, a question asked later) are named  *)
(* in advance by constants; a row that does not exist yet is "NONE".        *)
(***************************************************************************)
EXTENDS Integers, FiniteSets

CONSTANTS
    Runs, NoRun,       \* runs, named in advance; NoRun is not one of them
    AgentOf,           \* run -> agent
    ModelOf,           \* agent -> model profile
    WorkspaceOf,       \* run -> workspace; an issue has exactly one
    PriorityOf,        \* run -> priority of its issue
    ParentOf,          \* run -> the run that delegates it, or NoRun
    CommentDelegated,  \* runs delegated by an issue comment: no parent run
    AgentLimit,        \* agent -> concurrency_limit
    ModelLimit,        \* model profile -> max_concurrent; may be Unlimited
    Unlimited,         \* the model limit that is NULL
    Runners,           \* runners registered with the server
    RunnerRank,        \* runner -> place in (internal, created_at, id) order
    RunnerLimit,       \* runner -> max_active_sessions
    Policy,            \* workspace -> runners its project may use
    Questions,         \* blocking questions, named in advance
    QuestionRun,       \* question -> the run that asks it
    Interactive,       \* questions asked by a live interactive engine
    Tokens, NoToken    \* lease tokens; bounds those in use at the same time

\* Rows refer to rows that exist (the foreign keys of the schema); the special
\* values are none of the rows; a limit is a number or absent.
ASSUME ReferencesAssumption ==
    /\ NoRun \notin Runs /\ NoToken \notin Tokens
    /\ \A r \in Runs : ParentOf[r] \in Runs \cup {NoRun}
    /\ \A q \in Questions : QuestionRun[q] \in Runs
ASSUME FiniteAssumption ==
    IsFiniteSet(Runs) /\ IsFiniteSet(Questions) /\ IsFiniteSet(Runners)
ASSUME LimitsAssumption ==
    /\ \A r \in Runs : AgentLimit[AgentOf[r]] \in Nat
    /\ \A r \in Runs : ModelLimit[ModelOf[AgentOf[r]]] \in Nat \cup {Unlimited}
    /\ \A n \in Runners : RunnerLimit[n] \in Nat

VARIABLES
    runStatus,     \* runs.status
    queueReason,   \* runs.queue_reason
    jobState,      \* scheduler_jobs.state
    jobWait,       \* scheduler_jobs.wait_reason
    jobAvail,      \* scheduler_jobs.available_at: "now", "later" or "held" (9999)
    leaseToken,    \* scheduler_leases.lease_token; NoToken when there is no row
    expired,       \* leases whose expires_at has passed
    reservations,  \* scheduler_capacity_reservations
    outcome,       \* delegations.outcome, by delegated run
    question,      \* questions.status
    answeredAt,    \* questions.answered_at, as a rank; 0 when not answered
    binding,       \* engine_question_bindings.status
    live,          \* runs with a PENDING, STARTING or RUNNING execution session
    ended,         \* status of a run's only terminal session; "many" when
                   \* there are several, or it does not matter which
    events         \* evidence events recovery reads: <<run, type>>

tables == <<runStatus, queueReason, jobState, jobWait, jobAvail, leaseToken,
            expired, reservations, outcome, question, answeredAt, binding,
            live, ended, events>>

-----------------------------------------------------------------------------
Agents     == {AgentOf[r] : r \in Runs}
Models     == {ModelOf[a] : a \in Agents}
Workspaces == {WorkspaceOf[r] : r \in Runs}

\* A job is named by its idempotency key: "run:<id>:start",
\* "question:<id>:resume" or "delegation:<id>:resume".
StartJob(r)      == <<"START", r>>
QuestionJob(q)   == <<"QUESTION", q>>
DelegationJob(c) == <<"DELEGATION", c>>

Children(p) == {c \in Runs : ParentOf[c] = p}
HasParent(c) == ParentOf[c] # NoRun
Delegated(c) == HasParent(c) \/ c \in CommentDelegated
\* Recovery looks at the terminal session of delegated and of delegating runs
\* only, and at the evidence that could make a difference for them; what it
\* does not look at is not kept.
Recoverable(r) == Delegated(r) \/ Children(r) # {}
Readable(r, type) ==
    \/ Delegated(r) /\ type # "delegation_handoff"
    \/ Children(r) # {} /\ type \in {"delegation_handoff", "cancellation_requested"}

Jobs == {StartJob(r) : r \in Runs}
            \cup {QuestionJob(q) : q \in Questions}
            \cup {DelegationJob(c) : c \in {r \in Runs : HasParent(r)}}

JobRun(j) == CASE j[1] = "START"      -> j[2]
               [] j[1] = "QUESTION"   -> QuestionRun[j[2]]
               [] j[1] = "DELEGATION" -> ParentOf[j[2]]

JobsOf(r) == {j \in Jobs : JobRun(j) = r}

Terminal == {"COMPLETED", "FAILED", "CANCELLED"}
Active   == {"QUEUED", "STARTING", "RUNNING", "WAITING_FOR_INPUT", "PAUSED",
             "READY_FOR_REVIEW"}
RunStatuses  == Active \cup Terminal \cup {"NONE"}
JobStates    == {"NONE", "QUEUED", "CLAIMED", "DONE", "FAILED", "CANCELLED"}
\* The two handoff reasons steer the delegation protocol; all others
\* ("runner_capacity", "agent_capacity", "retry", ...) only inform.
WaitReasons  == {"none", "delegation_handoff", "delegation_handoff_ready",
                 "waiting"}
EventTypes   == {"completed", "delegation_handoff", "delegate_tool",
                 "cancellation_requested", "failed"}
Kinds        == {"RUNNER", "AGENT", "MODEL_PROFILE"}
Resources    == Runners \cup Agents \cup Models
Reservation  == [job : Jobs, kind : Kinds, resource : Resources]

-----------------------------------------------------------------------------
\* countCapacityReservations
Used(kind, resource) ==
    Cardinality({x \in reservations : x.kind = kind /\ x.resource = resource})

\* Mutant: the runner's reservation is forgotten.
ReservationsButRunners(J) ==
    {x \in reservations : x.job \notin J \/ x.kind = "RUNNER"}

\* Deleting a job's reservations, and its lease row.
ReservationsWithout(J) == {x \in reservations : x.job \notin J}
LeasesWithout(J) == [j \in Jobs |-> IF j \in J THEN NoToken ELSE leaseToken[j]]

\* Releasing execution ownership of the jobs J: capacity and lease together.
Release(J) ==
    /\ reservations' = ReservationsWithout(J)
    /\ leaseToken' = LeasesWithout(J)
    /\ expired' = expired \ J

\* The lease fence of every post-admission mutation: the job is claimed and
\* the caller's token is the current, unexpired one.
Fenced(j, t) ==
    /\ jobState[j] = "CLAIMED"
    /\ leaseToken[j] = t
    /\ t # NoToken
    /\ j \notin expired

\* The run has a claimed job whose lease has not expired.
HasLiveClaim(r) ==
    \E j \in JobsOf(r) : /\ jobState[j] = "CLAIMED"
                         /\ leaseToken[j] # NoToken
                         /\ j \notin expired

\* activeRunExecutionSessionTx, inactiveRunExecutionOccupiedTx
ExecutionOccupied(r) ==
    \/ r \in live
    \/ \E j \in JobsOf(r) : jobState[j] = "CLAIMED"

\* delegatedParentTerminalTx: the run was delegated by a run that has ended.
ParentTerminal(c) == HasParent(c) /\ runStatus[ParentOf[c]] \in Terminal

\* The parent has delegated work that has no outcome yet.
UnfinishedDelegation(p) ==
    \E c \in Children(p) : runStatus[c] # "NONE" /\ outcome[c] = "none"

-----------------------------------------------------------------------------
\* What the columns hold.
TablesType ==
    /\ runStatus \in [Runs -> RunStatuses]
    /\ queueReason \in [Runs -> WaitReasons]
    /\ jobState \in [Jobs -> JobStates]
    /\ jobWait \in [Jobs -> WaitReasons]
    /\ jobAvail \in [Jobs -> {"now", "later", "held"}]
    /\ leaseToken \in [Jobs -> Tokens \cup {NoToken}]
    /\ expired \subseteq Jobs
    /\ reservations \subseteq Reservation
    /\ outcome \in [Runs -> {"none", "SUCCEEDED", "FAILED", "CANCELLED"}]
    /\ question \in [Questions -> {"NONE", "OPEN", "ANSWERED", "CANCELLED"}]
    /\ answeredAt \in [Questions -> Nat]
    /\ binding \in [Questions -> {"NONE", "OPEN", "ANSWERED", "RESOLVED",
                                  "CANCELLED"}]
    /\ live \subseteq Runs
    /\ ended \in [Runs -> Terminal \cup {"none", "many"}]
    /\ events \subseteq Runs \X EventTypes
=============================================================================
