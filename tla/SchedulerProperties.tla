-------------------------- MODULE SchedulerProperties --------------------------
(***************************************************************************)
(* What the scheduler promises.                                             *)
(***************************************************************************)
EXTENDS Scheduler

WorkerType ==
    [pc : WorkerPCs, job : Jobs \cup {NoJob}, child : Runs \cup {NoRun},
     result : RunStatuses \cup {"none"}, cancelled : BOOLEAN]
LoopType ==
    [pc : LoopPCs, job : Jobs \cup {NoJob}, token : Tokens \cup {NoToken},
     outcome : Outcomes \cup {"none"}]

ProcessType ==
    /\ connected \subseteq Runners
    /\ configured \subseteq Agents
    /\ native \subseteq Questions
    /\ worker \in [Tokens -> WorkerType]
    /\ \A t \in Busy : worker[t].job \in Jobs
    /\ \A t \in Tokens : worker[t].pc = "delegating" => worker[t].child \in Runs
    /\ \A t \in Tokens : worker[t].cancelled => t \in Busy
    /\ active \in [Runs -> Tokens \cup {NoToken}]
    /\ \A r \in Runs : active[r] # NoToken => active[r] \in Busy
    /\ loop \in LoopType
    /\ loop.pc \in {"evaluate", "resolve", "start"} =>
          loop.job \in Jobs /\ loop.token \in Tokens
    /\ loop.pc = "resolve" => loop.outcome \in Outcomes

\* Every table and every process of the coordinator holds values of its type,
\* a process that is at work works on a job, and only workers at work are
\* registered or cancelled.
TypeOK == TablesType /\ ProcessType

-----------------------------------------------------------------------------
Claimed(j) == jobState[j] = "CLAIMED"
HasClaim(r) == \E j \in JobsOf(r) : Claimed(j)

\* No leaked capacity: a job holds a lease, and exactly the capacity its run
\* needs, precisely while it is claimed, whatever path ended the claim
\* (result, question, reconciliation, cancellation, parent's end).
ClaimOwnsCapacity ==
    \A j \in Jobs :
        /\ Claimed(j) <=> leaseToken[j] # NoToken
        /\ j \in expired => Claimed(j)
        /\ IF Claimed(j)
           THEN \E n \in Runners :
                  {x \in reservations : x.job = j} = ReservationsFor(j, n)
           ELSE {x \in reservations : x.job = j} = {}

\* The concurrency limits of agents, model profiles and runners hold in every
\* state, although claims outlive workers, leases and server processes.
CapacityRespected ==
    /\ \A a \in Agents : Used("AGENT", a) <= AgentLimit[a]
    /\ \A m \in Models : \/ ModelLimit[m] = Unlimited
                         \/ Used("MODEL_PROFILE", m) <= ModelLimit[m]
    /\ \A n \in Runners : Used("RUNNER", n) <= RunnerLimit[n]

\* A run's status and its jobs tell the same story: a run is never claimed
\* twice, an executing run has its claim, a run that is paused, in review or
\* over has none, and a queued run has a job that will be admitted, exactly
\* one unless it delegates (a child that is cancelled while its parent waits
\* to be retried adds a continuation to the retry).
RunAgreesWithJobs ==
    \A r \in Runs :
        LET queued  == {j \in JobsOf(r) : jobState[j] = "QUEUED"}
            claimed == {j \in JobsOf(r) : Claimed(j)}
        IN  /\ runStatus[r] = "QUEUED" => queued # {}
            /\ Children(r) = {} =>
                  Cardinality(queued) = (IF runStatus[r] = "QUEUED" THEN 1 ELSE 0)
            /\ Cardinality(claimed) <= 1
            /\ runStatus[r] \in {"STARTING", "RUNNING"} => claimed # {}
            /\ claimed # {} => runStatus[r] \in {"STARTING", "RUNNING",
                                                 "WAITING_FOR_INPUT"}

\* Two runs of one workspace are never claimed at the same time.
OneClaimPerWorkspace ==
    \A r, x \in Runs :
        r # x /\ WorkspaceOf[r] = WorkspaceOf[x] => ~(HasClaim(r) /\ HasClaim(x))

\* A delegated run executes only while the run that delegated it is paused,
\* or after that run has ended and before the cleanup of the child.
ChildRunsWhileParentPaused ==
    \A c \in Runs :
        HasParent(c) /\ runStatus[c] \in {"STARTING", "RUNNING",
                                          "WAITING_FOR_INPUT"}
            => runStatus[ParentOf[c]] \in {"PAUSED"} \cup Terminal

\* A paused parent is never stranded: the child it waits for is unfinished,
\* and is not held back any more.
PausedParentHasChild ==
    \A p \in Runs :
        runStatus[p] = "PAUSED" =>
            \E c \in Children(p) :
                /\ outcome[c] = "none"
                /\ runStatus[c] \in Active
                /\ runStatus[c] = "QUEUED" => jobAvail[StartJob(c)] # "held"

\* HandoffSafe: run and job rows agree through a handoff, the child works only
\* while its parent is out of the way, and the parent is never left waiting for
\* nothing (RequestDelegation, MarkDelegationReady, finishChildren).
HandoffSafe ==
    RunAgreesWithJobs /\ ChildRunsWhileParentPaused /\ PausedParentHasChild

\* A waiting run always has a way on: a question to answer, or a claim whose
\* holder or whose expiry continues it.
WaitingIsAnswerable ==
    \A r \in Runs :
        runStatus[r] = "WAITING_FOR_INPUT" => OpenBlocking(r) \/ HasClaim(r)

\* What has ended stays ended, whatever stale workers, reconcilers or late
\* answers do afterwards; and a delegation gets one outcome.
EndedStaysEnded ==
    [][/\ \A r \in Runs : runStatus[r] \in Terminal => runStatus'[r] = runStatus[r]
       /\ \A c \in Runs : outcome[c] # "none" => outcome'[c] = outcome[c]]_vars

-----------------------------------------------------------------------------
(***************************************************************************)
(* The scheduler as an implementation of ClaimPool.  The pool's claims are  *)
(* the CLAIMED rows of scheduler_jobs, its leases scheduler_leases and its  *)
(* units scheduler_capacity_reservations; everything else the scheduler     *)
(* keeps is hidden.                                                         *)
(***************************************************************************)
ClaimedJobs == {j \in Jobs : Claimed(j)}

LimitOf(kind, resource) ==
    CASE kind = "RUNNER"        -> RunnerLimit[resource]
      [] kind = "AGENT"         -> AgentLimit[resource]
      [] kind = "MODEL_PROFILE" -> ModelLimit[resource]

BundlesOf(j) == {ReservationsFor(j, n) : n \in Runners}

ShareWorkspace(i, j) ==
    JobRun(i) # JobRun(j) /\ WorkspaceOf[JobRun(i)] = WorkspaceOf[JobRun(j)]

Pool == INSTANCE ClaimPool
            WITH claimed <- ClaimedJobs, lease <- leaseToken,
                 lapsed <- expired, held <- reservations,
                 Bundles <- BundlesOf, Limit <- LimitOf,
                 Rivals <- ShareWorkspace

\* Every step of coordinators, workers, people, clocks and crashes is a step of
\* the claim pool or leaves the pool alone: no path ends a claim and keeps its
\* lease or some of its capacity, takes a claim over before its lease has
\* lapsed or under a lease somebody holds, or claims without room.
ImplementsPool == Pool!Spec

-----------------------------------------------------------------------------
\* A human decision is not lost: a run that waits for input with no question
\* left to answer moves on, to RUNNING through the engine that asked or to
\* QUEUED through reconciliation, unless it asks again.
AnswerContinuesRun ==
    \A r \in {QuestionRun[q] : q \in Questions} :
        []<>(runStatus[r] # "WAITING_FOR_INPUT" \/ OpenBlocking(r))

\* The coordinator's loop, which stands still while all slots are taken
\* (startWorker, reserveSlot), is not held up for ever: workers give their slots
\* back unless a person is still to answer a question.
SlotsComeFree == []<>(SlotFree \/ \E r \in Runs : OpenBlocking(r))

\* A handoff that was recorded before its worker died is completed: the parent
\* does not stay RUNNING with its session stopped and its child held.
RecordedHandoffCompletes ==
    \A c \in Runs :
        LET p == ParentOf[c] IN
        HasParent(c) =>
            (/\ runStatus[p] = "RUNNING" /\ p \notin live /\ ended[p] = "CANCELLED"
             /\ Event(c, "delegate_tool") /\ Event(p, "delegation_handoff")
             /\ outcome[c] = "none")
            ~> (runStatus[p] # "RUNNING" \/ p \in live \/ ended[p] # "CANCELLED")
=============================================================================
