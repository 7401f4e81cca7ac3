------------------------------ MODULE Admission ------------------------------
(***************************************************************************)
(* Creating runs, admitting them against capacity, leases, and the          *)
(* cancellation of runs nothing executes.                                   *)
(***************************************************************************)
EXTENDS Delegations

VARIABLES
    connected,   \* runners with a live connection that offer the engine
    configured   \* agents whose model profile is visible to the project

\* enqueueAssignedIssue: assigning an issue or moving it creates a run unless
\* the issue has an active run of the same agent.
EnqueueAssignedIssue(r) ==
    /\ ~Delegated(r) /\ runStatus[r] = "NONE"
    /\ AgentOf[r] \in configured
    /\ ~ActiveRunForAgent(r)
    /\ CreateQueuedRun(r, "none", "now")

-----------------------------------------------------------------------------
\* cancelInactiveRunTx: every open job of the run is cancelled, its leases and
\* reservations are deleted and its delegation is finalized.
CancelInactiveRunTx(r) ==
    /\ runStatus[r] \in {"QUEUED", "PAUSED", "STARTING"}
    /\ EndRun(r, "CANCELLED",
              {j \in JobsOf(r) : jobState[j] \in {"QUEUED", "CLAIMED"}},
              "CANCELLED")
    /\ Release(JobsOf(r))
    /\ UNCHANGED <<question, answeredAt, binding, live, ended, events>>

\* CancelInactiveRun: the guard against cancelling under an execution.
CancelInactiveRun(r) ==
    /\ \/ runStatus[r] \in {"QUEUED", "PAUSED"} /\ ~ExecutionOccupied(r)
       \/ /\ runStatus[r] = "STARTING"
          /\ r \notin live
          /\ \E j \in JobsOf(r) : jobState[j] = "CLAIMED"
    /\ CancelInactiveRunTx(r)

-----------------------------------------------------------------------------
\* lockNextAdmissionCandidate: cleanup of children of ended parents first,
\* then issue priority.  Jobs of equal rank are ordered by times the model
\* does not keep, so any of them may come first.
CleanupRequired(r) == ParentTerminal(r) /\ outcome[r] = "none"

Candidates ==
    {j \in Jobs : /\ jobState[j] = "QUEUED"
                  /\ runStatus[JobRun(j)] = "QUEUED"
                  /\ jobAvail[j] = "now" \/ CleanupRequired(JobRun(j))}

Ahead(i, j) ==
    \/ CleanupRequired(JobRun(i)) /\ ~CleanupRequired(JobRun(j))
    \/ /\ CleanupRequired(JobRun(i)) <=> CleanupRequired(JobRun(j))
       /\ PriorityOf[JobRun(i)] > PriorityOf[JobRun(j)]

NextCandidate(j) == j \in Candidates /\ \A i \in Candidates : ~Ahead(i, j)

\* Mutant: only live sessions occupy a workspace, claims do not.
WorkspaceHasSession(r) ==
    \E x \in Runs \ {r} : WorkspaceOf[x] = WorkspaceOf[r] /\ x \in live

\* workspaceAdmissionOccupied: another run of the workspace is executing.
WorkspaceOccupied(r) ==
    \E x \in Runs \ {r} : WorkspaceOf[x] = WorkspaceOf[r] /\ ExecutionOccupied(x)

\* The claims of the agent, and of its model, against their limits.
AgentFull(r) == Used("AGENT", AgentOf[r]) >= AgentLimit[AgentOf[r]]
ModelFull(r) ==
    LET m == ModelOf[AgentOf[r]] IN
    ModelLimit[m] # Unlimited /\ Used("MODEL_PROFILE", m) >= ModelLimit[m]

\* Mutant: a session whose claim's lease has expired does not count.
RunnersUnexpired(r) ==
    {n \in connected \cap Policy[WorkspaceOf[r]] :
        Cardinality({x \in reservations : /\ x.kind = "RUNNER" /\ x.resource = n
                                          /\ x.job \notin expired}) < RunnerLimit[n]}

\* lockRunnerCandidate: connected, allowed, with a free session.
RunnerCandidates(r) ==
    {n \in connected \cap Policy[WorkspaceOf[r]] :
        Used("RUNNER", n) < RunnerLimit[n]}
FirstRunner(r, n) ==
    /\ n \in RunnerCandidates(r)
    /\ \A m \in RunnerCandidates(r) : RunnerRank[n] <= RunnerRank[m]

MustDefer(r) ==
    \/ AgentOf[r] \notin configured
    \/ WorkspaceOccupied(r)
    \/ AgentFull(r)
    \/ ModelFull(r)
    \/ RunnerCandidates(r) = {}

\* deferQueuedJob: the job stays queued and is retried after the backoff.
DeferQueuedJob(j) ==
    /\ jobWait' = [jobWait EXCEPT ![j] = "waiting"]
    /\ jobAvail' = [jobAvail EXCEPT ![j] = "later"]
    /\ queueReason' = [queueReason EXCEPT ![JobRun(j)] = "waiting"]
    /\ UNCHANGED <<runStatus, jobState, leaseToken, expired, reservations,
                   outcome, question, answeredAt, binding, live, ended,
                   events>>

ReservationsFor(j, n) ==
    LET r == JobRun(j) IN
    {[job |-> j, kind |-> "RUNNER", resource |-> n],
     [job |-> j, kind |-> "AGENT", resource |-> AgentOf[r]],
     [job |-> j, kind |-> "MODEL_PROFILE", resource |-> ModelOf[AgentOf[r]]]}

\* The committing path of AdmitNextJob, with the new lease token t.
AdmitJob(j, n, t) ==
    /\ reservations' = reservations \cup ReservationsFor(j, n)
    /\ leaseToken' = [leaseToken EXCEPT ![j] = t]
    /\ expired' = expired \ {j}
    /\ jobState' = [jobState EXCEPT ![j] = "CLAIMED"]
    /\ jobWait' = [jobWait EXCEPT ![j] = "none"]
    /\ runStatus' = [runStatus EXCEPT ![JobRun(j)] = "STARTING"]
    /\ queueReason' = [queueReason EXCEPT ![JobRun(j)] = "none"]
    /\ UNCHANGED <<jobAvail, outcome, question, answeredAt, binding, live,
                   ended, events>>

-----------------------------------------------------------------------------
\* The lease of job j runs out: its heartbeat is late, failed or gone.
LeaseExpires(j) ==
    /\ leaseToken[j] # NoToken /\ j \notin expired
    /\ expired' = expired \cup {j}
    /\ UNCHANGED <<runStatus, queueReason, jobState, jobWait, jobAvail,
                   leaseToken, reservations, outcome, question, answeredAt,
                   binding, live, ended, events>>

\* The clock reaches the available_at of a deferred job.
BackoffEnds(j) ==
    /\ jobAvail[j] = "later"
    /\ jobAvail' = [jobAvail EXCEPT ![j] = "now"]
    /\ UNCHANGED <<runStatus, queueReason, jobState, jobWait, leaseToken,
                   expired, reservations, outcome, question, answeredAt,
                   binding, live, ended, events>>
=============================================================================
