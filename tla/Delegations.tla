----------------------------- MODULE Delegations -----------------------------
(***************************************************************************)
(* Delegation between runs.  A running parent delegates a task: the child   *)
(* run is created QUEUED but held, and it may start only after the parent's *)
(* workspace has been handed back (the handoff is ready) and the parent has *)
(* PAUSED.  When the child ends, the transaction that ends it records the   *)
(* outcome and queues the parent's continuation.                            *)
(*                                                                          *)
(* finalizeDelegatedRunTx runs inside every transaction that ends a run, so *)
(* it is given as functions from the tables that transaction has written to *)
(* the tables it commits.                                                   *)
(***************************************************************************)
EXTENDS SchedulerTables

-----------------------------------------------------------------------------
\* createQueuedRunTx: the run and its START job, in one transaction.
CreateQueuedRun(r, wait, avail) ==
    /\ runStatus' = [runStatus EXCEPT ![r] = "QUEUED"]
    /\ queueReason' = [queueReason EXCEPT ![r] = wait]
    /\ jobState' = [jobState EXCEPT ![StartJob(r)] = "QUEUED"]
    /\ jobWait' = [jobWait EXCEPT ![StartJob(r)] = wait]
    /\ jobAvail' = [jobAvail EXCEPT ![StartJob(r)] = avail]
    /\ UNCHANGED <<leaseToken, expired, reservations, outcome, question,
                   answeredAt, binding, live, ended, events>>

\* activeRunForAgent: the issue already has an active run of that agent.
ActiveRunForAgent(r) ==
    \E x \in Runs : /\ WorkspaceOf[x] = WorkspaceOf[r]
                    /\ AgentOf[x] = AgentOf[r]
                    /\ runStatus[x] \in Active

\* Mutant: the child is not held back.
RequestDelegationUnheld(c) ==
    /\ HasParent(c) /\ runStatus[c] = "NONE"
    /\ ~UnfinishedDelegation(ParentOf[c])
    /\ runStatus[ParentOf[c]] = "RUNNING"
    /\ ~ActiveRunForAgent(c)
    /\ CreateQueuedRun(c, "delegation_handoff", "now")

\* requestDelegationTx when the request is new: the child run is created held.
\* A repeated request returns the existing delegation and changes nothing.
RequestDelegation(c) ==
    LET p == ParentOf[c] IN
    /\ HasParent(c) /\ runStatus[c] = "NONE"
    /\ ~UnfinishedDelegation(p)
    /\ runStatus[p] = "RUNNING"
    /\ AgentOf[c] # AgentOf[p]
    /\ ~Delegated(p)
    /\ ~ActiveRunForAgent(c)
    /\ CreateQueuedRun(c, "delegation_handoff", "held")

\* RequestIssueDelegation: a comment delegates; there is no parent to wait for.
RequestIssueDelegation(c) ==
    /\ c \in CommentDelegated /\ runStatus[c] = "NONE"
    /\ ~ActiveRunForAgent(c)
    /\ CreateQueuedRun(c, "none", "now")

HandoffReady(c) == jobWait[StartJob(c)] = "delegation_handoff_ready"

\* MarkDelegationWorkspaceHandoffReady succeeds; it is not fenced by a lease.
HandoffMarkable(c) ==
    \/ HandoffReady(c)
    \/ /\ runStatus[ParentOf[c]] = "RUNNING"
       /\ runStatus[c] = "QUEUED"
       /\ jobState[StartJob(c)] = "QUEUED"
       /\ jobWait[StartJob(c)] = "delegation_handoff"

MarkHandoffReady(c) ==
    /\ HandoffMarkable(c)
    /\ jobWait' = [jobWait EXCEPT ![StartJob(c)] = "delegation_handoff_ready"]
    /\ queueReason' = [queueReason EXCEPT ![c] =
                          IF ~HandoffReady(c) /\ @ = "delegation_handoff"
                          THEN "delegation_handoff_ready" ELSE @]
    /\ UNCHANGED <<runStatus, jobState, jobAvail, leaseToken, expired,
                   reservations, outcome, question, answeredAt, binding,
                   live, ended, events>>

\* releaseReadyDelegationWorkspaceHandoffs: what pausing p frees.
ReadyChildren(p) ==
    {c \in Children(p) : /\ runStatus[c] = "QUEUED"
                         /\ jobState[StartJob(c)] = "QUEUED"
                         /\ jobWait[StartJob(c)] = "delegation_handoff_ready"}
ReasonFreed(p) ==
    {c \in Children(p) : /\ runStatus[c] = "QUEUED"
                         /\ queueReason[c] = "delegation_handoff_ready"}

-----------------------------------------------------------------------------
\* finalizeDelegatedRunTx for a run c that the transaction makes terminal.
OpenDelegation(c) == Delegated(c) /\ outcome[c] = "none"

\* Mutant: an ended parent is no fence.
ResumesAnyParent(c) ==
    /\ OpenDelegation(c) /\ HasParent(c)
    /\ runStatus[ParentOf[c]] \in {"PAUSED", "QUEUED"} \cup Terminal

ResumesParent(c) ==
    /\ OpenDelegation(c) /\ HasParent(c)
    /\ runStatus[ParentOf[c]] \in {"PAUSED", "QUEUED"}

\* The transaction is rolled back when the parent is neither paused, queued
\* nor ended, or when the continuation job exists and is not queued.
FinalizeConflict(c) ==
    /\ OpenDelegation(c) /\ HasParent(c)
    /\ \/ runStatus[ParentOf[c]] \notin {"PAUSED", "QUEUED"} \cup Terminal
       \/ /\ ResumesParent(c)
          /\ jobState[DelegationJob(c)] \notin {"NONE", "QUEUED"}

DelegationTerminalOutcome(status) ==
    CASE status = "COMPLETED" -> "SUCCEEDED"
      [] status = "FAILED"    -> "FAILED"
      [] OTHER                -> "CANCELLED"

OutcomeAfter(c, status) ==
    IF OpenDelegation(c)
    THEN [outcome EXCEPT ![c] = DelegationTerminalOutcome(status)]
    ELSE outcome

\* The table writes that end run c with the given status and, in the same
\* transaction, queue its parent's continuation.
RunsAfterEnd(c, status) ==
    [r \in Runs |-> IF r = c THEN status
                    ELSE IF ResumesParent(c) /\ r = ParentOf[c] THEN "QUEUED"
                    ELSE runStatus[r]]
ReasonsAfterEnd(c) ==
    [r \in Runs |-> IF r = c THEN "none"
                    ELSE IF /\ ResumesParent(c) /\ r = ParentOf[c]
                            /\ runStatus[r] = "PAUSED" THEN "none"
                    ELSE queueReason[r]]

\* J is the set of c's jobs the transaction moves to the given state.
JobsAfterEnd(c, J, state) ==
    [j \in Jobs |-> IF j \in J THEN state
                    ELSE IF ResumesParent(c) /\ j = DelegationJob(c)
                         THEN "QUEUED"
                    ELSE jobState[j]]
WaitsAfterEnd(J) == [j \in Jobs |-> IF j \in J THEN "none" ELSE jobWait[j]]

\* A run ends: its jobs J leave with the given state and its delegation is
\* finalized.  The caller releases the capacity and the leases.
EndRun(c, status, J, state) ==
    /\ ~FinalizeConflict(c)
    /\ runStatus' = RunsAfterEnd(c, status)
    /\ queueReason' = ReasonsAfterEnd(c)
    /\ jobState' = JobsAfterEnd(c, J, state)
    /\ jobWait' = WaitsAfterEnd(J)
    /\ outcome' = OutcomeAfter(c, status)
    /\ jobAvail' = [j \in Jobs |->
                      IF ResumesParent(c) /\ j = DelegationJob(c)
                         /\ jobState[j] = "NONE" THEN "now" ELSE jobAvail[j]]
=============================================================================
