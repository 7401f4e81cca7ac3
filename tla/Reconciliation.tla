---------------------------- MODULE Reconciliation ----------------------------
(***************************************************************************)
(* What happens to a claim whose lease expired.  The store first settles    *)
(* claims that only a question holds up; any other claim gets a fresh lease *)
(* for the reconciler, which reads the sessions and the evidence and        *)
(* decides; the decision is committed under that lease.                     *)
(***************************************************************************)
EXTENDS Questions

\* lockExpiredReconciliationCandidate; expiry times are not kept, so any
\* expired claim may be the oldest.
ExpiredCandidate(j) == jobState[j] = "CLAIMED" /\ j \in expired

\* Mutant: only resolved answers are looked for.
Delivered(r) ==
    {q \in QuestionsOf(r) : question[q] = "ANSWERED" /\ binding[q] = "RESOLVED"}

\* The question resolveExpiredBlockingQuestion resumes a waiting run by: of
\* the answered ones that are not resolved, the one answered first.
Undelivered(r) ==
    {q \in QuestionsOf(r) : question[q] = "ANSWERED" /\ binding[q] = "ANSWERED"}
ResumableBy(r, q) ==
    /\ OpenBindings(r) = {}
    /\ q \in Undelivered(r)
    /\ \A x \in Undelivered(r) : answeredAt[q] <= answeredAt[x]

\* resolveExpiredBlockingQuestion, fully answered: retire the claim, resume.
ResolveAnswered(j, q) ==
    /\ ExpiredCandidate(j)
    /\ runStatus[JobRun(j)] = "WAITING_FOR_INPUT"
    /\ ResumableBy(JobRun(j), q)
    /\ RetireAndResume({j}, q)
    /\ UNCHANGED <<outcome, question, answeredAt, binding, live, ended,
                   events>>

\* Mutant: the run waits although no question is open.
ResolveWithoutQuestion(j) ==
    LET r == JobRun(j) IN
    /\ ExpiredCandidate(j)
    /\ runStatus[r] \in {"STARTING", "RUNNING"}
    /\ runStatus' = [runStatus EXCEPT ![r] = "WAITING_FOR_INPUT"]
    /\ jobState' = [jobState EXCEPT ![j] = "DONE"]
    /\ Release({j})
    /\ UNCHANGED <<queueReason, jobWait, jobAvail, outcome, question,
                   answeredAt, binding, live, ended, events>>

\* resolveExpiredBlockingQuestion, still open: the run waits without a claim.
ResolveOpen(j) ==
    LET r == JobRun(j) IN
    /\ ExpiredCandidate(j)
    /\ runStatus[r] \in {"STARTING", "RUNNING"}
    /\ OpenBlocking(r)
    /\ runStatus' = [runStatus EXCEPT ![r] = "WAITING_FOR_INPUT"]
    /\ queueReason' = [queueReason EXCEPT ![r] = "none"]
    /\ jobState' = [jobState EXCEPT ![j] = "DONE"]
    /\ jobWait' = [jobWait EXCEPT ![j] = "none"]
    /\ Release({j})
    /\ UNCHANGED <<jobAvail, outcome, question, answeredAt, binding, live,
                   ended, events>>

\* The claim goes on to the reconciler.
NeedsReconciler(j) ==
    LET r == JobRun(j) IN
    /\ ExpiredCandidate(j)
    /\ \/ /\ runStatus[r] = "WAITING_FOR_INPUT"
          /\ ~\E q \in Questions : ResumableBy(r, q)
       \/ runStatus[r] \in {"STARTING", "RUNNING"} /\ ~OpenBlocking(r)

\* Mutant: the expired lease is extended, its token stays valid.
ClaimExpiredInPlace(j, t) ==
    /\ NeedsReconciler(j)
    /\ expired' = expired \ {j}
    /\ UNCHANGED <<runStatus, queueReason, jobState, jobWait, jobAvail,
                   leaseToken, reservations, outcome, question, answeredAt,
                   binding, live, ended, events>>

\* The expired lease is replaced by a fresh one; capacity stays reserved.
ClaimExpired(j, t) ==
    /\ NeedsReconciler(j)
    /\ leaseToken' = [leaseToken EXCEPT ![j] = t]
    /\ expired' = expired \ {j}
    /\ UNCHANGED <<runStatus, queueReason, jobState, jobWait, jobAvail,
                   reservations, outcome, question, answeredAt, binding,
                   live, ended, events>>

-----------------------------------------------------------------------------
Outcomes == {"ACTIVE", "RETRY", "UNKNOWN", "COMPLETED", "FAILED", "CANCELLED"}

Event(r, type) == <<r, type>> \in events

\* recoveredExecutionOutcome of the only terminal session of run r.
\* terminalDelegatedExecutionSession refuses a run with several.
RecoveredExecutionOutcome(r, boundary, authoritative) ==
    CASE ended[r] = "COMPLETED" -> "COMPLETED"
      [] ended[r] = "FAILED"    -> "FAILED"
      [] ended[r] = "CANCELLED" ->
            IF authoritative \/ Event(r, "cancellation_requested")
            THEN "CANCELLED"
            ELSE IF Event(r, boundary) THEN "COMPLETED"
            ELSE IF Event(r, "failed") THEN "FAILED"
            ELSE "UNKNOWN"
      [] OTHER -> "UNKNOWN"

\* Mutant: the handoff is looked for under the wrong boundary event.
RecoverableCompletion(p, c) ==
    /\ c \in Children(p) /\ runStatus[c] # "NONE"
    /\ Event(c, "delegate_tool")
    /\ RecoveredExecutionOutcome(p, "completed", FALSE) = "COMPLETED"

\* Children whose delegation recoverDelegationWorkspaceHandoff completes.
RecoverableHandoff(p, c) ==
    /\ c \in Children(p) /\ runStatus[c] # "NONE"
    /\ Event(c, "delegate_tool")
    /\ RecoveredExecutionOutcome(p, "delegation_handoff", FALSE) = "COMPLETED"

\* Processor.Reconcile for a run without live session: what it concludes.
Conclusion(r) ==
    IF ended[r] = "none"
    THEN IF ParentTerminal(r) THEN "CANCELLED" ELSE "RETRY"
    ELSE IF Delegated(r)
         THEN RecoveredExecutionOutcome(r, "completed", ParentTerminal(r))
         ELSE "UNKNOWN"

-----------------------------------------------------------------------------
\* Mutant: the retried job is closed like any other.
ResolveRetryDone(j) ==
    LET r == JobRun(j) IN
    /\ runStatus[r] \in {"STARTING", "RUNNING"}
    /\ runStatus' = [runStatus EXCEPT ![r] = "QUEUED"]
    /\ jobState' = [jobState EXCEPT ![j] = "DONE"]
    /\ Release({j})
    /\ UNCHANGED <<queueReason, jobWait, jobAvail, outcome, question,
                   answeredAt, binding>>

\* resolveReconciliation, RETRY: the run is queued again.
ResolveRetry(j) ==
    LET r == JobRun(j) IN
    /\ runStatus[r] \in {"STARTING", "RUNNING"}
    /\ runStatus' = [runStatus EXCEPT ![r] = "QUEUED"]
    /\ queueReason' = [queueReason EXCEPT ![r] = "waiting"]
    /\ jobState' = [jobState EXCEPT ![j] = "QUEUED"]
    /\ jobWait' = [jobWait EXCEPT ![j] = "waiting"]
    /\ jobAvail' = [jobAvail EXCEPT ![j] = "now"]
    /\ Release({j})
    /\ UNCHANGED <<outcome, question, answeredAt, binding>>

\* resolveReconciliationTerminal; it consults no session.
ResolveTerminal(j, status) ==
    /\ runStatus[JobRun(j)] \in {"STARTING", "RUNNING"}
    /\ EndRun(JobRun(j), status, {j}, JobStateAfter(status))
    /\ Release({j})
    /\ UNCHANGED <<question, answeredAt, binding>>

\* Mutant: the parent is paused whether or not the handoff is ready.
CanPauseRunning(p) == runStatus[p] = "RUNNING" /\ p \notin live

\* recoverReadyDelegationWorkspaceHandoff: a running parent whose handoff is
\* ready, and which nothing executes, is paused.
CanRecoverHandoff(p) ==
    /\ runStatus[p] = "RUNNING" /\ p \notin live
    /\ \E c \in ReadyChildren(p) : queueReason[c] = "delegation_handoff_ready"

\* resolveReconciliation under the reconciler's lease t.
ResolveReconciliation(j, t, result) ==
    LET r == JobRun(j)
        fenced == IF ParentTerminal(r) /\ result = "RETRY"
                  THEN "CANCELLED" ELSE result
    IN
    /\ Fenced(j, t)
    /\ \/ /\ fenced = "ACTIVE" \/ (fenced = "UNKNOWN" /\ ~CanRecoverHandoff(r))
          /\ UNCHANGED <<runStatus, queueReason, jobState, jobWait,
                         jobAvail, leaseToken, expired, reservations,
                         outcome, question, answeredAt, binding>>
       \/ fenced = "UNKNOWN" /\ CanRecoverHandoff(r) /\ YieldClaim(j, "PAUSED")
       \/ fenced = "RETRY" /\ ResolveRetry(j)
       \/ fenced \in Terminal /\ ResolveTerminal(j, fenced)
    /\ UNCHANGED <<live, ended, events>>
=============================================================================
