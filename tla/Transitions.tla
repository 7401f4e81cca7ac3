----------------------------- MODULE Transitions -----------------------------
(***************************************************************************)
(* The lease-fenced transitions of an admitted run (transitionAdmittedJob)  *)
(* and the execution sessions whose liveness they respect.                  *)
(***************************************************************************)
EXTENDS Admission

\* validSchedulerRunTransition
ValidSchedulerRunTransition(from, to) ==
    \/ from = "RUNNING" /\ to = "RUNNING"
    \/ /\ from \in {"STARTING", "RUNNING"}
       /\ to \in {"WAITING_FOR_INPUT", "PAUSED", "READY_FOR_REVIEW"} \cup Terminal
    \/ from = "STARTING" /\ to = "RUNNING"
    \/ from = "WAITING_FOR_INPUT" /\ to \in {"FAILED", "CANCELLED"}

\* Mutant: the run status is written to the job.
JobStateIsStatus(to) == to

\* schedulerTransitionEffects: the state of a released job.
JobStateAfter(to) ==
    CASE to = "FAILED"    -> "FAILED"
      [] to = "CANCELLED" -> "CANCELLED"
      [] OTHER            -> "DONE"

\* The transaction of transitionAdmittedJob commits.
CanTransition(j, t, to) ==
    LET r == JobRun(j) IN
    /\ Fenced(j, t)
    /\ ValidSchedulerRunTransition(runStatus[r], to)
    /\ to \in {"READY_FOR_REVIEW"} \cup Terminal => r \notin live
    /\ to = "READY_FOR_REVIEW" => ~UnfinishedDelegation(r)
    /\ to \in Terminal => ~FinalizeConflict(r)

\* cleanupTerminalInteractiveQuestions
CleanupQuestions(r) ==
    /\ question' = [q \in Questions |->
          IF QuestionRun[q] = r /\ question[q] = "OPEN"
          THEN "CANCELLED" ELSE question[q]]
    /\ binding' = [q \in Questions |->
          IF QuestionRun[q] = r /\ binding[q] \in {"OPEN", "ANSWERED"}
          THEN "CANCELLED" ELSE binding[q]]
    /\ UNCHANGED answeredAt

TransitionToRunning(j) ==
    /\ runStatus' = [runStatus EXCEPT ![JobRun(j)] = "RUNNING"]
    /\ queueReason' = [queueReason EXCEPT ![JobRun(j)] = "none"]
    /\ UNCHANGED <<jobState, jobWait, jobAvail, leaseToken, expired,
                   reservations, outcome, question, answeredAt, binding>>

\* The claim is yielded and the run continues later: to wait for input, for
\* review, or for a delegated run.  Pausing frees children that are ready.
YieldClaim(j, to) ==
    LET r == JobRun(j)
        freed == IF to = "PAUSED" THEN ReadyChildren(r) ELSE {}
        reasons == IF to = "PAUSED" THEN ReasonFreed(r) ELSE {}
    IN
    /\ runStatus' = [runStatus EXCEPT ![r] = to]
    /\ queueReason' = [x \in Runs |->
          IF x = r \/ x \in reasons THEN "none" ELSE queueReason[x]]
    /\ jobState' = [jobState EXCEPT ![j] = "DONE"]
    /\ jobWait' = [i \in Jobs |->
          IF i = j \/ (\E c \in freed : i = StartJob(c))
          THEN "none" ELSE jobWait[i]]
    /\ jobAvail' = [i \in Jobs |->
          IF \E c \in freed : i = StartJob(c) THEN "now" ELSE jobAvail[i]]
    /\ Release({j})
    /\ UNCHANGED <<outcome, question, answeredAt, binding>>

EndAdmitted(j, to) ==
    LET r == JobRun(j) IN
    /\ EndRun(r, to, {j}, JobStateAfter(to))
    /\ Release({j})
    /\ IF runStatus[r] = "WAITING_FOR_INPUT"
       THEN CleanupQuestions(r)
       ELSE UNCHANGED <<question, answeredAt, binding>>

\* transitionAdmittedJob
TransitionAdmittedJob(j, t, to) ==
    /\ CanTransition(j, t, to)
    /\ \/ to = "RUNNING" /\ TransitionToRunning(j)
       \/ /\ to \in {"WAITING_FOR_INPUT", "PAUSED", "READY_FOR_REVIEW"}
          /\ YieldClaim(j, to)
       \/ to \in Terminal /\ EndAdmitted(j, to)
    /\ UNCHANGED <<live, ended, events>>

-----------------------------------------------------------------------------
\* CreateExecutionSession: at most one live session in a workspace; a run that
\* was cancelled meanwhile is refused.  The caller's lease is not consulted.
CanCreateSession(r) ==
    /\ runStatus[r] # "CANCELLED"
    /\ \A x \in live : WorkspaceOf[x] # WorkspaceOf[r]

CreateExecutionSession(r) ==
    /\ CanCreateSession(r)
    /\ live' = live \cup {r}
    /\ UNCHANGED <<runStatus, queueReason, jobState, jobWait, jobAvail,
                   leaseToken, expired, reservations, outcome, question,
                   answeredAt, binding, ended, events>>

\* TransitionExecutionSession into a terminal status.
EndedAfter(r, status) ==
    [ended EXCEPT ![r] = IF @ = "none" /\ Recoverable(r)
                         THEN status ELSE "many"]
SessionEnds(r, status) ==
    /\ r \in live
    /\ live' = live \ {r}
    /\ ended' = EndedAfter(r, status)
=============================================================================
