------------------------- MODULE TransactionProofs -------------------------
(***************************************************************************)
(* Every store transaction is a good table step (Good): it keeps the types, *)
(* changes claims in one of four ways (ClaimStep) and leaves ended runs     *)
(* alone (EndedStep).  There is one lemma per transaction; the theorems     *)
(* about the scheduler then need only the four ways, not the thirty         *)
(* actions.                                                                 *)
(***************************************************************************)
EXTENDS Reconciliation, TLAPS, FiniteSetTheorems

\* A run that does not exist yet has no START job, so creating it claims and
\* overwrites nothing.
FreshRuns ==
    \A r \in Runs : runStatus[r] = "NONE" => jobState[StartJob(r)] = "NONE"

\* No lease has token t.
Unused(t) == \A j \in Jobs : leaseToken[j] # t

\* The ways in which a transaction may change claims, leases and capacity: it
\* releases a set of claims, lets a lease expire, takes over an expired claim,
\* or admits a job.
ClaimStep ==
    \/ \E J \in SUBSET Jobs :
          /\ Release(J)
          /\ \A j \in Jobs : jobState'[j] = "CLAIMED" <=>
                                jobState[j] = "CLAIMED" /\ j \notin J
    \/ \E j \in Jobs : LeaseExpires(j)
    \/ \E j \in Jobs, t \in Tokens : Unused(t) /\ ClaimExpired(j, t)
    \/ \E j \in Jobs, n \in Runners, t \in Tokens :
          /\ jobState[j] = "QUEUED" /\ Unused(t)
          /\ ~MustDefer(JobRun(j))
          /\ FirstRunner(JobRun(j), n)
          /\ AdmitJob(j, n, t)

EndedStep ==
    /\ \A r \in Runs : runStatus[r] \in Terminal => runStatus'[r] = runStatus[r]
    /\ \A c \in Runs : outcome[c] # "none" => outcome'[c] = outcome[c]

Good == TablesType' /\ FreshRuns' /\ ClaimStep /\ EndedStep

TablesInv == TablesType /\ FreshRuns

-----------------------------------------------------------------------------
\* Jobs are named by what they do, and every job is a job of a run.
LEMMA JobNames ==
    /\ \A r \in Runs : StartJob(r) \in Jobs
    /\ \A q \in Questions : QuestionJob(q) \in Jobs
    /\ \A c \in Runs : HasParent(c) => DelegationJob(c) \in Jobs
BY DEF Jobs

\* Jobs of different kinds, and START jobs of different runs, are different rows.
LEMMA JobsAreDistinct ==
    /\ \A r \in Runs, q \in Questions : StartJob(r) # QuestionJob(q)
    /\ \A r, c \in Runs : StartJob(r) # DelegationJob(c)
    /\ \A r, c \in Runs : StartJob(r) = StartJob(c) => r = c
BY DEF StartJob, QuestionJob, DelegationJob

\* Every row of scheduler_jobs belongs to a run.
LEMMA JobRunIsRun == \A j \in Jobs : JobRun(j) \in Runs
<1> SUFFICES ASSUME NEW j \in Jobs PROVE JobRun(j) \in Runs
  OBVIOUS
<1>1. CASE \E r \in Runs : j = StartJob(r)
  BY <1>1 DEF StartJob, JobRun
<1>2. CASE \E q \in Questions : j = QuestionJob(q)
  BY <1>2, ReferencesAssumption DEF QuestionJob, JobRun
<1>3. CASE \E c \in Runs : HasParent(c) /\ j = DelegationJob(c)
  BY <1>3, ReferencesAssumption DEF DelegationJob, JobRun, HasParent
<1> QED BY <1>1, <1>2, <1>3 DEF Jobs

\* A transaction that neither claims nor releases anything is a claim step.
LEMMA KeptClaims ==
    ASSUME TablesInv, UNCHANGED <<leaseToken, expired, reservations>>,
           \A j \in Jobs : jobState'[j] = "CLAIMED" <=> jobState[j] = "CLAIMED"
    PROVE  ClaimStep
<1>1. Release({})
  BY DEF TablesInv, TablesType, Release, ReservationsWithout, LeasesWithout
<1> QED BY <1>1 DEF ClaimStep

\* A step of the process alone, with no transaction, changes no table.
LEMMA UnchangedTablesGood ==
    ASSUME TablesInv, UNCHANGED tables PROVE Good
<1>1. TablesType' /\ FreshRuns' /\ EndedStep
  BY DEF TablesInv, TablesType, FreshRuns, EndedStep, tables
<1>2. ClaimStep
  BY KeptClaims DEF tables
<1> QED BY <1>1, <1>2 DEF Good

-----------------------------------------------------------------------------
(* The transactions of Delegations and Admission.                           *)

\* createQueuedRunTx
LEMMA CreateQueuedRunGood ==
    ASSUME TablesInv, NEW r \in Runs, runStatus[r] = "NONE",
           NEW wait \in WaitReasons, NEW avail \in {"now", "later", "held"},
           CreateQueuedRun(r, wait, avail)
    PROVE  Good
<1> USE DEF CreateQueuedRun, TablesInv
<1>1. StartJob(r) \in Jobs /\ jobState[StartJob(r)] = "NONE"
  BY JobNames DEF FreshRuns
<1>2. TablesType'
  BY <1>1 DEF TablesType, RunStatuses, Active, JobStates
<1>3. FreshRuns'
  BY <1>1, JobNames, JobsAreDistinct DEF TablesType, FreshRuns
<1>4. ClaimStep
  BY <1>1, KeptClaims DEF TablesType
<1>5. EndedStep
  BY DEF EndedStep, TablesType, Terminal
<1> QED BY <1>2, <1>3, <1>4, <1>5 DEF Good

\* MarkDelegationWorkspaceHandoffReady
LEMMA MarkHandoffReadyGood ==
    ASSUME TablesInv, NEW c \in Runs, MarkHandoffReady(c) PROVE Good
<1> USE DEF MarkHandoffReady, TablesInv
<1>1. TablesType'
  BY DEF TablesType, WaitReasons
<1>2. FreshRuns' /\ EndedStep
  BY DEF FreshRuns, EndedStep
<1>3. ClaimStep
  BY KeptClaims
<1> QED BY <1>1, <1>2, <1>3 DEF Good

\* deferQueuedJob
LEMMA DeferQueuedJobGood ==
    ASSUME TablesInv, NEW j \in Jobs, DeferQueuedJob(j) PROVE Good
<1> USE DEF DeferQueuedJob, TablesInv
<1>1. TablesType'
  BY DEF TablesType, WaitReasons
<1>2. FreshRuns' /\ EndedStep
  BY DEF FreshRuns, EndedStep
<1>3. ClaimStep
  BY KeptClaims
<1> QED BY <1>1, <1>2, <1>3 DEF Good

\* available_at passes: a deferred job becomes a candidate again.
LEMMA BackoffEndsGood ==
    ASSUME TablesInv, NEW j \in Jobs, BackoffEnds(j) PROVE Good
<1> USE DEF BackoffEnds, TablesInv
<1>1. TablesType'
  BY DEF TablesType
<1>2. FreshRuns' /\ EndedStep
  BY DEF FreshRuns, EndedStep
<1>3. ClaimStep
  BY KeptClaims
<1> QED BY <1>1, <1>2, <1>3 DEF Good

\* expires_at passes: the claim stays, its lease no longer fences.
LEMMA LeaseExpiresGood ==
    ASSUME TablesInv, NEW j \in Jobs, LeaseExpires(j) PROVE Good
<1>1. TablesType' /\ FreshRuns' /\ EndedStep
  BY DEF LeaseExpires, TablesInv, TablesType, FreshRuns, EndedStep
<1> QED BY <1>1 DEF Good, ClaimStep

\* The committing path of AdmitNextJob.
LEMMA AdmitJobGood ==
    ASSUME TablesInv, NEW j \in Jobs, NEW n \in Runners, NEW t \in Tokens,
           NextCandidate(j), ~MustDefer(JobRun(j)), FirstRunner(JobRun(j), n),
           Unused(t), AdmitJob(j, n, t)
    PROVE  Good
<1> DEFINE r == JobRun(j)
<1>1. r \in Runs /\ jobState[j] = "QUEUED" /\ runStatus[r] = "QUEUED"
  BY JobRunIsRun DEF NextCandidate, Candidates
<1>2. ReservationsFor(j, n) \subseteq Reservation
  BY <1>1 DEF ReservationsFor, Reservation, Kinds, Resources, Agents, Models
<1>3. TablesType'
  BY <1>1, <1>2 DEF AdmitJob, TablesInv, TablesType, RunStatuses, Active,
                    JobStates, WaitReasons
<1>4. FreshRuns'
  BY <1>1, JobNames DEF AdmitJob, TablesInv, TablesType, FreshRuns
<1>5. EndedStep
  BY <1>1 DEF AdmitJob, TablesInv, TablesType, EndedStep, Terminal
<1>6. ClaimStep
  BY <1>1 DEF ClaimStep
<1> QED BY <1>3, <1>4, <1>5, <1>6 DEF Good

-----------------------------------------------------------------------------
(* The transactions that end a run.                                         *)

ReleaseType ==
    /\ leaseToken' \in [Jobs -> Tokens \cup {NoToken}]
    /\ expired' \subseteq Jobs
    /\ reservations' \subseteq Reservation

\* Deleting leases and reservations keeps the types of their tables.
LEMMA ReleaseKeepsTypes ==
    ASSUME TablesInv, NEW J, Release(J) PROVE ReleaseType
BY DEF TablesInv, TablesType, Release, ReservationsWithout, LeasesWithout,
       ReleaseType

EndRunTypes ==
    /\ runStatus' \in [Runs -> RunStatuses]
    /\ queueReason' \in [Runs -> WaitReasons]
    /\ jobState' \in [Jobs -> JobStates]
    /\ jobWait' \in [Jobs -> WaitReasons]
    /\ jobAvail' \in [Jobs -> {"now", "later", "held"}]
    /\ outcome' \in [Runs -> {"none", "SUCCEEDED", "FAILED", "CANCELLED"}]

\* Ending a run together with finalizeDelegatedRunTx: the tables it writes
\* keep their types, no run comes into being, exactly the claims in J are
\* given up, and no other run's end or outcome is touched.
LEMMA EndRunEffects ==
    ASSUME TablesInv, NEW c \in Runs, runStatus[c] \notin Terminal,
           NEW status \in Terminal,
           NEW J \in SUBSET Jobs, \A j \in J : jobState[j] # "NONE",
           NEW state \in {"DONE", "FAILED", "CANCELLED"},
           EndRun(c, status, J, state)
    PROVE  /\ EndRunTypes
           /\ FreshRuns'
           /\ \A j \in Jobs : jobState'[j] = "CLAIMED" <=>
                                 jobState[j] = "CLAIMED" /\ j \notin J
           /\ EndedStep
<1> USE DEF EndRun, TablesInv
<1>1. runStatus' \in [Runs -> RunStatuses] /\ queueReason' \in [Runs -> WaitReasons]
  BY DEF TablesType, RunsAfterEnd, ReasonsAfterEnd, RunStatuses, Active, WaitReasons
<1>2. /\ jobState' \in [Jobs -> JobStates] /\ jobWait' \in [Jobs -> WaitReasons]
      /\ jobAvail' \in [Jobs -> {"now", "later", "held"}]
  BY DEF TablesType, JobsAfterEnd, WaitsAfterEnd, JobStates, WaitReasons
<1>3. outcome' \in [Runs -> {"none", "SUCCEEDED", "FAILED", "CANCELLED"}]
  <2>1. DelegationTerminalOutcome(status) \in {"SUCCEEDED", "FAILED", "CANCELLED"}
    BY DEF DelegationTerminalOutcome, Terminal
  <2> QED BY <2>1 DEF TablesType, OutcomeAfter
<1>4. FreshRuns'
  BY JobNames, JobsAreDistinct
     DEF TablesType, FreshRuns, RunsAfterEnd, JobsAfterEnd, Terminal
<1>5. \A j \in Jobs : jobState'[j] = "CLAIMED" <=>
                         jobState[j] = "CLAIMED" /\ j \notin J
  BY DEF TablesType, JobsAfterEnd, FinalizeConflict, ResumesParent
<1>6. EndedStep
  BY DEF TablesType, EndedStep, RunsAfterEnd, OutcomeAfter, OpenDelegation,
         ResumesParent, Terminal
<1> QED BY <1>1, <1>2, <1>3, <1>4, <1>5, <1>6 DEF EndRunTypes

\* cancelInactiveRunTx releases whatever the run's jobs hold.
LEMMA CancelInactiveRunTxGood ==
    ASSUME TablesInv, NEW r \in Runs, CancelInactiveRunTx(r) PROVE Good
<1> DEFINE J == {j \in JobsOf(r) : jobState[j] \in {"QUEUED", "CLAIMED"}}
<1>1. JobsOf(r) \in SUBSET Jobs /\ J \in SUBSET Jobs /\ \A j \in J : jobState[j] # "NONE"
  BY DEF JobsOf
<1>2. EndRun(r, "CANCELLED", J, "CANCELLED") /\ runStatus[r] \notin Terminal
  BY DEF CancelInactiveRunTx, Terminal
<1>3. Release(JobsOf(r)) /\ UNCHANGED <<question, answeredAt, binding, live, ended, events>>
  BY DEF CancelInactiveRunTx
<1>4. "CANCELLED" \in Terminal
  BY DEF Terminal
<1> HIDE DEF J
<1>5. /\ EndRunTypes /\ FreshRuns' /\ EndedStep
      /\ \A j \in Jobs : jobState'[j] = "CLAIMED" <=>
                            jobState[j] = "CLAIMED" /\ j \notin J
  BY <1>1, <1>2, <1>4, EndRunEffects
<1>6. ReleaseType
  BY <1>3, ReleaseKeepsTypes
<1>7. TablesType'
  BY <1>3, <1>5, <1>6 DEF TablesInv, TablesType, EndRunTypes, ReleaseType
<1>8. ClaimStep
  BY <1>1, <1>3, <1>5 DEF ClaimStep, J
<1> QED BY <1>5, <1>7, <1>8 DEF Good

-----------------------------------------------------------------------------
(* The fenced transitions.                                                  *)

\* A transaction that ends run JobRun(j) under the claim j and releases it.
LEMMA EndClaimGood ==
    ASSUME TablesInv, NEW j \in Jobs, jobState[j] = "CLAIMED",
           runStatus[JobRun(j)] \notin Terminal, NEW to \in Terminal,
           EndRun(JobRun(j), to, {j}, JobStateAfter(to)), Release({j}),
           question' \in [Questions -> {"NONE", "OPEN", "ANSWERED", "CANCELLED"}],
           binding' \in [Questions -> {"NONE", "OPEN", "ANSWERED", "RESOLVED",
                                       "CANCELLED"}],
           UNCHANGED <<answeredAt, live, ended, events>>
    PROVE  Good
<1>1. JobStateAfter(to) \in {"DONE", "FAILED", "CANCELLED"}
  BY DEF JobStateAfter
<1>2. {j} \in SUBSET Jobs /\ JobRun(j) \in Runs /\ \A i \in {j} : jobState[i] # "NONE"
  BY JobRunIsRun
<1>3. /\ EndRunTypes /\ FreshRuns' /\ EndedStep
      /\ \A i \in Jobs : jobState'[i] = "CLAIMED" <=>
                            jobState[i] = "CLAIMED" /\ i \notin {j}
  BY <1>1, <1>2, EndRunEffects
<1>4. ReleaseType
  BY ReleaseKeepsTypes
<1>5. TablesType'
  BY <1>3, <1>4 DEF TablesInv, TablesType, EndRunTypes, ReleaseType
<1>6. ClaimStep
  BY <1>2, <1>3 DEF ClaimStep
<1> QED BY <1>3, <1>5, <1>6 DEF Good

\* Yielding a claim frees ready children and releases exactly that claim.
LEMMA YieldClaimGood ==
    ASSUME TablesInv, NEW j \in Jobs, jobState[j] = "CLAIMED",
           runStatus[JobRun(j)] \in {"STARTING", "RUNNING"},
           NEW to \in {"WAITING_FOR_INPUT", "PAUSED", "READY_FOR_REVIEW"},
           YieldClaim(j, to), UNCHANGED <<live, ended, events>>
    PROVE  Good
<1>1. Release({j}) /\ JobRun(j) \in Runs
  BY JobRunIsRun DEF YieldClaim
<1>2. TablesType'
  BY <1>1, ReleaseKeepsTypes
     DEF YieldClaim, TablesInv, TablesType, ReleaseType, RunStatuses, Active,
         JobStates, WaitReasons
<1>3. FreshRuns'
  BY <1>1, JobNames DEF YieldClaim, TablesInv, TablesType, FreshRuns
<1>4. EndedStep
  BY <1>1 DEF YieldClaim, TablesInv, TablesType, EndedStep, Terminal
<1>5. ClaimStep
  <2>1. \A i \in Jobs : jobState'[i] = "CLAIMED" <=>
                           jobState[i] = "CLAIMED" /\ i \notin {j}
    BY DEF YieldClaim, TablesInv, TablesType
  <2> QED BY <1>1, <2>1 DEF ClaimStep
<1> QED BY <1>2, <1>3, <1>4, <1>5 DEF Good

\* transitionAdmittedJob, whatever the caller wants and whoever it is.
LEMMA TransitionAdmittedJobGood ==
    ASSUME TablesInv, NEW j \in Jobs, NEW t \in Tokens, NEW to,
           TransitionAdmittedJob(j, t, to)
    PROVE  Good
<1>1. /\ jobState[j] = "CLAIMED" /\ JobRun(j) \in Runs
      /\ runStatus[JobRun(j)] \in {"STARTING", "RUNNING", "WAITING_FOR_INPUT"}
      /\ ValidSchedulerRunTransition(runStatus[JobRun(j)], to)
      /\ UNCHANGED <<live, ended, events>>
  BY JobRunIsRun DEF TransitionAdmittedJob, CanTransition, Fenced,
                     ValidSchedulerRunTransition
<1>2. CASE to = "RUNNING" /\ TransitionToRunning(j)
  <2>1. TablesType'
    BY <1>1, <1>2 DEF TransitionToRunning, TablesInv, TablesType, RunStatuses,
                      Active, WaitReasons
  <2>2. FreshRuns'
    BY <1>1, <1>2 DEF TransitionToRunning, TablesInv, TablesType, FreshRuns
  <2>3. EndedStep
    BY <1>1, <1>2 DEF TransitionToRunning, TablesInv, TablesType, EndedStep, Terminal
  <2>4. ClaimStep
    BY <1>2, KeptClaims DEF TransitionToRunning
  <2> QED BY <2>1, <2>2, <2>3, <2>4 DEF Good
<1>3. CASE /\ to \in {"WAITING_FOR_INPUT", "PAUSED", "READY_FOR_REVIEW"}
           /\ YieldClaim(j, to)
  <2>1. runStatus[JobRun(j)] \in {"STARTING", "RUNNING"}
    BY <1>1, <1>3 DEF ValidSchedulerRunTransition
  <2> QED BY <1>1, <1>3, <2>1, YieldClaimGood
<1>4. CASE to \in Terminal /\ EndAdmitted(j, to)
  <2>1. /\ question' \in [Questions -> {"NONE", "OPEN", "ANSWERED", "CANCELLED"}]
        /\ binding' \in [Questions -> {"NONE", "OPEN", "ANSWERED", "RESOLVED",
                                       "CANCELLED"}]
        /\ UNCHANGED answeredAt
    BY <1>4 DEF EndAdmitted, CleanupQuestions, TablesInv, TablesType
  <2>2. EndRun(JobRun(j), to, {j}, JobStateAfter(to)) /\ Release({j})
    BY <1>4 DEF EndAdmitted
  <2>3. runStatus[JobRun(j)] \notin Terminal
    BY <1>1 DEF Terminal
  <2> QED BY <1>1, <1>4, <2>1, <2>2, <2>3, EndClaimGood
<1> QED BY <1>2, <1>3, <1>4 DEF TransitionAdmittedJob

-----------------------------------------------------------------------------
(* Sessions.                                                                *)

\* CreateExecutionSession
LEMMA CreateExecutionSessionGood ==
    ASSUME TablesInv, NEW r \in Runs, CreateExecutionSession(r) PROVE Good
<1> USE DEF CreateExecutionSession, TablesInv
<1>1. TablesType'
  BY DEF TablesType
<1>2. FreshRuns' /\ EndedStep
  BY DEF FreshRuns, EndedStep
<1>3. ClaimStep
  BY KeptClaims
<1> QED BY <1>1, <1>2, <1>3 DEF Good

-----------------------------------------------------------------------------
(* Questions.                                                               *)

\* OpenInteractiveQuestions
LEMMA OpenInteractiveQuestionGood ==
    ASSUME TablesInv, NEW q \in Questions, OpenInteractiveQuestion(q) PROVE Good
<1> USE DEF OpenInteractiveQuestion, TablesInv
<1>1. /\ QuestionRun[q] \in Runs
      /\ runStatus[QuestionRun[q]] \in {"RUNNING", "WAITING_FOR_INPUT"}
  BY ReferencesAssumption DEF CanOpenInteractive
<1>2. TablesType'
  <2>1. runStatus' \in [Runs -> RunStatuses] /\ queueReason' \in [Runs -> WaitReasons]
    BY <1>1, SMTT(30) DEF TablesType, RunStatuses, Active, WaitReasons
  <2>2. /\ question' \in [Questions -> {"NONE", "OPEN", "ANSWERED", "CANCELLED"}]
        /\ binding' \in [Questions -> {"NONE", "OPEN", "ANSWERED", "RESOLVED",
                                       "CANCELLED"}]
    BY DEF TablesType
  <2> QED BY <2>1, <2>2 DEF TablesType
<1>3. FreshRuns'
  BY <1>1 DEF TablesType, FreshRuns
<1>4. EndedStep
  BY <1>1 DEF TablesType, EndedStep, Terminal
<1>5. ClaimStep
  BY KeptClaims
<1> QED BY <1>2, <1>3, <1>4, <1>5 DEF Good

\* CreateQuestion
LEMMA CreateQuestionGood ==
    ASSUME TablesInv, NEW q \in Questions, CreateQuestion(q) PROVE Good
<1> USE DEF CreateQuestion, TablesInv
<1>1. TablesType'
  BY DEF TablesType
<1>2. FreshRuns' /\ EndedStep
  BY DEF FreshRuns, EndedStep
<1>3. ClaimStep
  BY KeptClaims
<1> QED BY <1>1, <1>2, <1>3 DEF Good

\* ResolveInteractiveQuestion.  That it leaves ended runs alone rests on its
\* guard: the last binding is resolved only for a waiting run.
LEMMA ResolveInteractiveQuestionGood ==
    ASSUME TablesInv, NEW q \in Questions, ResolveInteractiveQuestion(q) PROVE Good
<1> USE DEF ResolveInteractiveQuestion, CanResolve, TablesInv
<1>1. QuestionRun[q] \in Runs
  BY ReferencesAssumption
<1>2. TablesType'
  <2>1. runStatus' \in [Runs -> RunStatuses] /\ queueReason' \in [Runs -> WaitReasons]
    BY <1>1 DEF TablesType, RunStatuses, Active, WaitReasons
  <2>2. /\ question' \in [Questions -> {"NONE", "OPEN", "ANSWERED", "CANCELLED"}]
        /\ binding' \in [Questions -> {"NONE", "OPEN", "ANSWERED", "RESOLVED",
                                       "CANCELLED"}]
    BY DEF TablesType
  <2> QED BY <2>1, <2>2 DEF TablesType
<1>3. FreshRuns'
  BY <1>1 DEF TablesType, FreshRuns
<1>4. EndedStep
  BY <1>1 DEF TablesType, EndedStep, Terminal
<1>5. ClaimStep
  BY KeptClaims
<1> QED BY <1>2, <1>3, <1>4, <1>5 DEF Good

QuestionTypes ==
    /\ question' \in [Questions -> {"NONE", "OPEN", "ANSWERED", "CANCELLED"}]
    /\ answeredAt' \in [Questions -> Nat]
    /\ binding' \in [Questions -> {"NONE", "OPEN", "ANSWERED", "RESOLVED",
                                   "CANCELLED"}]

\* queueBlockingQuestionResume, with the claims J retired by the same
\* transaction: the job it inserts did not exist, so it was not claimed.
LEMMA RetireAndResumeGood ==
    ASSUME TablesInv, NEW q \in Questions, NEW J \in SUBSET Jobs,
           \A j \in J : jobState[j] # "NONE", RetireAndResume(J, q),
           QuestionTypes, UNCHANGED <<outcome, live, ended, events>>
    PROVE  Good
<1>1. /\ QuestionRun[q] \in Runs /\ QuestionJob(q) \in Jobs
      /\ runStatus[QuestionRun[q]] = "WAITING_FOR_INPUT"
      /\ jobState[QuestionJob(q)] = "NONE" /\ Release(J)
  BY ReferencesAssumption, JobNames DEF RetireAndResume, CanQueueResume
<1>2. TablesType'
  <2>1. runStatus' \in [Runs -> RunStatuses] /\ queueReason' \in [Runs -> WaitReasons]
    BY DEF RetireAndResume, TablesInv, TablesType, RunStatuses, Active, WaitReasons
  <2>2. /\ jobState' \in [Jobs -> JobStates] /\ jobWait' \in [Jobs -> WaitReasons]
        /\ jobAvail' \in [Jobs -> {"now", "later", "held"}]
    BY DEF RetireAndResume, TablesInv, TablesType, JobStates, WaitReasons
  <2>3. ReleaseType
    BY <1>1, ReleaseKeepsTypes
  <2> QED BY <2>1, <2>2, <2>3 DEF QuestionTypes, TablesInv, TablesType, ReleaseType
<1>3. FreshRuns'
  BY <1>1, JobNames, JobsAreDistinct, SMTT(30)
     DEF RetireAndResume, TablesInv, TablesType, FreshRuns
<1>4. EndedStep
  BY <1>1 DEF RetireAndResume, TablesInv, TablesType, EndedStep, Terminal
<1>5. ClaimStep
  <2>1. \A j \in Jobs : jobState'[j] = "CLAIMED" <=>
                           jobState[j] = "CLAIMED" /\ j \notin J
    BY <1>1 DEF RetireAndResume
  <2> QED BY <1>1, <2>1 DEF ClaimStep
<1> QED BY <1>2, <1>3, <1>4, <1>5 DEF Good

\* retireExpiredInteractiveClaims, when questions are still open.
LEMMA RetireGood ==
    ASSUME TablesInv, NEW J \in SUBSET Jobs, \A j \in J : jobState[j] # "NONE",
           Retire(J), QuestionTypes, UNCHANGED <<outcome, live, ended, events>>
    PROVE  Good
<1>1. Release(J)
  BY DEF Retire
<1>2. TablesType'
  BY <1>1, ReleaseKeepsTypes
     DEF Retire, QuestionTypes, TablesInv, TablesType, ReleaseType, JobStates,
         WaitReasons
<1>3. FreshRuns' /\ EndedStep
  BY JobNames DEF Retire, TablesInv, TablesType, FreshRuns, EndedStep
<1>4. ClaimStep
  <2>1. \A j \in Jobs : jobState'[j] = "CLAIMED" <=>
                           jobState[j] = "CLAIMED" /\ j \notin J
    BY DEF Retire
  <2> QED BY <1>1, <2>1 DEF ClaimStep
<1> QED BY <1>2, <1>3, <1>4 DEF Good

\* AnswerQuestion, on each of its paths.
LEMMA AnswerQuestionGood ==
    ASSUME TablesInv, NEW q \in Questions, AnswerQuestion(q) PROVE Good
<1> DEFINE r == QuestionRun[q]
<1>1. UNCHANGED <<outcome, live, ended, events>>
  BY DEF AnswerQuestion
<1>2. QuestionTypes
  <2>1. {x \in Questions : question[x] = "ANSWERED"} \subseteq Questions
    OBVIOUS
  <2>2. Cardinality({x \in Questions : question[x] = "ANSWERED"}) \in Nat
    BY <2>1, FiniteAssumption, FS_Subset, FS_CardinalityType
  <2>3. binding' = [binding EXCEPT ![q] = "ANSWERED"] \/ UNCHANGED binding
    BY DEF AnswerQuestion, AnswerInteractive, AnswerDetached
  <2>4. /\ question' = [question EXCEPT ![q] = "ANSWERED"]
        /\ answeredAt' = [answeredAt EXCEPT ![q] =
              1 + Cardinality({x \in Questions : question[x] = "ANSWERED"})]
    BY DEF AnswerQuestion
  <2> HIDE DEF r
  <2> QED BY <2>2, <2>3, <2>4, SMTT(30) DEF TablesInv, TablesType, QuestionTypes
<1>3. /\ ExpiredClaims(r) \in SUBSET Jobs
      /\ \A j \in ExpiredClaims(r) : jobState[j] # "NONE"
  BY DEF ExpiredClaims, JobsOf
<1>4. CASE UNCHANGED <<runStatus, queueReason, jobState, jobWait, jobAvail,
                       leaseToken, expired, reservations>>
  BY <1>1, <1>2, <1>4, KeptClaims
     DEF TablesInv, TablesType, QuestionTypes, FreshRuns, EndedStep, Good
<1>5. CASE Retire(ExpiredClaims(r))
  BY <1>1, <1>2, <1>3, <1>5, RetireGood
<1>6. CASE RetireAndResume(ExpiredClaims(r), q)
  BY <1>1, <1>2, <1>3, <1>6, RetireAndResumeGood
<1>7. CASE RetireAndResume({}, q)
  BY <1>1, <1>2, <1>7, RetireAndResumeGood
<1> QED BY <1>4, <1>5, <1>6, <1>7
           DEF AnswerQuestion, AnswerInteractive, AnswerDetached

-----------------------------------------------------------------------------
(* Reconciliation.                                                          *)

\* resolveExpiredBlockingQuestion, fully answered.
LEMMA ResolveAnsweredGood ==
    ASSUME TablesInv, NEW j \in Jobs, NEW q \in Questions, ResolveAnswered(j, q)
    PROVE  Good
<1>1. jobState[j] = "CLAIMED" /\ RetireAndResume({j}, q)
  BY DEF ResolveAnswered, ExpiredCandidate
<1>2. QuestionTypes /\ UNCHANGED <<outcome, live, ended, events>>
  BY DEF ResolveAnswered, QuestionTypes, TablesInv, TablesType
<1> QED BY <1>1, <1>2, RetireAndResumeGood

\* resolveExpiredBlockingQuestion, still open.
LEMMA ResolveOpenGood ==
    ASSUME TablesInv, NEW j \in Jobs, ResolveOpen(j) PROVE Good
<1>1. /\ jobState[j] = "CLAIMED" /\ Release({j}) /\ JobRun(j) \in Runs
      /\ runStatus[JobRun(j)] \in {"STARTING", "RUNNING"}
  BY JobRunIsRun DEF ResolveOpen, ExpiredCandidate
<1>2. TablesType'
  BY <1>1, ReleaseKeepsTypes
     DEF ResolveOpen, TablesInv, TablesType, ReleaseType, RunStatuses, Active,
         JobStates, WaitReasons
<1>3. FreshRuns' /\ EndedStep
  BY <1>1, JobNames, SMTT(30) DEF ResolveOpen, TablesInv, TablesType, FreshRuns, EndedStep, Terminal
<1>4. ClaimStep
  <2>1. \A i \in Jobs : jobState'[i] = "CLAIMED" <=>
                           jobState[i] = "CLAIMED" /\ i \notin {j}
    BY DEF ResolveOpen, TablesInv, TablesType
  <2> QED BY <1>1, <2>1 DEF ClaimStep
<1> QED BY <1>2, <1>3, <1>4 DEF Good

\* claimExpiredJobForReconciliation
LEMMA ClaimExpiredGood ==
    ASSUME TablesInv, NEW j \in Jobs, NEW t \in Tokens, Unused(t),
           ClaimExpired(j, t)
    PROVE  Good
<1>1. TablesType' /\ FreshRuns' /\ EndedStep
  BY DEF ClaimExpired, TablesInv, TablesType, FreshRuns, EndedStep
<1> QED BY <1>1 DEF Good, ClaimStep

\* resolveReconciliation, RETRY.
LEMMA ResolveRetryGood ==
    ASSUME TablesInv, NEW j \in Jobs, jobState[j] = "CLAIMED", ResolveRetry(j),
           UNCHANGED <<live, ended, events>>
    PROVE  Good
<1>1. /\ Release({j}) /\ JobRun(j) \in Runs
      /\ runStatus[JobRun(j)] \in {"STARTING", "RUNNING"}
  BY JobRunIsRun DEF ResolveRetry
<1>2. TablesType'
  <2>1. ReleaseType
    BY <1>1, ReleaseKeepsTypes
  <2>2. runStatus' \in [Runs -> RunStatuses] /\ queueReason' \in [Runs -> WaitReasons]
    BY DEF ResolveRetry, TablesInv, TablesType, RunStatuses, Active, WaitReasons
  <2>3. /\ jobState' \in [Jobs -> JobStates] /\ jobWait' \in [Jobs -> WaitReasons]
        /\ jobAvail' \in [Jobs -> {"now", "later", "held"}]
    BY DEF ResolveRetry, TablesInv, TablesType, JobStates, WaitReasons
  <2> QED BY <2>1, <2>2, <2>3 DEF ResolveRetry, TablesInv, TablesType, ReleaseType
<1>3. FreshRuns'
  BY <1>1, JobNames, SMTT(30) DEF ResolveRetry, TablesInv, TablesType, FreshRuns
<1>4. EndedStep
  BY <1>1 DEF ResolveRetry, TablesInv, TablesType, EndedStep, Terminal
<1>5. ClaimStep
  <2>1. \A i \in Jobs : jobState'[i] = "CLAIMED" <=>
                           jobState[i] = "CLAIMED" /\ i \notin {j}
    BY DEF ResolveRetry, TablesInv, TablesType
  <2> QED BY <1>1, <2>1 DEF ClaimStep
<1> QED BY <1>2, <1>3, <1>4, <1>5 DEF Good

\* resolveReconciliation, whatever was concluded.
LEMMA ResolveReconciliationGood ==
    ASSUME TablesInv, NEW j \in Jobs, NEW t \in Tokens, NEW result \in Outcomes,
           ResolveReconciliation(j, t, result)
    PROVE  Good
<1>1. jobState[j] = "CLAIMED" /\ UNCHANGED <<live, ended, events>>
  BY DEF ResolveReconciliation, Fenced
<1>2. CASE UNCHANGED <<runStatus, queueReason, jobState, jobWait, jobAvail,
                       leaseToken, expired, reservations, outcome, question,
                       answeredAt, binding>>
  BY <1>1, <1>2, UnchangedTablesGood DEF tables
<1>3. CASE CanRecoverHandoff(JobRun(j)) /\ YieldClaim(j, "PAUSED")
  BY <1>1, <1>3, YieldClaimGood DEF CanRecoverHandoff
<1>4. CASE ResolveRetry(j)
  BY <1>1, <1>4, ResolveRetryGood
<1>5. CASE \E status \in Terminal : ResolveTerminal(j, status)
  <2>1. PICK status \in Terminal : ResolveTerminal(j, status)
    BY <1>5
  <2>2. /\ runStatus[JobRun(j)] \notin Terminal
        /\ EndRun(JobRun(j), status, {j}, JobStateAfter(status)) /\ Release({j})
    BY <2>1 DEF ResolveTerminal, Terminal
  <2>3. /\ question' \in [Questions -> {"NONE", "OPEN", "ANSWERED", "CANCELLED"}]
        /\ binding' \in [Questions -> {"NONE", "OPEN", "ANSWERED", "RESOLVED",
                                       "CANCELLED"}]
        /\ UNCHANGED answeredAt
    BY <2>1 DEF ResolveTerminal, TablesInv, TablesType
  <2> QED BY <1>1, <2>2, <2>3, EndClaimGood
<1> QED BY <1>2, <1>3, <1>4, <1>5 DEF ResolveReconciliation
=============================================================================
