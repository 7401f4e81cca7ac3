--------------------------- MODULE SchedulerProofs ---------------------------
(***************************************************************************)
(* Every step of the scheduler is a good table step and keeps the types, so *)
(* IInv is inductive: type correctness, and the finality of ended runs.     *)
(***************************************************************************)
EXTENDS WorkerProofs

(* Every step of the coordinator's loop.                                    *)

\* claimExpiredJobForReconciliation
LEMMA ClaimingStep ==
    ASSUME IInv, NothingExpired \/ SettleQuestion \/ SettlingRefused
                    \/ ClaimForReconciliation
    PROVE  Good /\ ProcessType'
<1> USE DEF IInv, TypeOK
<1>0. TablesInv /\ EnvOK /\ WorkersOK /\ LoopOK
  BY ProcessTypeParts DEF TablesInv
<1>1. CASE NothingExpired
  <2>1. Good
    BY <1>0, <1>1, UnchangedTablesGood DEF NothingExpired
  <2>2. EnvOK' /\ WorkersOK'
    BY <1>0, <1>1 DEF NothingExpired, env, EnvOK, WorkersOK
  <2> QED BY <1>1, <2>1, <2>2, LoopToOK, ProcessTypePartsNext DEF NothingExpired
<1>2. CASE SettleQuestion
  <2>1. Good
    BY <1>0, <1>2, ResolveOpenGood, ResolveAnsweredGood DEF SettleQuestion
  <2>2. EnvOK' /\ WorkersOK'
    BY <1>0, <1>2 DEF SettleQuestion, env, EnvOK, WorkersOK
  <2> QED BY <1>2, <2>1, <2>2, LoopToOK, ProcessTypePartsNext DEF SettleQuestion
<1>3. CASE SettlingRefused
  <2>1. Good
    BY <1>0, <1>3, UnchangedTablesGood DEF SettlingRefused, vars
  <2>2. EnvOK' /\ WorkersOK' /\ LoopOK'
    BY <1>0, <1>3 DEF SettlingRefused, vars, env, EnvOK, WorkersOK, LoopOK
  <2> QED BY <2>1, <2>2, ProcessTypePartsNext
<1>4. CASE ClaimForReconciliation
  <2>1. PICK j \in Jobs, t \in Tokens :
           /\ Unused(t) /\ ClaimExpired(j, t)
           /\ loop' = [IdleLoop EXCEPT !.pc = "evaluate", !.job = j, !.token = t]
    BY <1>4 DEF ClaimForReconciliation, FreeTokens, Unused
  <2>2. Good
    BY <1>0, <2>1, ClaimExpiredGood
  <2>3. EnvOK' /\ WorkersOK'
    BY <1>0, <1>4 DEF ClaimForReconciliation, env, EnvOK, WorkersOK
  <2>4. loop' = [pc |-> "evaluate", job |-> j, token |-> t, outcome |-> "none"]
    BY <2>1 DEF IdleLoop
  <2>5. LoopOK'
    BY <2>4 DEF LoopOK, LoopType, LoopPCs
  <2> QED BY <2>2, <2>3, <2>5, ProcessTypePartsNext
<1> QED BY <1>1, <1>2, <1>3, <1>4

\* Processor.Reconcile and ResolveReconciliation
LEMMA ReconcilingStep ==
    ASSUME IInv, Evaluate \/ EvaluateFails \/ ResolveClaim \/ ResolutionRefused
                    \/ StartReconciled
    PROVE  Good /\ ProcessType'
<1> USE DEF IInv, TypeOK
<1>0. TablesInv /\ EnvOK /\ WorkersOK /\ LoopOK
  BY ProcessTypeParts DEF TablesInv
<1> DEFINE r == JobRun(loop.job)
<1>a. loop.pc \in {"evaluate", "resolve", "start"} =>
         loop.job \in Jobs /\ loop.token \in Tokens /\ r \in Runs
  BY <1>0, JobRunIsRun DEF LoopOK
<1>1. CASE EvaluateActive \/ EvaluateEnded \/ EvaluateFails
  <2>1. Good
    BY <1>0, <1>1, UnchangedTablesGood DEF EvaluateActive, EvaluateEnded, EvaluateFails
  <2>2. EnvOK' /\ WorkersOK'
    BY <1>0, <1>1 DEF EvaluateActive, EvaluateEnded, EvaluateFails, env, EnvOK, WorkersOK
  <2>3. loop.pc = "evaluate" /\ \E result \in Outcomes : Concludes(result)
    BY <1>1, <1>a, ConclusionType
       DEF EvaluateActive, EvaluateEnded, EvaluateFails, Outcomes
  <2> QED BY <1>0, <2>1, <2>2, <2>3, ConcludesOK, ProcessTypePartsNext
<1>2. CASE EvaluateCancelsSession
  <2>1. SessionEnds(r, "CANCELLED") /\ UNCHANGED <<unchangedButSession, events>> /\ r \in Runs
    BY <1>2, <1>a DEF EvaluateCancelsSession
  <2>2. "CANCELLED" \in Terminal
    BY DEF Terminal
  <2>3. Good
    BY <1>0, <2>1, <2>2, SessionEndsGood
  <2>4. EnvOK' /\ WorkersOK' /\ LoopOK'
    BY <1>0, <1>2 DEF EvaluateCancelsSession, NativeAfterEnd, env, EnvOK, WorkersOK, LoopOK
  <2> QED BY <2>3, <2>4, ProcessTypePartsNext
<1>3. CASE EvaluateHandoff
  <2>1. Good
    BY <1>0, <1>3, MarkHandoffReadyGood DEF EvaluateHandoff
  <2>2. EnvOK' /\ WorkersOK'
    BY <1>0, <1>3 DEF EvaluateHandoff, env, EnvOK, WorkersOK
  <2>3. LoopOK'
    BY <1>0, <1>3, ConcludesOK DEF EvaluateHandoff, Outcomes
  <2> QED BY <2>1, <2>2, <2>3, ProcessTypePartsNext
<1>4. CASE ResolveClaim
  <2>1. loop.pc = "resolve" /\ loop.outcome \in Outcomes
    BY <1>0, <1>4 DEF ResolveClaim, LoopOK
  <2>2. Good
    BY <1>0, <1>4, <1>a, <2>1, ResolveReconciliationGood DEF ResolveClaim
  <2>3. EnvOK' /\ WorkersOK'
    BY <1>0, <1>4 DEF ResolveClaim, env, EnvOK, WorkersOK
  <2>4. LoopOK'
    <3>1. CASE loop' = [loop EXCEPT !.pc = "start"]
      BY <1>0, <1>a, <2>1, <3>1 DEF LoopOK, LoopType, LoopPCs
    <3>2. CASE LoopTo("claim")
      BY <3>2, LoopToOK
    <3> QED BY <1>4, <3>1, <3>2 DEF ResolveClaim
  <2> QED BY <2>2, <2>3, <2>4, ProcessTypePartsNext
<1>5. CASE ResolutionRefused
  <2>1. Good
    BY <1>0, <1>5, UnchangedTablesGood DEF ResolutionRefused
  <2>2. EnvOK' /\ WorkersOK'
    BY <1>0, <1>5 DEF ResolutionRefused, env, EnvOK, WorkersOK
  <2> QED BY <1>5, <2>1, <2>2, LoopToOK, ProcessTypePartsNext DEF ResolutionRefused
<1>6. CASE StartReconciled
  <2>1. Good
    BY <1>0, <1>6, UnchangedTablesGood DEF StartReconciled
  <2>2. EnvOK'
    BY <1>0, <1>6 DEF StartReconciled, env, EnvOK
  <2>3. WorkersOK'
    BY <1>0, <1>6, <1>a, LaunchOK DEF StartReconciled
  <2> QED BY <1>6, <2>1, <2>2, <2>3, LoopToOK, ProcessTypePartsNext DEF StartReconciled
<1> QED BY <1>1, <1>2, <1>3, <1>4, <1>5, <1>6 DEF Evaluate

\* AdmitNextJob
LEMMA AdmittingStep ==
    ASSUME IInv, AdmitNothing \/ AdmitCancels \/ AdmitDefers \/ AdmitStarts
    PROVE  Good /\ ProcessType'
<1> USE DEF IInv, TypeOK
<1>0. TablesInv /\ EnvOK /\ WorkersOK /\ LoopOK
  BY ProcessTypeParts DEF TablesInv
<1>1. LoopOK'
  BY LoopToOK DEF AdmitNothing, AdmitCancels, AdmitDefers, AdmitStarts
<1>2. EnvOK'
  BY <1>0 DEF AdmitNothing, AdmitCancels, AdmitDefers, AdmitStarts, env, EnvOK
<1>3. CASE AdmitNothing
  <2>1. Good
    BY <1>0, <1>3, UnchangedTablesGood DEF AdmitNothing
  <2>2. WorkersOK'
    BY <1>0, <1>3 DEF AdmitNothing, WorkersOK
  <2> QED BY <1>1, <1>2, <2>1, <2>2, ProcessTypePartsNext
<1>4. CASE AdmitCancels
  <2>1. Good
    BY <1>0, <1>4, JobRunIsRun, CancelInactiveRunTxGood DEF AdmitCancels
  <2>2. WorkersOK'
    BY <1>0, <1>4 DEF AdmitCancels, WorkersOK
  <2> QED BY <1>1, <1>2, <2>1, <2>2, ProcessTypePartsNext
<1>5. CASE AdmitDefers
  <2>1. Good
    BY <1>0, <1>5, DeferQueuedJobGood DEF AdmitDefers
  <2>2. WorkersOK'
    BY <1>0, <1>5 DEF AdmitDefers, WorkersOK
  <2> QED BY <1>1, <1>2, <2>1, <2>2, ProcessTypePartsNext
<1>6. CASE AdmitStarts
  <2>1. PICK j \in Jobs, n \in Runners, t \in Tokens :
           /\ NextCandidate(j) /\ ~MustDefer(JobRun(j)) /\ Unused(t)
           /\ FirstRunner(JobRun(j), n) /\ AdmitJob(j, n, t) /\ Launch(t, j)
    BY <1>6 DEF AdmitStarts, FreeTokens, Unused
  <2>2. Good
    BY <1>0, <2>1, AdmitJobGood
  <2>3. WorkersOK'
    BY <1>0, <1>6, <2>1, LaunchOK DEF AdmitStarts
  <2> QED BY <1>1, <1>2, <2>2, <2>3, ProcessTypePartsNext
<1> QED BY <1>3, <1>4, <1>5, <1>6

-----------------------------------------------------------------------------
(* What people, clocks, runners and crashes do.                             *)

\* Enqueueing, delegating by comment and answering.
LEMMA RequestStep ==
    ASSUME IInv, Request PROVE Good /\ ProcessType'
<1> USE DEF IInv, TypeOK
<1>1. TablesInv
  BY DEF TablesInv
<1>2. ProcessType'
  BY DEF Request, env, ProcessType, Busy
<1>3. ASSUME NEW r \in Runs, EnqueueAssignedIssue(r) \/ RequestIssueDelegation(r)
      PROVE  Good
  BY <1>1, <1>3, CreateQueuedRunGood
     DEF EnqueueAssignedIssue, RequestIssueDelegation, WaitReasons
<1> QED BY <1>1, <1>2, <1>3, AnswerQuestionGood DEF Request

\* Services.CancelRun
LEMMA CancelStep ==
    ASSUME IInv, Cancel PROVE Good /\ ProcessType'
<1> USE DEF IInv, TypeOK
<1>0. TablesInv /\ EnvOK /\ WorkersOK /\ LoopOK
  BY ProcessTypeParts DEF TablesInv
<1>1. PICK r \in Runs : CancelRun(r) /\ UNCHANGED <<env, loop>>
  BY EnvironmentAssumption DEF Cancel
<1>2. CASE SignalCancellation(r)
  <2>1. Good
    BY <1>0, <1>2, UnchangedTablesGood DEF SignalCancellation
  <2>2. EnvOK' /\ LoopOK'
    BY <1>0, <1>1, <1>2 DEF SignalCancellation, env, EnvOK, LoopOK
  <2>3. active[r] \in Tokens /\ worker[active[r]].pc # "idle"
    BY <1>0, <1>2 DEF SignalCancellation, WorkersOK
  <2>4. WorkersOK'
    <3>1. PICK t \in Tokens : t = active[r] /\ worker[t] \in WorkerType
      BY <1>0, <2>3 DEF WorkersOK
    <3> DEFINE w == [worker[t] EXCEPT !.cancelled = TRUE]
    <3>2. /\ w \in WorkerType /\ w.pc = worker[t].pc /\ w.job = worker[t].job
          /\ w.child = worker[t].child
      BY <3>1 DEF WorkerType
    <3>3. worker' = [worker EXCEPT ![t] = w] /\ UNCHANGED active
      BY <1>0, <1>2, <3>1 DEF SignalCancellation, WorkersOK
    <3> HIDE DEF w
    <3> QED BY <1>0, <2>3, <3>1, <3>2, <3>3 DEF WorkersOK
  <2> QED BY <2>1, <2>2, <2>4, ProcessTypePartsNext
<1>3. CASE CancelInactiveRun(r) /\ UNCHANGED <<native, worker, active>>
  <2>1. Good
    BY <1>0, <1>3, CancelInactiveRunTxGood DEF CancelInactiveRun
  <2>2. ProcessType'
    BY <1>1, <1>3 DEF env, ProcessType, Busy
  <2> QED BY <2>1, <2>2
<1> QED BY <1>1, <1>2, <1>3 DEF CancelRun

\* Sessions that die, leases that expire, backoffs that end, runners and
\* configurations that come and go, and the server that restarts.
LEMMA EnvironmentStep ==
    ASSUME IInv,
           \/ Die \/ ServerRestarts
           \/ \E j \in Jobs : Expire(j) \/ Retry(j)
           \/ \E n \in Unsteady : ConnectionChanges(n)
           \/ \E a \in Editable : ConfigurationChanges(a)
    PROVE  Good /\ ProcessType'
<1> USE DEF IInv, TypeOK
<1>0. TablesInv /\ EnvOK /\ WorkersOK /\ LoopOK
  BY ProcessTypeParts DEF TablesInv
<1>1. CASE Die
  <2>1. PICK r \in Runs, status \in Terminal :
           SessionDies(r, status) /\ UNCHANGED <<env, loop>>
    BY <1>1, EnvironmentAssumption DEF Die
  <2>2. Good
    BY <1>0, <2>1, SessionEndsGood DEF SessionDies
  <2>3. ProcessType'
    BY <2>1 DEF SessionDies, NativeAfterEnd, env, ProcessType, Busy
  <2> QED BY <2>2, <2>3
<1>2. CASE ServerRestarts
  <2>1. Good
    BY <1>0, <1>2, UnchangedTablesGood DEF ServerRestarts
  <2>2. EnvOK' /\ LoopOK'
    BY <1>0, <1>2 DEF ServerRestarts, env, EnvOK, LoopOK, IdleLoop, LoopType, LoopPCs
  <2>3. WorkersOK'
    BY <1>2 DEF ServerRestarts, WorkersOK, IdleWorker, WorkerType, WorkerPCs
  <2> QED BY <2>1, <2>2, <2>3, ProcessTypePartsNext
<1>3. CASE \E j \in Jobs : Expire(j) \/ Retry(j)
  <2>1. Good
    BY <1>0, <1>3, LeaseExpiresGood, BackoffEndsGood DEF Expire, Retry
  <2>2. ProcessType'
    BY <1>3 DEF Expire, Retry, env, ProcessType, Busy
  <2> QED BY <2>1, <2>2
<1>4. CASE \E n \in Unsteady : ConnectionChanges(n)
  <2>1. Good
    BY <1>0, <1>4, UnchangedTablesGood DEF ConnectionChanges
  <2>2. ProcessType'
    BY <1>4, EnvironmentAssumption DEF ConnectionChanges, ProcessType, Busy
  <2> QED BY <2>1, <2>2
<1>5. CASE \E a \in Editable : ConfigurationChanges(a)
  <2>1. Good
    BY <1>0, <1>5, UnchangedTablesGood DEF ConfigurationChanges
  <2>2. ProcessType'
    BY <1>5, EnvironmentAssumption DEF ConfigurationChanges, ProcessType, Busy
  <2> QED BY <2>1, <2>2
<1> QED BY <1>1, <1>2, <1>3, <1>4, <1>5

-----------------------------------------------------------------------------
\* Every step of the system is a good table step and keeps the processes sound.
LEMMA EveryStep ==
    ASSUME IInv, [Next]_vars PROVE Good /\ ProcessType'
<1>1. CASE UNCHANGED vars
  <2>1. TablesInv
    BY DEF IInv, TypeOK, TablesInv
  <2>2. Good
    BY <1>1, <2>1, UnchangedTablesGood DEF vars
  <2>3. ProcessType'
    BY <1>1 DEF vars, env, IInv, TypeOK, ProcessType, Busy
  <2> QED BY <2>2, <2>3
<1>2. CASE Loop \/ EvaluateFails
  BY <1>2, ClaimingStep, ReconcilingStep, AdmittingStep DEF Loop
<1>3. CASE \E t \in Tokens : Work(t)
  BY <1>3, StartingStep, AskingStep, EngineStep, FinishingStep DEF Work
<1>4. CASE \E t \in Tokens : MayHappen(t)
  BY <1>4, StartingStep, AskingStep, EngineStep, FinishingStep DEF MayHappen
<1>5. CASE Request \/ Cancel
  BY <1>5, RequestStep, CancelStep
<1>6. CASE \/ Die \/ ServerRestarts
           \/ \E j \in Jobs : Expire(j) \/ Retry(j)
           \/ \E n \in Unsteady : ConnectionChanges(n)
           \/ \E a \in Editable : ConfigurationChanges(a)
  BY <1>6, EnvironmentStep
<1> QED BY <1>1, <1>2, <1>3, <1>4, <1>5, <1>6 DEF Next

\* The initial state is of the right type.
LEMMA InitIInv == Init => IInv
<1> SUFFICES ASSUME Init PROVE IInv
  OBVIOUS
<1> USE DEF Init
<1>1. TablesType
  BY DEF TablesType, RunStatuses, WaitReasons, JobStates
<1>2. EnvOK /\ WorkersOK /\ LoopOK
  BY DEF EnvOK, WorkersOK, LoopOK, IdleWorker, IdleLoop, WorkerType, WorkerPCs,
         LoopType, LoopPCs
<1>3. FreshRuns
  BY JobNames DEF FreshRuns
<1> QED BY <1>1, <1>2, <1>3, ProcessTypeParts DEF IInv, TypeOK

\* Every step of the scheduler keeps the inductive invariant.
LEMMA IInvIsInductive == IInv /\ [Next]_vars => IInv'
BY EveryStep DEF Good, IInv, TypeOK

\* The inductive invariant holds in every reachable state.
LEMMA IInvHolds == Spec => []IInv
BY InitIInv, IInvIsInductive, PTL DEF Spec

\* Every table and process holds values of its type, for every number of runs,
\* questions, runners and tokens: no transaction writes a status, state or
\* reason outside the schema's sets, and no worker is without its job.
THEOREM TypeCorrect == Spec => []TypeOK
<1>1. IInv => TypeOK
  BY DEF IInv
<1> QED BY <1>1, IInvHolds, PTL

\* What has ended stays ended and a delegation has one outcome, whatever stale
\* workers, late answers and reconcilers do: the action property EndedStaysEnded.
THEOREM EndedRunsStayEnded == Spec => EndedStaysEnded
<1>1. IInv /\ [Next]_vars =>
         [/\ \A r \in Runs : runStatus[r] \in Terminal => runStatus'[r] = runStatus[r]
          /\ \A c \in Runs : outcome[c] # "none" => outcome'[c] = outcome[c]]_vars
  BY EveryStep DEF Good, EndedStep
<1> QED BY <1>1, IInvHolds, PTL DEF Spec, EndedStaysEnded
=============================================================================
