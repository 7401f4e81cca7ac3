------------------------------ MODULE Scheduler ------------------------------
(***************************************************************************)
(* The scheduler at work: the coordinator's loop together with its workers  *)
(* and the people, runners and clocks around them.  The loop reconciles one *)
(* expired claim at a time and otherwise admits one job at a time; what it  *)
(* reads in one step may be stale in the next.                              *)
(*                                                                          *)
(* Tokens are UUIDs that are never reused; what matters is that a new one   *)
(* differs from every token somebody still holds, so the model reuses those *)
(* nobody holds.                                                            *)
(***************************************************************************)
EXTENDS Workers

CONSTANTS
    Cancellable,   \* runs somebody may cancel
    ExitStatuses,  \* how a session's process may end by itself
    Unsteady,      \* runners that may disconnect and reconnect
    Editable       \* agents whose configuration may disappear and return

ASSUME EnvironmentAssumption ==
    /\ Cancellable \subseteq Runs /\ ExitStatuses \subseteq Terminal
    /\ Unsteady \subseteq Runners /\ Editable \subseteq Agents

VARIABLE loop   \* the coordinator's loop

env  == <<connected, configured>>
vars == <<tables, env, native, worker, active, loop>>

IdleLoop == [pc |-> "claim", job |-> NoJob, token |-> NoToken,
             outcome |-> "none"]

LoopPCs == {"claim", "evaluate", "resolve", "start", "admit"}

Init ==
    /\ runStatus = [r \in Runs |-> "NONE"]
    /\ queueReason = [r \in Runs |-> "none"]
    /\ jobState = [j \in Jobs |-> "NONE"]
    /\ jobWait = [j \in Jobs |-> "none"]
    /\ jobAvail = [j \in Jobs |-> "now"]
    /\ leaseToken = [j \in Jobs |-> NoToken]
    /\ expired = {}
    /\ reservations = {}
    /\ outcome = [r \in Runs |-> "none"]
    /\ question = [q \in Questions |-> "NONE"]
    /\ answeredAt = [q \in Questions |-> 0]
    /\ binding = [q \in Questions |-> "NONE"]
    /\ live = {}
    /\ ended = [r \in Runs |-> "none"]
    /\ events = {}
    /\ connected = Runners
    /\ configured = Agents
    /\ native = {}
    /\ worker = [t \in Tokens |-> IdleWorker]
    /\ active = [r \in Runs |-> NoToken]
    /\ loop = IdleLoop

-----------------------------------------------------------------------------
FreeTokens == Tokens \ (Busy \cup {loop.token} \cup {leaseToken[j] : j \in Jobs})

LoopTo(pc) == loop' = [IdleLoop EXCEPT !.pc = pc]

-----------------------------------------------------------------------------
\* Coordinator.Run, first half: reconcileOne.
NothingExpired ==
    /\ loop.pc = "claim"
    /\ ~\E j \in Jobs : ExpiredCandidate(j)
    /\ LoopTo("admit")
    /\ UNCHANGED <<tables, env, native, worker, active>>

\* The claim was settled by a question; the loop goes on to admission.
SettleQuestion ==
    /\ loop.pc = "claim"
    /\ \E j \in Jobs : ResolveOpen(j) \/ \E q \in Questions : ResolveAnswered(j, q)
    /\ LoopTo("admit")
    /\ UNCHANGED <<env, native, worker, active>>

\* The RESUME job of the oldest undelivered answer exists already, from an
\* earlier session: its unique key makes the transaction fail, and the loop
\* polls again without reaching admission.
SettlingRefused ==
    /\ loop.pc = "claim"
    /\ \E j \in Jobs, q \in Questions :
          /\ ExpiredCandidate(j)
          /\ runStatus[JobRun(j)] = "WAITING_FOR_INPUT"
          /\ ResumableBy(JobRun(j), q)
          /\ ~CanQueueResume(q)
    /\ UNCHANGED vars

ClaimForReconciliation ==
    /\ loop.pc = "claim"
    /\ \E j \in Jobs, t \in FreeTokens :
          /\ ClaimExpired(j, t)
          /\ loop' = [IdleLoop EXCEPT !.pc = "evaluate", !.job = j, !.token = t]
    /\ UNCHANGED <<env, native, worker, active>>

Concludes(result) ==
    loop' = [loop EXCEPT !.pc = "resolve", !.outcome = result]

\* Processor.Reconcile
EvaluateActive ==
    LET r == JobRun(loop.job) IN
    /\ loop.pc = "evaluate"
    /\ r \in live /\ ~ParentTerminal(r)
    /\ Concludes("ACTIVE")
    /\ UNCHANGED <<tables, env, native, worker, active>>

\* reconcileDelegatedRunWithTerminalParent stops the child's session first.
EvaluateCancelsSession ==
    LET r == JobRun(loop.job) IN
    /\ loop.pc = "evaluate"
    /\ ParentTerminal(r)
    /\ SessionEnds(r, "CANCELLED")
    /\ native' = NativeAfterEnd(r)
    /\ UNCHANGED <<unchangedButSession, events, env, worker, active, loop>>

EvaluateEnded ==
    LET r == JobRun(loop.job) IN
    /\ loop.pc = "evaluate"
    /\ r \notin live
    /\ \/ Delegated(r)
       \/ ~\E c \in Runs : RecoverableHandoff(r, c) /\ HandoffMarkable(c)
    /\ Concludes(Conclusion(r))
    /\ UNCHANGED <<tables, env, native, worker, active>>

\* recoverDelegationWorkspaceHandoff completes a recorded handoff.
EvaluateHandoff ==
    LET r == JobRun(loop.job) IN
    /\ loop.pc = "evaluate"
    /\ r \notin live /\ ~Delegated(r)
    /\ \E c \in Runs : RecoverableHandoff(r, c) /\ MarkHandoffReady(c)
    /\ Concludes("UNKNOWN")
    /\ UNCHANGED <<env, native, worker, active>>

\* A session, the runner or the evidence cannot be read: fail closed.
EvaluateFails ==
    /\ loop.pc = "evaluate"
    /\ Concludes("UNKNOWN")
    /\ UNCHANGED <<tables, env, native, worker, active>>

\* The resolution commits, or the store refuses it.
ResolveClaim ==
    /\ loop.pc = "resolve"
    /\ ResolveReconciliation(loop.job, loop.token, loop.outcome)
    /\ IF loop.outcome = "ACTIVE"
       THEN loop' = [loop EXCEPT !.pc = "start"]
       ELSE LoopTo("claim")
    /\ UNCHANGED <<env, native, worker, active>>

ResolutionRefused ==
    LET r == JobRun(loop.job) IN
    /\ loop.pc = "resolve"
    /\ \/ ~Fenced(loop.job, loop.token)
       \/ /\ loop.outcome \notin {"ACTIVE", "UNKNOWN"}
          /\ runStatus[r] \notin {"STARTING", "RUNNING"}
       \/ /\ loop.outcome \in Terminal
             \/ (loop.outcome = "RETRY" /\ ParentTerminal(r))
          /\ FinalizeConflict(r)
    /\ LoopTo("claim")
    /\ UNCHANGED <<tables, env, native, worker, active>>

\* startWorker waits for a slot; the loop does nothing else meanwhile.
StartReconciled ==
    /\ loop.pc = "start" /\ SlotFree
    /\ Launch(loop.token, loop.job)
    /\ LoopTo("claim")
    /\ UNCHANGED <<tables, env, native, active>>

-----------------------------------------------------------------------------
\* Coordinator.Run, second half: AdmitNextJob in a reserved slot.
AdmitNothing ==
    /\ loop.pc = "admit" /\ SlotFree
    /\ \/ Candidates = {}
       \/ \E j \in Jobs : /\ NextCandidate(j)
                          /\ ParentTerminal(JobRun(j))
                          /\ ExecutionOccupied(JobRun(j))
    /\ LoopTo("claim")
    /\ UNCHANGED <<tables, env, native, worker, active>>

AdmitCancels ==
    /\ loop.pc = "admit" /\ SlotFree
    /\ \E j \in Jobs : /\ NextCandidate(j)
                       /\ ParentTerminal(JobRun(j))
                       /\ ~ExecutionOccupied(JobRun(j))
                       /\ CancelInactiveRunTx(JobRun(j))
    /\ LoopTo("claim")
    /\ UNCHANGED <<env, native, worker, active>>

AdmitDefers ==
    /\ loop.pc = "admit" /\ SlotFree
    /\ \E j \in Jobs : /\ NextCandidate(j)
                       /\ ~ParentTerminal(JobRun(j))
                       /\ MustDefer(JobRun(j))
                       /\ DeferQueuedJob(j)
    /\ LoopTo("claim")
    /\ UNCHANGED <<env, native, worker, active>>

AdmitStarts ==
    /\ loop.pc = "admit" /\ SlotFree
    /\ \E j \in Jobs, n \in Runners, t \in FreeTokens :
          /\ NextCandidate(j)
          /\ ~ParentTerminal(JobRun(j))
          /\ ~MustDefer(JobRun(j))
          /\ FirstRunner(JobRun(j), n)
          /\ AdmitJob(j, n, t)
          /\ Launch(t, j)
    /\ LoopTo("claim")
    /\ UNCHANGED <<env, native, active>>

-----------------------------------------------------------------------------
\* The server process dies and starts again: workers and registrations are
\* gone, leases stay behind to expire.
ServerRestarts ==
    /\ Busy # {} \/ loop.pc # "claim"
    /\ worker' = [t \in Tokens |-> IdleWorker]
    /\ active' = [r \in Runs |-> NoToken]
    /\ loop' = IdleLoop
    /\ UNCHANGED <<tables, env, native>>

ConnectionChanges(n) ==
    /\ connected' = IF n \in connected THEN connected \ {n}
                                      ELSE connected \cup {n}
    /\ UNCHANGED <<tables, configured, native, worker, active, loop>>

ConfigurationChanges(a) ==
    /\ configured' = IF a \in configured THEN configured \ {a}
                                        ELSE configured \cup {a}
    /\ UNCHANGED <<tables, connected, native, worker, active, loop>>

Evaluate ==
    \/ EvaluateActive \/ EvaluateCancelsSession \/ EvaluateEnded
    \/ EvaluateHandoff

Loop ==
    \/ NothingExpired \/ SettleQuestion \/ SettlingRefused
    \/ ClaimForReconciliation \/ Evaluate
    \/ ResolveClaim \/ ResolutionRefused \/ StartReconciled
    \/ AdmitNothing \/ AdmitCancels \/ AdmitDefers \/ AdmitStarts

\* What the worker with token t does when it gets on with its work.
Work(t) ==
    /\ \/ ProcessRegisters(t) \/ ProcessStarts(t)
       \/ ProcessAttaches(t) \/ ProcessCreatesSession(t)
       \/ \E q \in Questions : EngineResolves(t, q)
       \/ EngineRecordsHandoff(t) \/ EngineCompletes(t) \/ EngineStops(t)
       \/ EngineFails(t) /\ EngineMustFail(t)
       \/ worker[t].pc = "running" /\ ProcessCannotPrepare(t)
       \/ ProcessSucceeds(t) \/ ProcessHandsOver(t) \/ ProcessFails(t)
       \/ ProcessCannotFinish(t)
       \/ ProcessCancelled(t) \/ PersistResult(t)
       \/ RecordCancellation(t)
    /\ UNCHANGED <<env, loop>>

\* What it may do but need not: ask, delegate, fail.
MayHappen(t) ==
    /\ \/ worker[t].pc = "executing" /\ ProcessCannotPrepare(t)
       \/ EngineFails(t) \/ GivesUp(t)
       \/ \E q \in Questions : EngineAsks(t, q) \/ EngineAsksAndLeaves(t, q)
       \/ \E c \in Runs : EngineDelegates(t, c)
    /\ UNCHANGED <<env, loop>>

\* Requests of users and agents, each one store transaction.
Request ==
    /\ \/ \E r \in Runs : EnqueueAssignedIssue(r) \/ RequestIssueDelegation(r)
       \/ \E q \in Questions : AnswerQuestion(q)
    /\ UNCHANGED <<env, native, worker, active, loop>>

Cancel == \E r \in Cancellable : CancelRun(r) /\ UNCHANGED <<env, loop>>

Expire(j) == LeaseExpires(j) /\ UNCHANGED <<env, native, worker, active, loop>>
Retry(j)  == BackoffEnds(j) /\ UNCHANGED <<env, native, worker, active, loop>>
Die == \E r \in Runs, status \in ExitStatuses :
          SessionDies(r, status) /\ UNCHANGED <<env, loop>>

Next ==
    \/ Loop \/ EvaluateFails \/ ServerRestarts
    \/ \E t \in Tokens : Work(t) \/ MayHappen(t)
    \/ Request \/ Cancel \/ Die
    \/ \E j \in Jobs : Expire(j) \/ Retry(j)
    \/ \E n \in Unsteady : ConnectionChanges(n)
    \/ \E a \in Editable : ConfigurationChanges(a)

Spec == Init /\ [][Next]_vars

-----------------------------------------------------------------------------
\* The loop and the workers keep going; a lease nobody renews expires and a
\* backoff ends.  The server may crash for ever, and evidence may be unreadable
\* for ever, but they do not conspire: a reconciliation that starts infinitely
\* often is once evaluated and committed in time, and a cleanup that is due
\* infinitely often is once reached.  Nothing is assumed about people, about
\* sessions ending, or about engines succeeding.
Renewed(j) == leaseToken[j] \in Busy
EvaluateInTime == Evaluate /\ Fenced(loop.job, loop.token)

Fairness ==
    /\ WF_vars(Loop)
    /\ SF_vars(EvaluateInTime) /\ SF_vars(AdmitCancels)
    /\ SF_vars(ResolveClaim /\ loop.outcome = "UNKNOWN")
    /\ SF_vars(ResolveClaim /\ loop.outcome # "UNKNOWN")
    /\ \A t \in Tokens : WF_vars(Work(t))
    /\ \A j \in Jobs : /\ WF_vars(~Renewed(j) /\ Expire(j))
                       /\ WF_vars(Retry(j))

FairSpec == Spec /\ Fairness
=============================================================================
