------------------------------- MODULE Workers -------------------------------
(***************************************************************************)
(* The coordinator's workers (Coordinator.process) and the run execution    *)
(* they drive (Processor.Process and the engine adapter).  A worker is      *)
(* named by the lease token of its claim.  Its steps are the store          *)
(* transactions of the modules below; between two of them the lease may     *)
(* expire, be taken over, or the process may die.                           *)
(*                                                                          *)
(* pc:  launched -> registered -> running -> executing -> stopping ->       *)
(*      stopped -> finished -> idle; executing -> delegating -> stopping    *)
(*      when the engine hands over to a delegated run; executing ->         *)
(*      failing -> finished when it reports an error.                       *)
(***************************************************************************)
EXTENDS Reconciliation

CONSTANT MaxInFlight   \* worker slots of the coordinator

VARIABLES
    native,   \* interactive questions pending in their run's live session
    worker,   \* token -> the worker that holds it
    active    \* run -> token of the registered worker, NoToken when none

NoJob == <<"NONE", NoRun>>
IdleWorker == [pc |-> "idle", job |-> NoJob, child |-> NoRun,
               result |-> "none", cancelled |-> FALSE]
WorkerPCs == {"idle", "launched", "registered", "running",
              "executing", "failing", "delegating", "stopping", "stopped",
              "finished"}

Busy == {t \in Tokens : worker[t].pc # "idle"}
SlotFree == Cardinality(Busy) < MaxInFlight
RunOf(t) == JobRun(worker[t].job)

\* launchWorker: the goroutine exists and holds a slot, nothing more.
Launch(t, j) ==
    worker' = [worker EXCEPT ![t] = [IdleWorker EXCEPT !.pc = "launched",
                                                       !.job = j]]

\* unregisterActiveRun removes a registration only if it is still its own.
Unregister(t) ==
    active' = [r \in Runs |-> IF active[r] = t THEN NoToken ELSE active[r]]

Goto(t, pc) == worker' = [worker EXCEPT ![t].pc = pc] /\ UNCHANGED active

\* Process returns a result, which is still to be persisted.
Returns(t, result) ==
    /\ worker' = [worker EXCEPT ![t].pc = "finished", ![t].result = result]
    /\ Unregister(t)

Gone(t) == worker' = [worker EXCEPT ![t] = IdleWorker] /\ Unregister(t)

\* Run r's session ended, and with it the native requests it held.
NativeAfterEnd(r) == native \ QuestionsOf(r)

unchangedButSession == <<runStatus, queueReason, jobState, jobWait, jobAvail,
    leaseToken, expired, reservations, outcome, question, answeredAt, binding>>

Record(evs) ==
    /\ events' = events \cup {e \in evs : Readable(e[1], e[2])}
    /\ UNCHANGED <<unchangedButSession, live, ended>>

-----------------------------------------------------------------------------
\* registerActiveRun: a cancellation now reaches this worker, and no longer
\* the one that was registered for the run before.
ProcessRegisters(t) ==
    /\ worker[t].pc = "launched"
    /\ worker' = [worker EXCEPT ![t].pc = "registered"]
    /\ active' = [active EXCEPT ![RunOf(t)] = t]
    /\ UNCHANGED <<tables, native>>

\* Lifecycle.Running; without the fence the processor gives up.
ProcessStarts(t) ==
    /\ worker[t].pc = "registered"
    /\ \/ /\ TransitionAdmittedJob(worker[t].job, t, "RUNNING")
          /\ Goto(t, "running")
       \/ /\ ~CanTransition(worker[t].job, t, "RUNNING")
          /\ Gone(t)
          /\ UNCHANGED tables
    /\ UNCHANGED native

\* liveExecutionSession finds a session to attach to.
ProcessAttaches(t) ==
    /\ worker[t].pc = "running" /\ RunOf(t) \in live
    /\ Goto(t, "executing")
    /\ UNCHANGED <<tables, native>>

\* It finds none: CreateRunnerSession.
ProcessCreatesSession(t) ==
    /\ worker[t].pc = "running"
    /\ CreateExecutionSession(RunOf(t))
    /\ Goto(t, "executing")
    /\ UNCHANGED native

\* The session is refused (one was created since the look, or the workspace
\* is taken, or the run cancelled), or resolving, preparing the workspace or
\* finding the engine fails.
ProcessCannotPrepare(t) ==
    /\ worker[t].pc \in {"running", "executing"}
    /\ Returns(t, "FAILED")
    /\ UNCHANGED <<tables, native>>

-----------------------------------------------------------------------------
\* The engine asks and stays; reconcilePendingQuestions finds the questions of
\* a session it is attached to again, which changes nothing.
EngineAsks(t, q) ==
    /\ worker[t].pc = "executing" /\ QuestionRun[q] = RunOf(t)
    /\ RunOf(t) \in live
    /\ OpenInteractiveQuestion(q)
    /\ native' = native \cup {q}
    /\ UNCHANGED <<worker, active>>

\* The engine accepted the answer; the binding is resolved.
EngineResolves(t, q) ==
    /\ worker[t].pc = "executing" /\ QuestionRun[q] = RunOf(t)
    /\ RunOf(t) \in live /\ q \in native
    /\ ResolveInteractiveQuestion(q)
    /\ native' = native \ {q}
    /\ UNCHANGED <<worker, active>>

\* An engine that does not stay asks, or finds its question still open.
EngineAsksAndLeaves(t, q) ==
    /\ worker[t].pc = "executing" /\ QuestionRun[q] = RunOf(t)
    /\ \/ CreateQuestion(q)
       \/ q \notin Interactive /\ question[q] = "OPEN" /\ UNCHANGED tables
    /\ Returns(t, "WAITING_FOR_INPUT")
    /\ UNCHANGED native

\* The delegate_task tool: a new request, or the same one seen again.
EngineDelegates(t, c) ==
    /\ worker[t].pc = "executing"
    /\ RunOf(t) \in live /\ ParentOf[c] = RunOf(t)
    /\ \/ RequestDelegation(c)
       \/ runStatus[c] # "NONE" /\ outcome[c] = "none" /\ UNCHANGED tables
    /\ worker' = [worker EXCEPT ![t].pc = "delegating", ![t].child = c]
    /\ UNCHANGED <<native, active>>

\* The tool's end is recorded, then completeDelegationHandoff's boundary.
EngineRecordsHandoff(t) ==
    LET c == worker[t].child IN
    /\ worker[t].pc = "delegating"
    /\ \/ /\ ~Event(c, "delegate_tool")
          /\ Record({<<c, "delegate_tool">>})
          /\ UNCHANGED <<worker, active>>
       \/ /\ Event(c, "delegate_tool")
          /\ Record({<<RunOf(t), "delegation_handoff">>})
          /\ Goto(t, "stopping")
    /\ UNCHANGED native

\* finishCompleted: the native session is idle and nothing is pending in it.
EngineCompletes(t) ==
    /\ worker[t].pc = "executing" /\ RunOf(t) \in live
    /\ native \cap QuestionsOf(RunOf(t)) = {}
    /\ Record({<<RunOf(t), "completed">>})
    /\ Goto(t, "stopping")
    /\ UNCHANGED native

\* stopService; it may find that the process is gone already.
EngineStops(t) ==
    LET r == RunOf(t) IN
    /\ worker[t].pc = "stopping"
    /\ IF r \in live
       THEN /\ SessionEnds(r, "CANCELLED")
            /\ native' = NativeAfterEnd(r)
       ELSE UNCHANGED <<live, ended, native>>
    /\ Goto(t, "stopped")
    /\ UNCHANGED <<unchangedButSession, events>>

\* The engine returns an error, or sees its context cancelled; on its way out
\* it stops its process.
EngineFails(t) ==
    LET r == RunOf(t) IN
    /\ worker[t].pc = "executing"
    /\ IF r \in live
       THEN /\ SessionEnds(r, "CANCELLED")
            /\ native' = NativeAfterEnd(r)
       ELSE UNCHANGED <<live, ended, native>>
    /\ Goto(t, "failing")
    /\ UNCHANGED <<unchangedButSession, events>>

\* It has to: the worker is cancelled, the session is gone, or an answer the
\* engine accepted cannot be resolved (acceptedReplyResolveFailureLimit).
EngineMustFail(t) ==
    \/ worker[t].cancelled
    \/ RunOf(t) \notin live
    \/ \E q \in native \cap QuestionsOf(RunOf(t)) :
          binding[q] = "ANSWERED" /\ ~CanResolve(q)

\* No session is left running, so the error is the run's result:
\* failExecution.  With one left the result is uncertain and Process returns
\* an error instead (executionUncertainty).
ProcessFails(t) ==
    /\ worker[t].pc = "failing" /\ ~worker[t].cancelled
    /\ \/ /\ RunOf(t) \notin live
          /\ Record({<<RunOf(t), "failed">>})
          /\ Returns(t, "FAILED")
       \/ /\ RunOf(t) \in live
          /\ Gone(t)
          /\ UNCHANGED tables
    /\ UNCHANGED native

-----------------------------------------------------------------------------
\* The workspace was synchronised: finishSuccessfulExecution.
ProcessSucceeds(t) ==
    /\ worker[t].pc = "stopped" /\ worker[t].child = NoRun
    /\ Returns(t, IF Delegated(RunOf(t)) THEN "COMPLETED" ELSE "READY_FOR_REVIEW")
    /\ UNCHANGED <<tables, native>>

\* finishDelegationWorkspaceHandoff
ProcessHandsOver(t) ==
    /\ worker[t].pc = "stopped" /\ worker[t].child # NoRun
    /\ MarkHandoffReady(worker[t].child)
    /\ Returns(t, "PAUSED")
    /\ UNCHANGED native

\* The workspace cannot be synchronised, or the handoff not be marked.
ProcessCannotFinish(t) ==
    /\ worker[t].pc = "stopped"
    /\ Record({<<RunOf(t), "failed">>})
    /\ Returns(t, "FAILED")
    /\ UNCHANGED native

\* The context was cancelled by CancelRun before a final result.
ProcessCancelled(t) ==
    /\ worker[t].cancelled
    /\ worker[t].pc \notin {"idle", "executing", "finished"}
    /\ Returns(t, "CANCELLED")
    /\ UNCHANGED <<tables, native>>

PersistAccepted(t) ==
    LET w == worker[t] IN
    /\ w.pc = "finished"
    /\ TransitionAdmittedJob(w.job, t, w.result)
    /\ Gone(t)
    /\ UNCHANGED native

\* process persists the result under the worker's lease, or is refused.
PersistResult(t) ==
    LET w == worker[t] IN
    /\ w.pc = "finished"
    /\ \/ TransitionAdmittedJob(w.job, t, w.result)
       \/ ~CanTransition(w.job, t, w.result) /\ UNCHANGED tables
    /\ Gone(t)
    /\ UNCHANGED native

\* Process returns an error, or the heartbeat saw the lease lost: nothing is
\* persisted and reconciliation has to find out.
GivesUp(t) ==
    /\ worker[t].pc # "idle"
    /\ Gone(t)
    /\ UNCHANGED <<tables, native>>

\* Coordinator.CancelRun
SignalCancellation(r) ==
    /\ active[r] # NoToken
    /\ worker' = [worker EXCEPT ![active[r]].cancelled = TRUE]
    /\ UNCHANGED <<tables, native, active>>

\* Services.CancelRun: signal the worker, else cancel a run nothing executes.
\* That no worker is registered was seen earlier and may no longer be so.
\* Delegated children are cancelled afterwards, by a CancelRun of their own.
CancelRun(r) ==
    /\ runStatus[r] \in Active
    /\ \/ SignalCancellation(r)
       \/ CancelInactiveRun(r) /\ UNCHANGED <<native, worker, active>>

\* CancelRun records run.cancellation_requested after it sent the signal.
RecordCancellation(t) ==
    /\ worker[t].cancelled
    /\ Record({<<RunOf(t), "cancellation_requested">>})
    /\ UNCHANGED <<native, worker, active>>

\* The process behind run r's session exits or is lost.
SessionDies(r, status) ==
    /\ SessionEnds(r, status)
    /\ native' = NativeAfterEnd(r)
    /\ UNCHANGED <<unchangedButSession, events, worker, active>>
=============================================================================
