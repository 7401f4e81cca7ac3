----------------------------- MODULE WorkerProofs -----------------------------
(***************************************************************************)
(* Every step of a worker is a good table step and keeps the types of the   *)
(* coordinator's processes.                                                 *)
(***************************************************************************)
EXTENDS SchedulerProperties, TransactionProofs

\* TransitionExecutionSession into a terminal status.
LEMMA SessionEndsGood ==
    ASSUME TablesInv, NEW r \in Runs, NEW status \in Terminal,
           SessionEnds(r, status), UNCHANGED <<unchangedButSession, events>>
    PROVE  Good
<1> USE DEF SessionEnds, EndedAfter, unchangedButSession, TablesInv
<1>1. TablesType'
  BY DEF TablesType
<1>2. FreshRuns' /\ EndedStep
  BY DEF FreshRuns, EndedStep
<1>3. ClaimStep
  BY KeptClaims
<1> QED BY <1>1, <1>2, <1>3 DEF Good

\* Appending evidence.
LEMMA RecordGood ==
    ASSUME TablesInv, NEW r \in Runs, NEW type \in EventTypes,
           Record({<<r, type>>})
    PROVE  Good
<1> USE DEF Record, unchangedButSession, TablesInv
<1>1. TablesType'
  BY SMTT(30) DEF TablesType
<1>2. FreshRuns' /\ EndedStep
  BY DEF FreshRuns, EndedStep
<1>3. ClaimStep
  BY KeptClaims
<1> QED BY <1>1, <1>2, <1>3 DEF Good

-----------------------------------------------------------------------------
(* The processes.                                                           *)

WorkersOK ==
    /\ worker \in [Tokens -> WorkerType]
    /\ \A t \in Tokens : worker[t].pc # "idle" => worker[t].job \in Jobs
    /\ \A t \in Tokens : worker[t].pc = "delegating" => worker[t].child \in Runs
    /\ \A t \in Tokens : worker[t].cancelled => worker[t].pc # "idle"
    /\ active \in [Runs -> Tokens \cup {NoToken}]
    /\ \A r \in Runs : active[r] # NoToken => worker[active[r]].pc # "idle"

LoopOK ==
    /\ loop \in LoopType
    /\ loop.pc \in {"evaluate", "resolve", "start"} =>
          loop.job \in Jobs /\ loop.token \in Tokens
    /\ loop.pc = "resolve" => loop.outcome \in Outcomes

EnvOK == connected \subseteq Runners /\ configured \subseteq Agents /\ native \subseteq Questions

\* The parts the process invariant is made of.
LEMMA ProcessTypeParts == ProcessType <=> EnvOK /\ WorkersOK /\ LoopOK
BY DEF ProcessType, EnvOK, WorkersOK, LoopOK, Busy

\* The same split of the process type, in the next state.
LEMMA ProcessTypePartsNext == ProcessType' <=> EnvOK' /\ WorkersOK' /\ LoopOK'
BY DEF ProcessType, EnvOK, WorkersOK, LoopOK, Busy

\* A worker moves on to another point of its work.
LEMMA GotoOK ==
    ASSUME WorkersOK, NEW t \in Tokens, worker[t].pc # "idle",
           NEW pc \in WorkerPCs \ {"idle", "delegating"}, Goto(t, pc)
    PROVE  WorkersOK'
BY DEF WorkersOK, WorkerType, Goto

\* Process returns a result.
LEMMA ReturnsOK ==
    ASSUME WorkersOK, NEW t \in Tokens, worker[t].pc # "idle",
           NEW result \in RunStatuses, Returns(t, result)
    PROVE  WorkersOK'
<1> DEFINE w == [worker[t] EXCEPT !.pc = "finished"]
<1>1. w \in WorkerType /\ w.pc = "finished" /\ w.job \in Jobs
  BY DEF WorkersOK, WorkerType, WorkerPCs
<1>2. worker' = [worker EXCEPT ![t] = [w EXCEPT !.result = result]]
  BY DEF Returns, WorkersOK
<1> HIDE DEF w
<1>3. /\ [w EXCEPT !.result = result] \in WorkerType
      /\ [w EXCEPT !.result = result].pc = "finished"
      /\ [w EXCEPT !.result = result].job \in Jobs
  BY <1>1 DEF WorkerType
<1>4. /\ active' \in [Runs -> Tokens \cup {NoToken}]
      /\ \A r \in Runs : active'[r] \in {active[r], NoToken}
  BY DEF WorkersOK, Returns, Unregister
<1> QED BY <1>2, <1>3, <1>4 DEF WorkersOK

\* A worker is gone.
LEMMA GoneOK ==
    ASSUME WorkersOK, NEW t \in Tokens, Gone(t) PROVE WorkersOK'
BY DEF WorkersOK, WorkerType, WorkerPCs, Gone, Unregister, IdleWorker

\* launchWorker
LEMMA LaunchOK ==
    ASSUME WorkersOK, NEW t \in Tokens, NEW j \in Jobs, Launch(t, j),
           UNCHANGED active
    PROVE  WorkersOK'
BY DEF WorkersOK, WorkerType, WorkerPCs, Launch, IdleWorker

\* The loop starts over, or goes on to admission.
LEMMA LoopToOK ==
    ASSUME NEW pc \in {"claim", "admit"}, LoopTo(pc) PROVE LoopOK'
BY DEF LoopTo, IdleLoop, LoopOK, LoopType, LoopPCs

\* The reconciler has concluded.
LEMMA ConcludesOK ==
    ASSUME LoopOK, loop.pc = "evaluate", NEW result \in Outcomes, Concludes(result)
    PROVE  LoopOK'
<1> DEFINE l == [loop EXCEPT !.pc = "resolve"]
<1>1. l \in LoopType /\ l.pc = "resolve" /\ l.job \in Jobs /\ l.token \in Tokens
  BY DEF LoopOK, LoopType, LoopPCs
<1>2. loop' = [l EXCEPT !.outcome = result]
  BY DEF Concludes, LoopOK
<1> HIDE DEF l
<1> QED BY <1>1, <1>2 DEF LoopOK, LoopType

\* Processor.Reconcile answers with one of the store's outcomes.
LEMMA ConclusionType == \A r \in Runs : Conclusion(r) \in Outcomes
<1>1. ASSUME NEW r \in Runs, NEW boundary, NEW authoritative
      PROVE  RecoveredExecutionOutcome(r, boundary, authoritative) \in Outcomes
  BY DEF RecoveredExecutionOutcome, Outcomes
<1> QED BY <1>1 DEF Conclusion, Outcomes

IInv == TypeOK /\ FreshRuns

-----------------------------------------------------------------------------
(* Every step of a worker.                                                  *)

\* Coordinator.process up to the engine: registration, Lifecycle.Running and
\* the session.
LEMMA StartingStep ==
    ASSUME IInv, NEW t \in Tokens,
           \/ ProcessRegisters(t) \/ ProcessStarts(t) \/ ProcessAttaches(t)
           \/ ProcessCreatesSession(t) \/ ProcessCannotPrepare(t),
           UNCHANGED <<env, loop>>
    PROVE  Good /\ ProcessType'
<1> USE DEF IInv, TypeOK
<1>0. TablesInv /\ EnvOK /\ WorkersOK /\ LoopOK
  BY ProcessTypeParts DEF TablesInv
<1>1. EnvOK' /\ LoopOK'
  BY <1>0 DEF ProcessRegisters, ProcessStarts, ProcessAttaches,
              ProcessCreatesSession, ProcessCannotPrepare, env, EnvOK, LoopOK
<1>2. worker[t].pc # "idle" /\ worker[t].job \in Jobs /\ RunOf(t) \in Runs
  <2>1. worker[t].pc # "idle"
    BY DEF ProcessRegisters, ProcessStarts, ProcessAttaches,
           ProcessCreatesSession, ProcessCannotPrepare
  <2> QED BY <1>0, <2>1, JobRunIsRun DEF WorkersOK, RunOf
<1>3. Good
  BY <1>0, <1>2, UnchangedTablesGood, TransitionAdmittedJobGood,
     CreateExecutionSessionGood
     DEF ProcessRegisters, ProcessStarts, ProcessAttaches,
         ProcessCreatesSession, ProcessCannotPrepare
<1>4. WorkersOK'
  <2>1. CASE ProcessRegisters(t)
    BY <1>0, <1>2, <2>1 DEF ProcessRegisters, WorkersOK, WorkerType, WorkerPCs
  <2>2. CASE ProcessStarts(t)
    BY <1>0, <1>2, <2>2, GotoOK, GoneOK DEF ProcessStarts, WorkerPCs
  <2>3. CASE ProcessAttaches(t) \/ ProcessCreatesSession(t)
    BY <1>0, <1>2, <2>3, GotoOK DEF ProcessAttaches, ProcessCreatesSession, WorkerPCs
  <2>4. CASE ProcessCannotPrepare(t)
    BY <1>0, <1>2, <2>4, ReturnsOK DEF ProcessCannotPrepare, RunStatuses, Terminal
  <2> QED BY <2>1, <2>2, <2>3, <2>4
<1> QED BY <1>1, <1>3, <1>4, ProcessTypePartsNext

\* The engine asks and is answered.
LEMMA AskingStep ==
    ASSUME IInv, NEW t \in Tokens, NEW q \in Questions,
           EngineAsks(t, q) \/ EngineResolves(t, q) \/ EngineAsksAndLeaves(t, q),
           UNCHANGED <<env, loop>>
    PROVE  Good /\ ProcessType'
<1> USE DEF IInv, TypeOK
<1>0. TablesInv /\ EnvOK /\ WorkersOK /\ LoopOK
  BY ProcessTypeParts DEF TablesInv
<1>1. EnvOK' /\ LoopOK'
  BY <1>0 DEF EngineAsks, EngineResolves, EngineAsksAndLeaves, env, EnvOK, LoopOK
<1>2. Good
  BY <1>0, UnchangedTablesGood, OpenInteractiveQuestionGood,
     ResolveInteractiveQuestionGood, CreateQuestionGood
     DEF EngineAsks, EngineResolves, EngineAsksAndLeaves
<1>3. WorkersOK'
  <2>1. CASE EngineAsks(t, q) \/ EngineResolves(t, q)
    BY <1>0, <2>1 DEF EngineAsks, EngineResolves, WorkersOK
  <2>2. CASE EngineAsksAndLeaves(t, q)
    BY <1>0, <2>2, ReturnsOK DEF EngineAsksAndLeaves, RunStatuses, Active
  <2> QED BY <2>1, <2>2
<1> QED BY <1>1, <1>2, <1>3, ProcessTypePartsNext

\* The engine delegates, records the handoff, completes, stops or fails.
LEMMA EngineStep ==
    ASSUME IInv, NEW t \in Tokens,
           \/ \E c \in Runs : EngineDelegates(t, c)
           \/ EngineRecordsHandoff(t) \/ EngineCompletes(t)
           \/ EngineStops(t) \/ EngineFails(t),
           UNCHANGED <<env, loop>>
    PROVE  Good /\ ProcessType'
<1> USE DEF IInv, TypeOK
<1>0. TablesInv /\ EnvOK /\ WorkersOK /\ LoopOK
  BY ProcessTypeParts DEF TablesInv
<1>1. EnvOK' /\ LoopOK'
  BY <1>0 DEF EngineDelegates, EngineRecordsHandoff, EngineCompletes,
              EngineStops, EngineFails, NativeAfterEnd, env, EnvOK, LoopOK
<1>2. worker[t].pc # "idle" /\ worker[t].job \in Jobs /\ RunOf(t) \in Runs
  <2>1. worker[t].pc # "idle"
    BY DEF EngineDelegates, EngineRecordsHandoff, EngineCompletes, EngineStops, EngineFails
  <2> QED BY <1>0, <2>1, JobRunIsRun DEF WorkersOK, RunOf
<1>3. CASE \E c \in Runs : EngineDelegates(t, c)
  <2>1. PICK c \in Runs : EngineDelegates(t, c)
    BY <1>3
  <2>2. Good
    <3>1. CASE RequestDelegation(c)
      BY <1>0, <3>1, CreateQueuedRunGood DEF RequestDelegation, WaitReasons
    <3>2. CASE UNCHANGED tables
      BY <1>0, <3>2, UnchangedTablesGood
    <3> QED BY <2>1, <3>1, <3>2 DEF EngineDelegates
  <2>3. WorkersOK'
    <3> DEFINE w == [worker[t] EXCEPT !.pc = "delegating"]
    <3>1. w \in WorkerType /\ w.pc = "delegating" /\ w.job \in Jobs
      BY <1>0, <1>2 DEF WorkersOK, WorkerType, WorkerPCs
    <3>2. worker' = [worker EXCEPT ![t] = [w EXCEPT !.child = c]] /\ UNCHANGED active
      BY <1>0, <2>1 DEF EngineDelegates, WorkersOK
    <3> HIDE DEF w
    <3>3. /\ [w EXCEPT !.child = c] \in WorkerType
          /\ [w EXCEPT !.child = c].child \in Runs
          /\ [w EXCEPT !.child = c].pc = "delegating"
          /\ [w EXCEPT !.child = c].job \in Jobs
      BY <3>1 DEF WorkerType
    <3> QED BY <1>0, <3>2, <3>3 DEF WorkersOK
  <2> QED BY <1>1, <2>2, <2>3, ProcessTypePartsNext
<1>4. CASE EngineRecordsHandoff(t)
  <2>1. worker[t].child \in Runs
    BY <1>0, <1>4 DEF EngineRecordsHandoff, WorkersOK
  <2>2. Good
    BY <1>0, <1>2, <1>4, <2>1, RecordGood DEF EngineRecordsHandoff, EventTypes
  <2>3. WorkersOK'
    <3>1. CASE UNCHANGED <<worker, active>>
      BY <1>0, <3>1 DEF WorkersOK
    <3>2. CASE Goto(t, "stopping")
      BY <1>0, <1>2, <3>2, GotoOK DEF WorkerPCs
    <3> QED BY <1>4, <3>1, <3>2 DEF EngineRecordsHandoff
  <2> QED BY <1>1, <2>2, <2>3, ProcessTypePartsNext
<1>5. CASE EngineCompletes(t)
  <2>1. Good
    BY <1>0, <1>2, <1>5, RecordGood DEF EngineCompletes, EventTypes
  <2>2. WorkersOK'
    BY <1>0, <1>2, <1>5, GotoOK DEF EngineCompletes, WorkerPCs
  <2> QED BY <1>1, <2>1, <2>2, ProcessTypePartsNext
<1>6. CASE EngineStops(t) \/ EngineFails(t)
  <2>1. Good
    <3>1. CASE SessionEnds(RunOf(t), "CANCELLED")
      <4>1. UNCHANGED <<unchangedButSession, events>> /\ "CANCELLED" \in Terminal
        BY <1>6 DEF EngineStops, EngineFails, Terminal
      <4> QED BY <1>0, <1>2, <3>1, <4>1, SessionEndsGood
    <3>2. CASE UNCHANGED <<live, ended, native>>
      <4>1. UNCHANGED tables
        BY <1>6, <3>2 DEF EngineStops, EngineFails, tables, unchangedButSession
      <4> QED BY <1>0, <4>1, UnchangedTablesGood
    <3> QED BY <1>6, <3>1, <3>2 DEF EngineStops, EngineFails
  <2>2. WorkersOK'
    BY <1>0, <1>2, <1>6, GotoOK DEF EngineStops, EngineFails, WorkerPCs
  <2> QED BY <1>1, <2>1, <2>2, ProcessTypePartsNext
<1> QED BY <1>3, <1>4, <1>5, <1>6

\* Process returns, and process persists what it returned.
LEMMA FinishingStep ==
    ASSUME IInv, NEW t \in Tokens,
           \/ ProcessFails(t) \/ ProcessSucceeds(t) \/ ProcessHandsOver(t)
           \/ ProcessCannotFinish(t) \/ ProcessCancelled(t)
           \/ PersistResult(t) \/ GivesUp(t) \/ RecordCancellation(t),
           UNCHANGED <<env, loop>>
    PROVE  Good /\ ProcessType'
<1> USE DEF IInv, TypeOK
<1>0. TablesInv /\ EnvOK /\ WorkersOK /\ LoopOK
  BY ProcessTypeParts DEF TablesInv
<1>1. EnvOK' /\ LoopOK'
  BY <1>0 DEF ProcessFails, ProcessSucceeds, ProcessHandsOver,
              ProcessCannotFinish, ProcessCancelled, PersistResult, GivesUp,
              RecordCancellation, env, EnvOK, LoopOK
<1>2. worker[t].pc # "idle" => worker[t].job \in Jobs /\ RunOf(t) \in Runs
  BY <1>0, JobRunIsRun DEF WorkersOK, RunOf
<1>3. CASE ProcessFails(t)
  <2>1. Good
    BY <1>0, <1>2, <1>3, RecordGood, UnchangedTablesGood DEF ProcessFails, EventTypes
  <2>2. WorkersOK'
    BY <1>0, <1>3, ReturnsOK, GoneOK DEF ProcessFails, RunStatuses, Terminal
  <2> QED BY <1>1, <2>1, <2>2, ProcessTypePartsNext
<1>4. CASE ProcessSucceeds(t) \/ ProcessCancelled(t)
  <2>1. Good
    BY <1>0, <1>4, UnchangedTablesGood DEF ProcessSucceeds, ProcessCancelled
  <2>2. WorkersOK'
    BY <1>0, <1>4, ReturnsOK
       DEF ProcessSucceeds, ProcessCancelled, RunStatuses, Terminal, Active
  <2> QED BY <1>1, <2>1, <2>2, ProcessTypePartsNext
<1>5. CASE ProcessHandsOver(t)
  <2>1. worker[t].child \in Runs
    BY <1>0, <1>5 DEF ProcessHandsOver, WorkersOK, WorkerType
  <2>2. Good
    BY <1>0, <1>5, <2>1, MarkHandoffReadyGood DEF ProcessHandsOver
  <2>3. WorkersOK'
    BY <1>0, <1>5, ReturnsOK DEF ProcessHandsOver, RunStatuses, Active
  <2> QED BY <1>1, <2>2, <2>3, ProcessTypePartsNext
<1>6. CASE ProcessCannotFinish(t)
  <2>1. Good
    BY <1>0, <1>2, <1>6, RecordGood DEF ProcessCannotFinish, EventTypes
  <2>2. WorkersOK'
    BY <1>0, <1>6, ReturnsOK DEF ProcessCannotFinish, RunStatuses, Terminal
  <2> QED BY <1>1, <2>1, <2>2, ProcessTypePartsNext
<1>7. CASE PersistResult(t) \/ GivesUp(t)
  <2>1. Good
    BY <1>0, <1>2, <1>7, TransitionAdmittedJobGood, UnchangedTablesGood
       DEF PersistResult, GivesUp
  <2>2. WorkersOK'
    BY <1>0, <1>7, GoneOK DEF PersistResult, GivesUp
  <2> QED BY <1>1, <2>1, <2>2, ProcessTypePartsNext
<1>8. CASE RecordCancellation(t)
  <2>1. WorkersOK' /\ worker[t].pc # "idle"
    BY <1>0, <1>8 DEF RecordCancellation, WorkersOK
  <2>2. Good
    BY <1>0, <1>2, <1>8, <2>1, RecordGood DEF RecordCancellation, EventTypes
  <2> QED BY <1>1, <2>1, <2>2, ProcessTypePartsNext
<1> QED BY <1>3, <1>4, <1>5, <1>6, <1>7, <1>8
=============================================================================
