-------------------------- MODULE RedactionLeases --------------------------
(***************************************************************************)
(* Which values are masked in evidence and logs, and how long.  Preparing  *)
(* an execution registers its secret values for the run; the first started *)
(* execution's registration is kept for the whole run, a later one's until *)
(* its process has ended and its output is drained.  Evidence of a run is  *)
(* masked with the run's values, log lines with the union over all runs,   *)
(* which the registry caches.                                              *)
(*                                                                         *)
(* The value of an execution is the execution itself: what matters is      *)
(* whose values are in force when something is written.                    *)
(***************************************************************************)
EXTENDS Naturals, FiniteSets

CONSTANTS
    MaskRuns,      \* runs executing at the same time
    Executions     \* executions each run may start, numbered

VARIABLES
    registered,  \* Registry.runs: [values, references] of each run
    maskCache,   \* cacheValid, cachedValues
    retained,    \* runRedactions: the execution kept for the run, or 0
    execution,   \* each execution's progress
    processing,  \* whether the run's processor is between start and return
    logger       \* a log line: the phase of allState, and the mask obtained

maskVars == <<registered, maskCache, retained, execution, processing, logger>>

Values(r) == registered[r].values
ValueOf(r, e) == <<r, e>>
Unregistered == [values |-> {}, references |-> 0]
NotLogging == [at |-> "idle", mask |-> {}, owed |-> {}]

MaskInit ==
    /\ registered = [r \in MaskRuns |-> Unregistered]
    /\ maskCache = [valid |-> FALSE, values |-> {}]
    /\ retained = [r \in MaskRuns |-> 0]
    /\ execution = [r \in MaskRuns |-> [e \in Executions |-> "idle"]]
    /\ processing = [r \in MaskRuns |-> TRUE]
    /\ logger = NotLogging

-----------------------------------------------------------------------------
(* The registry.                                                           *)

RegisterReplaces(r, v) ==
    /\ registered' = [registered EXCEPT ![r].values = {v},
                                        ![r].references = @ + 1]
    /\ maskCache' = [valid |-> FALSE, values |-> {}]
Register(r, v) ==
    /\ registered' = [registered EXCEPT ![r].values = @ \cup {v},
                                        ![r].references = @ + 1]
    /\ maskCache' = [valid |-> FALSE, values |-> {}]

Release(r) ==
    /\ registered' = [registered EXCEPT ![r] =
          IF @.references > 1 THEN [@ EXCEPT !.references = @ - 1]
          ELSE Unregistered]
    /\ maskCache' = [valid |-> FALSE, values |-> {}]

-----------------------------------------------------------------------------
(* Executions.                                                             *)

(* Preparing resolves the secrets and registers them before anything is    *)
(* started with them.                                                      *)
Prepare(r, e) ==
    /\ processing[r] /\ execution[r][e] = "idle"
    /\ Register(r, ValueOf(r, e))
    /\ execution' = [execution EXCEPT ![r][e] = "prepared"]
    /\ UNCHANGED <<retained, processing, logger>>

(* The start fails: the registration is dropped on the way out.            *)
StartFails(r, e) ==
    /\ execution[r][e] = "prepared"
    /\ Release(r)
    /\ execution' = [execution EXCEPT ![r][e] = "over"]
    /\ UNCHANGED <<retained, processing, logger>>

(* The process runs; if the run keeps no registration yet it keeps this    *)
(* one, else the process will drop it.                                     *)
retainRunRedaction(r, e) ==
    /\ execution[r][e] = "prepared"
    /\ execution' = [execution EXCEPT ![r][e] =
          IF retained[r] = 0 THEN "running" ELSE "leased"]
    /\ retained' = [retained EXCEPT ![r] = IF @ = 0 THEN e ELSE @]
    /\ UNCHANGED <<registered, maskCache, processing, logger>>

(* The process ended and both streams are drained (SessionStreams models   *)
(* when).                                                                  *)
ProcessSettled(r, e) ==
    /\ execution[r][e] \in {"running", "leased"}
    /\ IF execution[r][e] = "leased" THEN Release(r)
       ELSE UNCHANGED <<registered, maskCache>>
    /\ execution' = [execution EXCEPT ![r][e] = "over"]
    /\ UNCHANGED <<retained, processing, logger>>

(* The processor returns; starts of its own are over by then.              *)
ReleaseRunRedaction(r) ==
    /\ processing[r] /\ \A e \in Executions : execution[r][e] # "prepared"
    /\ processing' = [processing EXCEPT ![r] = FALSE]
    /\ retained' = [retained EXCEPT ![r] = 0]
    /\ IF retained[r] # 0 THEN Release(r) ELSE UNCHANGED <<registered, maskCache>>
    /\ UNCHANGED <<execution, logger>>

-----------------------------------------------------------------------------
(* What is masked.                                                         *)

(* Values that may occur in what is written now: those of the execution    *)
(* the run's own lease stands for, and of executions with one of their own.*)
(* An execution that outlives its processor's return is not among them.    *)
InForce(r) == {ValueOf(r, e) : e \in {x \in Executions :
                  x = retained[r] \/ execution[r][x] = "leased"}}

(* allState: a read of the cache, then if it was not valid a rebuild under *)
(* the write lock, unless another goroutine rebuilt it first.              *)
AllValues == UNION {Values(r) : r \in MaskRuns}
AllInForce == UNION {InForce(r) : r \in MaskRuns}

ReadMaskCache ==
    /\ logger.at = "idle"
    /\ logger' = IF maskCache.valid
                 THEN [at |-> "masked", mask |-> maskCache.values, owed |-> AllInForce]
                 ELSE [at |-> "rebuild", mask |-> {}, owed |-> AllInForce]
    /\ UNCHANGED <<registered, maskCache, retained, execution, processing>>

allState ==
    /\ logger.at = "rebuild"
    /\ maskCache' = IF maskCache.valid THEN maskCache
                    ELSE [valid |-> TRUE, values |-> AllValues]
    /\ logger' = [at |-> "masked", mask |-> maskCache'.values, owed |-> AllInForce]
    /\ UNCHANGED <<registered, retained, execution, processing>>

LineWritten ==
    /\ logger.at = "masked"
    /\ logger' = NotLogging
    /\ UNCHANGED <<registered, maskCache, retained, execution, processing>>

MaskNext ==
    \/ \E r \in MaskRuns, e \in Executions :
          \/ Prepare(r, e)
          \/ StartFails(r, e)
          \/ retainRunRedaction(r, e)
          \/ ProcessSettled(r, e)
    \/ \E r \in MaskRuns : ReleaseRunRedaction(r)
    \/ ReadMaskCache
    \/ allState
    \/ LineWritten

MaskSpec == MaskInit /\ [][MaskNext]_maskVars

-----------------------------------------------------------------------------
(* Properties.                                                             *)

Holding(r) == {e \in Executions : execution[r][e] \in {"prepared", "leased"}}

(* Types: the reference count is the number of holders, so a run without   *)
(* a holder has no values registered and none stays behind.                *)
MaskTypeOK ==
    /\ \A r \in MaskRuns :
          /\ registered[r].references =
                Cardinality(Holding(r)) + (IF retained[r] = 0 THEN 0 ELSE 1)
          /\ registered[r].references = 0 => Values(r) = {}
          /\ retained[r] \in Executions \cup {0}
    /\ logger.at \in {"idle", "rebuild", "masked"}

(* Evidence written while a run is processed is masked with the values of  *)
(* every execution whose lease is in force, however starts, failures and   *)
(* ends of the executions interleave: releasing one takes no value of      *)
(* another away.                                                           *)
EvidenceIsMasked ==
    \A r \in MaskRuns : InForce(r) \subseteq Values(r)

(* A log line is masked with the values of every execution in force when   *)
(* its mask was taken: the cached union is never older than a registration.*)
LogIsMasked ==
    logger.at = "masked" => logger.owed \subseteq logger.mask

\* MasksSafe: every value in force for a run is masked in its evidence and in the
\* log, whichever executions come, go and overlap.
MasksSafe == MaskTypeOK /\ EvidenceIsMasked /\ LogIsMasked
=============================================================================
