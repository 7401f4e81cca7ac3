--------------------------- MODULE RunnerGenerations ---------------------------
(***************************************************************************)
(* Who may say whether the runner of a Runtime Instance is available       *)
(* (runner/manager.go, app/runtime_runner.go, store/postgres/              *)
(* runtime_instances.go).  Every server process has a manager that keeps   *)
(* at most one connection to the instance's runner; a connection claims a  *)
(* durable generation before it dials, and its status reports are fenced   *)
(* by that generation and by the lifecycle status read just before.  A     *)
(* replaced server, a late watcher and a slow report all write the same    *)
(* row.  The execution-session service writes it without any fence.        *)
(***************************************************************************)
EXTENDS Naturals

CONSTANTS
    Managers,           \* server processes, the replaced one included
    MaxDials            \* bound: connection attempts

ASSUME GenBounds == MaxDials \in Nat \ {0}

VARIABLES
    life,               \* lifecycle status of the instance: RUNNING, then STOPPED
    gen,                \* runner_generation
    avail,              \* runner_status
    conn,               \* attempt |-> [mgr, gen, st, alive, seen]
    mgr                 \* manager |-> [client, gen, dialling, closed]

genVars == <<life, gen, avail, conn, mgr>>

Dials == 1..MaxDials
Unused == [mgr |-> "none", gen |-> 0, st |-> "unused", alive |-> FALSE, seen |-> "none"]

GenInit ==
    /\ life = "RUNNING" /\ gen = 0 /\ avail = "CONNECTING"
    /\ conn = [c \in Dials |-> Unused]
    /\ mgr = [m \in Managers |-> [client |-> 0, gen |-> 0, dialling |-> FALSE, closed |-> FALSE]]

FencedByStatus(status, g, seen) == avail' = IF life = seen THEN status ELSE avail

\* UpdateRuntimeInstanceRunnerStatusGenerationIfStatus
FencedWrite(status, g, seen) ==
    avail' = IF gen = g /\ life = seen THEN status ELSE avail

\* Connect, first half: no live client and no attempt under way; claim the
\* next generation, which is refused when the instance is not RUNNING
ClaimConnection(m, c) ==
    /\ ~mgr[m].closed /\ ~mgr[m].dialling
    /\ mgr[m].client # 0 => ~conn[mgr[m].client].alive
    /\ conn[c] = Unused /\ \A d \in Dials : d < c => conn[d] # Unused
    /\ life = "RUNNING"
    /\ gen' = gen + 1 /\ avail' = "CONNECTING"
    /\ conn' = [conn EXCEPT ![c] = [@ EXCEPT !.mgr = m, !.gen = gen + 1, !.st = "claimed"]]
    /\ mgr' = [mgr EXCEPT ![m].dialling = TRUE]
    /\ UNCHANGED life

\* second half: dialRunnerStartup answered; the client is installed unless
\* the manager was closed meanwhile, the generation is remembered either way
DialReturns(c, ok) ==
    LET m == conn[c].mgr IN
    /\ conn[c].st = "claimed"
    /\ conn' = [conn EXCEPT ![c].alive = ok /\ ~mgr[m].closed,
                            ![c].st = IF mgr[m].closed THEN "over" ELSE IF ok THEN "up" ELSE "failed"]
    /\ mgr' = [mgr EXCEPT ![m].dialling = FALSE,
                          ![m].gen = IF conn[c].gen > @ THEN conn[c].gen ELSE @,
                          ![m].client = IF ok /\ ~mgr[m].closed THEN c ELSE @]
    /\ UNCHANGED <<life, gen, avail>>

\* SetRunnerStatusGeneration reads the lifecycle status ...
ReportReads(c) ==
    /\ conn[c].st \in {"up", "failed", "noticed"}
    /\ conn' = [conn EXCEPT ![c].seen = life,
                            ![c].st = CASE @ = "up" -> "reporting" [] OTHER -> "withdrawing"]
    /\ UNCHANGED <<life, gen, avail, mgr>>

\* ... and writes: READY or BUSY after a dial, and only then is the watcher
\* started; UNAVAILABLE after a failed dial or a noticed death
ReportWrites(c) ==
    /\ \/ /\ conn[c].st = "reporting"
          /\ \E status \in {"READY", "BUSY"} : FencedWrite(status, conn[c].gen, conn[c].seen)
          /\ conn' = [conn EXCEPT ![c].st = "watched"]
       \/ /\ conn[c].st = "withdrawing"
          /\ FencedWrite("UNAVAILABLE", conn[c].gen, conn[c].seen)
          /\ conn' = [conn EXCEPT ![c].st = "over"]
    /\ UNCHANGED <<life, gen, mgr>>

\* the transport breaks
ConnectionDies(c) ==
    /\ conn[c].alive
    /\ conn' = [conn EXCEPT ![c].alive = FALSE]
    /\ UNCHANGED <<life, gen, avail, mgr>>

\* watch: reports only a client that is still the manager's own, under the
\* generation the manager still holds
Watch(c) ==
    LET m == conn[c].mgr
        owned == mgr[m].client = c /\ mgr[m].gen = conn[c].gen IN
    /\ conn[c].st = "watched" /\ ~conn[c].alive
    /\ mgr' = [mgr EXCEPT ![m].client = IF owned THEN 0 ELSE @]
    /\ conn' = [conn EXCEPT ![c].st = IF owned /\ ~mgr[m].closed THEN "noticed" ELSE "over"]
    /\ UNCHANGED <<life, gen, avail>>

\* Manager.Reconcile, and the session service's unfenced
\* UpdateRuntimeInstanceRunnerStatus: only ever READY or BUSY
ReconcileReports(m) ==
    /\ mgr[m].client # 0 /\ ~mgr[m].closed
    /\ \E status \in {"READY", "BUSY"} : FencedWrite(status, mgr[m].gen, life)
    /\ UNCHANGED <<life, gen, conn, mgr>>

SessionServiceReports ==
    /\ avail' \in {"READY", "BUSY"}
    /\ UNCHANGED <<life, gen, conn, mgr>>

\* Manager.Close, when the server is replaced
CloseManager(m) ==
    /\ ~mgr[m].closed
    /\ mgr' = [mgr EXCEPT ![m].closed = TRUE]
    /\ conn' = [c \in Dials |-> IF mgr[m].client = c THEN [conn[c] EXCEPT !.alive = FALSE] ELSE conn[c]]
    /\ UNCHANGED <<life, gen, avail>>

\* RuntimeInstanceService.Stop, in the row
StopInstance ==
    /\ life = "RUNNING"
    /\ life' = "STOPPED" /\ avail' = "UNAVAILABLE"
    /\ UNCHANGED <<gen, conn, mgr>>

GenNext ==
    \/ \E m \in Managers : \/ \E c \in Dials : ClaimConnection(m, c)
                           \/ ReconcileReports(m)
                           \/ CloseManager(m)
    \/ \E c \in Dials : \/ \E ok \in BOOLEAN : DialReturns(c, ok)
                        \/ ReportReads(c) \/ ReportWrites(c)
                        \/ ConnectionDies(c) \/ Watch(c)
    \/ SessionServiceReports
    \/ StopInstance

GenSpec == GenInit /\ [][GenNext]_genVars

-----------------------------------------------------------------------------
\* Every variable has its type, and no connection or manager holds a generation
\* that the row has not handed out.
GenTypeOK ==
    /\ life \in {"RUNNING", "STOPPED"} /\ gen \in 0..MaxDials
    /\ avail \in {"CONNECTING", "READY", "BUSY", "UNAVAILABLE"}
    /\ \A m \in Managers : mgr[m].client \in 0..MaxDials /\ mgr[m].gen \in 0..gen
    /\ \A c \in Dials : conn[c].gen \in 0..gen

(* While the instance runs, the newest connection that is alive and has    *)
(* reported keeps the runner available in the row: no late watcher, failed *)
(* dial or replaced server marks a reachable runner unavailable.           *)
LiveOwnerIsAvailable ==
    \A c \in Dials :
        (conn[c].alive /\ conn[c].st = "watched" /\ conn[c].gen = gen /\ life = "RUNNING")
            => avail \in {"READY", "BUSY"}

(* A manager never abandons a live connection for another one: at most one *)
(* of its connections is alive.                                            *)
OneLiveConnection ==
    \A c, d \in Dials :
        (conn[c].alive /\ conn[d].alive /\ conn[c].mgr = conn[d].mgr) => c = d

\* GenerationsSafe: the watched connection of the current generation is never
\* shown as unavailable by a late write of an older one, and a manager keeps at
\* most one connection alive.
GenerationsSafe == GenTypeOK /\ LiveOwnerIsAvailable /\ OneLiveConnection
=============================================================================
