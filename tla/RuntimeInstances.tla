--------------------------- MODULE RuntimeInstances ---------------------------
(***************************************************************************)
(* The managed compute of one Workspace/Runtime pair                       *)
(* (app/runtime_instances.go, runtime_acquire.go, runtime_reconcile.go and *)
(* the Docker implementation): Runtime Instance rows, the container behind *)
(* each row, and workers that acquire an instance under the distributed    *)
(* acquisition lock and later stop and destroy it WITHOUT that lock.  A    *)
(* worker whose claim on the Run was lost still cleans up; StaleCleanup    *)
(* says whether that may overlap an acquisition by the next claim.  Each   *)
(* database statement and each Docker call is a step; the server may crash *)
(* between any two, which releases the lock with its connection, and       *)
(* starts again by reconciling every unsettled row.                        *)
(***************************************************************************)
EXTENDS Naturals, FiniteSets, FiniteSetsExt

CONSTANTS
    RtWorkers,          \* worker goroutines that acquire and release compute
    StaleCleanup,       \* may the cleanup of a lost claim overlap an acquisition?
    MaxInstances,       \* bound: rows created for the pair
    MaxCompFaults       \* bound: crashes, failed Docker calls, dying containers

ASSUME RtBounds == MaxInstances \in Nat \ {0} /\ MaxCompFaults \in Nat
                   /\ StaleCleanup \in BOOLEAN

VARIABLES
    rtRow,              \* instance |-> [status, ext]; "absent" before the insert
    box,                \* instance |-> its container
    rtLock,             \* the acquisition lock: its holder, or NoWorker
    rtPc,               \* worker |-> [at, inst, seen, after]
    compFaults

rtVars == <<rtRow, box, rtLock, rtPc, compFaults>>

Instances == 1..MaxInstances
NoWorker == "no worker"
RtStates == {"PROVISIONING", "STARTING", "RUNNING", "STOPPING", "STOPPED", "FAILED", "DESTROYED"}
Acquirable == {"PROVISIONING", "STARTING", "RUNNING", "STOPPING", "STOPPED"}

\* runtime.ValidateTransition: judged on the caller's copy of the row
ValidTransition(from, to) ==
    \/ from = to
    \/ to \in CASE from = "PROVISIONING" -> {"STARTING", "FAILED", "DESTROYED"}
                [] from = "STARTING" -> {"RUNNING", "FAILED", "STOPPING"}
                [] from = "RUNNING" -> {"STOPPING", "FAILED"}
                [] from = "STOPPING" -> {"STOPPED", "FAILED"}
                [] from = "FAILED" -> {"STOPPING", "STOPPED", "DESTROYED"}
                [] from = "STOPPED" -> {"STARTING", "DESTROYED"}
                [] OTHER -> {}

\* docker inspectionFromContainer; a container that is gone is ErrNotFound,
\* which reconciliation records as FAILED
Observed(i) ==
    CASE box[i] = "created" -> "PROVISIONING"
      [] box[i] = "running" -> "RUNNING"
      [] box[i] = "exited" -> "STOPPED"
      [] OTHER -> "FAILED"

Idle == [at |-> "idle", inst |-> 0, seen |-> "none", after |-> "none"]

RuntimeInit ==
    /\ rtRow = [i \in Instances |-> [status |-> "absent", ext |-> FALSE]]
    /\ box = [i \in Instances |-> "none"]
    /\ rtLock = NoWorker
    /\ rtPc = [w \in RtWorkers |-> Idle]
    /\ compFaults = 0

Goto(w, at) == rtPc' = [rtPc EXCEPT ![w].at = at]

\* Acquire returns, with or without an instance: the deferred lock release
Returns(w, at) ==
    /\ rtPc' = [rtPc EXCEPT ![w] = IF at = "held" THEN [@ EXCEPT !.at = "held"] ELSE Idle]
    /\ rtLock' = NoWorker

\* updateState: the write is unconditional, only the transition from the
\* caller's copy is validated
WriteState(w, to, next, refused) ==
    LET i == rtPc[w].inst IN
    IF ValidTransition(rtPc[w].seen, to)
    THEN /\ rtRow' = [rtRow EXCEPT ![i].status = to]
         /\ rtPc' = [rtPc EXCEPT ![w].at = next, ![w].seen = to]
    ELSE /\ UNCHANGED rtRow
         /\ Goto(w, refused)

CleaningUp == {"stop", "stopping", "halt", "stopped", "destroy", "remove", "removed"}

AcquireFree(w) ==
    /\ rtPc[w].at = "idle"
    /\ ~StaleCleanup => \A v \in RtWorkers : rtPc[v].at \notin CleaningUp
    /\ rtLock' = w
    /\ Goto(w, "list")
    /\ UNCHANGED <<rtRow, box, compFaults>>

\* Acquire: take the lock, list the pair's instances, newest first
AcquireLock(w) ==
    /\ rtPc[w].at = "idle" /\ rtLock = NoWorker
    /\ ~StaleCleanup => \A v \in RtWorkers : rtPc[v].at \notin CleaningUp
    /\ rtLock' = w
    /\ Goto(w, "list")
    /\ UNCHANGED <<rtRow, box, compFaults>>

ListNewest(w) ==
    LET usable == {i \in Instances : rtRow[i].status \in Acquirable} IN
    /\ rtPc[w].at = "list"
    /\ rtPc' = [rtPc EXCEPT ![w] =
         IF usable = {}
         THEN [@ EXCEPT !.at = "insert"]
         ELSE LET i == Max(usable) IN
              [at |-> CASE rtRow[i].status = "RUNNING" -> "inspect"
                        [] rtRow[i].status = "STOPPED" -> "load"
                        [] OTHER -> "reconcile",
               inst |-> i, seen |-> rtRow[i].status, after |-> "reuse"]]
    /\ UNCHANGED <<rtRow, box, rtLock, compFaults>>

\* a RUNNING row is reused only while its container runs
InspectRunning(w) ==
    /\ rtPc[w].at = "inspect"
    /\ IF box[rtPc[w].inst] = "running" /\ rtRow[rtPc[w].inst].ext
       THEN Returns(w, "held") ELSE Goto(w, "reconcile") /\ UNCHANGED rtLock
    /\ UNCHANGED <<rtRow, box, compFaults>>

\* reconcile: inspect by the recorded identity, or recover by the
\* deterministic name; the observation overwrites the row, except DESTROYED
Reconciled(i, r) ==
    IF r.status = "DESTROYED" THEN r
    ELSE [status |-> Observed(i), ext |-> r.ext \/ box[i] \notin {"none", "gone"}]

\* reconcileRuntimeForAcquisition
ReconcileForAcquisition(w) ==
    LET i == rtPc[w].inst
        r == Reconciled(i, rtRow[i]) IN
    /\ rtPc[w].at = "reconcile"
    /\ rtRow' = [rtRow EXCEPT ![i] = r]
    /\ \/ r.status = "RUNNING" /\ Returns(w, "held")
       \/ /\ r.status = "STOPPED"
          /\ rtPc' = [rtPc EXCEPT ![w].at = "load", ![w].after = "fresh"]
          /\ UNCHANGED rtLock
       \/ r.status \in {"FAILED", "DESTROYED"} /\ Goto(w, "list") /\ UNCHANGED rtLock
       \/ r.status = "PROVISIONING" /\ Returns(w, "error")
    /\ UNCHANGED <<box, compFaults>>

\* Create: the row is committed before the container exists ...
InsertInstance(w) ==
    /\ rtPc[w].at = "insert"
    /\ \E i \in Instances :
         /\ \A j \in Instances : (rtRow[j].status = "absent") <=> (j >= i)
         /\ rtRow' = [rtRow EXCEPT ![i].status = "PROVISIONING"]
         /\ rtPc' = [rtPc EXCEPT ![w] = [at |-> "create", inst |-> i,
                                         seen |-> "PROVISIONING", after |-> "fresh"]]
    /\ UNCHANGED <<box, rtLock, compFaults>>

\* ... the container is created under the instance's name, or Docker refuses
\* and failInstance records FAILED ...
CreateContainer(w) ==
    LET i == rtPc[w].inst IN
    /\ rtPc[w].at = "create"
    /\ \/ /\ box' = [box EXCEPT ![i] = "created"]
          /\ Goto(w, "record")
          /\ UNCHANGED <<rtRow, rtLock, compFaults>>
       \/ /\ compFaults < MaxCompFaults /\ compFaults' = compFaults + 1
          /\ rtRow' = [rtRow EXCEPT ![i].status = "FAILED"]
          /\ Returns(w, "error")
          /\ UNCHANGED box

\* ... and then its identity recorded; when that write fails the container
\* is destroyed again
RecordIdentity(w) ==
    LET i == rtPc[w].inst IN
    /\ rtPc[w].at = "record"
    /\ \/ /\ rtRow' = [rtRow EXCEPT ![i] = [status |-> "PROVISIONING", ext |-> TRUE]]
          /\ Goto(w, "load")
          /\ UNCHANGED <<box, rtLock, compFaults>>
       \/ /\ compFaults < MaxCompFaults /\ compFaults' = compFaults + 1
          /\ box' = [box EXCEPT ![i] = "gone"]
          /\ Returns(w, "error")
          /\ UNCHANGED rtRow

\* Start: read the row, record STARTING
StartLoad(w) ==
    LET i == rtPc[w].inst IN
    /\ rtPc[w].at = "load"
    /\ \/ rtRow[i].ext /\ rtRow[i].status = "RUNNING" /\ Returns(w, "held")
       \/ (~rtRow[i].ext \/ rtRow[i].status = "DESTROYED") /\ Returns(w, "error")
       \/ /\ rtRow[i].ext /\ rtRow[i].status \notin {"RUNNING", "DESTROYED"}
          /\ rtPc' = [rtPc EXCEPT ![w].at = "starting", ![w].seen = rtRow[i].status]
          /\ UNCHANGED rtLock
    /\ UNCHANGED <<rtRow, box, compFaults>>

StartWrite(w) ==
    /\ rtPc[w].at = "starting"
    /\ IF ValidTransition(rtPc[w].seen, "STARTING")
       THEN WriteState(w, "STARTING", "boot", "idle") /\ UNCHANGED rtLock
       ELSE Returns(w, "error") /\ UNCHANGED rtRow
    /\ UNCHANGED <<box, compFaults>>

\* implementation.Start: starts a created or exited container; a missing one
\* is ErrNotFound, after which a reuse reconciles and a fresh start returns
StartContainer(w) ==
    LET i == rtPc[w].inst IN
    /\ rtPc[w].at = "boot"
    /\ \/ /\ box[i] \in {"created", "exited", "running"}
          /\ box' = [box EXCEPT ![i] = "running"]
          /\ Goto(w, "observe")
          /\ UNCHANGED <<rtRow, rtLock, compFaults>>
       \/ /\ \/ box[i] \in {"none", "gone"} /\ UNCHANGED compFaults
             \/ /\ box[i] \in {"created", "exited"}
                /\ compFaults < MaxCompFaults /\ compFaults' = compFaults + 1
          /\ rtRow' = [rtRow EXCEPT ![i].status = "FAILED"]
          /\ IF box[i] \in {"none", "gone"} /\ rtPc[w].after = "reuse"
             THEN Goto(w, "reconcile") /\ UNCHANGED rtLock ELSE Returns(w, "error")
          /\ UNCHANGED box

\* Start's inspection decides between RUNNING and FAILED
StartObserved(w) ==
    LET i == rtPc[w].inst IN
    /\ rtPc[w].at = "observe"
    /\ rtRow' = [rtRow EXCEPT ![i].status = IF box[i] = "running" THEN "RUNNING" ELSE "FAILED"]
    /\ Returns(w, IF box[i] = "running" THEN "held" ELSE "error")
    /\ UNCHANGED <<box, compFaults>>

\* cleanupRuntime at the end of the Run (or of a lost claim): Stop ...
StopLoad(w) ==
    LET i == rtPc[w].inst
        after == IF rtPc[w].at = "held" THEN "destroy" ELSE "remove" IN
    /\ rtPc[w].at \in {"held", "stop"}
    /\ ~StaleCleanup => (rtPc[w].at = "stop" \/ rtLock = NoWorker)
    /\ rtPc' = [rtPc EXCEPT ![w] =
         [at |-> IF rtRow[i].status \in {"STOPPED", "DESTROYED", "PROVISIONING"}
                 THEN after ELSE "stopping",
          inst |-> i, seen |-> rtRow[i].status, after |-> after]]
    /\ UNCHANGED <<rtRow, box, rtLock, compFaults>>

StopWrite(w) ==
    /\ rtPc[w].at = "stopping"
    /\ WriteState(w, "STOPPING", "halt", rtPc[w].after)
    /\ UNCHANGED <<box, rtLock, compFaults>>

StopContainer(w) ==
    LET i == rtPc[w].inst IN
    /\ rtPc[w].at = "halt"
    /\ box' = [box EXCEPT ![i] = IF @ = "running" THEN "exited" ELSE @]
    /\ Goto(w, "stopped")
    /\ UNCHANGED <<rtRow, rtLock, compFaults>>

StopRecorded(w) ==
    /\ rtPc[w].at = "stopped"
    /\ WriteState(w, "STOPPED", rtPc[w].after, rtPc[w].after)
    /\ UNCHANGED <<box, rtLock, compFaults>>

\* ... then Destroy, which stops a live row first
DestroyLoad(w) ==
    LET i == rtPc[w].inst IN
    /\ rtPc[w].at = "destroy"
    /\ rtPc' = [rtPc EXCEPT ![w] =
         CASE rtRow[i].status = "DESTROYED" -> Idle
           [] rtRow[i].status \in {"STARTING", "RUNNING", "STOPPING"} ->
                [@ EXCEPT !.at = "stop", !.seen = rtRow[i].status]
           [] OTHER -> [@ EXCEPT !.at = "remove", !.seen = rtRow[i].status]]
    /\ UNCHANGED <<rtRow, box, rtLock, compFaults>>

RemoveContainer(w) ==
    LET i == rtPc[w].inst IN
    /\ rtPc[w].at = "remove"
    /\ box' = [box EXCEPT ![i] = "gone"]
    /\ Goto(w, "removed")
    /\ UNCHANGED <<rtRow, rtLock, compFaults>>

DestroyRecorded(w) ==
    /\ rtPc[w].at = "removed"
    /\ rtRow' = [rtRow EXCEPT ![rtPc[w].inst].status =
                   IF ValidTransition(rtPc[w].seen, "DESTROYED") THEN "DESTROYED" ELSE @]
    /\ rtPc' = [rtPc EXCEPT ![w] = Idle]
    /\ UNCHANGED <<box, rtLock, compFaults>>

\* a container's process ends by itself
ContainerExits(i) ==
    /\ box[i] = "running" /\ compFaults < MaxCompFaults
    /\ box' = [box EXCEPT ![i] = "exited"]
    /\ compFaults' = compFaults + 1
    /\ UNCHANGED <<rtRow, rtLock, rtPc>>

\* the server crashes and starts: ReconcileAllWithReporter runs before any
\* worker, over every row that is not settled
RestartServer ==
    /\ compFaults < MaxCompFaults
    /\ compFaults' = compFaults + 1
    /\ rtPc' = [w \in RtWorkers |-> Idle]
    /\ rtLock' = NoWorker
    /\ rtRow' = [i \in Instances |->
         IF rtRow[i].status \in Acquirable \ {"STOPPED"} THEN Reconciled(i, rtRow[i]) ELSE rtRow[i]]
    /\ UNCHANGED box

AcquireStep(w) ==
    \/ ListNewest(w) \/ InspectRunning(w) \/ ReconcileForAcquisition(w)
    \/ InsertInstance(w) \/ CreateContainer(w) \/ RecordIdentity(w)
    \/ StartLoad(w) \/ StartWrite(w) \/ StartContainer(w) \/ StartObserved(w)

CleanupStep(w) ==
    \/ StopLoad(w) \/ StopWrite(w) \/ StopContainer(w) \/ StopRecorded(w)
    \/ DestroyLoad(w) \/ RemoveContainer(w) \/ DestroyRecorded(w)

RuntimeNext ==
    \/ \E w \in RtWorkers : AcquireLock(w) \/ AcquireStep(w) \/ CleanupStep(w)
    \/ \E i \in Instances : ContainerExits(i)
    \/ RestartServer

RuntimeSpec == RuntimeInit /\ [][RuntimeNext]_rtVars

-----------------------------------------------------------------------------
\* Rows hold states of the lifecycle and containers states Docker reports.
RuntimeTypeOK ==
    /\ rtRow \in [Instances -> [status : RtStates \cup {"absent"}, ext : BOOLEAN]]
    /\ box \in [Instances -> {"none", "created", "running", "exited", "gone"}]
    /\ rtLock \in RtWorkers \cup {NoWorker}
    /\ compFaults \in 0..MaxCompFaults

(* Acquire's lock covers reuse, crash reconciliation, provisioning and the *)
(* start, so concurrent acquisitions, exiting containers and restarts      *)
(* never leave two containers of one Workspace/Runtime pair running, as    *)
(* long as a claim outlives its cleanup (~StaleCleanup).                   *)
OneRunningContainer ==
    Cardinality({i \in Instances : box[i] = "running"}) <= 1

(* A row says DESTROYED only when its container is gone: nothing that the  *)
(* control plane has forgotten still runs.                                 *)
DestroyedIsGone ==
    \A i \in Instances : rtRow[i].status = "DESTROYED" => box[i] \in {"none", "gone"}

\* RuntimeSafe: at most one container of the runtime runs, and a row that says
\* DESTROYED has none left, whatever call to Docker failed or timed out.
RuntimeSafe == RuntimeTypeOK /\ OneRunningContainer /\ DestroyedIsGone
=============================================================================
