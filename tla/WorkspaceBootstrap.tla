------------------------- MODULE WorkspaceBootstrap -------------------------
(***************************************************************************)
(* How an Issue's checkout comes to be: the server clones the Project's    *)
(* accepted checkout (workspace/project_materializer.go) into a temporary  *)
(* directory, pins the accepted revision, renames it into place, prepares  *)
(* it for the runtime and marks the row READY (workspace/materializer.go,  *)
(* project_backed.go).  Advisory locks serialise the workers, which may    *)
(* fail or die between any two steps (store/postgres/workspace_bootstrap.go)*)
(* Reviews move the accepted revision meanwhile; an agent works in a ready *)
(* checkout.  One Project with one Issue; revisions are numbers.           *)
(***************************************************************************)
EXTENDS Naturals, FiniteSets

CONSTANTS
    Bootstrappers,      \* workers that may prepare the Workspace
    MaxRevision,        \* bound: accepted revisions
    MaxBootFaults       \* bound: failures and deaths

ASSUME BootstrapBounds == /\ MaxRevision \in Nat \ {0} /\ MaxBootFaults \in Nat
                          /\ 0 \notin Bootstrappers

VARIABLES
    wsRow,              \* workspaces: bootstrap_status, base_revision (0: NULL)
    checkout,           \* the final path: head, base, prepared; head 0: nothing there
    wsTemps,            \* the temporary directories, by the worker that made them
    project,            \* the Project's checkout: accepted (0: none yet), temps
    wsLock, projectLock, \* the advisory locks: a worker, or 0
    boot,               \* the workers: pc, the revision read, the row as last read
    bootFaults

bootVars == <<wsRow, checkout, wsTemps, project, wsLock, projectLock, boot, bootFaults>>

NoCheckout == [head |-> 0, base |-> 0, prepared |-> FALSE]
NoWork == [pc |-> "idle", rev |-> 0, base |-> 0]
\* a commit an agent made on top of a base revision
Worked(base) == base + MaxRevision

BootstrapInit ==
    /\ wsRow = [status |-> "PENDING", base |-> 0]
    /\ checkout = NoCheckout
    /\ wsTemps = {}
    /\ project = [accepted |-> 0, temps |-> {}]
    /\ wsLock = 0 /\ projectLock = 0
    /\ boot = [w \in Bootstrappers |-> NoWork]
    /\ bootFaults = 0

BootGoto(w, pc) == boot' = [boot EXCEPT ![w].pc = pc]
Finish(w) == boot' = [boot EXCEPT ![w] = NoWork]

-----------------------------------------------------------------------------
\* validateReadyCheckout: there is a repository with a commit at the path
ValidCheckout == checkout.head # 0

\* EnsureIssueWorkspace and Ensure up to the Project's checkout: a READY row is
\* only validated, against what is on the disk
EnsureIssueWorkspace(w) ==
    /\ boot[w].pc = "idle"
    /\ IF wsRow.status = "READY" THEN UNCHANGED boot
       ELSE boot' = [boot EXCEPT ![w] = [pc |-> "project", rev |-> 0, base |-> wsRow.base]]
    /\ UNCHANGED <<wsRow, checkout, wsTemps, project, wsLock, projectLock, bootFaults>>

\* inspectExisting: the Project's checkout is there; its head is what is accepted
InspectExisting == project.accepted # 0
\* ProjectBackedMaterializer.Ensure: a row that is pinned keeps its pin
Accepted(w) ==
    boot' = [boot EXCEPT ![w].pc = "issue",
                         ![w].rev = IF boot[w].base # 0 THEN boot[w].base ELSE project.accepted]

\* EnsureProjectWorkspace under the Project's lock: remove what an interrupted
\* bootstrap left, then use the checkout or clone one
EnsureProjectWorkspace(w) ==
    /\ boot[w].pc = "project" /\ projectLock = 0
    /\ IF InspectExisting
       THEN /\ Accepted(w)
            /\ project' = [project EXCEPT !.temps = {}]
            /\ UNCHANGED projectLock
       ELSE /\ BootGoto(w, "cloning project")
            /\ project' = [project EXCEPT !.temps = {w}]
            /\ projectLock' = w
    /\ UNCHANGED <<wsRow, checkout, wsTemps, wsLock, bootFaults>>

\* ... the clone is renamed into place
PublishProject(w) ==
    /\ boot[w].pc = "cloning project"
    /\ project' = [accepted |-> 1, temps |-> project.temps \ {w}]
    /\ BootGoto(w, "project published")
    /\ UNCHANGED <<wsRow, checkout, wsTemps, wsLock, projectLock, bootFaults>>

\* ... prepared for the runtime, inspected, and the lock released
InspectProject(w) ==
    /\ boot[w].pc = "project published"
    /\ InspectExisting
    /\ Accepted(w)
    /\ projectLock' = 0
    /\ UNCHANGED <<wsRow, checkout, wsTemps, project, wsLock, bootFaults>>

\* an approved Review moves the accepted revision, under the Project's lock
ReviewAccepted ==
    /\ project.accepted \in 1..MaxRevision - 1 /\ projectLock = 0
    /\ project' = [project EXCEPT !.accepted = @ + 1]
    /\ UNCHANGED <<wsRow, checkout, wsTemps, wsLock, projectLock, boot, bootFaults>>

-----------------------------------------------------------------------------

\* AcquireWorkspaceBootstrapLock (a worker that waits too long gives up: Fails)
AcquireBootstrapLock(w) ==
    /\ boot[w].pc = "issue" /\ wsLock = 0
    /\ wsLock' = w

\* GetWorkspaceByIssue under the lock: an unpinned row takes the revision read
\* from the Project; a row another worker made READY is used as it is
ReadUnderLock(w) ==
    [boot EXCEPT ![w] = [pc |-> IF wsRow.status = "READY" THEN "unlock" ELSE "locked",
                         rev |-> IF wsRow.base # 0 THEN wsRow.base ELSE boot[w].rev,
                         base |-> wsRow.base]]

LockAndReload(w) ==
    /\ AcquireBootstrapLock(w)
    /\ boot' = ReadUnderLock(w)
    /\ UNCHANGED <<wsRow, checkout, wsTemps, project, projectLock, bootFaults>>

\* MarkWorkspaceBootstrapReady, MarkWorkspaceBootstrapPending and
\* MarkWorkspaceBootstrapFailed: a READY row is never rewritten
Ready(rev) == wsRow' = IF wsRow.status = "READY" THEN wsRow ELSE [status |-> "READY", base |-> rev]
Pending(rev) == wsRow' = IF wsRow.status = "READY" THEN wsRow ELSE [status |-> "PENDING", base |-> rev]
Failed == wsRow' = IF wsRow.status = "READY" THEN wsRow ELSE [wsRow EXCEPT !.status = "FAILED"]

\* recoverPublished: a checkout left by an interrupted bootstrap, at the
\* expected revision
Recoverable(w) == ValidCheckout /\ checkout.head = boot[w].rev
\* cleanupBootstrapTemps
CleanTemps == wsTemps' = {}

\* recoverPublished: the row is completed from what is on the disk
RecoverPublished(w) ==
    /\ boot[w].pc = "locked" /\ Recoverable(w)
    /\ CleanTemps
    /\ Ready(checkout.head)
    /\ BootGoto(w, "unlock")
    /\ UNCHANGED <<checkout, project, wsLock, projectLock, bootFaults>>

\* ... or nothing to recover: removeUnreadyFinal
RemoveUnreadyFinal(w) ==
    /\ boot[w].pc = "locked" /\ ~Recoverable(w)
    /\ CleanTemps
    /\ checkout' = NoCheckout
    /\ BootGoto(w, "unrecovered")
    /\ UNCHANGED <<wsRow, project, wsLock, projectLock, bootFaults>>

\* MarkWorkspaceBootstrapPending pins the revision before anything is cloned
MarkPending(w) ==
    /\ boot[w].pc = "unrecovered"
    /\ Pending(boot[w].rev)
    /\ wsTemps' = wsTemps \cup {w}
    /\ BootGoto(w, "cloning")
    /\ UNCHANGED <<checkout, project, wsLock, projectLock, bootFaults>>

PublishHead(w) ==
    /\ boot[w].pc = "cloning"
    /\ checkout' = [head |-> project.accepted, base |-> project.accepted, prepared |-> FALSE]
    /\ wsTemps' = wsTemps \ {w}
    /\ BootGoto(w, "published")
    /\ UNCHANGED <<wsRow, project, wsLock, projectLock, bootFaults>>

\* Clone, CheckoutRevision, CheckoutNewBranch, HeadRevision, Rename: the clone
\* is of the source as it is now, the checkout of the pinned revision
Publish(w) ==
    /\ boot[w].pc = "cloning" /\ w \in wsTemps
    /\ checkout' = [head |-> boot[w].rev, base |-> boot[w].rev, prepared |-> FALSE]
    /\ wsTemps' = wsTemps \ {w}
    /\ BootGoto(w, "published")
    /\ UNCHANGED <<wsRow, project, wsLock, projectLock, bootFaults>>

\* PreparePublishedWorkspace
Prepare(w) ==
    /\ boot[w].pc = "published"
    /\ checkout' = [checkout EXCEPT !.prepared = TRUE]
    /\ BootGoto(w, "prepared")
    /\ UNCHANGED <<wsRow, wsTemps, project, wsLock, projectLock, bootFaults>>

\* MarkWorkspaceBootstrapReady with the revision read before the rename
MarkReady(w) ==
    /\ boot[w].pc = "prepared"
    /\ Ready(boot[w].rev)
    /\ BootGoto(w, "unlock")
    /\ UNCHANGED <<checkout, wsTemps, project, wsLock, projectLock, bootFaults>>

\* the deferred Release
Release(w) ==
    /\ boot[w].pc = "unlock" /\ wsLock = w
    /\ wsLock' = 0
    /\ Finish(w)
    /\ UNCHANGED <<wsRow, checkout, wsTemps, project, projectLock, bootFaults>>

-----------------------------------------------------------------------------
HoldsProject == {"cloning project", "project published"}
UnderLock == {"locked", "unrecovered", "cloning", "published", "prepared"}

\* fail: a step fails.  Its own temporary directory goes; the row is marked
\* FAILED if the store can be reached, except that a failed MarkPending or
\* MarkReady leaves the row alone
StepFails(w, recorded) ==
    /\ boot[w].pc \in UnderLock /\ bootFaults < MaxBootFaults
    /\ bootFaults' = bootFaults + 1
    /\ wsTemps' = wsTemps \ {w}
    /\ recorded => boot[w].pc \notin {"unrecovered", "prepared"}
    /\ IF recorded THEN Failed ELSE UNCHANGED wsRow
    /\ BootGoto(w, "unlock")
    /\ UNCHANGED <<checkout, project, wsLock, projectLock>>

\* the Project's checkout cannot be made, or the lock is not had in time
EnsureFails(w) ==
    /\ boot[w].pc \in HoldsProject \cup {"project", "issue"} /\ bootFaults < MaxBootFaults
    /\ bootFaults' = bootFaults + 1
    /\ project' = [project EXCEPT !.temps = @ \ {w}]
    /\ projectLock' = IF projectLock = w THEN 0 ELSE projectLock
    /\ Finish(w)
    /\ UNCHANGED <<wsRow, checkout, wsTemps, wsLock>>

\* the process dies: its database session ends and with it its locks, what it
\* wrote to the disk stays
BootstrapperDies(w) ==
    /\ boot[w].pc # "idle" /\ bootFaults < MaxBootFaults
    /\ bootFaults' = bootFaults + 1
    /\ wsLock' = IF wsLock = w THEN 0 ELSE wsLock
    /\ projectLock' = IF projectLock = w THEN 0 ELSE projectLock
    /\ Finish(w)
    /\ UNCHANGED <<wsRow, checkout, wsTemps, project>>

\* an agent commits in a checkout whose row is READY
AgentCommits ==
    /\ wsRow.status = "READY" /\ checkout.head \in 1..MaxRevision
    /\ checkout' = [checkout EXCEPT !.head = Worked(checkout.base)]
    /\ UNCHANGED <<wsRow, wsTemps, project, wsLock, projectLock, boot, bootFaults>>

BootstrapStep(w) ==
    \/ EnsureProjectWorkspace(w) \/ PublishProject(w) \/ InspectProject(w)
    \/ LockAndReload(w) \/ RecoverPublished(w) \/ RemoveUnreadyFinal(w)
    \/ MarkPending(w) \/ Publish(w) \/ Prepare(w) \/ MarkReady(w) \/ Release(w)
BootstrapNext ==
    \/ \E w \in Bootstrappers :
          \/ EnsureIssueWorkspace(w) \/ BootstrapStep(w) \/ EnsureFails(w) \/ BootstrapperDies(w)
          \/ \E recorded \in BOOLEAN : StepFails(w, recorded)
    \/ ReviewAccepted \/ AgentCommits

BootstrapSpec == BootstrapInit /\ [][BootstrapNext]_bootVars
\* a worker that has begun goes on; a lock is granted to one of those waiting
BootstrapFairSpec == BootstrapSpec /\ \A w \in Bootstrappers : WF_bootVars(BootstrapStep(w))

-----------------------------------------------------------------------------
\* BootstrapTypeOK: the types; a worker at a step that needs a lock holds it.
BootstrapTypeOK ==
    /\ wsRow.status \in {"PENDING", "READY", "FAILED"} /\ wsRow.base \in 0..MaxRevision
    /\ wsTemps \subseteq Bootstrappers /\ project.temps \subseteq Bootstrappers
    /\ project.accepted \in 0..MaxRevision
    /\ \A w \in Bootstrappers : /\ boot[w].pc \in UnderLock \cup {"unlock"} => wsLock = w
                                /\ boot[w].pc \in HoldsProject => projectLock = w

\* ReadyIsOnDisk: a row that says READY has a checkout, and the base revision it
\* records is the one the checkout was made from, even when the worker that made
\* it died before it could say so and the accepted revision has moved on since
\* (recoverPublished, removeUnreadyFinal, MarkWorkspaceBootstrapReady).
ReadyIsOnDisk == wsRow.status = "READY" => ValidCheckout /\ checkout.base = wsRow.base

\* WorkIsKept: no bootstrap, retry or recovery removes or replaces a checkout in
\* which an agent has worked (removeUnreadyFinal only runs on a row that was
\* reloaded under the lock).
WorkIsKept == [][checkout.head > MaxRevision => checkout'.head = checkout.head]_bootVars

\* PinStands: once a base revision is recorded no retry moves it, whatever the
\* Project accepts meanwhile (ProjectBackedMaterializer.Ensure, MarkWorkspaceBootstrapPending).
PinStands == [][wsRow.base # 0 => wsRow'.base = wsRow.base]_bootVars

\* BootstrapEnds: a worker that begins to prepare a Workspace comes to an end.
BootstrapEnds == \A w \in Bootstrappers : []<>(boot[w].pc = "idle")

\* BootstrapSafe: READY is on disk with the recorded base, no retry moves a pinned
\* base, and no bootstrap touches a checkout in which an agent has worked.
BootstrapSafe == [](BootstrapTypeOK /\ ReadyIsOnDisk) /\ WorkIsKept /\ PinStands
=============================================================================
