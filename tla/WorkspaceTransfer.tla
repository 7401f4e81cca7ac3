--------------------------- MODULE WorkspaceTransfer ---------------------------
(***************************************************************************)
(* The hand-over of an Issue Workspace to a runner and back                *)
(* (runexec/processor.go and runner_git.go, runner/transfer.go,            *)
(* agent-runner server/transfer.go).  The server sends a snapshot (or a    *)
(* remote-Git request), the agent works in the runner's copy, and at the   *)
(* end the server asks for the result, makes it authoritative, records     *)
(* that, and only then lets the runner delete its copy.  The connection    *)
(* may break, losing what is in flight, either process may restart, and    *)
(* the wait for the result may time out; a remote-Git publication is tried *)
(* twice and a later worker recovers from the recorded evidence.           *)
(***************************************************************************)
EXTENDS Naturals, Sequences

CONSTANTS
    MaxTransfers,       \* bound: transfer ids
    MaxCuts             \* bound: broken connections, restarts and timeouts

ASSUME TransferBounds == MaxTransfers \in Nat \ {0} /\ MaxCuts \in Nat

VARIABLES
    remoteGit,          \* isRemoteGitProject: publish to the remote, or sync a bundle
    sv,                 \* the worker: [pc, tries, tid]
    recorded,           \* the authoritative revision the server knows
    evid,               \* is workspace.transfer.completed (hand-back) recorded?
    remoteHead,         \* the Issue branch of the remote repository
    rn,                 \* the runner's transferState: [incoming, ready, failed, awaiting]
    copy,               \* the runner's working copy
    linkUp, toRun, fromRun,
    partial, done,      \* Connection.transfers and Connection.transferDone
    tids, cuts

transferVars == <<remoteGit, sv, recorded, evid, remoteHead, rn, copy, linkUp,
                  toRun, fromRun, partial, done, tids, cuts>>
linkVars == <<linkUp, toRun, fromRun, partial, done>>
dataVars == <<remoteGit, recorded, evid, remoteHead>>

None == [tid |-> 0, dir |-> "none"]
BlankRunner == [incoming |-> None, ready |-> FALSE, failed |-> FALSE, awaiting |-> 0]

TransferInit ==
    /\ remoteGit \in BOOLEAN
    /\ sv = [pc |-> "prepare", tries |-> 0, tid |-> 0]
    /\ recorded = "start" /\ evid = FALSE /\ remoteHead = "start"
    /\ rn = BlankRunner /\ copy = "absent"
    /\ linkUp = TRUE /\ toRun = <<>> /\ fromRun = <<>> /\ partial = 0 /\ done = 0
    /\ tids = 0 /\ cuts = 0

Msg(kind, tid, dir) == [kind |-> kind, tid |-> tid, dir |-> dir]

\* SendTransfer: begin, chunks, end; a break may lose any suffix of them
Sent(dir) == toRun' = toRun \o <<Msg("begin", tids + 1, dir), Msg("end", tids + 1, dir)>>

\* publishRemoteGitWorkspace tries twice, the bundle sync once
AfterFailure == IF remoteGit /\ sv.tries < 2 THEN "sync" ELSE "failed"

\* transferWorkspaceToRunner / prepareRemoteGitWorkspace: not retried
SendPrepare ==
    /\ sv.pc = "prepare" /\ tids < MaxTransfers
    /\ IF linkUp
       THEN /\ Sent("prepare") /\ tids' = tids + 1
            /\ sv' = [sv EXCEPT !.pc = "start"]
       ELSE /\ sv' = [sv EXCEPT !.pc = "failed"]
            /\ UNCHANGED <<toRun, tids>>
    /\ UNCHANGED <<dataVars, rn, copy, linkUp, fromRun, partial, done, cuts>>

\* handleStart behind waitReady: the process runs in the copy only once the
\* transfer that was begun is ready
StartProcess ==
    /\ sv.pc = "start" /\ toRun = <<>>
    /\ sv' = [sv EXCEPT !.pc = IF linkUp /\ rn.ready THEN "running" ELSE "failed"]
    /\ UNCHANGED <<dataVars, rn, copy, linkVars, tids, cuts>>

\* the agent's work, up to the exit of its process; a worker that waits for
\* it goes on to the hand-back
AgentWorks ==
    /\ sv.pc = "running"
    /\ copy' = "work"
    /\ sv' = [sv EXCEPT !.pc = "sync"]
    /\ UNCHANGED <<dataVars, rn, linkVars, tids, cuts>>

\* syncWorkspaceFromRunner / publishRemoteGitWorkspaceAttempt: request the
\* result, then ReceiveTransfer takes a result that is already cached
SendSync ==
    /\ sv.pc = "sync" /\ tids < MaxTransfers
    /\ IF linkUp
       THEN /\ Sent("handback") /\ tids' = tids + 1
            /\ sv' = [pc |-> IF done # 0 THEN "persist" ELSE "await", tries |-> sv.tries + 1,
                      tid |-> IF done # 0 THEN done ELSE tids + 1]
            /\ done' = 0
       ELSE /\ sv' = [sv EXCEPT !.tries = @ + 1, !.pc = IF remoteGit /\ sv.tries < 1 THEN "sync" ELSE "failed"]
            /\ UNCHANGED <<toRun, tids, done>>
    /\ UNCHANGED <<dataVars, rn, copy, linkUp, fromRun, partial, cuts>>

\* the runner: transferState.begin and .end, then the direction's handler
RunnerBegin(m) ==
    /\ m.kind = "begin"
    /\ rn' = [rn EXCEPT !.incoming = [tid |-> m.tid, dir |-> m.dir], !.failed = FALSE,
                        !.ready = @ /\ m.dir # "prepare"]
    /\ UNCHANGED <<copy, fromRun, remoteHead>>

\* materializeLocalWorkspace / prepareRemoteWorkspace
RunnerPrepares(m) ==
    /\ m.kind = "end" /\ rn.incoming.tid = m.tid /\ rn.incoming.dir = "prepare"
    /\ \/ /\ copy' = "start"
          /\ rn' = [rn EXCEPT !.incoming = None, !.ready = TRUE, !.failed = FALSE]
       \/ /\ rn' = [rn EXCEPT !.incoming = None, !.ready = FALSE, !.failed = TRUE]
          /\ UNCHANGED copy
    /\ UNCHANGED <<fromRun, remoteHead>>

\* syncWorkspaceBack / publishRemoteWorkspace: finalize, push (remote Git),
\* await the acknowledgement, return the result; or say why not
RunnerHandsBack(m) ==
    /\ m.kind = "end" /\ rn.incoming.tid = m.tid /\ rn.incoming.dir = "handback"
    /\ IF rn.ready
       THEN \/ /\ remoteHead' = IF remoteGit THEN copy ELSE remoteHead
               /\ rn' = [rn EXCEPT !.incoming = None, !.awaiting = m.tid]
               /\ fromRun' = fromRun \o <<Msg("begin", m.tid, copy), Msg("end", m.tid, copy)>>
            \/ /\ rn' = [rn EXCEPT !.incoming = None]
               /\ fromRun' = Append(fromRun, Msg("failed", m.tid, "none"))
               /\ UNCHANGED remoteHead
       ELSE /\ rn' = [rn EXCEPT !.incoming = None]
            /\ fromRun' = Append(fromRun, Msg("failed", m.tid, "none"))
            /\ UNCHANGED remoteHead
    /\ UNCHANGED copy

\* handleTransferApplied: only the awaited transfer lets the copy go
RunnerApplied(m) ==
    /\ m.kind = "applied"
    /\ IF rn.awaiting = m.tid
       THEN copy' = "removed" /\ rn' = [BlankRunner EXCEPT !.incoming = rn.incoming]
       ELSE UNCHANGED <<copy, rn>>
    /\ UNCHANGED <<fromRun, remoteHead>>

RunnerHandles ==
    /\ linkUp /\ toRun # <<>>
    /\ toRun' = Tail(toRun)
    /\ LET m == Head(toRun) IN
       RunnerBegin(m) \/ RunnerPrepares(m) \/ RunnerHandsBack(m) \/ RunnerApplied(m)
    /\ UNCHANGED <<remoteGit, sv, recorded, evid, linkUp, partial, done, tids, cuts>>

\* the server: handleTransferMessage and completeTransfer; a result without
\* a waiter is cached, a failure also fails the connection
ServerHandles ==
    /\ linkUp /\ fromRun # <<>>
    /\ LET m == Head(fromRun) IN
       \/ /\ m.kind = "begin"
          /\ partial' = m.tid /\ fromRun' = Tail(fromRun)
          /\ UNCHANGED <<sv, done, linkUp, toRun>>
       \/ /\ m.kind = "end" /\ partial = m.tid
          /\ partial' = 0 /\ fromRun' = Tail(fromRun)
          /\ IF sv.pc = "await"
             THEN sv' = [sv EXCEPT !.pc = "persist", !.tid = m.tid] /\ UNCHANGED done
             ELSE done' = m.tid /\ UNCHANGED sv
          /\ UNCHANGED <<linkUp, toRun>>
       \/ /\ m.kind = "failed"
          /\ sv' = [sv EXCEPT !.pc = IF @ = "await" THEN AfterFailure ELSE @]
          /\ linkUp' = FALSE /\ toRun' = <<>> /\ fromRun' = <<>> /\ partial' = 0 /\ done' = 0
    /\ UNCHANGED <<dataVars, rn, copy, tids, cuts>>

PersistUnrecorded ==
    /\ sv.pc = "persist"
    /\ recorded' = "work"
    /\ sv' = [sv EXCEPT !.pc = "confirm"]
    /\ UNCHANGED <<remoteGit, evid, remoteHead, rn, copy, linkVars, tids, cuts>>

\* ApplyTransferBundle / ensureRemoteWorkspaceReady, and the revision row
Persist ==
    /\ sv.pc = "persist"
    /\ recorded' = "work"
    /\ sv' = [sv EXCEPT !.pc = "record"]
    /\ UNCHANGED <<remoteGit, evid, remoteHead, rn, copy, linkVars, tids, cuts>>

\* workspace.transfer.completed is recorded before the acknowledgement
RecordCompleted ==
    /\ sv.pc = "record"
    /\ evid' = TRUE
    /\ sv' = [sv EXCEPT !.pc = "confirm"]
    /\ UNCHANGED <<remoteGit, recorded, remoteHead, rn, copy, linkVars, tids, cuts>>

\* ConfirmTransferApplied; an acknowledgement that cannot be written fails
\* the attempt although the revision is authoritative
Confirm ==
    /\ sv.pc = "confirm"
    /\ IF linkUp
       THEN /\ toRun' = Append(toRun, Msg("applied", sv.tid, "none"))
            /\ sv' = [sv EXCEPT !.pc = "accepted"]
       ELSE /\ sv' = [sv EXCEPT !.pc = AfterFailure]
            /\ UNCHANGED toRun
    /\ UNCHANGED <<dataVars, rn, copy, linkUp, fromRun, partial, done, tids, cuts>>

Reset == linkUp' = FALSE /\ toRun' = <<>> /\ fromRun' = <<>> /\ partial' = 0 /\ done' = 0

\* the transport breaks: what is in flight is lost, a waiter is told
LinkBreaks ==
    /\ linkUp /\ cuts < MaxCuts /\ cuts' = cuts + 1
    /\ Reset
    /\ sv' = [sv EXCEPT !.pc = IF @ = "await" THEN AfterFailure ELSE @]
    /\ UNCHANGED <<dataVars, rn, copy, tids>>

Reconnect ==
    /\ ~linkUp
    /\ linkUp' = TRUE
    /\ UNCHANGED <<dataVars, sv, rn, copy, toRun, fromRun, partial, done, tids, cuts>>

\* the worker is gone: its server restarted, or its context ended while it
\* waited (the connection then lives on)
WorkerLost ==
    /\ cuts < MaxCuts /\ cuts' = cuts + 1
    /\ sv.pc \in {"running", "sync", "await", "persist", "record", "confirm"}
    /\ sv' = [pc |-> IF copy = "start" THEN "running" ELSE "recover", tries |-> 0, tid |-> 0]
    /\ Reset \/ UNCHANGED linkVars
    /\ UNCHANGED <<dataVars, rn, copy, tids>>

\* recoverDelegatedTerminalRun / recoverDelegationWorkspaceHandoff: recorded
\* evidence is trusted, otherwise the result is fetched again
Recover ==
    /\ sv.pc = "recover"
    /\ sv' = [sv EXCEPT !.pc = IF evid THEN "accepted" ELSE "sync"]
    /\ UNCHANGED <<dataVars, rn, copy, linkVars, tids, cuts>>

\* the runner host restarts: transferState is in memory, the copy on disk
RunnerRestarts ==
    /\ cuts < MaxCuts /\ cuts' = cuts + 1
    /\ rn' = BlankRunner
    /\ Reset
    /\ sv' = [sv EXCEPT !.pc = IF @ = "await" THEN AfterFailure ELSE @]
    /\ UNCHANGED <<dataVars, copy, tids>>

TransferNext ==
    \/ SendPrepare \/ StartProcess \/ AgentWorks \/ SendSync
    \/ RunnerHandles \/ ServerHandles
    \/ Persist \/ RecordCompleted \/ Confirm
    \/ LinkBreaks \/ Reconnect \/ WorkerLost \/ Recover \/ RunnerRestarts

TransferSpec == TransferInit /\ [][TransferNext]_transferVars

-----------------------------------------------------------------------------
\* Every variable has its type, and a result is asked for at most twice.
TransferTypeOK ==
    /\ sv.tries \in 0..2 /\ sv.tid \in 0..MaxTransfers /\ tids \in 0..MaxTransfers
    /\ recorded \in {"start", "work"} /\ remoteHead \in {"start", "work"}
    /\ copy \in {"absent", "start", "work", "removed"}
    /\ rn.awaiting \in 0..MaxTransfers /\ cuts \in 0..MaxCuts

(* The runner deletes its copy only after the server made the work         *)
(* authoritative and recorded the hand-back: a lost or late acknowledgement *)
(* or a restart cannot lose the agent's work.                              *)
CopyOutlivesHandback == copy = "removed" => (recorded = "work" /\ evid)

(* A Run whose hand-back was accepted, by its worker or by recovery from   *)
(* the recorded evidence, has the agent's work as authoritative revision,  *)
(* and in a remote-Git project that revision is what the remote has.       *)
AcceptedIsAuthoritative ==
    /\ sv.pc = "accepted" => recorded = "work"
    /\ remoteGit /\ recorded = "work" => remoteHead = "work"

\* TransferSafe: the runner's copy goes only when the server has the work and the
\* evidence of it, and what the server accepted is what it (and the remote)
\* records, however transfers are cut, repeated and recovered.
TransferSafe == TransferTypeOK /\ CopyOutlivesHandback /\ AcceptedIsAuthoritative
=============================================================================
