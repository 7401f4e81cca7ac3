---------------------------- MODULE MCRunnerLink ----------------------------
(***************************************************************************)
(* The server and its runners: sessions over a connection that comes and   *)
(* goes, the manager of an internal runner's connection, the runtime       *)
(* instances behind it, the transfer of a workspace to a runner and back,  *)
(* the checkout a workspace starts from and the review that takes its      *)
(* result back.  The components share no state: `focus' picks the one that *)
(* moves, the others rest.                                                 *)
(***************************************************************************)
EXTENDS RunnerSessions, RuntimeInstances, RunnerGenerations, WorkspaceTransfer,
        WorkspaceBootstrap, Reviews

VARIABLE focus

LinkInit ==
    /\ focus \in {"sessions", "runtime", "generations", "transfer", "bootstrap", "reviews"}
    /\ SessionsInit /\ RuntimeInit /\ GenInit /\ TransferInit /\ BootstrapInit /\ ReviewInit
    /\ remoteGit => focus = "transfer"
    /\ local => focus = "reviews"

Rest ==
    /\ UNCHANGED focus
    /\ IF focus # "sessions" THEN UNCHANGED sessionVars ELSE TRUE
    /\ IF focus # "runtime" THEN UNCHANGED rtVars ELSE TRUE
    /\ IF focus # "generations" THEN UNCHANGED genVars ELSE TRUE
    /\ IF focus # "transfer" THEN UNCHANGED transferVars ELSE TRUE
    /\ IF focus # "bootstrap" THEN UNCHANGED bootVars ELSE TRUE
    /\ IF focus # "reviews" THEN UNCHANGED reviewVars ELSE TRUE

LinkNext ==
    /\ Rest
    /\ \/ focus = "sessions" /\ SessionsNext
       \/ focus = "runtime" /\ RuntimeNext
       \/ focus = "generations" /\ GenNext
       \/ focus = "transfer" /\ TransferNext
       \/ focus = "bootstrap" /\ BootstrapNext
       \/ focus = "reviews" /\ ReviewNext

\* SessionsFairness, the fairness of BootstrapFairSpec and ReviewFairness, each
\* where it moves
LinkFairness ==
    /\ WF_sessionVars(focus = "sessions" /\ HostReceives /\ UNCHANGED controlVars)
    /\ WF_sessionVars(focus = "sessions" /\ HostNotices)
    /\ WF_sessionVars(focus = "sessions" /\ Dial)
    /\ WF_sessionVars(focus = "sessions" /\ ServerLinkStep)
    /\ WF_sessionVars(focus = "sessions" /\ ServerReads)
    /\ WF_sessionVars(focus = "sessions" /\ ReconnectTimeout /\ ServiceFrame)
    /\ \A s \in Sessions :
        /\ WF_sessionVars(focus = "sessions" /\ (ProcessExits(s) \/ SlotFreed(s)) /\ UNCHANGED controlVars)
        /\ \A k \in 1..MaxStarts :
            WF_sessionVars(focus = "sessions" /\ (ExitSent(s, k) \/ DeliveryRemoved(s, k)) /\ UNCHANGED controlVars)
        /\ WF_sessionVars(focus = "sessions" /\ (SendStart(s) \/ StartAnswered(s) \/ ObserveEnd(s)) /\ ServiceFrame)
        /\ WF_sessionVars(focus = "sessions" /\ (ReconcileSession(s) \/ ReconcileEnd(s)) /\ ServiceFrame)
    /\ \A w \in Bootstrappers : WF_bootVars(focus = "bootstrap" /\ BootstrapStep(w))
    /\ \A x \in Approvers : WF_reviewVars(focus = "reviews" /\ ApproveStep(x))
    /\ \A r \in 1..MaxReviews :
          WF_reviewVars(focus = "reviews" /\ r \in DOMAIN reviews /\ \E x \in Approvers : BeginApproval(x, r))
    /\ WF_reviewVars(focus = "reviews" /\ CleanTarget)

LinkSpec ==
    /\ LinkInit
    /\ [][LinkNext]_<<focus, sessionVars, rtVars, genVars, transferVars, bootVars, reviewVars>>
    /\ LinkFairness

\* LinkSettles: a session row, the preparation of a workspace and a delivered
\* revision all come to their end, whatever was cut, crashed or retried before.
LinkSettles == SessionSettlesIfDeliverable /\ BootstrapEnds /\ DeliveredGetsDecided
=============================================================================
