--------------------------- MODULE IssueExecution ---------------------------
(***************************************************************************)
(* When an issue's owner gets a run: on assignment and when the issue      *)
(* leaves the backlog (store/postgres/assignment.go), on request, and by   *)
(* the reconciliation that follows a change of execution configuration     *)
(* (app/issue_execution.go).  A configuration writer takes a snapshot of   *)
(* the agents that can run, writes, takes another one, and enqueues the    *)
(* issues of the agents that only the second one holds; the steps are      *)
(* separate transactions.  One issue, owned by nobody, an agent or a squad *)
(* that its leader works for.  What makes an agent runnable is its own     *)
(* state and that of the provider all agents share.                        *)
(***************************************************************************)
EXTENDS Naturals, Sequences, FiniteSets

CONSTANTS
    ExAgents,       \* agents
    ConfigWriters,  \* concurrent configuration updates
    MaxExRuns       \* bound: runs of the issue

ASSUME ExecutionBounds == MaxExRuns \in Nat

VARIABLES
    owned,          \* the issue: owner and status
    leader,         \* the squad's leader_agent_id
    enabled,        \* agents in state ENABLED
    provider,       \* the provider is enabled and not UNHEALTHY
    exRuns,         \* runs of the issue: agent, and whether it is active
    writer,         \* what each configuration update does next
    owed            \* history: a trigger found the agent's configuration unavailable

executionVars == <<owned, leader, enabled, provider, exRuns, writer, owed>>
configVars == <<leader, enabled, provider>>

AtRest == [at |-> "idle", scope |-> {}, set |-> "none", value |-> FALSE, before |-> {}, newly |-> {}]

ExecutionInit ==
    /\ owned = [owner |-> "none", status |-> "BACKLOG"]
    /\ leader \in ExAgents /\ enabled = ExAgents /\ provider \in BOOLEAN
    /\ exRuns = <<>> /\ writer = [w \in ConfigWriters |-> AtRest] /\ owed = FALSE

-----------------------------------------------------------------------------
\* resolveIssueExecutionAgent, as a set of at most one agent
Executing(owner) == IF owner = "squad" THEN {leader} ELSE {owner} \cap ExAgents

\* verifyRunnableAgent
Runnable(a) == a \in enabled /\ provider

\* activeRunForAgent
Occupied(a) == \E r \in DOMAIN exRuns : exRuns[r].active /\ exRuns[r].agent = a

\* enqueueAssignedIssue for the current agent of the owner, if there is one
Enqueue(owner) ==
    LET target == {a \in Executing(owner) : Runnable(a) /\ ~Occupied(a)}
    IN /\ (target # {}) => Len(exRuns) < MaxExRuns
       /\ exRuns' = IF target = {} THEN exRuns
                    ELSE Append(exRuns, [agent |-> CHOOSE a \in target : TRUE, active |-> TRUE])
       /\ owed' = \E a \in Executing(owner) : ~Runnable(a)

\* SetIssueAssignee: resolveAssignee refuses a disabled agent or leader
SetIssueAssignee(owner) ==
    /\ owner # owned.owner /\ Executing(owner) \subseteq enabled
    /\ owned' = [owned EXCEPT !.owner = owner]
    /\ IF owned.status = "BACKLOG" THEN owed' = FALSE /\ UNCHANGED exRuns ELSE Enqueue(owner)
    /\ UNCHANGED <<configVars, writer>>

\* applyIssueMutationTx and ShouldAutoEnqueueIssue
SetStatus(status) ==
    /\ status # owned.status
    /\ owned' = [owned EXCEPT !.status = status]
    /\ IF owned.status = "BACKLOG" /\ status # "DONE" THEN Enqueue(owned.owner)
       ELSE owed' = (owed /\ status # "BACKLOG") /\ UNCHANGED exRuns
    /\ UNCHANGED <<configVars, writer>>

\* StartIssueRun: strict, so an agent that cannot run is an error
StartIssueRun ==
    /\ owned.status # "BACKLOG"
    /\ \E a \in Executing(owned.owner) : Runnable(a)
    /\ Enqueue(owned.owner)
    /\ UNCHANGED <<owned, configVars, writer>>

ExRunEnds(r) ==
    /\ exRuns[r].active
    /\ exRuns' = [exRuns EXCEPT ![r].active = FALSE]
    /\ UNCHANGED <<owned, configVars, writer, owed>>

-----------------------------------------------------------------------------
\* RunnableIssueExecutionScopes: agents of issues outside the backlog that can run
Scopes(agents) ==
    IF owned.status = "BACKLOG" THEN {}
    ELSE {a \in Executing(owned.owner) \cap agents : Runnable(a)}

Writes(w, step) == writer' = [writer EXCEPT ![w] = step]

\* UpdateAgent, UpdateProvider, UpdateModelProfile, ListProviderModels: snapshot first
SnapshotReadiness(w, agents, set, value) ==
    /\ writer[w].at = "idle"
    /\ Writes(w, [AtRest EXCEPT !.at = "write", !.scope = agents, !.set = set, !.value = value,
                                !.before = Scopes(agents)])
    /\ UNCHANGED <<owned, configVars, exRuns, owed>>

WriteConfiguration(w) ==
    /\ writer[w].at = "write"
    /\ Writes(w, [writer[w] EXCEPT !.at = "compare"])
    /\ IF writer[w].set = "provider"
       THEN provider' = writer[w].value /\ UNCHANGED enabled
       ELSE /\ enabled' = IF writer[w].value THEN enabled \cup writer[w].scope
                                             ELSE enabled \ writer[w].scope
            /\ UNCHANGED provider
    /\ UNCHANGED <<owned, leader, exRuns, owed>>

\* persistProviderHealth of a failed probe: no snapshot, no reconciliation
ProbeFails(w) ==
    /\ writer[w].at = "idle" /\ provider /\ provider' = FALSE
    /\ UNCHANGED <<owned, leader, enabled, exRuns, writer, owed>>

\* Mutant: the snapshots are compared the wrong way
NewlyReversed(w) == writer[w].before \ Scopes(writer[w].scope)

\* reconcileExecutionConfigurationTransition
Newly(w) == Scopes(writer[w].scope) \ writer[w].before

CompareReadiness(w) ==
    /\ writer[w].at = "compare"
    /\ Writes(w, IF Newly(w) = {} THEN AtRest
                 ELSE [AtRest EXCEPT !.at = "enqueue", !.newly = Newly(w)])
    /\ UNCHANGED <<owned, configVars, exRuns, owed>>

\* UpdateSquad: the new leader is enabled; a change of leader is reconciled
UpdateSquad(w, a) ==
    /\ writer[w].at = "idle" /\ a # leader /\ a \in enabled
    /\ leader' = a
    /\ owed' = (owed \/ (owned.owner = "squad" /\ owned.status # "BACKLOG" /\ ~Occupied(a)))
    /\ Writes(w, IF owned.owner = "squad" /\ owned.status # "BACKLOG"
                 THEN [AtRest EXCEPT !.at = "enqueue", !.newly = {a}] ELSE AtRest)
    /\ UNCHANGED <<owned, enabled, provider, exRuns>>

\* enqueueCurrentIssue: the candidate is a hint, ownership is read again
EnqueueCurrentIssue(w) ==
    /\ writer[w].at = "enqueue"
    /\ IF owned.status # "BACKLOG" /\ Executing(owned.owner) \subseteq writer[w].newly
       THEN Enqueue(owned.owner)
       ELSE UNCHANGED <<exRuns, owed>>
    /\ Writes(w, AtRest)
    /\ UNCHANGED <<owned, configVars>>

\* Updates in flight are lost; startScheduler reconciles every issue
RestartServer ==
    /\ writer' = [w \in ConfigWriters |-> AtRest]
    /\ IF owned.status = "BACKLOG" THEN UNCHANGED <<exRuns, owed>> ELSE Enqueue(owned.owner)
    /\ UNCHANGED <<owned, configVars>>

ConfigStep(w) ==
    \/ \E value \in BOOLEAN :
          \/ SnapshotReadiness(w, ExAgents, "provider", value)
          \/ \E a \in ExAgents : SnapshotReadiness(w, {a}, "agent", value)
    \/ WriteConfiguration(w) \/ ProbeFails(w) \/ CompareReadiness(w) \/ EnqueueCurrentIssue(w)
    \/ \E a \in ExAgents : UpdateSquad(w, a)

ExecutionNext ==
    \/ \E owner \in ExAgents \cup {"none", "squad"} : SetIssueAssignee(owner)
    \/ \E status \in {"BACKLOG", "TODO", "DONE"} : SetStatus(status)
    \/ StartIssueRun
    \/ \E r \in DOMAIN exRuns : ExRunEnds(r)
    \/ \E w \in ConfigWriters : ConfigStep(w)
    \/ RestartServer

ExecutionSpec == ExecutionInit /\ [][ExecutionNext]_executionVars

-----------------------------------------------------------------------------
\* The issue, its runs and the updates in flight have the shapes of the code, and
\* an agent never has two active runs of the issue.
ExecutionTypeOK ==
    /\ owned \in [owner : ExAgents \cup {"none", "squad"}, status : {"BACKLOG", "TODO", "DONE"}]
    /\ leader \in ExAgents /\ enabled \subseteq ExAgents /\ provider \in BOOLEAN
    /\ exRuns \in Seq([agent : ExAgents, active : BOOLEAN]) /\ Len(exRuns) <= MaxExRuns
    /\ \A q, r \in DOMAIN exRuns :
          exRuns[q].active /\ exRuns[r].active /\ exRuns[q].agent = exRuns[r].agent => q = r
    /\ owed \in BOOLEAN

\* A run is created only for the agent that the issue's owner stands for at that
\* moment, and never for an issue in the backlog, however old the list of
\* candidates is that a configuration update works from.
RunFollowsOwner ==
    [][Len(exRuns') > Len(exRuns) =>
          /\ exRuns'[Len(exRuns')].agent \in Executing(owned'.owner)
          /\ owned'.status # "BACKLOG"]_executionVars

\* Work that was not started because its agent could not run is not forgotten:
\* once every configuration update is through and the agent can run, the issue
\* has a run.  With ConfigWriters a singleton.
NothingStranded ==
    (owed /\ owned.status # "BACKLOG" /\ \A w \in ConfigWriters : writer[w].at = "idle")
        => \A a \in Executing(owned.owner) : ~Runnable(a)

\* ExecutionSafe: runs follow the owner of the issue at the moment they are
\* created, and work that could not start is not forgotten.
ExecutionSafe == [](ExecutionTypeOK /\ NothingStranded) /\ RunFollowsOwner
=============================================================================
