---------------------------- MODULE WorkRequests ----------------------------
(***************************************************************************)
(* Comments of one issue and the agent work they ask for: comments with    *)
(* mentions or an implicit target (store/postgres/issue_comments.go,       *)
(* issue_comment_implicit.go), the durable work requests that coalesce     *)
(* them (agent_work_requests.go), the runs that execute the requests, and  *)
(* the coordinator's promotion of deferred requests.  Every store function *)
(* is one transaction under the issue's row lock, so one action; promotion *)
(* reads its candidate before its transaction.  A replay of a comment's    *)
(* request key leaves the tables as they are and is not an action.         *)
(***************************************************************************)
EXTENDS Naturals, Sequences, FiniteSets, FiniteSetsExt, SequencesExt

CONSTANTS
    WrAgents,           \* the agents of the project
    Assignee,           \* the agent the issue is assigned to
    MaxComments,        \* bound: comments on the issue
    MaxWrRuns,          \* bound: runs on the issue
    MaxChanges          \* bound: comment edits and deletions, configuration changes

ASSUME WrBounds == /\ MaxComments \in Nat /\ MaxWrRuns \in Nat /\ MaxChanges \in Nat
                   /\ Assignee \in WrAgents

VARIABLES
    talk,       \* issue_comments with their mention and trigger rows, by age
    work,       \* agent_work_requests; run and parent are 0 when NULL
    runs,       \* the issue's runs by attempt, with the input their worker read
    touched,    \* the work requests by updated_at
    candidate,  \* the request a promotion has read, 0 when none
    runnable,   \* agents that verifyRunnableAgent accepts
    changes

wrVars == <<talk, work, runs, touched, candidate, runnable, changes>>
tables == <<talk, work, runs, touched>>

Unread == [read |-> FALSE, comments |-> {}]

WrInit ==
    /\ talk = <<>> /\ work = <<>> /\ runs = <<>> /\ touched = <<>>
    /\ candidate = 0 /\ runnable = WrAgents /\ changes = 0

-----------------------------------------------------------------------------
Ended(r) == runs[r].status = "ENDED"

\* activeRunStatuses: everything but a terminal status, READY_FOR_REVIEW included
Active(rs, a) == {r \in DOMAIN rs : rs[r].agent = a /\ rs[r].status # "ENDED"}

\* any queued run, one queued again after it started included
Queued(run) == run.status = "QUEUED"

\* a run that has not crossed the admission boundary
Joinable(run) == run.status = "QUEUED" /\ ~run.started

NewRun(a, parent, comment) ==
    [agent |-> a, status |-> "QUEUED", started |-> FALSE, parent |-> parent,
     comment |-> comment, held |-> parent # 0, input |-> Unread]

Delegated(run) == run.parent # 0 \/ run.comment # 0

\* findOpenAgentWorkRequestTx: the unsealed requests of an agent and authority
Bucket(ws, a, p) == {w \in DOMAIN ws : ws[w].agent = a /\ ws[w].parent = p /\ ~ws[w].sealed}

NewRequest(a, p, r) == [agent |-> a, parent |-> p, run |-> r, sealed |-> FALSE, closed |-> FALSE]

Seal(ws, W) == [w \in DOMAIN ws |-> [ws[w] EXCEPT !.sealed = @ \/ w \in W]]
Close(ws, W) == [w \in DOMAIN ws |-> [ws[w] EXCEPT !.sealed = @ \/ w \in W, !.closed = @ \/ w \in W]]

RequestsOf(ws, r) == {w \in DOMAIN ws : ws[w].run = r}

\* requestDelegationTx's conditions on the parent run
MayDelegate(rs, p, a) ==
    /\ rs[p].status = "RUNNING" /\ rs[p].agent # a /\ ~Delegated(rs[p])
    /\ \A r \in DOMAIN rs : rs[r].parent = p => rs[r].status = "ENDED"

\* requestAgentWorkTx for agent a under authority p (0: the issue, else the
\* parent run), asked for by comment c: db holds the requests and the runs,
\* and the answer adds the request the comment is linked to (0: BLOCKED).
\* A conflict after the stale bucket was sealed leaves it sealed: the
\* comment's transaction goes on and commits.
RequestAgentWork(db, a, p, c) ==
    LET blocked == [db EXCEPT !.linked = 0]
        open == Bucket(db.work, a, p)
        active == Active(db.runs, a)
        r == Max(active)
        sealed == Seal(db.work, open)
        inserted(run, rs) == [work |-> Append(sealed, NewRequest(a, p, run)), runs |-> rs,
                              linked |-> Len(db.work) + 1]
        joins(w) == IF db.work[w].run = 0 THEN TRUE
                    ELSE active # {} /\ db.work[w].run = r /\ Joinable(db.runs[r])
    IN  CASE a \notin runnable -> blocked
          [] p # 0 /\ db.runs[p].status # "RUNNING" -> blocked
          [] OTHER ->
             IF open # {} /\ joins(Max(open)) THEN [db EXCEPT !.linked = Max(open)]
             ELSE IF active # {}
                  THEN IF Joinable(db.runs[r]) /\ db.runs[r].parent = p THEN inserted(r, db.runs)
                       ELSE IF p # 0 THEN [blocked EXCEPT !.work = sealed]
                       ELSE inserted(0, db.runs)
                  ELSE IF (p # 0 => MayDelegate(db.runs, p, a)) /\ Len(db.runs) < MaxWrRuns
                       THEN inserted(Len(db.runs) + 1, Append(db.runs, NewRun(a, p, c)))
                       ELSE [blocked EXCEPT !.work = sealed]

\* the root of a comment's thread, and the agents that wrote in it
Root == LET root[c \in DOMAIN talk] == IF talk[c].parent = 0 THEN c ELSE root[talk[c].parent]
        IN  root
ThreadAgents(c) == {talk[d].author : d \in {e \in DOMAIN talk : Root[e] = Root[c]}} \cap WrAgents

\* ResolveIssueCommentImplicitRoute: the agent replied to, else the only
\* agent of the thread, else - for a new thread - the issue's assignee
ImplicitRoute(parent) ==
    IF parent = 0 THEN {Assignee}
    ELSE IF talk[parent].author \in WrAgents THEN {talk[parent].author}
    ELSE IF Cardinality(ThreadAgents(parent)) = 1 THEN ThreadAgents(parent) ELSE {}

\* createIssueComment: one transaction inserts the comment and asks for the
\* work of each target in turn
Post(author, parent, run, targets) ==
    LET c == Len(talk) + 1
        step(acc, a) == LET db == RequestAgentWork(acc.db, a, run, c)
                        IN  [db |-> db, links |-> acc.links \cup ({db.linked} \ {0})]
        done == FoldLeft(step, [db |-> [work |-> work, runs |-> runs, linked |-> 0], links |-> {}], targets)
    IN  /\ Len(talk) < MaxComments
        /\ parent # 0 => talk[parent].body # "gone"
        /\ talk' = Append(talk, [author |-> author, parent |-> parent,
                                 body |-> "short", links |-> done.links])
        /\ work' = done.db.work /\ runs' = done.db.runs
        /\ touched' = touched \o [i \in 1..(Len(done.db.work) - Len(work)) |-> Len(work) + i]
        /\ UNCHANGED <<candidate, runnable, changes>>

HumanMentions(parent, targets) == targets # <<>> /\ Post("human", parent, 0, targets)

HumanReplies(parent, suppress) ==
    Post("human", parent, 0, IF suppress THEN <<>> ELSE SetToSeq(ImplicitRoute(parent)))

\* PublishAgentIssueCommentTargets: at most one target, with the authority of
\* the publishing run
AgentComments(r, parent, targets) ==
    /\ runs[r].status \in {"RUNNING", "PAUSED"} /\ Len(targets) <= 1
    /\ Post(runs[r].agent, parent, r, targets)

\* UpdateIssueComment: never touches work; the new body may exceed the limit
\* of a delegation's task
EditComment(c) ==
    /\ changes < MaxChanges /\ changes' = changes + 1
    /\ talk[c].author = "human" /\ talk[c].body = "short"
    /\ talk' = [talk EXCEPT ![c].body = "long"]
    /\ UNCHANGED <<work, runs, touched, candidate, runnable>>

\* DeleteIssueComment: a comment with replies or trigger rows becomes a
\* tombstone, any other disappears
HasRows(c) == talk[c].links # {} \/ \E d \in DOMAIN talk : talk[d].parent = c

DeleteComment(c) ==
    /\ changes < MaxChanges /\ changes' = changes + 1
    /\ talk[c].body # "gone"
    /\ talk' = [talk EXCEPT ![c].body = "gone", ![c].links = IF HasRows(c) THEN @ ELSE {}]
    /\ UNCHANGED <<work, runs, touched, candidate, runnable>>

-----------------------------------------------------------------------------
\* StartIssueRun and enqueueAssignedIssue: an ordinary run of the agent
StartRun(a) ==
    /\ a \in runnable /\ Active(runs, a) = {} /\ Len(runs) < MaxWrRuns
    /\ runs' = Append(runs, NewRun(a, 0, 0))
    /\ UNCHANGED <<talk, work, touched, candidate, runnable, changes>>

\* AdmitNextJob: the run crosses the boundary and its requests are sealed in
\* the same transaction
Admit(r) ==
    /\ runs[r].status = "QUEUED" /\ ~runs[r].held
    /\ runs' = [runs EXCEPT ![r].status = "STARTING", ![r].started = TRUE]
    /\ work' = Seal(work, RequestsOf(work, r))
    /\ UNCHANGED <<talk, touched, candidate, runnable, changes>>

\* the comments GetAgentWorkRequestExecutionContext projects for a run
Linked(w) == {c \in DOMAIN talk : w \in talk[c].links}

\* loadAgentWorkRequestContext: the worker reads its input once per start
ReadInput(r) ==
    LET W == {w \in RequestsOf(work, r) : ~work[w].closed}
    IN  /\ runs[r].status = "STARTING"
        /\ runs' = [runs EXCEPT ![r].status = "RUNNING",
                                ![r].input = [read |-> TRUE, comments |-> UNION {Linked(w) : w \in W}]]
        /\ UNCHANGED <<talk, work, touched, candidate, runnable, changes>>

\* a run pauses (a question, or the hand-off to the run it delegated to) and
\* is queued again by its answer or its child's result
Pause(r) ==
    /\ runs[r].status = "RUNNING"
    /\ runs' = [q \in DOMAIN runs |-> IF q = r THEN [runs[q] EXCEPT !.status = "PAUSED"]
                                      ELSE IF runs[q].parent = r THEN [runs[q] EXCEPT !.held = FALSE]
                                      ELSE runs[q]]
    /\ UNCHANGED <<talk, work, touched, candidate, runnable, changes>>

Requeue(r) ==
    /\ runs[r].status = "PAUSED"
    /\ \A q \in DOMAIN runs : runs[q].parent = r => Ended(q)
    /\ runs' = [runs EXCEPT ![r].status = "QUEUED"]
    /\ UNCHANGED <<talk, work, touched, candidate, runnable, changes>>

\* an ordinary run that succeeded waits for its review
AwaitReview(r) ==
    /\ runs[r].status = "RUNNING" /\ ~Delegated(runs[r])
    /\ runs' = [runs EXCEPT ![r].status = "REVIEW"]
    /\ UNCHANGED <<talk, work, touched, candidate, runnable, changes>>

\* a terminal run: what its worker read is history
AsEnded(run) == [run EXCEPT !.status = "ENDED", !.held = FALSE, !.started = TRUE, !.input = Unread]

\* the terminal transactions that call finalizeDelegatedRunTx (completion,
\* failure, cancellation) close the run's requests; the review commands end
\* the run without it, and RequestReviewChanges queues the next attempt
Finalize(r) ==
    /\ runs[r].status \notin {"ENDED", "REVIEW"}
    /\ runs' = [runs EXCEPT ![r] = AsEnded(@)]
    /\ work' = Close(work, RequestsOf(work, r))
    /\ UNCHANGED <<talk, touched, candidate, runnable, changes>>

ReviewDecided(r, again) ==
    /\ runs[r].status = "REVIEW" /\ (again => Len(runs) < MaxWrRuns)
    /\ LET ended == [runs EXCEPT ![r] = AsEnded(@)]
       IN  runs' = IF again THEN Append(ended, NewRun(runs[r].agent, 0, 0)) ELSE ended
    /\ UNCHANGED <<talk, work, touched, candidate, runnable, changes>>

\* configuration makes an agent runnable or not
Toggle(a) ==
    /\ changes < MaxChanges /\ changes' = changes + 1
    /\ runnable' = IF a \in runnable THEN runnable \ {a} ELSE runnable \cup {a}
    /\ UNCHANGED <<tables, candidate>>

-----------------------------------------------------------------------------
Pending(w) == work[w].parent = 0 /\ work[w].run = 0 /\ ~work[w].sealed /\ ~work[w].closed

\* ReconcilePendingAgentWorkRequest: the candidate is read outside the
\* transaction, oldest updated_at first
ReadCandidate ==
    /\ candidate = 0
    /\ LET ready == SelectSeq(touched, LAMBDA w : Pending(w) /\ Active(runs, work[w].agent) = {})
       IN  ready # <<>> /\ candidate' = Head(ready)
    /\ UNCHANGED <<tables, runnable, changes>>

\* a touch without effect, and one that enters the request twice
TouchNothing(w) == UNCHANGED touched

\* touchAgentWorkRequestTx: a request that cannot start now goes to the back
Touch(w) == touched' = Append(Remove(touched, w), w)

\* agentWorkRequestAnchorTx: the oldest undeleted comment linked to it
Anchors(w) == {c \in Linked(w) : talk[c].body # "gone"}

Promote ==
    LET w == candidate
        a == work[w].agent
        c == Min(Anchors(w))
    IN  /\ candidate # 0 /\ candidate' = 0
        /\ UNCHANGED <<talk, runnable, changes>>
        /\ CASE ~Pending(w) -> UNCHANGED <<work, runs, touched>>
             [] Pending(w) /\ (Active(runs, a) # {} \/ a \notin runnable) ->
                  Touch(w) /\ UNCHANGED <<work, runs>>
             [] Pending(w) /\ Active(runs, a) = {} /\ a \in runnable ->
                  IF (IF Anchors(w) = {} THEN TRUE ELSE talk[c].body = "long")
                  THEN work' = Close(work, {w}) /\ UNCHANGED <<runs, touched>>
                  ELSE /\ Len(runs) < MaxWrRuns
                       /\ runs' = Append(runs, NewRun(a, 0, c))
                       /\ work' = [work EXCEPT ![w].run = Len(runs) + 1]
                       /\ UNCHANGED touched

\* the process dies between the read and the transaction
PromoteLost == candidate # 0 /\ candidate' = 0 /\ UNCHANGED <<tables, runnable, changes>>

-----------------------------------------------------------------------------
Targets == {<<a>> : a \in WrAgents} \cup {<<a, b>> : a, b \in WrAgents}
Mentions == {t \in Targets : IsInjective(t)}

CommentStep ==
    \/ \E t \in Mentions : HumanMentions(0, t)
    \/ \E parent \in 0..Len(talk), suppress \in BOOLEAN : HumanReplies(parent, suppress)
    \/ \E r \in DOMAIN runs, parent \in 0..Len(talk), t \in Mentions \cup {<<>>} : AgentComments(r, parent, t)
    \/ \E c \in DOMAIN talk : EditComment(c) \/ DeleteComment(c)

RunStep(r) == Admit(r) \/ ReadInput(r) \/ Pause(r) \/ Requeue(r) \/ AwaitReview(r) \/ Finalize(r)
              \/ \E again \in BOOLEAN : ReviewDecided(r, again)

WrNext ==
    \/ CommentStep
    \/ StartRun(Assignee)
    \/ \E a \in WrAgents : Toggle(a)
    \/ \E r \in DOMAIN runs : RunStep(r)
    \/ ReadCandidate \/ Promote \/ PromoteLost

WrSpec == WrInit /\ [][WrNext]_wrVars

\* the coordinator runs its promotion in every pass; nothing else is fair
WrFairness == WF_wrVars(ReadCandidate) /\ SF_wrVars(Promote)

WrFairSpec == WrSpec /\ WrFairness

-----------------------------------------------------------------------------
\* Type correctness of the comment, request and run tables.
WrTypeOK ==
    /\ \A c \in DOMAIN talk : /\ talk[c].author \in WrAgents \cup {"human"} /\ talk[c].parent \in 0..(c - 1)
                              /\ talk[c].body \in {"short", "long", "gone"} /\ talk[c].links \subseteq DOMAIN work
    /\ \A w \in DOMAIN work : /\ work[w].agent \in WrAgents
                              /\ work[w].parent \in 0..Len(runs) /\ work[w].run \in 0..Len(runs)
    /\ \A r \in DOMAIN runs :
          runs[r].status \in {"QUEUED", "STARTING", "RUNNING", "PAUSED", "REVIEW", "ENDED"}
    /\ ToSet(touched) = DOMAIN work /\ IsInjective(touched)
    /\ candidate \in 0..Len(work) /\ runnable \subseteq WrAgents /\ changes \in 0..MaxChanges

\* The input a worker read is final: no comment is linked to the request of a
\* run after its worker read the request's comments, although comments are
\* coalesced, edited, deleted and promoted concurrently with admission.
InputIsFinal ==
    \A c \in DOMAIN talk : \A w \in talk[c].links :
        work[w].run # 0 /\ ~work[w].closed /\ runs[work[w].run].input.read
            => c \in runs[work[w].run].input.comments

\* The unique indexes never refuse an insert: one unsealed request per agent
\* and authority, one unclosed request per run, and no second active run of
\* an agent on the issue.
OneBucket ==
    /\ \A v, w \in DOMAIN work : v # w =>
          /\ (work[v].agent = work[w].agent /\ work[v].parent = work[w].parent) => work[v].sealed \/ work[w].sealed
          /\ (work[v].run = work[w].run /\ work[v].run # 0) => work[v].closed \/ work[w].closed
    /\ \A a \in WrAgents : Cardinality(Active(runs, a)) <= 1

\* No comment's work is stranded: an open request keeps a comment to execute
\* and is either bound to a run or still one that promotion finds; an
\* unsealed request never belongs to a run past its admission.
WorkIsReachable ==
    \A w \in DOMAIN work : ~work[w].closed =>
        /\ Linked(w) # {}
        /\ work[w].run = 0 => Pending(w)
        /\ work[w].run # 0 /\ ~work[w].sealed => Joinable(runs[work[w].run])

\* A deferred request is promoted (or closed, when no usable comment is left)
\* once its agent is idle and runnable, whatever the requests of agents that
\* are not: touching moves those behind it.
DeferredServed ==
    \A w \in 1..(2 * MaxComments) :
        []<>~(/\ w \in DOMAIN work /\ Len(runs) < MaxWrRuns
              /\ Pending(w) /\ work[w].agent \in runnable /\ Active(runs, work[w].agent) = {})

\* RequestsSafe: no comment joins a request whose worker has read its input, no
\* unique index refuses an insert, and no open request is out of reach of both a
\* run and promotion.
RequestsSafe == WrTypeOK /\ InputIsFinal /\ OneBucket /\ WorkIsReachable
=============================================================================
