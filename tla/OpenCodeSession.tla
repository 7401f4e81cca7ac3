-------------------------- MODULE OpenCodeSession --------------------------
(***************************************************************************)
(* One run of the OpenCode engine (engine/opencode/opencode.go Execute):   *)
(* the engine launches or attaches to a native service, admits the task    *)
(* prompt, and follows the native session by an event stream and by polls  *)
(* until it is idle.  On the way it publishes the comments the agent       *)
(* writes, takes a question to a person and back, and turns a delegation   *)
(* into a handoff.  The stream breaks, requests are lost, and the control  *)
(* plane dies at any step; the native service outlives it.                 *)
(***************************************************************************)
EXTENDS Naturals, Sequences, FiniteSets

CONSTANTS
    MaxParts,       \* bound: comments the agent writes in its turn
    MaxLives,       \* bound: executions of the engine (restarts + 1)
    MaxOcFaults     \* bound: lost requests, broken streams, failed writes

ASSUME OpenCodeBounds == MaxParts \in Nat /\ MaxLives \in Nat /\ MaxOcFaults \in Nat

VARIABLES
    native,         \* the service and its session: turn, question, permission
    feed,           \* the event stream: open, and what the engine has not read
    engine,         \* the local state of Execute
    ledger,         \* what the control plane has recorded of the run
    lives, ocFaults

openCodeVars == <<native, feed, engine, ledger, lives, ocFaults>>

Away == [at |-> "away", back |-> "loop", recovered |-> FALSE, prompts |-> FALSE, observed |-> FALSE,
         quiet |-> 0, polled |-> FALSE, replied |-> FALSE, granted |-> FALSE, handoff |-> FALSE]

Silent == [open |-> FALSE, inbox |-> <<>>]

OpenCodeInit ==
    /\ native = [service |-> "none", session |-> FALSE, prompt |-> 0, prompted |-> 0, turn |-> "none",
                 parts |-> 0, question |-> "none", permission |-> "none"]
    /\ feed = Silent /\ engine = Away
    /\ ledger = [prompt |-> 0, comments |-> {}, question |-> "none", accepted |-> FALSE,
                 delegated |-> FALSE, boundary |-> "none"]
    /\ lives = 0 /\ ocFaults = 0

Emit(kind, n) ==
    feed' = IF feed.open THEN [feed EXCEPT !.inbox = Append(@, [kind |-> kind, n |-> n])] ELSE feed

Fault == ocFaults < MaxOcFaults /\ ocFaults' = ocFaults + 1
Continue(step) == engine' = [engine EXCEPT !.at = step]
Blocked == native.question = "pending" \/ native.permission \in {"asked", "granted"}

\* An error leaves Execute.  Its deferred stopService ends the service and the
\* run fails; if the service cannot be stopped its execution session stays
\* live, and the run is reconciled (executionUncertainty).
GiveUp ==
    /\ feed' = Silent
    /\ \/ engine' = [Away EXCEPT !.at = "over"] /\ native' = [native EXCEPT !.service = "aborted"]
       \/ engine' = Away /\ UNCHANGED native

-----------------------------------------------------------------------------
\* GetOrCreateAdmissionPrompt: a prompt says what the issue was like when it
\* was built (in which life), and the first one built is kept
RecordedPrompt == IF ledger.prompt = 0 THEN lives + 1 ELSE ledger.prompt

\* launch the service or Attach to it, waitHealthy
Launch ==
    /\ engine.at = "away" /\ lives < MaxLives /\ native.service \in {"none", "up"}
    /\ native.turn # "admitted"     \* a restart takes longer than a turn takes to start
    /\ lives' = lives + 1
    /\ engine' = [Away EXCEPT !.at = "ensure", !.recovered = native.service = "up"]
    /\ native' = [native EXCEPT !.service = "up"]
    /\ ledger' = [ledger EXCEPT !.prompt = RecordedPrompt]
    /\ UNCHANGED <<feed, ocFaults>>

\* PromptAdmitted: an empty history means the prompt never arrived
PromptRequired == native.prompt = 0

\* ensureNativeSession: recovery finds the session and decides by its history
\* whether the prompt was admitted; a different prompt there is an error
EnsureNativeSession ==
    /\ engine.at = "ensure" /\ UNCHANGED <<ledger, lives, ocFaults>>
    /\ IF native.prompt \notin {0, ledger.prompt}
       THEN GiveUp
       ELSE /\ native' = [native EXCEPT !.session = TRUE]
            /\ engine' = [engine EXCEPT !.at = "subscribe", !.prompts = PromptRequired]
            /\ UNCHANGED feed

\* Subscribe, at the start and in reconnectEvents
Subscribe ==
    /\ engine.at \in {"subscribe", "reconnect"}
    /\ feed' = [open |-> TRUE, inbox |-> <<>>]
    /\ Continue(IF engine.at = "reconnect" THEN "loop" ELSE IF engine.prompts THEN "prompt" ELSE "attached")
    /\ UNCHANGED <<native, ledger, lives, ocFaults>>

\* Prompt: the service admits the task and starts the turn later
Prompt ==
    /\ engine.at = "prompt" /\ Continue("loop")
    /\ native' = [native EXCEPT !.prompt = ledger.prompt, !.prompted = @ + 1, !.turn = "admitted"]
    /\ UNCHANGED <<feed, ledger, lives, ocFaults>>

-----------------------------------------------------------------------------
\* The native agent (external): a comment, a question, a delegation, the end
TurnStarts ==
    /\ native.service = "up" /\ native.turn = "admitted"
    /\ native' = [native EXCEPT !.turn = "busy"]
    /\ UNCHANGED <<feed, engine, ledger, lives, ocFaults>>

AgentActs ==
    /\ native.service = "up" /\ native.turn = "busy" /\ ~Blocked
    /\ \/ /\ native.parts < MaxParts
          /\ native' = [native EXCEPT !.parts = @ + 1] /\ Emit("part", native.parts + 1)
       \/ /\ native.question = "none"
          /\ native' = [native EXCEPT !.question = "pending"] /\ Emit("ask", 0)
       \/ /\ native.permission = "none"
          /\ native' = [native EXCEPT !.permission = "asked"] /\ Emit("permission", 0)
    /\ UNCHANGED <<engine, ledger, lives, ocFaults>>

ToolEnds ==
    /\ native.service = "up" /\ native.permission = "granted"
    /\ \E result \in {"completed", "error"} : native' = [native EXCEPT !.permission = result]
    /\ Emit("tool", 0)
    /\ UNCHANGED <<engine, ledger, lives, ocFaults>>

TurnEnds ==
    /\ native.service = "up" /\ native.turn = "busy" /\ ~Blocked
    /\ native' = [native EXCEPT !.turn = "idle"] /\ Emit("idle", 0)
    /\ UNCHANGED <<engine, ledger, lives, ocFaults>>

\* a person answers the open question
PersonAnswers ==
    /\ ledger.question = "open" /\ ledger' = [ledger EXCEPT !.question = "answered"]
    /\ UNCHANGED <<native, feed, engine, lives, ocFaults>>

-----------------------------------------------------------------------------
\* handleQuestion opens the question once and WaitAnswer returns its answer;
\* what one poll waits is bounded, what an event waits is not
Asked(polled, back) ==
    /\ ledger' = [ledger EXCEPT !.question = IF @ = "none" THEN "open" ELSE @]
    /\ engine' = [engine EXCEPT !.at = IF ledger.question = "answered" THEN "reply"
                                       ELSE IF polled THEN "loop" ELSE "waiting",
                                !.polled = polled, !.back = back, !.observed = TRUE, !.quiet = 0]
    /\ UNCHANGED <<native, feed, lives, ocFaults>>

WaitAnswer ==
    /\ engine.at = "waiting" /\ ledger.question = "answered"
    /\ Continue("reply") /\ UNCHANGED <<native, feed, ledger, lives, ocFaults>>

\* replyNativeQuestion: after an error the list of pending questions tells
\* whether the reply arrived
ReplyNativeQuestion ==
    /\ engine.at = "reply" /\ Continue("mark")
    /\ native' = [native EXCEPT !.question = "answered"]
    /\ UNCHANGED <<feed, ledger, lives, ocFaults>>

\* Mutant: a reply that timed out counts as delivered
ReplyAssumed ==
    /\ engine.at = "reply" /\ engine.polled /\ Fault /\ Continue("mark")
    /\ \E arrives \in {native.question, "answered"} : native' = [native EXCEPT !.question = arrives]
    /\ UNCHANGED <<feed, ledger, lives>>

\* the list fails as well; a poll takes a timeout for a passing one
ReplyTimesOut ==
    /\ engine.at = "reply" /\ engine.polled /\ Fault /\ Continue(engine.back)
    /\ \E arrives \in {native.question, "answered"} : native' = [native EXCEPT !.question = arrives]
    /\ UNCHANGED <<feed, ledger, lives>>

\* MarkReplyAccepted
MarkReplyAccepted ==
    /\ engine.at = "mark"
    /\ ledger' = [ledger EXCEPT !.accepted = TRUE]
    /\ engine' = [engine EXCEPT !.at = engine.back, !.replied = TRUE]
    /\ UNCHANGED <<native, feed, lives, ocFaults>>

Unresolved == ledger.accepted /\ ledger.question # "resolved"

\* reconcileAcceptedReplies: resolve a question the service no longer lists
Resolve ==
    /\ ledger' = [ledger EXCEPT !.question = "resolved"]
    /\ engine' = [engine EXCEPT !.observed = TRUE, !.quiet = 0]
    /\ UNCHANGED <<native, feed, lives, ocFaults>>

\* Mutant: every quiet poll starts the count again
InactiveForgotten == engine' = [engine EXCEPT !.quiet = 0]

\* the session is not active: the second such poll in a row ends a turn the
\* engine has seen run
Inactive ==
    IF engine.observed
    THEN engine' = [engine EXCEPT !.quiet = @ + 1, !.at = IF engine.quiet = 1 THEN "finish" ELSE "loop"]
    ELSE UNCHANGED engine

\* one state poll: the questions, then the activity of the session
Poll ==
    /\ engine.at = "loop"
    /\ IF native.question = "pending" /\ ~engine.replied THEN Asked(TRUE, "loop")
       ELSE IF Unresolved THEN Resolve
       ELSE /\ IF native.turn = "busy" THEN engine' = [engine EXCEPT !.observed = TRUE, !.quiet = 0]
                                      ELSE Inactive
            /\ UNCHANGED <<native, feed, ledger, lives, ocFaults>>

\* promptAdmissionPollLimit polls without a sign of the turn: it starts late,
\* or it ran while the stream was broken and no poll saw it
PromptStalls ==
    /\ engine.at = "loop" /\ ~engine.observed
    /\ \/ native.turn = "admitted" /\ Fault
       \/ native.turn = "idle" /\ UNCHANGED ocFaults
    /\ GiveUp /\ UNCHANGED <<ledger, lives>>

-----------------------------------------------------------------------------
\* applyPermission: the canonical delegation first, then the reply that lets
\* the native tool run; a delegation that is refused rejects the tool
ApplyPermission(back) ==
    \/ /\ ledger' = [ledger EXCEPT !.delegated = TRUE]
       /\ engine' = [engine EXCEPT !.at = "grant", !.back = back, !.observed = TRUE, !.quiet = 0]
       /\ UNCHANGED native
    \/ /\ ~ledger.delegated
       /\ native' = [native EXCEPT !.permission = "error"]
       /\ engine' = [engine EXCEPT !.at = back, !.observed = TRUE, !.quiet = 0] /\ UNCHANGED ledger

GrantPermission ==
    /\ engine.at = "grant"
    /\ native' = [native EXCEPT !.permission = "granted"]
    /\ engine' = [engine EXCEPT !.at = engine.back, !.granted = TRUE]
    /\ UNCHANGED <<feed, ledger, lives, ocFaults>>

\* reconcileTerminalParts: a completed tool, or a failed one whose delegation
\* the control plane accepted, hands the run off
HandsOff == native.permission = "completed" \/ (native.permission = "error" /\ ledger.delegated)

\* issueCommentToolTracker.Reconcile: every comment of the native history;
\* a comment is published once because its part names the request
Published == 1..native.parts

\* The trackers' Reconcile, when the engine attaches, when it lost the stream
\* and when the turn is over
Reconcile ==
    /\ engine.at \in {"attached", "resync", "finish"}
    /\ IF native.permission = "asked" THEN ApplyPermission(engine.at)
       ELSE /\ ledger' = [ledger EXCEPT !.comments = Published, !.delegated = @ \/ HandsOff]
            /\ engine' = [engine EXCEPT
                    !.at = CASE engine.handoff \/ HandsOff -> "handoff" [] engine.at = "attached" -> "loop"
                             [] engine.at = "resync" -> "reconnect" [] OTHER -> "boundary",
                    !.observed = @ \/ engine.at = "attached"]
            /\ UNCHANGED native
    /\ UNCHANGED <<feed, lives, ocFaults>>

\* one event of the stream
ReadEvent ==
    /\ engine.at = "loop" /\ feed.inbox # <<>>
    /\ feed' = [feed EXCEPT !.inbox = Tail(@)] /\ UNCHANGED <<lives, ocFaults>>
    /\ LET event == Head(feed.inbox)
           seen == [engine EXCEPT !.observed = TRUE, !.quiet = 0]
       IN  CASE event.kind = "idle" /\ engine.observed ->
                  /\ engine' = IF Unresolved THEN engine ELSE [engine EXCEPT !.at = "finish"]
                  /\ ledger' = IF Unresolved THEN [ledger EXCEPT !.question = "resolved"] ELSE ledger
                  /\ UNCHANGED native
             [] event.kind = "idle" /\ ~engine.observed ->     \* idle before execution started
                  /\ engine' = [Away EXCEPT !.at = "over"]
                  /\ native' = [native EXCEPT !.service = "aborted"] /\ UNCHANGED ledger
             [] event.kind = "part" ->
                  /\ ledger' = [ledger EXCEPT !.comments = @ \cup {event.n}]
                  /\ engine' = IF engine.handoff THEN [seen EXCEPT !.at = "handoff"] ELSE seen
                  /\ UNCHANGED native
             [] event.kind # "part" /\ engine.handoff ->
                  engine' = [engine EXCEPT !.at = "handoff"] /\ UNCHANGED <<native, ledger>>
             [] event.kind = "permission" /\ ~engine.handoff ->
                  IF native.permission = "asked" THEN ApplyPermission("loop")
                  ELSE engine' = seen /\ UNCHANGED <<native, ledger>>
             [] event.kind = "tool" /\ ~engine.handoff ->
                  engine' = [seen EXCEPT !.handoff = engine.granted] /\ UNCHANGED <<native, ledger>>
             [] event.kind = "ask" /\ ~engine.handoff /\ engine.replied ->
                  engine' = seen /\ UNCHANGED <<native, ledger>>
             [] event.kind = "ask" /\ ~engine.handoff /\ ~engine.replied ->
                  /\ ledger' = [ledger EXCEPT !.question = IF @ = "none" THEN "open" ELSE @]
                  /\ engine' = [seen EXCEPT !.at = "waiting", !.polled = FALSE, !.back = "loop"]
                  /\ UNCHANGED native

StreamBreaks ==
    /\ feed.open /\ Fault /\ feed' = [feed EXCEPT !.open = FALSE]
    /\ UNCHANGED <<native, engine, ledger, lives>>

\* the end of the stream, once everything before it has been read: the
\* questions first, then the trackers, then a new subscription
StreamEnds ==
    /\ engine.at = "loop" /\ ~feed.open /\ feed.inbox = <<>> /\ Continue("lost")
    /\ UNCHANGED <<native, feed, ledger, lives, ocFaults>>

QuestionsAfterLoss ==
    /\ engine.at = "lost"
    /\ IF native.question = "pending" /\ ~engine.replied THEN Asked(FALSE, "lost")
       ELSE /\ Continue("resync")
            /\ ledger' = IF Unresolved THEN [ledger EXCEPT !.question = "resolved"] ELSE ledger
            /\ UNCHANGED <<native, feed, lives, ocFaults>>

-----------------------------------------------------------------------------

\* recordExecutionBoundary; if it fails the service is kept and the run is
\* reconciled
RecordBoundary ==
    /\ engine.at \in {"boundary", "handoff"} /\ UNCHANGED <<native, lives>>
    /\ \/ /\ ledger' = [ledger EXCEPT !.boundary = IF engine.at = "handoff" THEN "delegation_handoff" ELSE "completed"]
          /\ Continue("stop") /\ UNCHANGED <<feed, ocFaults>>
       \/ Fault /\ engine' = Away /\ feed' = Silent /\ UNCHANGED ledger

\* finish: stopService, and the result of the run
StopService ==
    /\ engine.at = "stop"
    /\ native' = [native EXCEPT !.service = "stopped"] /\ feed' = Silent
    /\ engine' = [Away EXCEPT !.at = "over"] /\ UNCHANGED <<ledger, lives, ocFaults>>

\* a request to the service or to the store fails for good
EngineFails ==
    /\ engine.at \in {"ensure", "subscribe", "attached", "prompt", "loop", "waiting", "reply", "mark",
                      "grant", "lost", "resync", "reconnect", "finish"}
    /\ Fault /\ GiveUp /\ UNCHANGED <<ledger, lives>>

\* the control plane dies; the service goes on
ControlPlaneDies ==
    /\ engine.at \notin {"away", "over"} /\ lives < MaxLives
    /\ engine' = Away /\ feed' = Silent /\ UNCHANGED <<native, ledger, lives, ocFaults>>

EngineStep ==
    \/ Launch \/ EnsureNativeSession \/ Subscribe \/ Prompt \/ WaitAnswer \/ ReplyNativeQuestion
    \/ MarkReplyAccepted \/ GrantPermission \/ Reconcile \/ StreamEnds \/ QuestionsAfterLoss
    \/ RecordBoundary \/ StopService

NativeStep == TurnStarts \/ ToolEnds \/ TurnEnds

OpenCodeNext ==
    \/ EngineStep \/ Poll \/ ReadEvent \/ NativeStep \/ AgentActs \/ PersonAnswers
    \/ ReplyTimesOut \/ PromptStalls \/ StreamBreaks \/ EngineFails \/ ControlPlaneDies

OpenCodeSpec == OpenCodeInit /\ [][OpenCodeNext]_openCodeVars

\* the engine's goroutine and its ticker run, the service makes progress;
\* nobody has to answer a question
OpenCodeFairness ==
    /\ WF_openCodeVars(EngineStep) /\ WF_openCodeVars(Poll) /\ WF_openCodeVars(ReadEvent)
    /\ WF_openCodeVars(NativeStep) /\ WF_openCodeVars(PromptStalls /\ native.turn = "idle")

OpenCodeFairSpec == OpenCodeSpec /\ OpenCodeFairness

-----------------------------------------------------------------------------
\* Types of the service, the ledger and the engine; the engine counts no more than
\* two quiet polls, and the stream holds no more than the turn can emit.
OpenCodeTypeOK ==
    /\ native \in [service : {"none", "up", "stopped", "aborted"}, session : BOOLEAN, prompt : 0..MaxLives,
                   prompted : Nat, turn : {"none", "admitted", "busy", "idle"}, parts : 0..MaxParts,
                   question : {"none", "pending", "answered"},
                   permission : {"none", "asked", "granted", "completed", "error"}]
    /\ ledger \in [prompt : 0..MaxLives, comments : SUBSET (1..MaxParts),
                   question : {"none", "open", "answered", "resolved"}, accepted : BOOLEAN,
                   delegated : BOOLEAN, boundary : {"none", "completed", "delegation_handoff"}]
    /\ engine.quiet \in 0..2 /\ Len(feed.inbox) <= MaxParts + 4
    /\ lives \in 0..MaxLives /\ ocFaults \in 0..MaxOcFaults

\* A native session receives the task once, however often the control plane
\* restarts around the request, and what it received is the recorded prompt,
\* so that a later recovery recognises it (ensureNativeSession, PromptAdmitted)
PromptedOnce == native.prompted <= 1 /\ (native.prompt # 0 => native.prompt = ledger.prompt)

\* "completed" is recorded only for a turn that is over: it ran, nothing is
\* pending in it, and all its comments are on the issue, those included whose
\* events the engine never read (finishCompleted)
CompletionIsReal ==
    ledger.boundary = "completed" =>
        native.turn = "idle" /\ ~Blocked /\ ledger.comments = 1..native.parts

\* A delegation the control plane accepted ends the run as a handoff and never
\* as a completion, whichever of event, reconciliation or restart saw the tool
\* (completeDelegationHandoff)
DelegationHandsOff ==
    /\ ledger.boundary = "completed" => ~ledger.delegated
    /\ ledger.boundary = "delegation_handoff" => ledger.delegated

\* A service the engine stopped after a success left the boundary that
\* recovery needs (preserveServiceForReconciliation)
StopLeavesEvidence == native.service = "stopped" => ledger.boundary # "none"

\* A reply is recorded as accepted, and its question as resolved, only when the
\* agent has the answer, whatever became of the request, its answer and the
\* control plane that sent it (replyNativeQuestion, MarkReplyAccepted,
\* reconcileAcceptedReplies)
ReplyIsDelivered ==
    ledger.accepted \/ ledger.question = "resolved" => native.question = "answered"

NotRun == engine.at = "over" \/ (engine.at = "away" /\ lives = MaxLives)

\* A turn that was prompted gets its result, by polls where the events are
\* lost, unless a person owes an answer, the agent waits for a permission whose
\* request was lost with the stream, or the control plane does not come back
TurnConcludes ==
    []<>(native.prompted = 0 \/ NotRun \/ ledger.question = "open" \/ native.permission = "asked")

\* TurnSafe: the task is prompted once, a boundary says what the turn really did,
\* a stopped service leaves that evidence, and a reply counts as accepted only
\* when the agent has it.
TurnSafe == /\ OpenCodeTypeOK /\ PromptedOnce /\ CompletionIsReal
            /\ DelegationHandsOff /\ StopLeavesEvidence /\ ReplyIsDelivered
=============================================================================
