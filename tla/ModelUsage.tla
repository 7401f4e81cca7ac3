----------------------------- MODULE ModelUsage -----------------------------
(***************************************************************************)
(* Accounting of model usage.  OpenCode emits message and part updates; the*)
(* engine adapter (engine/opencode/usage.go) turns every finished step into*)
(* a sample with its timing and records it as a model.usage Event.  It sees*)
(* a step twice or not at all: the stream breaks, the server dies and      *)
(* attaches again, and history is replayed at attach and at a Question.    *)
(* modelusage.Aggregate folds the Events back into the Run's summary.      *)
(*                                                                         *)
(* Step numbers stand for step ids and for token counts; the time of an    *)
(* update is its place in the feed; 0 is a time that is not known.         *)
(***************************************************************************)
EXTENDS Naturals, Sequences, FiniteSets, FiniteSetsExt
LOCAL INSTANCE SequencesExt

CONSTANTS
    MaxSteps,           \* bound: model steps
    MaxMessages,        \* bound: assistant messages
    MaxUsageFaults      \* bound: breaks, deaths and failed reads

ASSUME UsageBounds == /\ MaxSteps \in Nat \ {0} /\ MaxMessages \in Nat \ {0}
                      /\ MaxUsageFaults \in Nat

VARIABLES
    usageFeed,          \* every update OpenCode has emitted: kind, msg, step
    stepOpen,           \* OpenCode is in the middle of its last step
    usageCursor,        \* the next update the event stream delivers
    usageLink,          \* down, attaching (subscribed) or attached
    usageState,         \* the runState of the adapter
    usageEvents,        \* the model.usage Events of the Run
    usageFaults

nativeUsage == <<usageFeed, stepOpen>>
usageVars == <<nativeUsage, usageCursor, usageLink, usageState, usageEvents, usageFaults>>

Messages == 1..MaxMessages
NoStep == [msg |-> 0, started |-> 0, first |-> 0, completed |-> 0]
FreshState == [active |-> NoStep, starts |-> [m \in Messages |-> 0], samples |-> <<>>,
               firstSample |-> [m \in Messages |-> 0]]

UsageInit ==
    /\ usageFeed = <<>> /\ stepOpen = FALSE
    /\ usageCursor = 1 /\ usageLink = "down"
    /\ usageState = FreshState /\ usageEvents = <<>>
    /\ usageFaults = 0

-----------------------------------------------------------------------------
(* OpenCode                                                                *)
Emitted(kind) == {i \in 1..Len(usageFeed) : usageFeed[i].kind = kind}
MessagesMade == Cardinality(Emitted("message"))
StepsMade == Cardinality(Emitted("step-start"))
LastKind == IF usageFeed = <<>> THEN "none" ELSE Last(usageFeed).kind
Emits(kind, msg, step) ==
    usageFeed' = Append(usageFeed, [kind |-> kind, msg |-> msg, step |-> step, at |-> Len(usageFeed) + 1])

NativeMessage ==
    /\ ~stepOpen /\ MessagesMade < MaxMessages /\ LastKind \in {"none", "step-finish"}
    /\ Emits("message", MessagesMade + 1, 0)
    /\ UNCHANGED stepOpen
\* the message is emitted again when something about it changes
NativeUpdate ==
    /\ LastKind = "step-finish"
    /\ Emits("update", MessagesMade, 0)
    /\ UNCHANGED stepOpen
NativeStepStart ==
    /\ ~stepOpen /\ MessagesMade > 0 /\ StepsMade < MaxSteps
    /\ Emits("step-start", MessagesMade, StepsMade + 1)
    /\ stepOpen' = TRUE
NativeOutput ==
    /\ stepOpen /\ LastKind = "step-start"
    /\ \E kind \in {"text", "tool"} : Emits(kind, MessagesMade, StepsMade)
    /\ UNCHANGED stepOpen
NativeStepFinish ==
    /\ stepOpen
    /\ Emits("step-finish", MessagesMade, StepsMade)
    /\ stepOpen' = FALSE
NativeUsageStep ==
    /\ NativeMessage \/ NativeUpdate \/ NativeStepStart \/ NativeOutput \/ NativeStepFinish
    /\ UNCHANGED <<usageCursor, usageLink, usageState, usageEvents, usageFaults>>

\* ListMessages: each message with its parts, in order
History == SelectSeq(usageFeed, LAMBDA item : item.kind # "update")

-----------------------------------------------------------------------------
(* The handlers; u is the pair of the adapter's state and the Events.      *)
Seen(st) == {st.samples[i].id : i \in DOMAIN st.samples}
Sampled(st) == {st.samples[i].msg : i \in DOMAIN st.samples}

\* applyAssistantStart: the message's creation is the start of its first step
ApplyAssistantStart(st) ==
    IF st.active.msg # 0 /\ st.active.started = 0 /\ st.active.msg \notin Sampled(st)
    THEN [st EXCEPT !.active.started = st.starts[st.active.msg]]
    ELSE st

\* rememberAssistantStart
RememberAssistantStart(st, m, at) ==
    ApplyAssistantStart([st EXCEPT !.starts[m] = IF @ = 0 THEN at ELSE @])

\* beginModelStep
BeginModelStep(st, m) ==
    ApplyAssistantStart(IF st.active.msg = m THEN st ELSE [st EXCEPT !.active = [NoStep EXCEPT !.msg = m]])

\* handleUsageGeneratedPart: text has a start and an end, a tool call a start
HandleUsageGeneratedPart(st, item) ==
    LET step == BeginModelStep(st, item.msg).active IN
    [st EXCEPT !.active =
        [step EXCEPT !.first = IF @ = 0 THEN item.at ELSE IF item.kind = "text" THEN Min({@, item.at}) ELSE @,
                     !.completed = IF item.kind = "text" THEN Max({@, item.at}) ELSE @]]

\* the end of a step that only called tools is when it is recorded
CompletedAt(step) == IF step.completed = 0 /\ step.first # 0 /\ Len(usageFeed) > step.first
                     THEN Len(usageFeed) ELSE step.completed

\* the sample of a finished step, from the active step if it is of the message
SampleOf(st, item) ==
    LET step == IF st.active.msg = item.msg THEN st.active ELSE NoStep
        started == IF step.started = 0 /\ item.msg \notin Sampled(st) THEN st.starts[item.msg] ELSE step.started
    IN  [id |-> item.step, msg |-> item.msg, started |-> started, first |-> step.first,
         completed |-> CompletedAt(step)]

\* handleUsageStepFinish: a step is recorded once in the life of a runState
HandleUsageStepFinish(u, item) ==
    LET sample == SampleOf(u.st, item) IN
    IF item.step \in Seen(u.st) THEN u
    ELSE [st |-> [u.st EXCEPT !.samples = Append(@, sample),
                              !.firstSample[item.msg] = IF @ = 0 THEN item.step ELSE @,
                              !.active = IF @.msg = item.msg THEN NoStep ELSE @],
          events |-> Append(u.events, sample)]

\* enrichRecordedUsage: a first sample that lacked its start is recorded again
EnrichRecordedUsage(u, m) ==
    LET late == {i \in DOMAIN u.st.samples : /\ u.st.samples[i].id = u.st.firstSample[m]
                                             /\ u.st.samples[i].started = 0}
        i == CHOOSE j \in late : TRUE
        sample == [u.st.samples[i] EXCEPT !.started = u.st.starts[m]]
    IN  IF late = {} \/ u.st.starts[m] = 0 THEN u
        ELSE [st |-> [u.st EXCEPT !.samples[i] = sample], events |-> Append(u.events, sample)]

\* handleUsageMessageUpdated
HandleUsageMessageUpdated(u, item) ==
    LET created == CHOOSE i \in Emitted("message") : usageFeed[i].msg = item.msg
    IN  EnrichRecordedUsage([u EXCEPT !.st = RememberAssistantStart(@, item.msg, created)], item.msg)

\* handleUsagePartUpdated and the two usage cases of handleEvent
HandleUsage(u, item) ==
    CASE item.kind \in {"message", "update"} -> HandleUsageMessageUpdated(u, item)
      [] item.kind = "step-start" -> [u EXCEPT !.st = BeginModelStep(@, item.msg)]
      [] item.kind \in {"text", "tool"} -> [u EXCEPT !.st = HandleUsageGeneratedPart(@, item)]
      [] item.kind = "step-finish" -> HandleUsageStepFinish(u, item)

Apply(u) == usageState' = u.st /\ usageEvents' = u.events
Now == [st |-> usageState, events |-> usageEvents]

-----------------------------------------------------------------------------
\* replayUsageMessage: when recording step `failing` fails the rest of its
\* message is passed over and the replay goes on with the next one
ReplayUsage(acc, item, failing) ==
    IF item.msg = acc.broken THEN acc
    ELSE IF item.kind = "step-finish" /\ item.step = failing /\ item.step \notin Seen(acc.u.st)
         THEN [acc EXCEPT !.broken = item.msg]
         ELSE [acc EXCEPT !.u = HandleUsage(@, item)]

Replayed(history, failing) ==
    FoldLeft(LAMBDA acc, item : ReplayUsage(acc, item, failing), [u |-> Now, broken |-> 0], history).u

\* backfillUsageFromHistory
BackfillUsageFromHistory(failing) == Apply(Replayed(History, failing))

\* a run starts or is attached again: the event stream is subscribed first
UsageAttach ==
    /\ usageLink = "down"
    /\ usageLink' = "attaching"
    /\ usageCursor' = Len(usageFeed) + 1
    /\ UNCHANGED <<nativeUsage, usageState, usageEvents, usageFaults>>

Faulty(n) == usageFaults + n <= MaxUsageFaults /\ usageFaults' = usageFaults + n

\* ... then history is replayed
UsageBackfill(failing) ==
    /\ usageLink = "attaching"
    /\ BackfillUsageFromHistory(failing)
    /\ Faulty(IF failing = 0 THEN 0 ELSE 1)
    /\ usageLink' = "attached"
    /\ UNCHANGED <<nativeUsage, usageCursor>>

\* ... unless it cannot be listed, which is ignored
UsageUnlisted ==
    /\ usageLink = "attaching" /\ Faulty(1)
    /\ usageLink' = "attached"
    /\ UNCHANGED <<nativeUsage, usageCursor, usageState, usageEvents>>

\* handleEvent
UsageEvent ==
    /\ usageLink = "attached" /\ usageCursor <= Len(usageFeed)
    /\ Apply(HandleUsage(Now, usageFeed[usageCursor]))
    /\ usageCursor' = usageCursor + 1
    /\ UNCHANGED <<nativeUsage, usageLink, usageFaults>>

\* a Question is opened and answered: history is replayed in the middle of the
\* stream
UsageQuestion ==
    /\ usageLink = "attached"
    /\ BackfillUsageFromHistory(0)
    /\ UNCHANGED <<nativeUsage, usageCursor, usageLink, usageFaults>>

\* the stream breaks: what is emitted until it is subscribed again is not seen
UsageStreamBreaks ==
    /\ usageLink = "attached" /\ usageCursor <= Len(usageFeed) /\ Faulty(1)
    /\ usageCursor' = Len(usageFeed) + 1
    /\ UNCHANGED <<nativeUsage, usageLink, usageState, usageEvents>>

UsageServerDies ==
    /\ usageLink # "down" /\ Faulty(1)
    /\ usageLink' = "down"
    /\ usageState' = FreshState
    /\ UNCHANGED <<nativeUsage, usageCursor, usageEvents>>

UsageNext ==
    \/ NativeUsageStep \/ UsageAttach \/ UsageUnlisted \/ UsageEvent \/ UsageQuestion
    \/ UsageStreamBreaks \/ UsageServerDies
    \/ \E failing \in 0..MaxSteps : UsageBackfill(failing)

UsageSpec == UsageInit /\ [][UsageNext]_usageVars

-----------------------------------------------------------------------------
(* The summary                                                             *)
Earlier(t, s) == IF s = 0 THEN t ELSE IF t = 0 THEN s ELSE Min({t, s})

\* mergeSampleTiming
MergeSampleTiming(kept, extra) ==
    [kept EXCEPT !.started = IF @ = 0 THEN extra.started ELSE @,
                 !.first = Earlier(@, extra.first),
                 !.completed = Max({@, extra.completed})]

AppendEvery(valid, sample) == Append(valid, sample)

\* one sample of Aggregate's first loop
MergeSample(valid, sample) ==
    IF \E i \in DOMAIN valid : valid[i].id = sample.id
    THEN [i \in DOMAIN valid |-> IF valid[i].id = sample.id THEN MergeSampleTiming(valid[i], sample)
                                 ELSE valid[i]]
    ELSE Append(valid, sample)

\* runUsageFromEvents and Aggregate
Valid == FoldLeft(LAMBDA valid, sample : MergeSample(valid, sample), <<>>, usageEvents)
Aggregate == [tokens |-> FoldLeft(LAMBDA n, sample : n + sample.id, 0, Valid),
              context |-> IF Valid = <<>> THEN 0 ELSE Last(Valid).id]

UsageRecorded == {usageEvents[i].id : i \in DOMAIN usageEvents}
Finished == {usageFeed[i].step : i \in Emitted("step-finish")}

-----------------------------------------------------------------------------
\* UsageTypeOK: only finished steps are sampled, and the first sample of a
\* message is one the adapter has recorded.
UsageTypeOK ==
    /\ usageLink \in {"down", "attaching", "attached"} /\ usageCursor \in 1..Len(usageFeed) + 1
    /\ UsageRecorded \subseteq Finished /\ Seen(usageState) \subseteq UsageRecorded
    /\ \A m \in Messages : usageState.firstSample[m] \in Seen(usageState) \cup {0}

\* CountedOnce: however often replay, re-attachment and the stream record a step,
\* the Run's totals count it once (Aggregate).
CountedOnce == Aggregate.tokens = SumSet(UsageRecorded)

\* AttachCatchesUp: when an attachment replays the history without an error every
\* step that has finished is recorded, those that finished while nobody was
\* attached too (backfillUsageFromHistory).
AttachCatchesUp ==
    [][usageLink = "attaching" /\ usageLink' = "attached" /\ usageFaults' = usageFaults
       => Finished \subseteq UsageRecorded']_usageVars

\* ContextFollowsSteps: while no stream broke, no read failed and no server died,
\* replay at attachment, replay at a Question and the stream together record the
\* steps in their order, so the context shown is that of the latest one.
ContextFollowsSteps == usageFaults = 0 /\ UsageRecorded # {} => Aggregate.context = Max(UsageRecorded)

\* UsageSafe: a step is counted once, the context shown is that of the latest step,
\* and an attachment catches up with what was missed.
UsageSafe == [](UsageTypeOK /\ CountedOnce /\ ContextFollowsSteps) /\ AttachCatchesUp
=============================================================================
