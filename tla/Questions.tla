------------------------------ MODULE Questions ------------------------------
(***************************************************************************)
(* Blocking questions.  An engine that asks interactively keeps its process *)
(* and the scheduler claim while a person answers: the run waits, the       *)
(* question is bound to the native request, and answering lets the engine   *)
(* resolve the binding and return the run to RUNNING.  When the claim is    *)
(* gone, or the engine asks without staying, the answer queues a RESUME job.*)
(***************************************************************************)
EXTENDS Transitions

QuestionsOf(r) == {q \in Questions : QuestionRun[q] = r}
OpenBlocking(r) == \E q \in QuestionsOf(r) : question[q] = "OPEN"
OpenBindings(r) == {q \in QuestionsOf(r) : binding[q] = "OPEN"}
UnresolvedBindings(r) == {q \in QuestionsOf(r) : binding[q] \in {"OPEN", "ANSWERED"}}

\* OpenInteractiveQuestions for a native request seen for the first time.
CanOpenInteractive(q) ==
    LET r == QuestionRun[q] IN
    /\ q \in Interactive /\ question[q] = "NONE"
    /\ runStatus[r] \in {"RUNNING", "WAITING_FOR_INPUT"}
    /\ HasLiveClaim(r)

OpenInteractiveQuestion(q) ==
    /\ CanOpenInteractive(q)
    /\ question' = [question EXCEPT ![q] = "OPEN"]
    /\ binding' = [binding EXCEPT ![q] = "OPEN"]
    /\ runStatus' = [runStatus EXCEPT ![QuestionRun[q]] = "WAITING_FOR_INPUT"]
    /\ queueReason' = [queueReason EXCEPT ![QuestionRun[q]] =
                          IF runStatus[QuestionRun[q]] = "RUNNING"
                          THEN "none" ELSE @]
    /\ UNCHANGED <<jobState, jobWait, jobAvail, leaseToken, expired,
                   reservations, outcome, answeredAt, live, ended, events>>

\* questioner.Ask without an open blocking question; CreateQuestion has no
\* fence.  The engine then returns ErrWaitingForInput.
CreateQuestion(q) ==
    /\ q \notin Interactive /\ question[q] = "NONE"
    /\ ~OpenBlocking(QuestionRun[q])
    /\ question' = [question EXCEPT ![q] = "OPEN"]
    /\ UNCHANGED <<runStatus, queueReason, jobState, jobWait, jobAvail,
                   leaseToken, expired, reservations, outcome, answeredAt,
                   binding, live, ended, events>>

-----------------------------------------------------------------------------
\* retireExpiredInteractiveClaims
ExpiredClaims(r) ==
    {j \in JobsOf(r) : /\ jobState[j] = "CLAIMED"
                       /\ leaseToken[j] = NoToken \/ j \in expired}

\* queueBlockingQuestionResume inserts the RESUME job of question q and fails
\* on a duplicate key; J are the claims the same transaction retires.
CanQueueResume(q) ==
    /\ runStatus[QuestionRun[q]] = "WAITING_FOR_INPUT"
    /\ jobState[QuestionJob(q)] = "NONE"

\* Mutant: the expired claims are left claimed.
ResumeWithoutRetiring(J, q) ==
    /\ CanQueueResume(q)
    /\ runStatus' = [runStatus EXCEPT ![QuestionRun[q]] = "QUEUED"]
    /\ queueReason' = [queueReason EXCEPT ![QuestionRun[q]] = "none"]
    /\ jobState' = [jobState EXCEPT ![QuestionJob(q)] = "QUEUED"]
    /\ jobAvail' = [jobAvail EXCEPT ![QuestionJob(q)] = "now"]
    /\ UNCHANGED <<jobWait, leaseToken, expired, reservations>>

RetireAndResume(J, q) ==
    /\ CanQueueResume(q)
    /\ runStatus' = [runStatus EXCEPT ![QuestionRun[q]] = "QUEUED"]
    /\ queueReason' = [queueReason EXCEPT ![QuestionRun[q]] = "none"]
    /\ jobState' = [j \in Jobs |-> IF j \in J THEN "DONE"
                                   ELSE IF j = QuestionJob(q) THEN "QUEUED"
                                   ELSE jobState[j]]
    /\ jobWait' = [j \in Jobs |-> IF j \in J THEN "none" ELSE jobWait[j]]
    /\ jobAvail' = [jobAvail EXCEPT ![QuestionJob(q)] = "now"]
    /\ Release(J)

Retire(J) ==
    /\ jobState' = [j \in Jobs |-> IF j \in J THEN "DONE" ELSE jobState[j]]
    /\ jobWait' = [j \in Jobs |-> IF j \in J THEN "none" ELSE jobWait[j]]
    /\ Release(J)
    /\ UNCHANGED <<runStatus, queueReason, jobAvail>>

\* AnswerQuestion of an interactive question.  With a live claim the engine
\* that asked delivers the answer.  Without one, expired claims are retired
\* and, once no question of the run is open, the run is queued to resume.
AnswerInteractive(q) ==
    LET r == QuestionRun[q] IN
    /\ q \in Interactive /\ binding[q] = "OPEN"
    /\ binding' = [binding EXCEPT ![q] = "ANSWERED"]
    /\ \/ /\ HasLiveClaim(r)
          /\ UNCHANGED <<runStatus, queueReason, jobState, jobWait,
                         jobAvail, leaseToken, expired, reservations>>
       \/ /\ ~HasLiveClaim(r) /\ OpenBindings(r) # {q}
          /\ Retire(ExpiredClaims(r))
       \/ /\ ~HasLiveClaim(r) /\ OpenBindings(r) = {q}
          /\ RetireAndResume(ExpiredClaims(r), q)

\* AnswerQuestion of a question whose engine did not stay: refused while the
\* run still has a queued or claimed job.
AnswerDetached(q) ==
    LET r == QuestionRun[q] IN
    /\ q \notin Interactive
    /\ \A j \in JobsOf(r) : jobState[j] \notin {"QUEUED", "CLAIMED"}
    /\ RetireAndResume({}, q)
    /\ UNCHANGED binding

AnswerQuestion(q) ==
    /\ question[q] = "OPEN"
    /\ runStatus[QuestionRun[q]] = "WAITING_FOR_INPUT"
    /\ question' = [question EXCEPT ![q] = "ANSWERED"]
    /\ answeredAt' = [answeredAt EXCEPT ![q] =
          1 + Cardinality({x \in Questions : question[x] = "ANSWERED"})]
    /\ AnswerInteractive(q) \/ AnswerDetached(q)
    /\ UNCHANGED <<outcome, live, ended, events>>

-----------------------------------------------------------------------------
\* ResolveInteractiveQuestion after the engine accepted the reply.  Resolving
\* the last binding returns the run to RUNNING, which needs a live claim of a
\* waiting run; otherwise the whole transaction is refused.
CanResolve(q) ==
    LET r == QuestionRun[q] IN
    /\ binding[q] = "ANSWERED"
    /\ UnresolvedBindings(r) = {q} =>
          runStatus[r] = "WAITING_FOR_INPUT" /\ HasLiveClaim(r)

ResolveInteractiveQuestion(q) ==
    LET r == QuestionRun[q] IN
    /\ CanResolve(q)
    /\ binding' = [binding EXCEPT ![q] = "RESOLVED"]
    /\ runStatus' = IF UnresolvedBindings(r) = {q}
                    THEN [runStatus EXCEPT ![r] = "RUNNING"] ELSE runStatus
    /\ queueReason' = IF UnresolvedBindings(r) = {q}
                      THEN [queueReason EXCEPT ![r] = "none"] ELSE queueReason
    /\ UNCHANGED <<jobState, jobWait, jobAvail, leaseToken, expired,
                   reservations, outcome, question, answeredAt, live, ended,
                   events>>
=============================================================================
