------------------------------ MODULE Reviews ------------------------------
(***************************************************************************)
(* Review decisions and their delivery.  ReviewService.Approve             *)
(* (app/reviews.go) is a sequence of transactions around a Git merge: an   *)
(* approval intent, the merge of the pinned revision into the project's    *)
(* target (workspace/project_backed_review.go), and the approval or its    *)
(* failure (store/postgres/reviews.go).  Several people decide at the same *)
(* time, the merge fails, and the server dies in between.  A review is     *)
(* numbered by its attempt; the branch of an issue only grows, so merging  *)
(* a review's revision merges those of the issue's earlier reviews.        *)
(***************************************************************************)
EXTENDS Naturals, Sequences

CONSTANTS
    Approvers,      \* concurrent calls of Approve
    RvIssues,       \* issues of the project
    MaxReviews,     \* bound: reviews in the project
    MaxMishaps      \* bound: crashes and Git failures

ASSUME ReviewBounds == MaxReviews \in Nat /\ MaxMishaps \in Nat

VARIABLES
    local,          \* the project's source type is LOCAL (else GIT)
    reviews,        \* with the decision it points to and the status of its run
    target,         \* the project workspace: reviews merged into HEAD, clean
    approve,        \* what each call of Approve does next
    mishaps

reviewVars == <<local, reviews, target, approve, mishaps>>

Resting == [at |-> "idle", review |-> 0, head |-> {}]

ReviewInit ==
    /\ local \in BOOLEAN /\ reviews = <<>> /\ mishaps = 0
    /\ target = [merged |-> {}, clean |-> TRUE]
    /\ approve = [a \in Approvers |-> Resting]

Latest(r) == \A q \in DOMAIN reviews : q > r => reviews[q].issue # reviews[r].issue
Contents(r) == {q \in 1..r : reviews[q].issue = reviews[r].issue}
Undecided(r) == reviews[r].status = "PENDING" /\ reviews[r].run = "READY_FOR_REVIEW"
Merging == \E a \in Approvers : approve[a].at = "merging"
Goes(a, step) == approve' = [approve EXCEPT ![a] = step]

\* createPendingReview: a run of the issue succeeded and waits for its review
OpenReview(i) ==
    /\ Len(reviews) < MaxReviews
    /\ \A r \in DOMAIN reviews : reviews[r].issue = i => reviews[r].run = "COMPLETED"
    /\ reviews' = Append(reviews, [issue |-> i, status |-> "PENDING", decision |-> "none",
                                   accepted |-> {}, run |-> "READY_FOR_REVIEW"])
    /\ UNCHANGED <<local, target, approve, mishaps>>

-----------------------------------------------------------------------------
\* BeginReviewApproval: a pending intent is shared, a failed one replaced
BeginApproval(a, r) ==
    /\ approve[a].at = "idle"
    /\ Undecided(r) /\ Latest(r) /\ reviews[r].decision \in {"none", "intent", "failed"}
    /\ reviews' = [reviews EXCEPT ![r].decision = "intent"]
    /\ Goes(a, [at |-> IF local THEN "apply" ELSE "complete", review |-> r, head |-> Contents(r)])
    /\ UNCHANGED <<local, target, mishaps>>

\* ApplyReviewedRevision up to the merge: under the project's lock, on a
\* clean target; a revision HEAD already contains needs no merge
ApplyRevision(a) ==
    /\ approve[a].at = "apply" /\ ~Merging /\ target.clean
    /\ IF approve[a].review \in target.merged
       THEN Goes(a, [approve[a] EXCEPT !.at = "complete", !.head = target.merged]) /\ UNCHANGED target
       ELSE Goes(a, [approve[a] EXCEPT !.at = "merging"]) /\ target' = [target EXCEPT !.clean = FALSE]
    /\ UNCHANGED <<local, reviews, mishaps>>

\* the target is not clean, or Git fails before the merge
ApplyRefused(a) ==
    /\ approve[a].at = "apply" /\ ~Merging
    /\ IF target.clean THEN mishaps < MaxMishaps /\ mishaps' = mishaps + 1 ELSE UNCHANGED mishaps
    /\ Goes(a, [approve[a] EXCEPT !.at = "fail"])
    /\ UNCHANGED <<local, reviews, target>>

MergeSucceeds(a) ==
    /\ approve[a].at = "merging"
    /\ target' = [merged |-> target.merged \cup Contents(approve[a].review), clean |-> TRUE]
    /\ Goes(a, [approve[a] EXCEPT !.at = "complete", !.head = target'.merged])
    /\ UNCHANGED <<local, reviews, mishaps>>

\* Mutant: the error of the merge is dropped after the rollback
MergeErrorDropped(a) ==
    /\ approve[a].at = "merging" /\ mishaps < MaxMishaps /\ mishaps' = mishaps + 1
    /\ target' = [target EXCEPT !.clean = TRUE]
    /\ Goes(a, [approve[a] EXCEPT !.at = "complete"])
    /\ UNCHANGED <<local, reviews>>

\* a conflict: merge --abort, else reset --hard, restores the original head
MergeConflicts(a) ==
    /\ approve[a].at = "merging" /\ mishaps < MaxMishaps /\ mishaps' = mishaps + 1
    /\ target' = [target EXCEPT !.clean = TRUE]
    /\ Goes(a, [approve[a] EXCEPT !.at = "fail"])
    /\ UNCHANGED <<local, reviews>>

\* FailReviewApproval, best effort: only a pending intent fails
FailApproval(a) ==
    LET r == approve[a].review
    IN  /\ approve[a].at = "fail"
        /\ reviews' = IF Undecided(r) /\ reviews[r].decision = "intent"
                      THEN [reviews EXCEPT ![r].decision = "failed"] ELSE reviews
        /\ Goes(a, Resting)
        /\ UNCHANGED <<local, target, mishaps>>

\* CompleteReviewApproval: anything but a pending intent is a conflict, or
\* the replay of this approval, and changes nothing
CompleteApproval(a) ==
    LET r == approve[a].review
    IN  /\ approve[a].at = "complete"
        /\ reviews' = IF Undecided(r) /\ Latest(r) /\ reviews[r].decision = "intent"
                      THEN [reviews EXCEPT ![r].status = "APPROVED", ![r].decision = "final",
                                           ![r].accepted = approve[a].head,
                                           ![r].run = IF local THEN "COMPLETED" ELSE @]
                      ELSE reviews
        /\ Goes(a, Resting)
        /\ UNCHANGED <<local, target, mishaps>>

\* RequestReviewChanges: refused while an approval intent is pending; the
\* next attempt is queued in the same transaction (OpenReview when it ends)
RequestChanges(r) ==
    /\ Undecided(r) /\ Latest(r) /\ reviews[r].decision # "intent"
    /\ reviews' = [reviews EXCEPT ![r].status = "CHANGES_REQUESTED", ![r].decision = "final", ![r].run = "COMPLETED"]
    /\ UNCHANGED <<local, target, approve, mishaps>>

\* the server dies: a merge under way ends on its own or is left half done
ServerDies ==
    /\ mishaps < MaxMishaps /\ mishaps' = mishaps + 1
    /\ \E a \in Approvers : approve[a] # Resting
    /\ approve' = [a \in Approvers |-> Resting]
    /\ \/ UNCHANGED target
       \/ \E a \in Approvers : /\ approve[a].at = "merging"
                               /\ target' = [merged |-> target.merged \cup Contents(approve[a].review), clean |-> TRUE]
    /\ UNCHANGED <<local, reviews>>

\* an operator cleans the project workspace
CleanTarget ==
    /\ ~target.clean /\ ~Merging
    /\ target' = [target EXCEPT !.clean = TRUE]
    /\ UNCHANGED <<local, reviews, approve, mishaps>>

ApproveStep(a) ==
    ApplyRevision(a) \/ ApplyRefused(a) \/ MergeSucceeds(a) \/ MergeConflicts(a) \/ FailApproval(a) \/ CompleteApproval(a)

ReviewNext ==
    \/ \E i \in RvIssues : OpenReview(i)
    \/ \E r \in DOMAIN reviews : RequestChanges(r) \/ \E a \in Approvers : BeginApproval(a, r)
    \/ \E a \in Approvers : ApproveStep(a)
    \/ ServerDies \/ CleanTarget

ReviewSpec == ReviewInit /\ [][ReviewNext]_reviewVars

\* a call of Approve runs to its end; the person who approves tries again,
\* and an operator cleans a target that was left half merged
ReviewFairness ==
    /\ \A a \in Approvers : WF_reviewVars(ApproveStep(a))
    /\ \A r \in 1..MaxReviews :
          WF_reviewVars(r \in DOMAIN reviews /\ \E a \in Approvers : BeginApproval(a, r))
    /\ WF_reviewVars(CleanTarget)

ReviewFairSpec == ReviewSpec /\ ReviewFairness

-----------------------------------------------------------------------------
\* Type correctness of the reviews and the calls in progress.
ReviewTypeOK ==
    /\ \A r \in DOMAIN reviews : /\ reviews[r].status \in {"PENDING", "APPROVED", "CHANGES_REQUESTED"}
                                 /\ reviews[r].decision \in {"none", "intent", "failed", "final"}
                                 /\ (reviews[r].decision = "final") = (reviews[r].status # "PENDING")
    /\ target.merged \subseteq DOMAIN reviews
    /\ \A a, b \in Approvers : approve[a].at = "merging" /\ approve[b].at = "merging" => a = b

\* An approval of a local project is only recorded once its revision is in
\* the target, with a head that contains it, whatever other approvals,
\* failures and crashes came in between; a Git project's target is never
\* written.
ApprovedIsDelivered ==
    /\ \A r \in DOMAIN reviews : reviews[r].status = "APPROVED" =>
          /\ r \in reviews[r].accepted
          /\ local => reviews[r].accepted \subseteq target.merged /\ reviews[r].run = "COMPLETED"
    /\ ~local => target.merged = {}

\* A decision is final: no step of any call changes a review that was
\* approved or sent back, nor removes what was delivered.
DecisionIsFinal ==
    [][ /\ \A r \in DOMAIN reviews : reviews[r].status # "PENDING" => reviews'[r] = reviews[r]
        /\ target.merged \subseteq target'.merged ]_reviewVars

\* "The approval intent plus Git ancestry makes retry safe and idempotent"
\* (app/reviews.go): a delivered revision whose approval was not recorded is
\* decided in the end when the approval is tried again.
DeliveredGetsDecided == []<>(\A r \in target.merged : reviews[r].status # "PENDING")

\* ReviewsSafe: an approval is recorded only for what was delivered, and a decision
\* is final, whatever approvals, crashes and failing merges interleave.
ReviewsSafe == [](ReviewTypeOK /\ ApprovedIsDelivered) /\ DecisionIsFinal
=============================================================================
