------------------------------ MODULE LinkProofs ------------------------------
(***************************************************************************)
(* Safety of what crosses the server, its runners and the disk, for every   *)
(* number of approvers, managers, transfers, workers and faults.  Each      *)
(* component has an inductive invariant of its own: its safety properties   *)
(* and what its processes know at the step they are at.                     *)
(***************************************************************************)
EXTENDS Reviews, RunnerGenerations, TLAPS

-----------------------------------------------------------------------------
(***************************************************************************)
(* Reviews.  What makes an approval safe is what the call of Approve knows  *)
(* when it comes to record it: the head it was told contains the review     *)
(* and, in a local project, is part of the target.                          *)
(***************************************************************************)
ReviewRow ==
    [issue : RvIssues, status : {"PENDING", "APPROVED", "CHANGES_REQUESTED"},
     decision : {"none", "intent", "failed", "final"}, accepted : SUBSET Nat,
     run : {"READY_FOR_REVIEW", "COMPLETED"}]
ApproveSteps == {"idle", "apply", "merging", "fail", "complete"}

ReviewVarTypes ==
    /\ local \in BOOLEAN
    /\ reviews \in Seq(ReviewRow)
    /\ target \in [merged : SUBSET Nat, clean : BOOLEAN]
    /\ approve \in [Approvers -> [at : ApproveSteps, review : Nat, head : SUBSET Nat]]

\* A call that is under way has a review; only a local project is merged into;
\* and a call that is about to record an approval holds a head that contains it.
ApproversKnow ==
    \A a \in Approvers :
        /\ approve[a].at # "idle" => approve[a].review \in DOMAIN reviews
        /\ approve[a].at \in {"apply", "merging"} => local
        /\ approve[a].at = "complete" =>
              /\ approve[a].review \in approve[a].head
              /\ local => approve[a].head \subseteq target.merged

ReviewInv == ReviewVarTypes /\ ReviewTypeOK /\ ApprovedIsDelivered /\ ApproversKnow

\* What a revision contains are reviews of the project, the revision's own too.
LEMMA ContentsAreReviews ==
    ASSUME ReviewVarTypes, NEW r \in DOMAIN reviews
    PROVE  r \in Contents(r) /\ Contents(r) \subseteq DOMAIN reviews
BY DEF ReviewVarTypes, Contents

\* A step of one review: what stays, and what its new row may be.  Every write to a
\* row that exists is of an undecided review.
LEMMA OpenReviewKeeps ==
    ASSUME ReviewInv, NEW i \in RvIssues, OpenReview(i)
    PROVE  ReviewInv' /\ \A r \in DOMAIN reviews : r \in DOMAIN reviews' /\ reviews'[r] = reviews[r]
<1> DEFINE row == [issue |-> i, status |-> "PENDING", decision |-> "none",
                   accepted |-> {}, run |-> "READY_FOR_REVIEW"]
<1>1. reviews' = Append(reviews, row) /\ row \in ReviewRow
  BY DEF OpenReview, ReviewRow
<1>2. /\ reviews' \in Seq(ReviewRow) /\ DOMAIN reviews' = 1..(Len(reviews) + 1)
      /\ DOMAIN reviews = 1..Len(reviews)
      /\ \A r \in DOMAIN reviews : reviews'[r] = reviews[r]
      /\ reviews'[Len(reviews) + 1] = row
  BY <1>1 DEF ReviewInv, ReviewVarTypes
<1> HIDE DEF row
<1>3. row.status = "PENDING" /\ row.decision = "none"
  BY DEF row
<1>4. UNCHANGED <<local, target, approve>>
  BY DEF OpenReview
<1>5. \A r \in DOMAIN reviews' : r \in DOMAIN reviews \/ reviews'[r] = row
  BY <1>2 DEF ReviewInv, ReviewVarTypes
<1>6. ReviewVarTypes'
  BY <1>2, <1>4 DEF ReviewInv, ReviewVarTypes
<1>7. ReviewTypeOK'
  BY <1>2, <1>3, <1>4, <1>5 DEF ReviewInv, ReviewTypeOK
<1>8. ApprovedIsDelivered' /\ ApproversKnow'
  BY <1>2, <1>3, <1>4, <1>5 DEF ReviewInv, ApprovedIsDelivered, ApproversKnow
<1> QED BY <1>2, <1>6, <1>7, <1>8 DEF ReviewInv

\* Setting a field of a review's row leaves the others.
LEMMA SetDecision ==
    ASSUME NEW v \in ReviewRow, NEW d \in {"none", "intent", "failed", "final"}
    PROVE  /\ [v EXCEPT !.decision = d] \in ReviewRow
           /\ [v EXCEPT !.decision = d].status = v.status
           /\ [v EXCEPT !.decision = d].decision = d
BY DEF ReviewRow

\* A row that is undecided may be rewritten; an approval only with a head that
\* contains the review and, in a local project, is in the target.
LEMMA WriteReview ==
    ASSUME ReviewInv, NEW r \in DOMAIN reviews, NEW x \in ReviewRow,
           reviews[r].status = "PENDING",
           reviews' = [reviews EXCEPT ![r] = x],
           UNCHANGED local, target.merged \subseteq target'.merged,
           ~local => target'.merged = {},
           (x.decision = "final") = (x.status # "PENDING"),
           x.status = "APPROVED" =>
              /\ r \in x.accepted
              /\ local => x.accepted \subseteq target.merged /\ x.run = "COMPLETED"
    PROVE  /\ reviews' \in Seq(ReviewRow) /\ DOMAIN reviews' = DOMAIN reviews
           /\ \A q \in DOMAIN reviews :
                /\ reviews[q].status # "PENDING" => reviews'[q] = reviews[q]
                /\ reviews'[q].status \in {"PENDING", "APPROVED", "CHANGES_REQUESTED"}
                /\ reviews'[q].decision \in {"none", "intent", "failed", "final"}
                /\ (reviews'[q].decision = "final") = (reviews'[q].status # "PENDING")
           /\ ApprovedIsDelivered'
<1>1. /\ reviews' \in Seq(ReviewRow) /\ DOMAIN reviews' = DOMAIN reviews
      /\ \A q \in DOMAIN reviews : reviews'[q] = IF q = r THEN x ELSE reviews[q]
  BY DEF ReviewInv, ReviewVarTypes
<1>2. ApprovedIsDelivered'
  BY <1>1 DEF ReviewInv, ApprovedIsDelivered
<1> QED BY <1>1, <1>2 DEF ReviewInv, ReviewTypeOK, ReviewRow

\* What a step of one review or call leaves alone, and that decided rows and
\* merged revisions stay.
Kept ==
    /\ DOMAIN reviews \subseteq DOMAIN reviews'
    /\ \A r \in DOMAIN reviews : reviews[r].status # "PENDING" => reviews'[r] = reviews[r]
    /\ target.merged \subseteq target'.merged

\* BeginReviewApproval: an undecided review gets an intent, its call a revision.
LEMMA BeginApprovalKeeps ==
    ASSUME ReviewInv, NEW r \in DOMAIN reviews, NEW a \in Approvers, BeginApproval(a, r)
    PROVE  ReviewInv' /\ Kept
<1> DEFINE x == [reviews[r] EXCEPT !.decision = "intent"]
           step == [at |-> IF local THEN "apply" ELSE "complete", review |-> r, head |-> Contents(r)]
<1>1. /\ reviews[r].status = "PENDING" /\ reviews' = [reviews EXCEPT ![r] = x]
      /\ UNCHANGED <<local, target>> /\ approve' = [approve EXCEPT ![a] = step]
  BY DEF BeginApproval, Undecided, Goes
<1>2. /\ x \in ReviewRow /\ r \in Nat
      /\ x.status = "PENDING" /\ x.decision = "intent"
  <2>1. reviews[r] \in ReviewRow /\ r \in Nat
    BY DEF ReviewInv, ReviewVarTypes
  <2> QED BY <1>1, <2>1, SetDecision
<1>3. /\ reviews' \in Seq(ReviewRow) /\ DOMAIN reviews' = DOMAIN reviews
      /\ \A q \in DOMAIN reviews :
                /\ reviews[q].status # "PENDING" => reviews'[q] = reviews[q]
                /\ reviews'[q].status \in {"PENDING", "APPROVED", "CHANGES_REQUESTED"}
                /\ reviews'[q].decision \in {"none", "intent", "failed", "final"}
                /\ (reviews'[q].decision = "final") = (reviews'[q].status # "PENDING")
      /\ ApprovedIsDelivered'
  <2> HIDE DEF x
  <2> QED BY <1>1, <1>2, WriteReview DEF ReviewInv, ApprovedIsDelivered
<1>4. r \in Contents(r) /\ Contents(r) \subseteq DOMAIN reviews /\ Contents(r) \subseteq Nat
  BY ContentsAreReviews DEF ReviewInv, Contents
<1>5. approve' \in [Approvers -> [at : ApproveSteps, review : Nat, head : SUBSET Nat]]
  BY <1>1, <1>2, <1>4 DEF ReviewInv, ReviewVarTypes, ApproveSteps
<1>6. \A b \in Approvers : approve'[b] = IF b = a THEN step ELSE approve[b]
  BY <1>1 DEF ReviewInv, ReviewVarTypes
<1>7. ReviewVarTypes'
  BY <1>1, <1>3, <1>5 DEF ReviewInv, ReviewVarTypes
<1>8. ReviewTypeOK'
  BY <1>1, <1>3, <1>6 DEF ReviewInv, ReviewTypeOK
<1>9. ApproversKnow'
  BY <1>1, <1>3, <1>4, <1>6 DEF ReviewInv, ApproversKnow, ReviewVarTypes
<1> QED BY <1>1, <1>3, <1>7, <1>8, <1>9 DEF ReviewInv, Kept

\* What EXCEPT makes of the record of a call and of that of the target.
LEMMA SetStep ==
    ASSUME NEW was \in [at : ApproveSteps, review : Nat, head : SUBSET Nat],
           NEW s \in ApproveSteps, NEW h \in SUBSET Nat
    PROVE  /\ [was EXCEPT !.at = s] = [at |-> s, review |-> was.review, head |-> was.head]
           /\ [was EXCEPT !.at = s, !.head = h] = [at |-> s, review |-> was.review, head |-> h]
<1> DEFINE both == [was EXCEPT !.at = s, !.head = h]
<1>1. /\ both \in [at : ApproveSteps, review : Nat, head : SUBSET Nat]
      /\ both.at = s /\ both.review = was.review /\ both.head = h
  OBVIOUS
<1>2. [was EXCEPT !.at = s] = [at |-> s, review |-> was.review, head |-> was.head]
  OBVIOUS
<1> HIDE DEF both
<1>3. both = [at |-> s, review |-> was.review, head |-> h]
  BY <1>1
<1> QED BY <1>2, <1>3 DEF both

\* Setting whether the target is clean leaves what is merged into it.
LEMMA SetClean ==
    ASSUME NEW was \in [merged : SUBSET Nat, clean : BOOLEAN], NEW c \in BOOLEAN
    PROVE  [was EXCEPT !.clean = c] = [merged |-> was.merged, clean |-> c]
OBVIOUS

\* A call that moves within ApplyReviewedRevision keeps everything it knows.
LEMMA ApplyKeeps ==
    ASSUME ReviewInv, NEW a \in Approvers,
           \/ ApplyRevision(a) \/ ApplyRefused(a) \/ MergeSucceeds(a) \/ MergeConflicts(a)
    PROVE  ReviewInv' /\ Kept
<1> DEFINE r == approve[a].review
<1>0. /\ UNCHANGED <<local, reviews>> /\ local
      /\ r \in DOMAIN reviews /\ r \in Nat /\ approve[a].head \in SUBSET Nat
      /\ DOMAIN reviews \subseteq Nat /\ target.merged \in SUBSET Nat
  BY DEF ReviewInv, ReviewVarTypes, ApproversKnow, ApplyRevision, ApplyRefused,
         MergeSucceeds, MergeConflicts
<1>1. r \in Contents(r) /\ Contents(r) \subseteq DOMAIN reviews
  BY <1>0, ContentsAreReviews DEF ReviewInv
<1>2. /\ target' \in [merged : SUBSET Nat, clean : BOOLEAN]
      /\ target.merged \subseteq target'.merged /\ target'.merged \subseteq DOMAIN reviews
  <2>1. \E c \in BOOLEAN, m \in SUBSET Nat :
           /\ target' = [merged |-> m, clean |-> c]
           /\ target.merged \subseteq m /\ m \subseteq DOMAIN reviews
    <3>0. /\ target \in [merged : SUBSET Nat, clean : BOOLEAN]
          /\ target = [merged |-> target.merged, clean |-> target.clean]
          /\ target.merged \subseteq DOMAIN reviews
      BY DEF ReviewInv, ReviewVarTypes, ReviewTypeOK
    <3>a. /\ [target EXCEPT !.clean = TRUE] = [merged |-> target.merged, clean |-> TRUE]
          /\ [target EXCEPT !.clean = FALSE] = [merged |-> target.merged, clean |-> FALSE]
      BY <3>0, SetClean
    <3>1. CASE ApplyRevision(a) \/ MergeConflicts(a)
      <4>1. PICK c \in BOOLEAN : target' = [merged |-> target.merged, clean |-> c]
        BY <3>0, <3>a, <3>1 DEF ApplyRevision, MergeConflicts
      <4> QED BY <1>0, <3>0, <4>1
    <3>2. CASE ApplyRefused(a)
      BY <1>0, <3>0, <3>2 DEF ApplyRefused
    <3>3. CASE MergeSucceeds(a)
      <4> DEFINE m == target.merged \cup Contents(r)
      <4>1. target' = [merged |-> m, clean |-> TRUE] /\ m \in SUBSET Nat /\ m \subseteq DOMAIN reviews
        BY <1>0, <1>1, <3>0, <3>3 DEF MergeSucceeds
      <4>2. target.merged \subseteq m
        OBVIOUS
      <4> HIDE DEF m
      <4> QED BY <4>1, <4>2
    <3> QED BY <3>1, <3>2, <3>3
  <2> QED BY <2>1
<1>3. \E s \in ApproveSteps, h \in SUBSET Nat :
         /\ approve' = [approve EXCEPT ![a] = [at |-> s, review |-> r, head |-> h]]
         /\ s \in {"fail", "merging", "complete"}
         /\ s = "merging" => ~Merging
         /\ s = "complete" => r \in h /\ h \subseteq target'.merged
  <2> DEFINE was == approve[a]
  <2>0. was \in [at : ApproveSteps, review : Nat, head : SUBSET Nat]
    BY DEF ReviewInv, ReviewVarTypes
  <2>a. /\ [was EXCEPT !.at = "merging"] = [at |-> "merging", review |-> r, head |-> was.head]
        /\ [was EXCEPT !.at = "fail"] = [at |-> "fail", review |-> r, head |-> was.head]
    BY <2>0, SetStep DEF ApproveSteps
  <2>b. /\ [was EXCEPT !.at = "complete", !.head = target.merged]
              = [at |-> "complete", review |-> r, head |-> target.merged]
        /\ [was EXCEPT !.at = "complete", !.head = target'.merged]
              = [at |-> "complete", review |-> r, head |-> target'.merged]
    <3>1. target'.merged \in SUBSET Nat /\ target.merged \in SUBSET Nat /\ "complete" \in ApproveSteps
      BY <1>0, <1>2 DEF ApproveSteps
    <3> HIDE DEF was
    <3>2. \A h \in SUBSET Nat :
             [was EXCEPT !.at = "complete", !.head = h] = [at |-> "complete", review |-> was.review, head |-> h]
      BY <2>0, <3>1, SetStep, Zenon
    <3>3. was.review = r
      BY DEF was
    <3> QED BY <3>1, <3>2, <3>3, Zenon
  <2>1. CASE ApplyRevision(a)
    <3>1. CASE r \in target.merged
      <4>1. /\ UNCHANGED target
            /\ approve' = [approve EXCEPT ![a] = [at |-> "complete", review |-> r, head |-> target.merged]]
        BY <2>1, <2>b, <3>1 DEF ApplyRevision, Goes
      <4> QED BY <1>0, <3>1, <4>1 DEF ApproveSteps
    <3>2. CASE r \notin target.merged
      <4>1. approve' = [approve EXCEPT ![a] = [at |-> "merging", review |-> r, head |-> was.head]]
        BY <2>1, <2>a, <3>2 DEF ApplyRevision, Goes
      <4> QED BY <1>0, <2>1, <4>1 DEF ApproveSteps, ApplyRevision
    <3> QED BY <3>1, <3>2
  <2>2. CASE ApplyRefused(a) \/ MergeConflicts(a)
    BY <1>0, <2>2, <2>a DEF ApplyRefused, MergeConflicts, Goes, ApproveSteps
  <2>3. CASE MergeSucceeds(a)
    <3>1. target'.merged \in SUBSET Nat /\ target'.merged = target.merged \cup Contents(r)
      BY <1>2, <2>3 DEF MergeSucceeds
    <3> QED BY <1>0, <1>1, <2>3, <2>b, <3>1 DEF MergeSucceeds, Goes, ApproveSteps
  <2> QED BY <2>1, <2>2, <2>3
<1>4. PICK s \in ApproveSteps, h \in SUBSET Nat :
         /\ approve' = [approve EXCEPT ![a] = [at |-> s, review |-> r, head |-> h]]
         /\ s \in {"fail", "merging", "complete"}
         /\ s = "merging" => ~Merging
         /\ s = "complete" => r \in h /\ h \subseteq target'.merged
  BY <1>3
<1> HIDE DEF r
<1>5. /\ approve' \in [Approvers -> [at : ApproveSteps, review : Nat, head : SUBSET Nat]]
      /\ \A b \in Approvers : approve'[b] = IF b = a THEN [at |-> s, review |-> r, head |-> h]
                                                     ELSE approve[b]
  BY <1>0, <1>4 DEF ReviewInv, ReviewVarTypes
<1>6. ReviewVarTypes'
  BY <1>0, <1>2, <1>5 DEF ReviewInv, ReviewVarTypes
<1>7. ReviewTypeOK'
  BY <1>0, <1>2, <1>4, <1>5 DEF ReviewInv, ReviewTypeOK, Merging
<1>8. ApprovedIsDelivered'
  BY <1>0, <1>2 DEF ReviewInv, ApprovedIsDelivered
<1>9. ApproversKnow'
  BY <1>0, <1>2, <1>4, <1>5 DEF ReviewInv, ApproversKnow
<1> QED BY <1>0, <1>2, <1>6, <1>7, <1>8, <1>9 DEF ReviewInv, Kept

\* A call that comes to rest changes nothing of what the others know.
LEMMA RestKeeps ==
    ASSUME ReviewInv, NEW a \in Approvers, approve' = [approve EXCEPT ![a] = Resting],
           reviews' \in Seq(ReviewRow), DOMAIN reviews' = DOMAIN reviews,
           UNCHANGED <<local, target>>,
           \A q \in DOMAIN reviews :
                /\ reviews'[q].status \in {"PENDING", "APPROVED", "CHANGES_REQUESTED"}
                /\ reviews'[q].decision \in {"none", "intent", "failed", "final"}
                /\ (reviews'[q].decision = "final") = (reviews'[q].status # "PENDING"),
           ApprovedIsDelivered'
    PROVE  ReviewInv'
<1>1. /\ approve' \in [Approvers -> [at : ApproveSteps, review : Nat, head : SUBSET Nat]]
      /\ \A b \in Approvers : approve'[b] = IF b = a THEN Resting ELSE approve[b]
  BY DEF ReviewInv, ReviewVarTypes, Resting, ApproveSteps
<1>2. Resting.at = "idle"
  BY DEF Resting
<1>3. ReviewVarTypes'
  BY <1>1 DEF ReviewInv, ReviewVarTypes
<1>4. ReviewTypeOK' /\ ApproversKnow'
  BY <1>1, <1>2 DEF ReviewInv, ReviewTypeOK, ApproversKnow
<1> QED BY <1>3, <1>4 DEF ReviewInv

\* FailReviewApproval and CompleteReviewApproval write one undecided row.
LEMMA ConcludeKeeps ==
    ASSUME ReviewInv, NEW a \in Approvers, FailApproval(a) \/ CompleteApproval(a)
    PROVE  ReviewInv' /\ Kept
<1> DEFINE r == approve[a].review
<1>0. /\ r \in DOMAIN reviews /\ approve' = [approve EXCEPT ![a] = Resting]
      /\ UNCHANGED <<local, target>>
  BY DEF ReviewInv, ApproversKnow, FailApproval, CompleteApproval, Goes
<1>a. reviews[r] \in ReviewRow /\ approve[a].head \in SUBSET Nat
  BY <1>0 DEF ReviewInv, ReviewVarTypes
<1>1. CASE reviews' = reviews
  <2>1. ReviewInv'
    BY <1>0, <1>1, RestKeeps DEF ReviewInv, ReviewVarTypes, ReviewTypeOK, ApprovedIsDelivered
  <2> QED BY <1>0, <1>1, <2>1 DEF Kept
<1>2. CASE reviews' # reviews
  <2>1. PICK x \in ReviewRow :
           /\ reviews' = [reviews EXCEPT ![r] = x]
           /\ (x.decision = "final") = (x.status # "PENDING")
           /\ x.status = "APPROVED" =>
                /\ r \in x.accepted
                /\ local => x.accepted \subseteq target.merged /\ x.run = "COMPLETED"
    <3>1. CASE FailApproval(a)
      <4> DEFINE x == [reviews[r] EXCEPT !.decision = "failed"]
      <4>1. x \in ReviewRow /\ x.status = "PENDING" /\ x.decision = "failed"
        BY <1>2, <1>a, <3>1, SetDecision DEF FailApproval, Undecided
      <4>2. reviews' = [reviews EXCEPT ![r] = x]
        BY <1>2, <3>1 DEF FailApproval
      <4> QED BY <4>1, <4>2
    <3>2. CASE CompleteApproval(a)
      <4> DEFINE x == [reviews[r] EXCEPT !.status = "APPROVED", !.decision = "final",
                                         !.accepted = approve[a].head,
                                         !.run = IF local THEN "COMPLETED" ELSE @]
      <4>1. /\ x \in ReviewRow /\ x.status = "APPROVED" /\ x.decision = "final"
            /\ x.accepted = approve[a].head /\ (local => x.run = "COMPLETED")
        BY <1>a DEF ReviewRow
      <4>2. reviews' = [reviews EXCEPT ![r] = x]
        BY <1>0, <1>2, <3>2 DEF CompleteApproval
      <4>3. r \in approve[a].head /\ (local => approve[a].head \subseteq target.merged)
        BY <3>2 DEF CompleteApproval, ReviewInv, ApproversKnow
      <4> HIDE DEF x
      <4> QED BY <4>1, <4>2, <4>3
    <3> QED BY <3>1, <3>2
  <2>2. reviews[r].status = "PENDING"
    BY <1>2 DEF FailApproval, CompleteApproval, Undecided
  <2> HIDE DEF r
  <2>3. /\ reviews' \in Seq(ReviewRow) /\ DOMAIN reviews' = DOMAIN reviews
        /\ \A q \in DOMAIN reviews :
                /\ reviews[q].status # "PENDING" => reviews'[q] = reviews[q]
                /\ reviews'[q].status \in {"PENDING", "APPROVED", "CHANGES_REQUESTED"}
                /\ reviews'[q].decision \in {"none", "intent", "failed", "final"}
                /\ (reviews'[q].decision = "final") = (reviews'[q].status # "PENDING")
        /\ ApprovedIsDelivered'
    BY <1>0, <2>1, <2>2, WriteReview DEF ReviewInv, ApprovedIsDelivered
  <2>4. ReviewInv'
    BY <1>0, <2>3, RestKeeps
  <2> QED BY <1>0, <2>3, <2>4 DEF Kept
<1> QED BY <1>1, <1>2

\* Setting the outcome of a review leaves its revision and its issue.
LEMMA SetOutcome ==
    ASSUME NEW v \in ReviewRow
    PROVE  LET x == [v EXCEPT !.status = "CHANGES_REQUESTED", !.decision = "final", !.run = "COMPLETED"]
           IN  x \in ReviewRow /\ x.status = "CHANGES_REQUESTED" /\ x.decision = "final"
BY DEF ReviewRow

\* RequestReviewChanges: an undecided review is sent back.
LEMMA RequestChangesKeeps ==
    ASSUME ReviewInv, NEW r \in DOMAIN reviews, RequestChanges(r)
    PROVE  ReviewInv' /\ Kept
<1> DEFINE x == [reviews[r] EXCEPT !.status = "CHANGES_REQUESTED", !.decision = "final", !.run = "COMPLETED"]
<1>1. /\ reviews[r].status = "PENDING" /\ reviews' = [reviews EXCEPT ![r] = x]
      /\ UNCHANGED <<local, target, approve>>
  BY DEF RequestChanges, Undecided
<1>2. x \in ReviewRow /\ x.status = "CHANGES_REQUESTED" /\ x.decision = "final"
  <2>1. reviews[r] \in ReviewRow
    BY DEF ReviewInv, ReviewVarTypes
  <2> QED BY <2>1, SetOutcome
<1> HIDE DEF x
<1>3. /\ reviews' \in Seq(ReviewRow) /\ DOMAIN reviews' = DOMAIN reviews
      /\ \A q \in DOMAIN reviews :
                /\ reviews[q].status # "PENDING" => reviews'[q] = reviews[q]
                /\ reviews'[q].status \in {"PENDING", "APPROVED", "CHANGES_REQUESTED"}
                /\ reviews'[q].decision \in {"none", "intent", "failed", "final"}
                /\ (reviews'[q].decision = "final") = (reviews'[q].status # "PENDING")
      /\ ApprovedIsDelivered'
  BY <1>1, <1>2, WriteReview DEF ReviewInv, ApprovedIsDelivered
<1>4. ReviewVarTypes' /\ ReviewTypeOK' /\ ApproversKnow'
  BY <1>1, <1>3 DEF ReviewInv, ReviewVarTypes, ReviewTypeOK, ApproversKnow
<1> QED BY <1>1, <1>3, <1>4 DEF ReviewInv, Kept

\* A crash ends every call; a merge that goes on adds a revision, and an operator
\* who cleans the target removes none.
LEMMA OutsideKeeps ==
    ASSUME ReviewInv, ServerDies \/ CleanTarget
    PROVE  ReviewInv' /\ Kept
<1>0. /\ UNCHANGED <<local, reviews>> /\ target \in [merged : SUBSET Nat, clean : BOOLEAN]
      /\ target.merged \subseteq DOMAIN reviews /\ DOMAIN reviews \subseteq Nat
  BY DEF ReviewInv, ReviewVarTypes, ReviewTypeOK, ServerDies, CleanTarget
<1>1. /\ target' \in [merged : SUBSET Nat, clean : BOOLEAN]
      /\ target.merged \subseteq target'.merged /\ target'.merged \subseteq DOMAIN reviews
      /\ target'.merged # target.merged => local
  <2>1. CASE UNCHANGED target
    BY <1>0, <2>1
  <2>2. CASE CleanTarget
    <3>1. target' = [merged |-> target.merged, clean |-> TRUE]
      BY <1>0, <2>2, SetClean DEF CleanTarget
    <3> QED BY <1>0, <3>1
  <2>3. ASSUME NEW a \in Approvers, approve[a].at = "merging",
               target' = [merged |-> target.merged \cup Contents(approve[a].review), clean |-> TRUE]
        PROVE  /\ target' \in [merged : SUBSET Nat, clean : BOOLEAN]
               /\ target.merged \subseteq target'.merged /\ target'.merged \subseteq DOMAIN reviews
               /\ local
    <3>1. local /\ approve[a].review \in DOMAIN reviews
      BY <2>3 DEF ReviewInv, ApproversKnow
    <3>2. Contents(approve[a].review) \subseteq DOMAIN reviews
      BY <3>1, ContentsAreReviews DEF ReviewInv
    <3> QED BY <1>0, <2>3, <3>1, <3>2
  <2>4. \/ UNCHANGED target \/ CleanTarget
        \/ \E a \in Approvers : /\ approve[a].at = "merging"
                                /\ target' = [merged |-> target.merged \cup Contents(approve[a].review), clean |-> TRUE]
    BY DEF ServerDies
  <2> QED BY <2>1, <2>2, <2>3, <2>4
<1>2. \/ UNCHANGED approve
      \/ /\ approve' \in [Approvers -> [at : ApproveSteps, review : Nat, head : SUBSET Nat]]
         /\ \A a \in Approvers : approve'[a].at = "idle"
  BY DEF ServerDies, CleanTarget, Resting, ApproveSteps
<1>3. ReviewVarTypes'
  BY <1>0, <1>1, <1>2 DEF ReviewInv, ReviewVarTypes
<1>4. ReviewTypeOK'
  BY <1>0, <1>1, <1>2 DEF ReviewInv, ReviewTypeOK
<1>5. ApprovedIsDelivered'
  BY <1>0, <1>1 DEF ReviewInv, ApprovedIsDelivered
<1>6. ApproversKnow'
  BY <1>0, <1>1, <1>2 DEF ReviewInv, ApproversKnow
<1> QED BY <1>0, <1>1, <1>3, <1>4, <1>5, <1>6 DEF ReviewInv, Kept

\* Every step of the reviews keeps the invariant and what was decided.
LEMMA ReviewStep ==
    ASSUME ReviewInv, [ReviewNext]_reviewVars
    PROVE  ReviewInv' /\ Kept
<1>1. ASSUME NEW i \in RvIssues, OpenReview(i) PROVE ReviewInv' /\ Kept
  BY <1>1, OpenReviewKeeps DEF Kept, OpenReview
<1>2. ASSUME NEW a \in Approvers, ApproveStep(a) PROVE ReviewInv' /\ Kept
  BY <1>2, ApplyKeeps, ConcludeKeeps DEF ApproveStep
<1>3. CASE UNCHANGED reviewVars
  <2>1. ReviewVarTypes' /\ ReviewTypeOK' /\ ApprovedIsDelivered' /\ ApproversKnow'
    BY <1>3 DEF ReviewInv, ReviewVarTypes, ReviewTypeOK, ApprovedIsDelivered, ApproversKnow, reviewVars
  <2> QED BY <1>3, <2>1 DEF ReviewInv, Kept, reviewVars
<1> QED BY <1>1, <1>2, <1>3, BeginApprovalKeeps, RequestChangesKeeps, OutsideKeeps DEF ReviewNext

\* ReviewsAreSafe: whatever calls of Approve and RequestChanges interleave, merges
\* fail and servers die (app/reviews.go, store/postgres/reviews.go), an approval is
\* recorded only with a head that contains its revision, that head is in the target
\* of a local project, and no decision is ever changed or delivery taken back.
THEOREM ReviewsAreSafe == ReviewSpec => ReviewsSafe
<1>1. ReviewInit => ReviewInv
  <2> SUFFICES ASSUME ReviewInit PROVE ReviewInv
    OBVIOUS
  <2>1. \A a \in Approvers : approve[a].at = "idle"
    BY DEF ReviewInit, Resting
  <2>2. ReviewVarTypes
    BY DEF ReviewInit, ReviewVarTypes, Resting, ApproveSteps
  <2>3. ReviewTypeOK /\ ApprovedIsDelivered /\ ApproversKnow
    BY <2>1 DEF ReviewInit, ReviewTypeOK, ApprovedIsDelivered, ApproversKnow
  <2> QED BY <2>2, <2>3 DEF ReviewInv
<1>2. ReviewInv /\ [ReviewNext]_reviewVars => ReviewInv'
  BY ReviewStep
<1>3. ReviewInv => ReviewTypeOK /\ ApprovedIsDelivered
  BY DEF ReviewInv
<1>4. ReviewInv /\ [ReviewNext]_reviewVars =>
         [ /\ \A r \in DOMAIN reviews : reviews[r].status # "PENDING" => reviews'[r] = reviews[r]
           /\ target.merged \subseteq target'.merged ]_reviewVars
  BY ReviewStep DEF Kept
<1> QED BY <1>1, <1>2, <1>3, <1>4, PTL DEF ReviewSpec, ReviewsSafe, DecisionIsFinal

-----------------------------------------------------------------------------
(***************************************************************************)
(* Generations.  The fence works because an attempt's generation is its own *)
(* and the status it read is not stale while the instance runs; one client  *)
(* per manager because it dials only when none of its clients is alive.     *)
(***************************************************************************)
ConnRow ==
    [mgr : Managers \cup {"none"}, gen : Nat, alive : BOOLEAN,
     st : {"unused", "claimed", "up", "failed", "noticed", "reporting", "withdrawing", "watched", "over"},
     seen : {"none", "RUNNING", "STOPPED"}]
ManagerRow == [client : Nat, gen : Nat, dialling : BOOLEAN, closed : BOOLEAN]

\* The attempts are numbered by the generation they claimed; one that has read
\* the lifecycle status of a running instance read RUNNING.
AttemptsAreGenerations ==
    \A c \in Dials :
        /\ c > gen => conn[c] = Unused
        /\ c <= gen => /\ conn[c].gen = c /\ conn[c].mgr \in Managers
                       /\ conn[c].st # "unused"
        /\ conn[c].st \in {"reporting", "withdrawing"} /\ life = "RUNNING" => conn[c].seen = "RUNNING"

\* A manager installs what it dialled, one attempt at a time, and dials only when
\* none of its connections is alive.
ManagersKnow ==
    \A c \in Dials :
        /\ conn[c].alive => conn[c].mgr \in Managers /\ mgr[conn[c].mgr].client = c
        /\ conn[c].st = "claimed" =>
              /\ conn[c].mgr \in Managers /\ mgr[conn[c].mgr].dialling
              /\ \A d \in Dials : conn[d].mgr = conn[c].mgr =>
                    ~conn[d].alive /\ (conn[d].st = "claimed" => d = c)

GenInv ==
    /\ conn \in [Dials -> ConnRow] /\ mgr \in [Managers -> ManagerRow]
    /\ GenTypeOK /\ AttemptsAreGenerations /\ ManagersKnow /\ LiveOwnerIsAvailable

\* An attempt's record once it claimed its generation.
Claimed(was, m, g) == [was EXCEPT !.mgr = m, !.gen = g, !.st = "claimed"]

\* The fields of a record that claimed a generation.
LEMMA ClaimedRow ==
    ASSUME NEW was \in ConnRow, NEW m \in Managers, NEW g \in Nat
    PROVE  /\ Claimed(was, m, g) \in ConnRow /\ Claimed(was, m, g).mgr = m
           /\ Claimed(was, m, g).gen = g /\ Claimed(was, m, g).st = "claimed"
           /\ (Claimed(was, m, g).alive <=> was.alive)
BY DEF ConnRow, Claimed

\* Connect's first half: the attempt gets the next generation, its own.
LEMMA ClaimKeeps ==
    ASSUME GenInv, NEW m \in Managers, NEW c \in Dials, ClaimConnection(m, c)
    PROVE  GenInv'
<1>0. c \in Nat /\ gen \in Nat /\ Dials \subseteq Nat /\ MaxDials \in Nat /\ c <= MaxDials
  BY GenBounds DEF Dials, GenInv, GenTypeOK
<1>1. c = gen + 1
  <2>1. c > gen
    BY <1>0 DEF ClaimConnection, GenInv, AttemptsAreGenerations, Unused
  <2>2. CASE c > gen + 1
    <3>1. gen + 1 \in Dials /\ gen + 1 < c
      BY <1>0, <2>2 DEF Dials
    <3>2. conn[gen + 1] # Unused
      BY <3>1 DEF ClaimConnection
    <3> QED BY <1>0, <3>1, <3>2 DEF GenInv, AttemptsAreGenerations
  <2> QED BY <1>0, <2>1, <2>2
<1> DEFINE x == Claimed(conn[c], m, gen + 1)
           y == [mgr[m] EXCEPT !.dialling = TRUE]
<1>2. conn' = [conn EXCEPT ![c] = x]
  BY DEF ClaimConnection, Claimed
<1>4. x \in ConnRow /\ x.mgr = m /\ x.gen = gen + 1 /\ x.st = "claimed" /\ ~x.alive
  <2>1. conn[c] \in ConnRow /\ gen + 1 \in Nat
    BY <1>0 DEF GenInv
  <2>2. ~conn[c].alive
    BY DEF ClaimConnection, Unused
  <2> QED BY <2>1, <2>2, ClaimedRow
<1>3. /\ y \in ManagerRow /\ y.dialling /\ y.client = mgr[m].client /\ y.gen = mgr[m].gen
      /\ mgr' = [mgr EXCEPT ![m] = y]
  BY DEF ClaimConnection, ManagerRow, GenInv
<1>5. life = "RUNNING" /\ life' = life /\ gen' = gen + 1 /\ avail' = "CONNECTING"
  BY DEF ClaimConnection
<1>6. \A d \in Dials : conn[d].mgr = m => ~conn[d].alive
  BY DEF Dials, ClaimConnection, GenInv, ManagersKnow
<1> HIDE DEF x, y
<1>7. conn' \in [Dials -> ConnRow] /\ mgr' \in [Managers -> ManagerRow]
  BY <1>2, <1>3, <1>4 DEF GenInv
<1>8. /\ \A d \in Dials : conn'[d] = IF d = c THEN x ELSE conn[d]
      /\ \A n \in Managers : mgr'[n] = IF n = m THEN y ELSE mgr[n]
  BY <1>2, <1>3 DEF GenInv
<1>9. GenTypeOK'
  BY <1>0, <1>1, <1>3, <1>4, <1>5, <1>8 DEF GenInv, GenTypeOK
<1>10. AttemptsAreGenerations'
  BY <1>0, <1>1, <1>4, <1>5, <1>8 DEF GenInv, AttemptsAreGenerations
<1>11. ManagersKnow'
  <2> SUFFICES ASSUME NEW d \in Dials
               PROVE  /\ conn'[d].alive => conn'[d].mgr \in Managers /\ mgr'[conn'[d].mgr].client = d
                      /\ conn'[d].st = "claimed" =>
                            /\ conn'[d].mgr \in Managers /\ mgr'[conn'[d].mgr].dialling
                            /\ \A e \in Dials : conn'[e].mgr = conn'[d].mgr =>
                                  ~conn'[e].alive /\ (conn'[e].st = "claimed" => e = d)
    BY DEF ManagersKnow
  <2>1. \A e \in Dials : conn[e].mgr = m => conn[e].st # "claimed"
    BY DEF GenInv, ManagersKnow, ClaimConnection
  <2>2. CASE d = c
    BY <1>3, <1>4, <1>6, <1>8, <2>1, <2>2
  <2>3. CASE d # c
    BY <1>3, <1>4, <1>6, <1>8, <2>1, <2>3 DEF GenInv, ManagersKnow
  <2> QED BY <2>2, <2>3
<1>12. LiveOwnerIsAvailable'
  BY <1>0, <1>4, <1>5, <1>8 DEF GenInv, LiveOwnerIsAvailable, GenTypeOK
<1> QED BY <1>7, <1>9, <1>10, <1>11, <1>12 DEF GenInv

\* A step of one attempt that is past its claim: what it has to leave alone.
LEMMA ConnStep ==
    ASSUME GenInv, NEW c \in Dials, NEW x \in ConnRow, conn[c].st # "unused",
           conn' = [conn EXCEPT ![c] = x], UNCHANGED <<gen, life>>,
           x.mgr = conn[c].mgr, x.gen = conn[c].gen, x.st \notin {"unused", "claimed"},
           x.st \in {"reporting", "withdrawing"} /\ life = "RUNNING" => x.seen = "RUNNING",
           mgr' \in [Managers -> ManagerRow], GenTypeOK',
           x.alive => /\ mgr'[x.mgr].client = c
                      /\ \A d \in Dials : conn[d].mgr = x.mgr /\ conn[d].st = "claimed" => d = c,
           \A d \in Dials \ {c} : /\ conn[d].alive => mgr'[conn[d].mgr].client = d
                                  /\ conn[d].st = "claimed" => mgr'[conn[d].mgr].dialling,
           LiveOwnerIsAvailable'
    PROVE  GenInv'
<1>1. /\ conn' \in [Dials -> ConnRow]
      /\ \A d \in Dials : conn'[d] = IF d = c THEN x ELSE conn[d]
  BY DEF GenInv
<1>2. c <= gen /\ conn[c].mgr \in Managers /\ c \in Nat /\ gen \in Nat
  BY GenBounds DEF GenInv, AttemptsAreGenerations, Unused, GenTypeOK, Dials
<1>3. AttemptsAreGenerations'
  BY <1>1, <1>2 DEF GenInv, AttemptsAreGenerations
<1>4. ManagersKnow'
  <2> SUFFICES ASSUME NEW d \in Dials
               PROVE  /\ conn'[d].alive => conn'[d].mgr \in Managers /\ mgr'[conn'[d].mgr].client = d
                      /\ conn'[d].st = "claimed" =>
                            /\ conn'[d].mgr \in Managers /\ mgr'[conn'[d].mgr].dialling
                            /\ \A e \in Dials : conn'[e].mgr = conn'[d].mgr =>
                                  ~conn'[e].alive /\ (conn'[e].st = "claimed" => e = d)
    BY DEF ManagersKnow
  <2>1. CASE d = c
    BY <1>1, <1>2, <2>1
  <2>2. CASE d # c
    BY <1>1, <1>2, <2>2 DEF GenInv, ManagersKnow
  <2> QED BY <2>1, <2>2
<1> QED BY <1>1, <1>3, <1>4 DEF GenInv

\* The record of an attempt once its dial returned, and that of its manager.
Dialled(was, ok, closed) ==
    [was EXCEPT !.alive = ok /\ ~closed,
                !.st = IF closed THEN "over" ELSE IF ok THEN "up" ELSE "failed"]
Installed(was, c, g, ok) ==
    [was EXCEPT !.dialling = FALSE, !.gen = IF g > @ THEN g ELSE @,
                !.client = IF ok /\ ~was.closed THEN c ELSE @]

\* The fields of the record of an attempt once its dial returned.
LEMMA DialledRow ==
    ASSUME NEW was \in ConnRow, NEW ok \in BOOLEAN, NEW closed \in BOOLEAN
    PROVE  LET x == Dialled(was, ok, closed)
           IN  /\ x \in ConnRow /\ x.mgr = was.mgr /\ x.gen = was.gen /\ (x.alive <=> ok /\ ~closed)
               /\ x.st \in {"over", "up", "failed"}
BY DEF ConnRow, Dialled

\* The fields of the record of a manager once a dial returned.
LEMMA InstalledRow ==
    ASSUME NEW was \in ManagerRow, NEW c \in Nat, NEW g \in Nat, NEW ok \in BOOLEAN
    PROVE  /\ Installed(was, c, g, ok) \in ManagerRow /\ Installed(was, c, g, ok).gen \in {was.gen, g}
           /\ Installed(was, c, g, ok).client = IF ok /\ ~was.closed THEN c ELSE was.client
BY DEF ManagerRow, Installed

\* Connect's second half installs at most one live client, its own.
LEMMA DialKeeps ==
    ASSUME GenInv, NEW c \in Dials, NEW ok \in BOOLEAN, DialReturns(c, ok)
    PROVE  GenInv'
<1> DEFINE m == conn[c].mgr
           x == Dialled(conn[c], ok, mgr[m].closed)
           y == Installed(mgr[m], c, conn[c].gen, ok)
<1>0. /\ conn[c].st = "claimed" /\ m \in Managers /\ mgr[m] \in ManagerRow /\ conn[c] \in ConnRow
      /\ c \in Nat /\ mgr[m].closed \in BOOLEAN /\ conn[c].gen \in Nat /\ Dials \subseteq Nat
  BY DEF DialReturns, GenInv, ManagersKnow, Dials, ManagerRow, ConnRow
<1>1. conn' = [conn EXCEPT ![c] = x] /\ mgr' = [mgr EXCEPT ![m] = y] /\ UNCHANGED <<life, gen, avail>>
  <2>1. conn' = [conn EXCEPT ![c] = x] /\ UNCHANGED <<life, gen, avail>>
    BY <1>0 DEF DialReturns, Dialled
  <2>2. mgr' = [mgr EXCEPT ![m] = y]
    BY <1>0 DEF DialReturns, Installed
  <2> QED BY <2>1, <2>2
<1>2. /\ x \in ConnRow /\ x.mgr = m /\ x.gen = conn[c].gen /\ (x.alive => ok /\ ~mgr[m].closed)
      /\ x.st \in {"over", "up", "failed"}
  BY <1>0, DialledRow
<1>3. /\ y \in ManagerRow /\ y.gen \in {mgr[m].gen, conn[c].gen}
      /\ y.client = IF ok /\ ~mgr[m].closed THEN c ELSE mgr[m].client
  <2> DEFINE was == mgr[m]
             g == conn[c].gen
  <2>1. was \in ManagerRow /\ g \in Nat /\ c \in Nat
    BY <1>0
  <2> HIDE DEF was, g
  <2>2. /\ Installed(was, c, g, ok) \in ManagerRow /\ Installed(was, c, g, ok).gen \in {was.gen, g}
        /\ Installed(was, c, g, ok).client = IF ok /\ ~was.closed THEN c ELSE was.client
    BY <2>1, InstalledRow
  <2> QED BY <2>2, Zenon DEF was, g
<1> HIDE DEF x, y
<1>4. /\ mgr' \in [Managers -> ManagerRow]
      /\ \A n \in Managers : mgr'[n] = IF n = m THEN y ELSE mgr[n]
      /\ \A d \in Dials : conn'[d] = IF d = c THEN x ELSE conn[d]
  BY <1>0, <1>1, <1>3 DEF GenInv
<1>5. GenTypeOK'
  BY <1>0, <1>1, <1>2, <1>3, <1>4 DEF GenInv, GenTypeOK, Dials
<1>6. LiveOwnerIsAvailable'
  BY <1>1, <1>2, <1>4 DEF GenInv, LiveOwnerIsAvailable
<1>7. \A d \in Dials \ {c} : /\ conn[d].alive => mgr'[conn[d].mgr].client = d
                             /\ conn[d].st = "claimed" => mgr'[conn[d].mgr].dialling
  BY <1>0, <1>4 DEF GenInv, ManagersKnow
<1>8. x.alive => /\ mgr'[x.mgr].client = c
                 /\ \A d \in Dials : conn[d].mgr = x.mgr /\ conn[d].st = "claimed" => d = c
  BY <1>0, <1>2, <1>3, <1>4 DEF GenInv, ManagersKnow
<1> QED BY <1>0, <1>1, <1>2, <1>4, <1>5, <1>6, <1>7, <1>8, ConnStep

\* An attempt's record after it read the lifecycle status, moved on, or died.
Reads(was, seen) ==
    [was EXCEPT !.seen = seen, !.st = CASE @ = "up" -> "reporting" [] OTHER -> "withdrawing"]
Moves(was, st) == [was EXCEPT !.st = st]
Dead(was) == [was EXCEPT !.alive = FALSE]

\* The fields of a record that read the lifecycle status.
LEMMA ReadsRow ==
    ASSUME NEW was \in ConnRow, NEW seen \in {"RUNNING", "STOPPED"}
    PROVE  /\ Reads(was, seen) \in ConnRow /\ Reads(was, seen).mgr = was.mgr
           /\ Reads(was, seen).gen = was.gen /\ (Reads(was, seen).alive <=> was.alive)
           /\ Reads(was, seen).seen = seen
           /\ Reads(was, seen).st \in {"reporting", "withdrawing"}
BY DEF ConnRow, Reads

\* The fields of a record that moved on.
LEMMA MovesRow ==
    ASSUME NEW was \in ConnRow, NEW st \in {"watched", "over", "noticed"}
    PROVE  /\ Moves(was, st) \in ConnRow /\ Moves(was, st).mgr = was.mgr
           /\ Moves(was, st).gen = was.gen /\ (Moves(was, st).alive <=> was.alive)
           /\ Moves(was, st).st = st
BY DEF ConnRow, Moves

\* The fields of a record whose transport broke.
LEMMA DeadRow ==
    ASSUME NEW was \in ConnRow
    PROVE  /\ Dead(was) \in ConnRow /\ Dead(was).mgr = was.mgr
           /\ Dead(was).gen = was.gen /\ ~Dead(was).alive
           /\ Dead(was).st = was.st /\ Dead(was).seen = was.seen
           /\ was.alive = FALSE => Dead(was) = was
<1>1. /\ Dead(was) \in ConnRow /\ Dead(was).mgr = was.mgr
      /\ Dead(was).gen = was.gen /\ Dead(was).alive = FALSE
      /\ Dead(was).st = was.st /\ Dead(was).seen = was.seen
  BY DEF ConnRow, Dead
<1> QED BY <1>1 DEF ConnRow

\* A step of one attempt that leaves its manager alone.
LEMMA LoneStep ==
    ASSUME GenInv, NEW c \in Dials, NEW x \in ConnRow, conn[c].st \notin {"unused", "claimed"},
           conn' = [conn EXCEPT ![c] = x], UNCHANGED <<gen, life, mgr>>,
           x.mgr = conn[c].mgr, x.gen = conn[c].gen, x.st \notin {"unused", "claimed"},
           x.st \in {"reporting", "withdrawing"} /\ life = "RUNNING" => x.seen = "RUNNING",
           x.alive => conn[c].alive,
           avail' \in {"CONNECTING", "READY", "BUSY", "UNAVAILABLE"},
           LiveOwnerIsAvailable'
    PROVE  GenInv'
<1>1. \A d \in Dials : conn'[d] = IF d = c THEN x ELSE conn[d]
  BY DEF GenInv
<1>2. GenTypeOK'
  BY <1>1 DEF GenInv, GenTypeOK
<1>3. x.alive => /\ mgr'[x.mgr].client = c
                 /\ \A d \in Dials : conn[d].mgr = x.mgr /\ conn[d].st = "claimed" => d = c
  BY DEF GenInv, ManagersKnow
<1>4. \A d \in Dials \ {c} : /\ conn[d].alive => mgr'[conn[d].mgr].client = d
                             /\ conn[d].st = "claimed" => mgr'[conn[d].mgr].dialling
  BY DEF GenInv, ManagersKnow
<1>5. mgr' \in [Managers -> ManagerRow]
  BY DEF GenInv
<1> QED BY <1>2, <1>3, <1>4, <1>5, ConnStep

\* SetRunnerStatusGeneration's read.
LEMMA ReportReadsKeeps ==
    ASSUME GenInv, NEW c \in Dials, ReportReads(c)
    PROVE  GenInv'
<1> DEFINE x == Reads(conn[c], life)
<1>1. /\ conn' = [conn EXCEPT ![c] = x] /\ UNCHANGED <<life, gen, avail, mgr>>
      /\ conn[c].st \in {"up", "failed", "noticed"}
  BY DEF ReportReads, Reads
<1>2. /\ x \in ConnRow /\ x.mgr = conn[c].mgr /\ x.gen = conn[c].gen /\ (x.alive <=> conn[c].alive)
      /\ x.seen = life /\ x.st \in {"reporting", "withdrawing"}
      /\ avail \in {"CONNECTING", "READY", "BUSY", "UNAVAILABLE"}
  <2>1. conn[c] \in ConnRow /\ life \in {"RUNNING", "STOPPED"}
    BY DEF GenInv, GenTypeOK
  <2> QED BY <2>1, ReadsRow DEF GenInv, GenTypeOK
<1> HIDE DEF x
<1>3. LiveOwnerIsAvailable'
  BY <1>1, <1>2 DEF GenInv, LiveOwnerIsAvailable
<1> QED BY <1>1, <1>2, <1>3, LoneStep

\* The fenced write: only the newest attempt's takes effect.
LEMMA ReportWritesKeeps ==
    ASSUME GenInv, NEW c \in Dials, ReportWrites(c)
    PROVE  GenInv'
<1>0. PICK st \in {"watched", "over"} :
         /\ conn' = [conn EXCEPT ![c] = Moves(conn[c], st)]
         /\ \/ /\ st = "watched" /\ conn[c].st = "reporting"
               /\ \E status \in {"READY", "BUSY"} : FencedWrite(status, conn[c].gen, conn[c].seen)
            \/ /\ st = "over" /\ conn[c].st = "withdrawing"
               /\ FencedWrite("UNAVAILABLE", conn[c].gen, conn[c].seen)
  BY DEF ReportWrites, Moves
<1> DEFINE x == Moves(conn[c], st)
<1>1. UNCHANGED <<life, gen, mgr>>
  BY DEF ReportWrites
<1>2. /\ x \in ConnRow /\ x.mgr = conn[c].mgr /\ x.gen = conn[c].gen /\ (x.alive <=> conn[c].alive)
      /\ x.st = st
  <2>1. conn[c] \in ConnRow
    BY DEF GenInv
  <2> QED BY <2>1, MovesRow
<1> HIDE DEF x
<1>3. \A d \in Dials : conn'[d] = IF d = c THEN x ELSE conn[d]
  BY <1>0 DEF GenInv, x
<1>4. avail' \in {"CONNECTING", "READY", "BUSY", "UNAVAILABLE"}
  BY <1>0 DEF FencedWrite, GenInv, GenTypeOK
<1>5. LiveOwnerIsAvailable'
  <2> SUFFICES ASSUME NEW d \in Dials, conn'[d].alive, conn'[d].st = "watched",
                      conn'[d].gen = gen, life = "RUNNING"
               PROVE  avail' \in {"READY", "BUSY"}
    BY <1>1 DEF LiveOwnerIsAvailable
  <2>1. CASE d = c
    <3>1. conn[c].st = "reporting" /\ conn[c].gen = gen /\ conn[c].seen = "RUNNING"
      BY <1>0, <1>2, <1>3, <2>1 DEF GenInv, AttemptsAreGenerations
    <3> QED BY <1>0, <3>1 DEF FencedWrite
  <2>2. CASE d # c
    <3>1. avail \in {"READY", "BUSY"} /\ conn[d].gen = gen
      BY <1>3, <2>2 DEF GenInv, LiveOwnerIsAvailable
    <3>2. conn[c].gen # gen
      <4>1. c \in Nat /\ d \in Nat /\ gen \in Nat /\ c <= gen /\ d <= gen
        BY <1>0, <1>3, <2>2, GenBounds DEF GenInv, AttemptsAreGenerations, Unused, GenTypeOK, Dials
      <4> QED BY <2>2, <3>1, <4>1 DEF GenInv, AttemptsAreGenerations
    <3> QED BY <1>0, <3>1, <3>2 DEF FencedWrite
  <2> QED BY <2>1, <2>2
<1> QED BY <1>0, <1>1, <1>2, <1>4, <1>5, LoneStep DEF x

\* The transport breaks.
LEMMA ConnectionDiesKeeps ==
    ASSUME GenInv, NEW c \in Dials, ConnectionDies(c)
    PROVE  GenInv'
<1> DEFINE x == Dead(conn[c])
<1>1. conn' = [conn EXCEPT ![c] = x] /\ UNCHANGED <<life, gen, avail, mgr>> /\ conn[c].alive
  BY DEF ConnectionDies, Dead
<1>2. /\ conn[c].st \notin {"unused", "claimed"}
      /\ conn[c].st \in {"reporting", "withdrawing"} /\ life = "RUNNING" => conn[c].seen = "RUNNING"
      /\ avail \in {"CONNECTING", "READY", "BUSY", "UNAVAILABLE"}
  <2>1. conn[c] # Unused
    BY <1>1 DEF Unused
  <2>2. c \in Nat /\ gen \in Nat /\ c <= gen
    BY <2>1, GenBounds DEF GenInv, GenTypeOK, AttemptsAreGenerations, Dials
  <2> QED BY <1>1, <2>2 DEF GenInv, GenTypeOK, AttemptsAreGenerations, ManagersKnow
<1>3. /\ x \in ConnRow /\ x.mgr = conn[c].mgr /\ x.gen = conn[c].gen /\ ~x.alive
      /\ x.st = conn[c].st /\ x.seen = conn[c].seen
  <2>1. conn[c] \in ConnRow
    BY DEF GenInv
  <2> QED BY <2>1, DeadRow
<1> HIDE DEF x
<1>4. LiveOwnerIsAvailable'
  BY <1>1, <1>3 DEF GenInv, LiveOwnerIsAvailable
<1> QED BY <1>1, <1>2, <1>3, <1>4, LoneStep

\* A manager's record after its client was forgotten, or after it was closed.
Forgets(was, owned) == [was EXCEPT !.client = IF owned THEN 0 ELSE @]
Shut(was) == [was EXCEPT !.closed = TRUE]

\* The fields of the record of a manager that forgot its client.
LEMMA ForgetsRow ==
    ASSUME NEW was \in ManagerRow, NEW owned \in BOOLEAN
    PROVE  /\ Forgets(was, owned) \in ManagerRow /\ Forgets(was, owned).gen = was.gen
           /\ (Forgets(was, owned).dialling <=> was.dialling)
           /\ Forgets(was, owned).client = IF owned THEN 0 ELSE was.client
BY DEF ManagerRow, Forgets

\* The fields of the record of a closed manager.
LEMMA ShutRow ==
    ASSUME NEW was \in ManagerRow
    PROVE  /\ Shut(was) \in ManagerRow /\ Shut(was).gen = was.gen
           /\ (Shut(was).dialling <=> was.dialling) /\ Shut(was).client = was.client
BY DEF ManagerRow, Shut

\* The watcher forgets its own client, which is dead.
LEMMA WatchKeeps ==
    ASSUME GenInv, NEW c \in Dials, Watch(c)
    PROVE  GenInv'
<1> DEFINE m == conn[c].mgr
           owned == mgr[m].client = c /\ mgr[m].gen = conn[c].gen
           y == Forgets(mgr[m], owned)
<1>0. /\ conn[c].st = "watched" /\ ~conn[c].alive /\ UNCHANGED <<life, gen, avail>>
      /\ m \in Managers /\ mgr[m] \in ManagerRow /\ conn[c] \in ConnRow /\ c \in Nat
  <2>1. /\ conn[c].st = "watched" /\ ~conn[c].alive /\ UNCHANGED <<life, gen, avail>>
    BY DEF Watch
  <2>2. c \in Nat /\ gen \in Nat /\ c <= gen
    BY <2>1, GenBounds DEF GenInv, GenTypeOK, AttemptsAreGenerations, Dials, Unused
  <2> QED BY <2>1, <2>2 DEF GenInv, AttemptsAreGenerations
<1>1. PICK st \in {"noticed", "over"} : conn' = [conn EXCEPT ![c] = Moves(conn[c], st)]
  BY DEF Watch, Moves
<1>2. mgr' = [mgr EXCEPT ![m] = y]
  BY DEF Watch, Forgets
<1>3. /\ y \in ManagerRow /\ y.gen = mgr[m].gen /\ (y.dialling <=> mgr[m].dialling)
      /\ y.client = IF owned THEN 0 ELSE mgr[m].client
  <2>1. owned \in BOOLEAN
    OBVIOUS
  <2> HIDE DEF owned
  <2> QED BY <1>0, <2>1, ForgetsRow
<1> DEFINE x == Moves(conn[c], st)
<1>4. /\ x \in ConnRow /\ x.mgr = m /\ x.gen = conn[c].gen /\ ~x.alive /\ x.st = st
  BY <1>0, MovesRow
<1> HIDE DEF x, y
<1>5. /\ mgr' \in [Managers -> ManagerRow]
      /\ \A n \in Managers : mgr'[n] = IF n = m THEN y ELSE mgr[n]
      /\ \A d \in Dials : conn'[d] = IF d = c THEN x ELSE conn[d]
  BY <1>0, <1>1, <1>2, <1>3 DEF GenInv, x
<1>6. GenTypeOK'
  BY <1>0, <1>3, <1>4, <1>5, GenBounds DEF GenInv, GenTypeOK
<1>7. \A d \in Dials \ {c} : /\ conn[d].alive => mgr'[conn[d].mgr].client = d
                             /\ conn[d].st = "claimed" => mgr'[conn[d].mgr].dialling
  BY <1>3, <1>5 DEF GenInv, ManagersKnow
<1>8. LiveOwnerIsAvailable'
  BY <1>0, <1>4, <1>5 DEF GenInv, LiveOwnerIsAvailable
<1>9. conn' = [conn EXCEPT ![c] = x]
  BY <1>1 DEF x
<1> QED BY <1>0, <1>4, <1>5, <1>6, <1>7, <1>8, <1>9, ConnStep

\* Manager.Close: its client is dead.
LEMMA CloseKeeps ==
    ASSUME GenInv, NEW m \in Managers, CloseManager(m)
    PROVE  GenInv'
<1> DEFINE y == Shut(mgr[m])
<1>1. mgr' = [mgr EXCEPT ![m] = y] /\ UNCHANGED <<life, gen, avail>>
  BY DEF CloseManager, Shut
<1>2. /\ y \in ManagerRow /\ y.gen = mgr[m].gen /\ (y.dialling <=> mgr[m].dialling)
      /\ y.client = mgr[m].client
  <2>1. mgr[m] \in ManagerRow
    BY DEF GenInv
  <2> QED BY <2>1, ShutRow
<1>3. conn' = [c \in Dials |-> IF mgr[m].client = c THEN Dead(conn[c]) ELSE conn[c]]
  BY DEF CloseManager, Dead
<1>4. \A c \in Dials :
         /\ conn'[c] \in ConnRow /\ conn'[c].mgr = conn[c].mgr /\ conn'[c].gen = conn[c].gen
         /\ conn'[c].st = conn[c].st /\ conn'[c].seen = conn[c].seen
         /\ conn'[c].alive => conn[c].alive
         /\ mgr[m].client # c => conn'[c] = conn[c]
  BY <1>3, DeadRow DEF GenInv
<1>5. conn' \in [Dials -> ConnRow]
  BY <1>3, <1>4
<1> HIDE DEF y
<1>6. /\ mgr' \in [Managers -> ManagerRow]
      /\ \A n \in Managers : mgr'[n] = IF n = m THEN y ELSE mgr[n]
  BY <1>1, <1>2 DEF GenInv
<1>7. GenTypeOK'
  BY <1>1, <1>2, <1>4, <1>6 DEF GenInv, GenTypeOK
<1>8. AttemptsAreGenerations'
  <2>1. \A c \in Dials : conn[c] = Unused => conn'[c] = Unused
    <3> SUFFICES ASSUME NEW c \in Dials, conn[c] = Unused PROVE Dead(conn[c]) = conn[c]
      BY <1>3
    <3>1. conn[c] \in ConnRow
      BY DEF GenInv
    <3>2. conn[c].alive = FALSE
      BY DEF Unused
    <3> QED BY <3>1, <3>2, DeadRow
  <2> QED BY <1>1, <1>4, <2>1 DEF GenInv, AttemptsAreGenerations
<1>9. ManagersKnow'
  BY <1>2, <1>4, <1>6 DEF GenInv, ManagersKnow
<1>10. LiveOwnerIsAvailable'
  BY <1>1, <1>4 DEF GenInv, LiveOwnerIsAvailable
<1> QED BY <1>5, <1>6, <1>7, <1>8, <1>9, <1>10 DEF GenInv

\* The steps that write only the row: an attempt that is alive and watched is
\* shown as available by Reconcile and by the session service too.
LEMMA RowKeeps ==
    ASSUME GenInv, \/ \E m \in Managers : ReconcileReports(m)
                   \/ SessionServiceReports \/ StopInstance \/ UNCHANGED genVars
    PROVE  GenInv'
<1>1. /\ UNCHANGED <<gen, conn, mgr>>
      /\ \/ life' = life /\ avail' \in {"READY", "BUSY", avail}
         \/ life' = "STOPPED" /\ avail' = "UNAVAILABLE"
  BY DEF ReconcileReports, SessionServiceReports, StopInstance, FencedWrite, genVars
<1>2. GenTypeOK' /\ conn' \in [Dials -> ConnRow] /\ mgr' \in [Managers -> ManagerRow]
  BY <1>1 DEF GenInv, GenTypeOK
<1>3. AttemptsAreGenerations' /\ ManagersKnow' /\ LiveOwnerIsAvailable'
  BY <1>1 DEF GenInv, AttemptsAreGenerations, ManagersKnow, LiveOwnerIsAvailable
<1> QED BY <1>2, <1>3 DEF GenInv

\* GenerationsAreSafe: however many servers dial, report, watch and are replaced,
\* and however late their writes (runner/manager.go, store/postgres/
\* runtime_instances.go), the newest live connection is never shown as unavailable
\* and a manager has at most one connection alive.
THEOREM GenerationsAreSafe == GenSpec => []GenerationsSafe
<1>1. GenInit => GenInv
  <2> SUFFICES ASSUME GenInit PROVE GenInv
    OBVIOUS
  <2>0. /\ \A c \in Dials : conn[c] = Unused /\ c \in Nat /\ c > 0
        /\ gen = 0 /\ MaxDials \in Nat
        /\ Unused.alive = FALSE /\ Unused.st = "unused" /\ Unused.gen = 0
    BY GenBounds DEF GenInit, Unused, Dials
  <2>1. conn \in [Dials -> ConnRow] /\ mgr \in [Managers -> ManagerRow]
    BY DEF GenInit, Unused, ConnRow, ManagerRow
  <2>2. GenTypeOK
    BY <2>0 DEF GenInit, GenTypeOK
  <2>3. AttemptsAreGenerations /\ ManagersKnow /\ LiveOwnerIsAvailable
    BY <2>0 DEF AttemptsAreGenerations, ManagersKnow, LiveOwnerIsAvailable
  <2> QED BY <2>1, <2>2, <2>3 DEF GenInv
<1>2. GenInv /\ [GenNext]_genVars => GenInv'
  BY ClaimKeeps, DialKeeps, ReportReadsKeeps, ReportWritesKeeps, ConnectionDiesKeeps, WatchKeeps,
     CloseKeeps, RowKeeps DEF GenNext
<1>3. GenInv => GenerationsSafe
  BY DEF GenInv, GenerationsSafe, OneLiveConnection, ManagersKnow
<1> QED BY <1>1, <1>2, <1>3, PTL DEF GenSpec
=============================================================================
