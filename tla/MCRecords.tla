------------------------------ MODULE MCRecords -----------------------------
(***************************************************************************)
(* The records of the platform: the board and the execution that follows an *)
(* owner, the discussion an agent reads, the redaction of what is kept, and *)
(* accounts and permissions.  The components share no state: `focus' picks *)
(* the one that moves, the others rest.                                    *)
(***************************************************************************)
EXTENDS IssueBoard, IssueExecution, Discussions, RedactionLeases, Redactor, Access,
        Credentials

VARIABLE focus

MCWords == UNION {[1..n -> Letters] : n \in 0..3}
MCVocabularies == UNION {kSubset(n, MCWords) : n \in 0..2}
MCCandidates == << <<"*", "*">>, <<"r">> >>

RecordsInit ==
    /\ focus \in {"board", "execution", "discussion", "leases", "redactor", "access", "credentials"}
    /\ BoardInit /\ ExecutionInit /\ DiscussionInit /\ MaskInit /\ RedactInit /\ AccessInit /\ CredInit
    /\ cards[1].status = "BACKLOG" \/ focus = "board"
    /\ (leader = "a" /\ ~provider) \/ focus = "execution"
    /\ secrets = {} \/ focus = "redactor"

Rest ==
    /\ UNCHANGED focus
    /\ IF focus # "board" THEN UNCHANGED boardVars ELSE TRUE
    /\ IF focus # "execution" THEN UNCHANGED executionVars ELSE TRUE
    /\ IF focus # "discussion" THEN UNCHANGED discussionVars ELSE TRUE
    /\ IF focus # "leases" THEN UNCHANGED maskVars ELSE TRUE
    /\ IF focus # "redactor" THEN UNCHANGED redactVars ELSE TRUE
    /\ IF focus # "access" THEN UNCHANGED accessVars ELSE TRUE
    /\ IF focus # "credentials" THEN UNCHANGED credVars ELSE TRUE

RecordsNext ==
    /\ Rest
    /\ \/ focus = "board" /\ BoardNext
       \/ focus = "execution" /\ ExecutionNext
       \/ focus = "discussion" /\ DiscussionNext
       \/ focus = "leases" /\ MaskNext
       \/ focus = "redactor" /\ RedactNext
       \/ focus = "access" /\ AccessNext
       \/ focus = "credentials" /\ CredNext

RecordsSpec ==
    /\ RecordsInit
    /\ [][RecordsNext]_<<focus, boardVars, executionVars, discussionVars, maskVars, redactVars, accessVars, credVars>>
=============================================================================
