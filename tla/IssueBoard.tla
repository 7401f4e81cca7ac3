----------------------------- MODULE IssueBoard -----------------------------
(***************************************************************************)
(* The columns of a project's board and the status an agent gives its      *)
(* issue.  Every change of a status or a place is one transaction under    *)
(* the project's board lock (store/postgres/board_order.go).  The agent's  *)
(* run works on issue 1: its set_issue_status calls are completed parts of *)
(* the native session's history, numbered in order, which the engine sees  *)
(* live on the event stream, or later by reconciling with that history     *)
(* (engine/opencode/issue_status_tool.go).                                 *)
(***************************************************************************)
EXTENDS Naturals, Sequences, FiniteSets
LOCAL INSTANCE SequencesExt

CONSTANTS
    Columns,        \* issue statuses
    MaxCards,       \* bound: issues in the project
    MaxIntents      \* bound: set_issue_status calls of the run

ASSUME BoardBounds == MaxCards \in Nat \ {0} /\ MaxIntents \in Nat

VARIABLES
    cards,          \* issues by number: status and board_position
    intents,        \* statuses of the completed tool parts in the native history
    inbox,          \* parts on the subscribed event stream, not yet handled
    marked,         \* issueStatusToolTracker.seen
    tracker,        \* where the engine is: live, attach, lost, resubscribe, idle, done
    listed,         \* parts found by reconcileDurable, 0 outside it
    running,        \* the run is RUNNING
    overtaken,      \* an issue event of somebody else since the run started
    choice          \* history: the status somebody else gave issue 1, until the
                    \* agent's next live call, or "none"

boardVars == <<cards, intents, inbox, marked, tracker, listed, running, overtaken, choice>>
runVars == <<intents, inbox, marked, tracker, listed, running>>

BoardInit ==
    /\ \E c \in Columns : cards = <<[status |-> c, pos |-> 0]>> /\ choice = "none"
    /\ intents = <<>> /\ inbox = <<>> /\ marked = {} /\ tracker = "live" /\ listed = 0
    /\ running = TRUE /\ overtaken = FALSE

-----------------------------------------------------------------------------
\* orderedIssueIDsTx: ORDER BY board_position, created_at
Column(c, except) ==
    SetToSortSeq({i \in DOMAIN cards : cards[i].status = c /\ i # except},
                 LAMBDA i, j : cards[i].pos < cards[j].pos \/ (cards[i].pos = cards[j].pos /\ i < j))

\* rewriteIssuePositionsTx of several columns: the index of an issue is its position
Rewritten(columns) ==
    [i \in DOMAIN cards |->
        IF \E s \in columns : i \in ToSet(s)
        THEN LET s == CHOOSE s \in columns : i \in ToSet(s)
             IN [cards[i] EXCEPT !.pos = (CHOOSE k \in DOMAIN s : s[k] = i) - 1]
        ELSE cards[i]]

Left(i, c) == IF cards[i].status = c THEN {} ELSE {Column(cards[i].status, i)}

\* moveIssueToStatusTopTx and the UPDATE of applyIssueMutationTx; the column the
\* issue leaves is rewritten too
ToTop(i, c) ==
    IF cards[i].status = c THEN cards
    ELSE [Rewritten(Left(i, c) \cup {<<i>> \o Column(c, i)}) EXCEPT ![i].status = c]

\* An event of another actor fences the recovery of the run's status
Recorded(i, c) ==
    /\ overtaken' = (overtaken \/ i = 1)
    /\ choice' = IF i = 1 THEN c ELSE choice

CreateIssue(c, placement) ==
    /\ Len(cards) < MaxCards
    /\ cards' = LET column == {i \in DOMAIN cards : cards[i].status = c}
                    moved == [i \in DOMAIN cards |->
                                IF i \in column /\ placement = "top"
                                THEN [cards[i] EXCEPT !.pos = @ + 1] ELSE cards[i]]
                    below == {cards[i].pos + 1 : i \in column}
                    pos == IF placement = "top" \/ column = {} THEN 0
                           ELSE CHOOSE p \in below : \A q \in below : q <= p
                IN Append(moved, [status |-> c, pos |-> pos])
    /\ UNCHANGED <<runVars, overtaken, choice>>

\* UpdateIssuePatchMutation, updateIssueMutation: the title or the status changes
UpdateIssue(i, c) ==
    /\ cards' = ToTop(i, c)
    /\ Recorded(i, c)
    /\ UNCHANGED runVars

\* placementIndex: the neighbours must be adjacent in the destination column
PlaceIssue(i, c, k) ==
    LET column == Column(c, i)
    IN /\ k \in 0..Len(column)
       /\ cards' = [Rewritten(Left(i, c) \cup {InsertAt(column, k + 1, i)})
                      EXCEPT ![i].status = c]
       /\ Recorded(i, c)
       /\ UNCHANGED runVars

-----------------------------------------------------------------------------
\* The agent calls set_issue_status; the event reaches a subscribed engine
AgentIntends(c) ==
    /\ tracker \in {"live", "attach", "lost", "resubscribe"} /\ Len(intents) < MaxIntents
    /\ intents' = Append(intents, c)
    /\ inbox' = IF tracker \in {"live", "attach"} THEN Append(inbox, Len(intents')) ELSE inbox
    /\ UNCHANGED <<cards, marked, tracker, listed, running, overtaken, choice>>

\* Handle and applyPart: SetIssueStatus without recovery, refused for an ended run
LiveStatus ==
    /\ tracker = "live" /\ inbox # <<>>
    /\ inbox' = Tail(inbox)
    /\ LET p == Head(inbox)
       IN IF p \in marked THEN UNCHANGED <<cards, marked, tracker, choice>>
          ELSE IF ~running THEN tracker' = "done" /\ UNCHANGED <<cards, marked, choice>>
          ELSE /\ cards' = ToTop(1, intents[p])
               /\ marked' = marked \cup {p} /\ choice' = "none"
               /\ UNCHANGED tracker
    /\ UNCHANGED <<intents, listed, running, overtaken>>

\* The event stream breaks; what it had not delivered is gone
StreamLost ==
    /\ tracker = "live" /\ tracker' = "lost" /\ inbox' = <<>>
    /\ UNCHANGED <<cards, intents, marked, listed, running, overtaken, choice>>

Resubscribe ==
    /\ tracker = "resubscribe" /\ tracker' = "live"
    /\ UNCHANGED <<cards, intents, inbox, marked, listed, running, overtaken, choice>>

\* The server restarts and attaches: it subscribes first, and remembers nothing
EngineAttaches ==
    /\ tracker # "done" /\ running
    /\ tracker' = "attach" /\ inbox' = <<>> /\ marked' = {} /\ listed' = 0
    /\ UNCHANGED <<cards, intents, running, overtaken, choice>>

\* The native session has nothing left to do: finishCompleted
SessionIdle ==
    /\ tracker = "live" /\ tracker' = "idle"
    /\ UNCHANGED <<cards, intents, inbox, marked, listed, running, overtaken, choice>>

Reconciled == [attach |-> "live", lost |-> "resubscribe", idle |-> "done"]

\* Mutant: only the last part is remembered
SupersededNone(n) == {}

\* Older parts are superseded by the last one, seen live or not
Superseded(n) == 1..(n - 1)

\* reconcileDurable lists the history
ListDurable ==
    /\ tracker \in DOMAIN Reconciled /\ listed = 0
    /\ listed' = Len(intents)
    /\ marked' = marked \cup Superseded(Len(intents))
    /\ tracker' = IF intents = <<>> THEN Reconciled[tracker] ELSE tracker
    /\ UNCHANGED <<cards, intents, inbox, running, overtaken, choice>>

\* validateIssueStatusRecoveryFence
Fenced == overtaken

\* applyPart of the last part with recovery; a superseded recovery counts as done
RecoverStatus ==
    /\ listed > 0 /\ listed' = 0
    /\ IF listed \in marked \/ (running /\ Fenced)
       THEN UNCHANGED cards /\ marked' = marked \cup {listed} /\ tracker' = Reconciled[tracker]
       ELSE IF ~running THEN tracker' = "done" /\ UNCHANGED <<cards, marked>>
       ELSE /\ cards' = ToTop(1, intents[listed])
            /\ marked' = marked \cup {listed} /\ tracker' = Reconciled[tracker]
    /\ UNCHANGED <<intents, inbox, running, overtaken, choice>>

\* The run is cancelled or its lease is lost
RunEnds ==
    /\ running /\ tracker # "done" /\ running' = FALSE
    /\ UNCHANGED <<cards, intents, inbox, marked, tracker, listed, overtaken, choice>>

BoardStep ==
    \/ \E c \in Columns, placement \in {"top", "bottom"} : CreateIssue(c, placement)
    \/ \E i \in DOMAIN cards, c \in Columns : UpdateIssue(i, c)
    \/ \E i \in DOMAIN cards, c \in Columns, k \in 0..MaxCards : PlaceIssue(i, c, k)

TrackerStep ==
    \/ \E c \in Columns : AgentIntends(c)
    \/ LiveStatus \/ StreamLost \/ Resubscribe \/ EngineAttaches \/ SessionIdle
    \/ ListDurable \/ RecoverStatus \/ RunEnds

BoardNext == BoardStep \/ TrackerStep

BoardSpec == BoardInit /\ [][BoardNext]_boardVars

-----------------------------------------------------------------------------
\* The tables and the tracker's state have the shapes of the code, and a
\* remembered part is one of the history.
BoardTypeOK ==
    /\ cards \in Seq([status : Columns, pos : Nat]) /\ Len(cards) <= MaxCards
    /\ intents \in Seq(Columns) /\ Len(intents) <= MaxIntents
    /\ inbox \in Seq(DOMAIN intents) /\ marked \subseteq DOMAIN intents
    /\ tracker \in {"live", "attach", "lost", "resubscribe", "idle", "done"}
    /\ listed \in {0} \cup DOMAIN intents
    /\ running \in BOOLEAN /\ overtaken \in BOOLEAN /\ choice \in Columns \cup {"none"}

\* The positions of a column are 0, 1, 2, ... without gap or double after every
\* creation, move and status change: what board_order.go maintains by rewriting
\* the column an issue leaves and the one it enters.
ColumnsAreDense ==
    \A c \in Columns :
        LET column == {i \in DOMAIN cards : cards[i].status = c}
        IN {cards[i].pos : i \in column} = 0..(Cardinality(column) - 1)

\* A step moves one issue: the others keep their column and their order in it.
OneCardMoves ==
    [][\E m \in DOMAIN cards' : \A i, j \in DOMAIN cards \ {m} :
          /\ cards'[i].status = cards[i].status
          /\ (cards[i].status = cards[j].status /\ cards[i].pos < cards[j].pos)
                => cards'[i].pos < cards'[j].pos]_boardVars

\* What somebody else decides about the issue while its run executes is not
\* undone by recovery: only a live call of the agent replaces it
\* (validateIssueStatusRecoveryFence).
ChoiceStands == choice # "none" => cards[1].status = choice

\* If nobody else touched the issue, the completed run leaves it in the status
\* of its last set_issue_status call, however often the stream broke or the
\* server restarted, and whatever the stream delivers again.
LastIntentWins ==
    (tracker = "done" /\ running /\ ~overtaken /\ intents # <<>>)
        => cards[1].status = intents[Len(intents)]

\* BoardSafe: columns stay dense and a step moves one card, the last status the
\* agent set is the one the run leaves, and recovery never undoes what somebody
\* else decided.
BoardSafe == /\ [](BoardTypeOK /\ ColumnsAreDense /\ ChoiceStands /\ LastIntentWins)
             /\ OneCardMoves
=============================================================================
