---------------------------- MODULE EventStreams ----------------------------
(***************************************************************************)
(* Events from the transaction that persists them to the browser that      *)
(* shows them: the store's append, the recorder's publication after the    *)
(* commit, the in-process hub with its bounded drop-oldest channels, the   *)
(* two server-sent-event streams (of a run, by sequence; of a project, by  *)
(* creation time) and the browser that reconnects from what it holds.      *)
(*                                                                         *)
(* One stream is modelled, of the kind chosen in the initial state; the    *)
(* events are those of one run.  An event is its run sequence number,      *)
(* evLog[e] the created_at it carries: the start of its transaction, which *)
(* may precede the start of a transaction that commits earlier.            *)
(***************************************************************************)
EXTENDS Naturals, Sequences, FiniteSets
LOCAL INSTANCE FiniteSetsExt
LOCAL INSTANCE SequencesExt

CONSTANTS
    EventWriters,   \* goroutines that append an event and publish it
    MaxEvents,      \* bound on the events and on the transactions begun
    HubBuffer,      \* hubSubscriberBuffer
    EventPage,      \* runEvidenceEventPageSize, projectEventPageSize
    EventPages,     \* projectEventMaxPages
    MaxBreaks       \* bound on broken streams, reloads and server crashes

VARIABLES
    kind,        \* which stream the browser opens: "run" or "project"
    evLog,       \* the events table, in commit order
    writers,     \* each writer's progress
    evClock,     \* transaction start times handed out
    channel,     \* the subscriber's buffered channel
    stream,      \* the handler that serves the stream
    browser,     \* what the browser holds and the last event it was sent
    passedOver,  \* events no stream owes the browser any more
    breaks

eventVars == <<kind, evLog, writers, evClock, channel, stream, browser,
               passedOver, breaks>>

Committed == DOMAIN evLog
IdleWriter == [at |-> "idle", stamp |-> 0, event |-> 0, to |-> 0]
Off(id) == [at |-> "off", id |-> id, cursor |-> 0, pages |-> 0,
            todo |-> <<>>, seen |-> {}, sent |-> <<>>]

EventInit ==
    /\ kind \in {"run", "project"}
    /\ evLog = <<>>
    /\ writers = [w \in EventWriters |-> IdleWriter]
    /\ evClock = 0
    /\ channel = <<>>
    /\ stream = Off(0)
    /\ browser = [held |-> {}, last |-> 0]
    /\ passedOver = {}
    /\ breaks = 0

-----------------------------------------------------------------------------
(* The append.  The run's event_sequence is incremented in the             *)
(* transaction, so the row lock makes sequence order commit order;         *)
(* created_at is the transaction's start.                                  *)

BeginEvent(w) ==
    /\ writers[w].at = "idle"
    /\ evClock < MaxEvents
    /\ evClock' = evClock + 1
    /\ writers' = [writers EXCEPT ![w] =
                     [IdleWriter EXCEPT !.at = "open", !.stamp = evClock + 1]]
    /\ UNCHANGED <<kind, evLog, channel, stream, browser, passedOver, breaks>>

(* A reference of the event is not there: the transaction rolls back.      *)
AbortEvent(w) ==
    /\ writers[w].at = "open"
    /\ writers' = [writers EXCEPT ![w] = IdleWriter]
    /\ UNCHANGED <<kind, evLog, evClock, channel, stream, browser,
                   passedOver, breaks>>

AppendEvent(w) ==
    /\ writers[w].at = "open"
    /\ evLog' = Append(evLog, writers[w].stamp)
    /\ writers' = [writers EXCEPT ![w].at = "committed",
                                  ![w].event = Len(evLog) + 1]
    /\ UNCHANGED <<kind, evClock, channel, stream, browser, passedOver, breaks>>

-----------------------------------------------------------------------------
(* Publication.  The subscribers are read under the hub's mutex; the       *)
(* delivery is outside it and takes up to three non-blocking selects.      *)

SnapshotSubscribers(w) ==
    /\ writers[w].at = "committed"
    /\ writers' = [writers EXCEPT ![w] =
                     IF stream.at = "off" THEN IdleWriter
                     ELSE [@ EXCEPT !.at = "offer", !.to = stream.id]]
    /\ UNCHANGED <<kind, evLog, evClock, channel, stream, browser,
                   passedOver, breaks>>

(* The channel a publisher writes to may be that of a stream that ended.   *)
Current(w) == stream.at # "off" /\ writers[w].to = stream.id

OfferEvent(w) ==
    /\ writers[w].at = "offer"
    /\ IF Current(w) /\ Len(channel) < HubBuffer
       THEN channel' = Append(channel, writers[w].event)
       ELSE UNCHANGED channel
    /\ writers' = [writers EXCEPT ![w] =
                     IF Current(w) /\ Len(channel) = HubBuffer
                     THEN [@ EXCEPT !.at = "full"] ELSE IdleWriter]
    /\ UNCHANGED <<kind, evLog, evClock, stream, browser, passedOver, breaks>>

DropOldest(w) ==
    /\ writers[w].at = "full"
    /\ IF Current(w) /\ channel # <<>>
       THEN /\ channel' = Tail(channel)
            /\ passedOver' = passedOver \cup {Head(channel)}
       ELSE UNCHANGED <<channel, passedOver>>
    /\ writers' = [writers EXCEPT ![w].at = "retry"]
    /\ UNCHANGED <<kind, evLog, evClock, stream, browser, breaks>>

OfferAgain(w) ==
    /\ writers[w].at = "retry"
    /\ IF Current(w) /\ Len(channel) < HubBuffer
       THEN /\ channel' = Append(channel, writers[w].event)
            /\ UNCHANGED passedOver
       ELSE /\ passedOver' = passedOver \cup {writers[w].event}
            /\ UNCHANGED channel
    /\ writers' = [writers EXCEPT ![w] = IdleWriter]
    /\ UNCHANGED <<kind, evLog, evClock, stream, browser, breaks>>

-----------------------------------------------------------------------------
(* The stream: subscribe, list page by page what is after the browser's    *)
(* cursor, write that, then write what the channel brings.                 *)

(* The browser's cursor: the largest sequence it holds, or the last event  *)
(* of the project stream.                                                  *)
RunCursor == Max(browser.held \cup {0})
ProjectCursor == browser.last

(* Events the reconnecting browser's cursor already excludes.              *)
Excluded ==
    IF kind = "run" THEN {e \in Committed : e <= RunCursor}
    ELSE {e \in Committed : ProjectCursor = 0
                            \/ evLog[e] <= evLog[ProjectCursor]}

(* An empty project cursor lists nothing.                                  *)
OpenStream ==
    /\ stream.at = "off"
    /\ channel' = <<>>
    /\ stream' = [Off(stream.id + 1) EXCEPT
                    !.at = IF kind = "project" /\ ProjectCursor = 0
                           THEN "replaying" ELSE "listing",
                    !.cursor = IF kind = "run" THEN RunCursor ELSE ProjectCursor]
    /\ passedOver' = passedOver \cup (Excluded \ browser.held)
    /\ UNCHANGED <<kind, evLog, writers, evClock, browser, breaks>>

FirstOf(s, n) == SubSeq(s, 1, IF Len(s) < n THEN Len(s) ELSE n)

ListRunEvents(after) ==
    FirstOf(SetToSortSeq({e \in Committed : e > after}, <), EventPage)

ListProjectEventsAfter(after, limit) ==
    FirstOf(SetToSortSeq({e \in Committed : evLog[e] > evLog[after]},
                         LAMBDA d, e : evLog[d] < evLog[e]), limit)

(* A short page is the last one; the next starts after its last event.     *)
StreamTakesOnePage(page) ==
    stream' = [stream EXCEPT !.todo = @ \o page,
                             !.pages = @ + 1,
                             !.at = IF Len(page) <= EventPage
                                    THEN "replaying" ELSE @,
                             !.cursor = IF page = <<>> THEN @ ELSE Last(page)]
StreamTakes(page) ==
    stream' = [stream EXCEPT !.todo = @ \o page,
                             !.pages = @ + 1,
                             !.at = IF Len(page) < EventPage
                                    THEN "replaying" ELSE @,
                             !.cursor = IF page = <<>> THEN @ ELSE Last(page)]

ListEventsAfter ==
    /\ stream.at = "listing" /\ kind = "run"
    /\ StreamTakes(ListRunEvents(stream.cursor))
    /\ UNCHANGED <<kind, evLog, writers, evClock, channel, browser,
                   passedOver, breaks>>

ListProjectPage ==
    /\ stream.at = "listing" /\ kind = "project" /\ stream.pages < EventPages
    /\ StreamTakes(ListProjectEventsAfter(stream.cursor, EventPage))
    /\ UNCHANGED <<kind, evLog, writers, evClock, channel, browser,
                   passedOver, breaks>>

(* After the last page allowed one more event is asked for.  If there is   *)
(* one nothing is replayed: the browser is told to reload and forgets its  *)
(* cursor.                                                                 *)
ListProjectEnd ==
    /\ stream.at = "listing" /\ kind = "project" /\ stream.pages = EventPages
    /\ IF ListProjectEventsAfter(stream.cursor, 1) = <<>>
       THEN /\ stream' = [stream EXCEPT !.at = "replaying"]
            /\ UNCHANGED <<browser, passedOver>>
       ELSE /\ stream' = [stream EXCEPT !.at = "replaying", !.todo = <<>>]
            /\ browser' = [browser EXCEPT !.last = 0]
            /\ passedOver' = Committed
    /\ UNCHANGED <<kind, evLog, writers, evClock, channel, breaks>>

(* Writing an event: the browser merges it and moves its cursor.           *)
Received(e) == browser' = [held |-> browser.held \cup {e}, last |-> e]

ReplayForgets ==
    /\ stream.at = "replaying" /\ stream.todo # <<>>
    /\ LET e == Head(stream.todo)
       IN /\ stream' = [stream EXCEPT !.todo = Tail(@), !.sent = Append(@, e)]
          /\ Received(e)
    /\ UNCHANGED <<kind, evLog, writers, evClock, channel, passedOver, breaks>>
ReplayEvent ==
    /\ stream.at = "replaying" /\ stream.todo # <<>>
    /\ LET e == Head(stream.todo)
       IN /\ stream' = [stream EXCEPT !.todo = Tail(@), !.sent = Append(@, e),
                                      !.seen = @ \cup {e}]
          /\ Received(e)
    /\ UNCHANGED <<kind, evLog, writers, evClock, channel, passedOver, breaks>>

ReplayDone ==
    /\ stream.at = "replaying" /\ stream.todo = <<>>
    /\ stream' = [stream EXCEPT !.at = "live"]
    /\ UNCHANGED <<kind, evLog, writers, evClock, channel, browser,
                   passedOver, breaks>>

(* The run stream remembers live events too, the project stream only the   *)
(* replayed ones.                                                          *)
LiveEvent ==
    /\ stream.at = "live" /\ channel # <<>>
    /\ channel' = Tail(channel)
    /\ LET e == Head(channel)
       IN IF e \in stream.seen
          THEN UNCHANGED <<stream, browser>>
          ELSE /\ stream' = [stream EXCEPT !.sent = Append(@, e),
                               !.seen = IF kind = "run" THEN @ \cup {e} ELSE @]
               /\ Received(e)
    /\ UNCHANGED <<kind, evLog, writers, evClock, passedOver, breaks>>

-----------------------------------------------------------------------------
(* Faults.  A stream ends when the browser goes, a write or a listing      *)
(* fails, or the subscriber's access is gone; the subscription ends with   *)
(* it.  A crash loses every publication not yet made.                      *)

EventStreamEnds ==
    /\ stream.at # "off" /\ breaks < MaxBreaks
    /\ breaks' = breaks + 1
    /\ stream' = Off(stream.id)
    /\ channel' = <<>>
    /\ UNCHANGED <<kind, evLog, writers, evClock, browser, passedOver>>

EventServerDies ==
    /\ breaks < MaxBreaks
    /\ breaks' = breaks + 1
    /\ stream' = Off(stream.id)
    /\ channel' = <<>>
    /\ writers' = [w \in EventWriters |-> IdleWriter]
    /\ UNCHANGED <<kind, evLog, evClock, browser, passedOver>>

(* The page is loaded again: the persisted history is fetched before the   *)
(* stream is opened.                                                       *)
BrowserReloads ==
    /\ breaks < MaxBreaks
    /\ breaks' = breaks + 1
    /\ stream' = Off(stream.id)
    /\ channel' = <<>>
    /\ browser' = [held |-> Committed, last |-> 0]
    /\ UNCHANGED <<kind, evLog, writers, evClock, passedOver>>

-----------------------------------------------------------------------------
Publication(w) ==
    \/ SnapshotSubscribers(w)
    \/ OfferEvent(w)
    \/ DropOldest(w)
    \/ OfferAgain(w)

StreamSteps ==
    \/ OpenStream
    \/ ListEventsAfter
    \/ ListProjectPage
    \/ ListProjectEnd
    \/ ReplayEvent
    \/ ReplayDone
    \/ LiveEvent

EventNext ==
    \/ \E w \in EventWriters :
          \/ BeginEvent(w)
          \/ AbortEvent(w)
          \/ AppendEvent(w)
          \/ Publication(w)
    \/ StreamSteps
    \/ EventStreamEnds
    \/ EventServerDies
    \/ BrowserReloads

(* A publisher runs to its end, a handler keeps serving, and the browser   *)
(* opens its stream again two seconds after it ended.                      *)
EventFairness ==
    /\ \A w \in EventWriters : WF_eventVars(Publication(w))
    /\ WF_eventVars(StreamSteps)

EventFairSpec == EventInit /\ [][EventNext]_eventVars /\ EventFairness

-----------------------------------------------------------------------------
(* Properties.                                                             *)

EventIds == 1..MaxEvents

(* Types: a writer that has committed knows its event, the channel holds   *)
(* at most HubBuffer committed events, the project listing never takes     *)
(* more than EventPages pages, and the browser holds committed events      *)
(* only: nothing is published before it is persisted.                      *)
EventTypeOK ==
    /\ Len(evLog) <= MaxEvents /\ ToSet(evLog) \subseteq EventIds
    /\ \A w \in EventWriters :
          /\ writers[w].at \in {"idle", "open", "committed", "offer", "full", "retry"}
          /\ writers[w].at \in {"committed", "offer", "full", "retry"}
                => writers[w].event \in Committed
    /\ Len(channel) <= HubBuffer /\ ToSet(channel) \subseteq Committed
    /\ stream.at \in {"off", "listing", "replaying", "live"}
    /\ kind = "project" => stream.pages <= EventPages
    /\ browser.held \subseteq Committed
    /\ browser.last \in Committed \cup {0}

(* Each handler subscribes before it lists, so an event can come to it by  *)
(* the listing and by the channel; it still writes no event twice on one   *)
(* connection.                                                             *)
NothingTwice == IsInjective(stream.sent)

(* Persist, subscribe, list, publish in any interleaving: an event that    *)
(* committed reaches the browser, unless a full channel dropped it, the    *)
(* browser's own cursor was past it when it connected, or the browser was  *)
(* told to reload.  A page boundary, an event committed between two pages  *)
(* or a publisher overtaken by the subscription loses nothing: time and    *)
(* again the browser holds all there is.                                   *)
EventsArrive == []<>(Committed \subseteq browser.held \cup passedOver)

\* EventsSafe: replay and live delivery together send no event twice on one stream,
\* and nothing is shown that was not committed.
EventsSafe == EventTypeOK /\ NothingTwice
=============================================================================
