------------------------------- MODULE Tunnels -------------------------------
(***************************************************************************)
(* Session-local connections: the server dials a service that runs beside  *)
(* an execution session, through the runner's WebSocket.  The server's end *)
(* is a net.Conn (runner/connect.go sessionConn) whose writes share the    *)
(* connection's write mutex (runner/session_write.go); the runner's end is *)
(* a sessionConnector with a read loop and a write loop                    *)
(* (agent-runner server/connect.go).  One tunnel of one session; chunks    *)
(* are numbered in the order they are written.                             *)
(***************************************************************************)
EXTENDS Integers, Sequences, SequencesExt

CONSTANTS
    Loads,              \* bounds: pairs of how many chunks the server and the service write
    UpDepth,            \* connectQueueDepth
    DownDepth,          \* connectReadQueueDepth
    MaxAttempts         \* bound: attempts to take the write mutex

ASSUME TunnelBounds == /\ Loads \subseteq Nat \X Nat /\ MaxAttempts \in Nat \ {0}
                       /\ UpDepth \in Nat \ {0} /\ DownDepth \in Nat \ {0}

VARIABLES
    tun,                \* sessionConn, and what DialSession and Read returned
    notifying,          \* the goroutine that writes the close notification
    wr,                 \* Write: [pc, k, sent, woken], k the current attempt
    helpers,            \* the goroutines of lockWriteMutexUntil, by attempt
    writeMu,            \* the connection's write mutex: 0 free, -1 another writer
    upWire, downWire,   \* frames to the runner, frames to the server
    tunLink,            \* the WebSocket: [up, server, runner], each side's view
    connector,          \* sessionConnector
    svc,                \* the service and the runner's socket to it
    sess,               \* the execution session, and whether its row says so
    load                \* the member of Loads this behaviour is bounded by

clientVars == <<tun, notifying>>
writeVars == <<wr, helpers, writeMu>>
connectorVars == <<connector, svc>>
tunnelVars == <<clientVars, writeVars, upWire, downWire, tunLink, connectorVars, sess>>

Attempts == 1..MaxAttempts
Frame(t, n) == [t |-> t, n |-> n]
\* a close frame with and without an error code
CloseCode == Frame("close", 1)
CloseClean == Frame("close", 0)

TunnelInit ==
    /\ tun = [st |-> "idle", reg |-> FALSE, done |-> FALSE, err |-> "none",
              connected |-> "none", incoming |-> <<>>, got |-> <<>>, end |-> "none"]
    /\ notifying = FALSE
    /\ wr = [pc |-> "idle", k |-> 0, sent |-> 0, woken |-> FALSE]
    /\ helpers = [k \in Attempts |-> "unborn"]
    /\ writeMu = 0
    /\ upWire = <<>> /\ downWire = <<>>
    /\ tunLink = [up |-> TRUE, server |-> TRUE, runner |-> TRUE]
    /\ connector = [st |-> "none", done |-> FALSE, writes |-> <<>>, hand |-> 0,
                    read |-> 0, reading |-> FALSE, writing |-> FALSE]
    /\ svc = [sock |-> "none", wrote |-> 0, got |-> <<>>, fin |-> "no"]
    /\ sess = "running"
    /\ load \in Loads

-----------------------------------------------------------------------------
\* markConnected, once
MarkConnected(t, result) ==
    [t EXCEPT !.connected = IF @ = "none" THEN result ELSE @]

\* closeRemote: once; the tunnel is forgotten and the waiting dial is told
Closed(t, err) ==
    IF t.done THEN t
    ELSE MarkConnected([t EXCEPT !.reg = FALSE, !.done = TRUE, !.err = err], "err")

\* closeLocal: the same, and a goroutine tells the runner
CloseLocal(t, err) ==
    /\ tun' = Closed(t, err)
    /\ notifying' = (notifying \/ ~t.done)

\* DialSession of the session service: only for a session whose row is running
DialAllowed == sess # "recorded"

\* DialSession up to the select: register, write connect; a failed write forgets
DialSession ==
    /\ tun.st = "idle" /\ DialAllowed /\ tunLink.server
    /\ \/ /\ tunLink.up
          /\ tun' = [tun EXCEPT !.st = "dialing", !.reg = TRUE]
          /\ upWire' = Append(upWire, Frame("connect", 0))
       \/ /\ ~tunLink.up
          /\ tun' = [Closed(tun, "link") EXCEPT !.st = "failed"]
          /\ UNCHANGED upWire
    /\ UNCHANGED <<notifying, writeVars, downWire, tunLink, connectorVars, sess>>

\* DialSession: the select
DialSessionReturns ==
    /\ tun.st = "dialing"
    /\ \/ /\ tun.connected # "none"
          /\ tun' = [tun EXCEPT !.st = IF tun.connected = "ok" THEN "open" ELSE "failed",
                                !.reg = @ /\ tun.connected = "ok"]
       \/ /\ ~tunLink.server
          /\ tun' = [Closed(tun, "link") EXCEPT !.st = "failed"]
    /\ UNCHANGED <<notifying, writeVars, upWire, downWire, tunLink, connectorVars, sess>>

\* DialSession: its context ends first
DialCancelled ==
    /\ tun.st = "dialing"
    /\ CloseLocal([tun EXCEPT !.st = "failed"], "ctx")
    /\ UNCHANGED <<writeVars, upWire, downWire, tunLink, connectorVars, sess>>

\* Close by the user of the net.Conn
CloseConn ==
    /\ tun.st = "open" /\ ~tun.done
    /\ CloseLocal(tun, "local")
    /\ UNCHANGED <<writeVars, upWire, downWire, tunLink, connectorVars, sess>>

\* the goroutine of closeLocal: waits for the write mutex, best effort
NotifyClose ==
    /\ notifying /\ writeMu = 0
    /\ notifying' = FALSE
    /\ upWire' = IF tunLink.up THEN Append(upWire, CloseClean) ELSE upWire
    /\ UNCHANGED <<tun, writeVars, downWire, tunLink, connectorVars, sess>>

\* push: never blocks the read loop; a full queue ends the tunnel
PushFrame(t, n) ==
    IF Len(t.incoming) < DownDepth
    THEN tun' = [t EXCEPT !.incoming = Append(@, n)] /\ UNCHANGED notifying
    ELSE CloseLocal(t, "backpressure")

\* handleConnectMessage: frames of a forgotten tunnel are ignored
HandleConnectMessage ==
    /\ tunLink.server /\ downWire # <<>>
    /\ downWire' = Tail(downWire)
    /\ LET m == Head(downWire) IN
       \/ ~tun.reg /\ UNCHANGED clientVars
       \/ /\ tun.reg /\ m.t = "connected"
          /\ tun' = MarkConnected(tun, "ok") /\ UNCHANGED notifying
       \/ tun.reg /\ m.t = "data" /\ PushFrame(tun, m.n)
       \/ /\ tun.reg /\ m.t = "close"
          /\ tun' = Closed(tun, IF m = CloseClean THEN "eof" ELSE "code") /\ UNCHANGED notifying
    /\ UNCHANGED <<writeVars, upWire, tunLink, connectorVars, sess>>

\* Read: what is queued is handed over before the end is reported
Read ==
    /\ tun.st = "open" /\ tun.end = "none"
    /\ \/ /\ tun.incoming # <<>>
          /\ tun' = [tun EXCEPT !.got = Append(@, Head(tun.incoming)), !.incoming = Tail(@)]
       \/ /\ tun.incoming = <<>> /\ tun.done
          /\ tun' = [tun EXCEPT !.end = tun.err]
    /\ UNCHANGED <<notifying, writeVars, upWire, downWire, tunLink, connectorVars, sess>>

-----------------------------------------------------------------------------
\* Write, writeSessionMessage: start a goroutine that waits for the mutex
StartAttempt(w) ==
    /\ w.k < MaxAttempts
    /\ wr' = [w EXCEPT !.pc = "locking", !.k = @ + 1, !.woken = FALSE]

WriteStarts ==
    /\ tun.st = "open" /\ ~tun.done /\ wr.pc = "idle" /\ wr.sent < load[1]
    /\ StartAttempt(wr)
    /\ helpers' = [helpers EXCEPT ![wr.k + 1] = "locking"]
    /\ UNCHANGED <<clientVars, writeMu, upWire, downWire, tunLink, connectorVars, sess>>

\* SetWriteDeadline closes the wake channel of a write in progress
SetWriteDeadline ==
    /\ wr.pc # "idle" /\ ~wr.woken
    /\ wr' = [wr EXCEPT !.woken = TRUE]
    /\ UNCHANGED <<clientVars, helpers, writeMu, upWire, downWire, tunLink, connectorVars, sess>>

\* another writer of the connection takes the mutex and leaves it; seen only
\* while somebody waits for it
OtherWriter ==
    /\ writeMu \in {0, -1}
    /\ writeMu = 0 => (notifying \/ \E k \in Attempts : helpers[k] = "locking")
    /\ writeMu' = -1 - writeMu
    /\ UNCHANGED <<clientVars, wr, helpers, upWire, downWire, tunLink, connectorVars, sess>>

\* mu.Lock() of a goroutine returns
HelperLocks(k) ==
    /\ helpers[k] \in {"locking", "abandoned"} /\ writeMu = 0
    /\ writeMu' = k
    /\ helpers' = [helpers EXCEPT ![k] = IF @ = "locking" THEN "offering" ELSE "dropping"]
    /\ UNCHANGED <<clientVars, wr, upWire, downWire, tunLink, connectorVars, sess>>

\* the goroutine of an abandoned attempt gives the mutex back
HelperDrops(k) ==
    /\ helpers[k] = "dropping"
    /\ helpers' = [helpers EXCEPT ![k] = "over"]
    /\ writeMu' = 0
    /\ UNCHANGED <<clientVars, wr, upWire, downWire, tunLink, connectorVars, sess>>

\* close(abandon): a goroutine that offers the mutex now drops it
Abandoned(k) ==
    helpers' = [helpers EXCEPT ![k] = IF @ = "offering" THEN "dropping" ELSE "abandoned"]

\* lockWriteMutexUntil: the mutex is handed over
LockAcquired ==
    /\ wr.pc = "locking" /\ helpers[wr.k] = "offering"
    /\ wr' = [wr EXCEPT !.pc = "holding"]
    /\ helpers' = [helpers EXCEPT ![wr.k] = "handed"]
    /\ UNCHANGED <<clientVars, writeMu, upWire, downWire, tunLink, connectorVars, sess>>

\* lockWriteMutexUntil: a deadline passes (it may at any time), the tunnel or
\* the connection is done, all of which end Write; a lock that cannot be had
\* for another reason than the deadline ends the tunnel
LockGivenUp ==
    /\ wr.pc = "locking"
    /\ wr' = [wr EXCEPT !.pc = "idle", !.woken = FALSE]
    /\ Abandoned(wr.k)
    /\ tun' = IF tunLink.server THEN tun ELSE Closed(tun, "link")
    /\ UNCHANGED <<notifying, writeMu, upWire, downWire, tunLink, connectorVars, sess>>

\* lockWriteMutexUntil: the deadline was changed; Write tries the same chunk again
LockRetried ==
    /\ wr.pc = "locking" /\ wr.woken /\ ~tun.done
    /\ StartAttempt(wr)
    /\ helpers' = [helpers EXCEPT ![wr.k] = IF @ = "offering" THEN "dropping" ELSE "abandoned",
                                  ![wr.k + 1] = "locking"]
    /\ UNCHANGED <<clientVars, writeMu, upWire, downWire, tunLink, connectorVars, sess>>

\* unlock, whatever the outcome of the write
Unlock ==
    /\ writeMu' = 0
    /\ helpers' = [helpers EXCEPT ![wr.k] = "over"]

\* writeSessionMessage with the mutex: the frame is written
FrameWritten ==
    /\ wr.pc = "holding" /\ ~wr.woken /\ ~tun.done /\ tunLink.server /\ tunLink.up
    /\ upWire' = Append(upWire, Frame("data", wr.sent + 1))
    /\ wr' = [wr EXCEPT !.pc = "idle", !.sent = @ + 1]
    /\ Unlock
    /\ UNCHANGED <<clientVars, downWire, tunLink, connectorVars, sess>>

\* ... the wake channel, the tunnel or the connection was closed meanwhile, or
\* the deadline has passed: nothing is written (a retry is a new WriteStarts)
WriteRefused ==
    /\ wr.pc = "holding"
    /\ wr' = [wr EXCEPT !.pc = "idle", !.woken = FALSE]
    /\ Unlock
    /\ tun' = IF tunLink.server THEN tun ELSE Closed(tun, "link")
    /\ UNCHANGED <<notifying, upWire, downWire, tunLink, connectorVars, sess>>

\* ... WriteMessage runs into the deadline: the frame may or may not have gone
\* out, so the whole connection fails, and with it every tunnel
WriteTimesOut ==
    /\ wr.pc = "holding" /\ ~tun.done /\ tunLink.server /\ tunLink.up
    /\ upWire' \in {upWire, Append(upWire, Frame("data", wr.sent + 1))}
    /\ wr' = [wr EXCEPT !.pc = "idle", !.woken = FALSE]
    /\ Unlock
    /\ tunLink' = [tunLink EXCEPT !.up = FALSE, !.server = FALSE]
    /\ tun' = Closed(tun, "link")
    /\ UNCHANGED <<notifying, downWire, connectorVars, sess>>

-----------------------------------------------------------------------------
\* the connection breaks; what was in flight may be lost from some frame on
LinkCut ==
    /\ tunLink.up
    /\ tunLink' = [tunLink EXCEPT !.up = FALSE]
    /\ \E i \in 0..Len(upWire), j \in 0..Len(downWire) :
          upWire' = SubSeq(upWire, 1, i) /\ downWire' = SubSeq(downWire, 1, j)
    /\ UNCHANGED <<clientVars, writeVars, connectorVars, sess>>

\* fail: the server's read loop ends, every tunnel is closed
ServerFails ==
    /\ ~tunLink.up /\ tunLink.server /\ downWire = <<>>
    /\ tunLink' = [tunLink EXCEPT !.server = FALSE]
    /\ tun' = Closed(tun, "link")
    /\ UNCHANGED <<notifying, writeVars, upWire, downWire, connectorVars, sess>>

SendToServer(m) == downWire' = IF tunLink.up THEN Append(downWire, m) ELSE downWire

\* close: once; the socket, if attached, is closed with it
CloseSocket(c) == svc' = [svc EXCEPT !.sock = IF c.done THEN @ ELSE IF @ = "open" THEN "closed" ELSE @]
CloseConnector(c, notify, m) ==
    /\ connector' = [c EXCEPT !.done = TRUE]
    /\ CloseSocket(c)
    /\ IF notify /\ ~c.done THEN SendToServer(m) ELSE UNCHANGED downWire

Known == connector.st # "none" /\ ~connector.done

\* handleConnect: the session must be known to the manager (it is until its
\* end has been handled); the dial runs in a goroutine
HandleConnect ==
    /\ upWire # <<>> /\ Head(upWire).t = "connect" /\ tunLink.runner
    /\ upWire' = Tail(upWire)
    /\ \/ /\ sess # "recorded"
          /\ connector' = [connector EXCEPT !.st = "dialing"]
          /\ UNCHANGED downWire
       \/ /\ sess # "running"
          /\ SendToServer(CloseCode) /\ UNCHANGED connector
    /\ UNCHANGED <<clientVars, writeVars, tunLink, svc, sess>>

AttachUnchecked ==
    /\ connector.st = "dialing"
    /\ connector' = [connector EXCEPT !.st = "attached"]
    /\ svc' = [svc EXCEPT !.sock = "open"]
    /\ UNCHANGED <<clientVars, writeVars, upWire, downWire, tunLink, sess>>

\* dialConnector, attachConn: a connector closed during the dial gets no socket
AttachConn ==
    /\ connector.st = "dialing"
    /\ connector' = [connector EXCEPT !.st = IF connector.done THEN "over" ELSE "attached"]
    /\ svc' = [svc EXCEPT !.sock = IF connector.done THEN "closed" ELSE "open"]
    /\ UNCHANGED <<clientVars, writeVars, upWire, downWire, tunLink, sess>>

\* resolveConnectDestination or the dial fails, times out or is cancelled
DialFails ==
    /\ connector.st = "dialing"
    /\ CloseConnector([connector EXCEPT !.st = "over"], TRUE, CloseCode)
    /\ UNCHANGED <<clientVars, writeVars, upWire, tunLink, sess>>

\* dialConnector: say so, then start the loops
SendConnected ==
    /\ connector.st = "attached"
    /\ \/ /\ connector.done
          /\ connector' = [connector EXCEPT !.st = "over"]
          /\ UNCHANGED <<downWire, svc>>
       \/ /\ tunLink.up
          /\ connector' = [connector EXCEPT !.st = "serving", !.reading = TRUE, !.writing = TRUE]
          /\ SendToServer(Frame("connected", 0))
          /\ UNCHANGED svc
       \/ /\ ~tunLink.up
          /\ CloseConnector([connector EXCEPT !.st = "over"], FALSE, CloseClean)
    /\ UNCHANGED <<clientVars, writeVars, upWire, tunLink, sess>>

\* handleConnectData: an unknown connection is answered by a close, a full
\* queue closes the connector
HandleConnectData ==
    /\ upWire # <<>> /\ Head(upWire).t = "data" /\ tunLink.runner
    /\ upWire' = Tail(upWire)
    /\ IF ~Known THEN SendToServer(CloseCode) /\ UNCHANGED connectorVars
       ELSE IF Len(connector.writes) < UpDepth
       THEN /\ connector' = [connector EXCEPT !.writes = Append(@, Head(upWire).n)]
            /\ UNCHANGED <<downWire, svc>>
       ELSE CloseConnector(connector, TRUE, CloseCode)
    /\ UNCHANGED <<clientVars, writeVars, tunLink, sess>>

\* handleConnectClose
HandleConnectClose ==
    /\ upWire # <<>> /\ Head(upWire).t = "close" /\ tunLink.runner
    /\ upWire' = Tail(upWire)
    /\ IF Known THEN CloseConnector(connector, TRUE, CloseClean) ELSE UNCHANGED <<downWire, connectorVars>>
    /\ UNCHANGED <<clientVars, writeVars, tunLink, sess>>

\* readLoop: one read of the socket
ReadSocket ==
    /\ connector.reading /\ connector.hand = 0
    /\ \/ /\ svc.sock = "open" /\ connector.read < svc.wrote
          /\ connector' = [connector EXCEPT !.hand = connector.read + 1, !.read = @ + 1]
          /\ UNCHANGED <<downWire, svc>>
       \/ /\ svc.sock = "open" /\ connector.read = svc.wrote /\ svc.fin = "eof"
          /\ CloseConnector([connector EXCEPT !.reading = FALSE], TRUE, CloseClean)
       \/ /\ svc.sock = "closed" \/ svc.fin = "reset"
          /\ CloseConnector([connector EXCEPT !.reading = FALSE], TRUE, CloseCode)
    /\ UNCHANGED <<clientVars, writeVars, upWire, tunLink, sess>>

\* readLoop: the chunk is sent, even if the connector was closed meanwhile
SendRead ==
    /\ connector.hand # 0
    /\ \/ /\ tunLink.up
          /\ connector' = [connector EXCEPT !.hand = 0]
          /\ SendToServer(Frame("data", connector.hand)) /\ UNCHANGED svc
       \/ /\ ~tunLink.up
          /\ CloseConnector([connector EXCEPT !.hand = 0, !.reading = FALSE], FALSE, CloseClean)
    /\ UNCHANGED <<clientVars, writeVars, upWire, tunLink, sess>>

\* writeLoop: one chunk to the socket, or its end
WriteSocket ==
    /\ connector.writing
    /\ \/ /\ connector.writes # <<>> /\ svc.sock = "open" /\ svc.fin # "reset"
          /\ connector' = [connector EXCEPT !.writes = Tail(@)]
          /\ svc' = [svc EXCEPT !.got = IF svc.fin = "no" THEN Append(@, Head(connector.writes)) ELSE @]
          /\ UNCHANGED downWire
       \/ /\ connector.writes # <<>> /\ (svc.sock = "closed" \/ svc.fin # "no")
          /\ CloseConnector([connector EXCEPT !.writing = FALSE], TRUE, CloseCode)
       \/ /\ connector.done
          /\ connector' = [connector EXCEPT !.writing = FALSE]
          /\ UNCHANGED <<downWire, svc>>
    /\ UNCHANGED <<clientVars, writeVars, upWire, tunLink, sess>>

\* closeConnectorWithSession
CloseWithSession ==
    /\ connector.st = "serving" /\ ~connector.done /\ sess # "running"
    /\ CloseConnector(connector, TRUE, CloseCode)
    /\ UNCHANGED <<clientVars, writeVars, upWire, tunLink, sess>>

DetachNothing ==
    /\ ~tunLink.up /\ tunLink.runner /\ upWire = <<>>
    /\ tunLink' = [tunLink EXCEPT !.runner = FALSE]
    /\ UNCHANGED <<connectorVars, downWire, clientVars, writeVars, upWire, sess>>

\* detachConnectors: the runner's receive loop for this connection has ended
DetachConnectors ==
    /\ ~tunLink.up /\ tunLink.runner /\ upWire = <<>>
    /\ tunLink' = [tunLink EXCEPT !.runner = FALSE]
    /\ IF Known THEN CloseConnector(connector, FALSE, CloseClean) ELSE UNCHANGED <<connectorVars, downWire>>
    /\ UNCHANGED <<clientVars, writeVars, upWire, sess>>

-----------------------------------------------------------------------------
\* the service writes, closes its end or goes away with its session
ServiceWrites ==
    /\ svc.sock = "open" /\ svc.fin = "no" /\ svc.wrote < load[2]
    /\ svc' = [svc EXCEPT !.wrote = @ + 1]
    /\ UNCHANGED <<clientVars, writeVars, upWire, downWire, tunLink, connector, sess>>
ServiceEnds(how) ==
    /\ svc.sock = "open" /\ svc.fin = "no"
    /\ svc' = [svc EXCEPT !.fin = how]
    /\ UNCHANGED <<clientVars, writeVars, upWire, downWire, tunLink, connector, sess>>
\* the process ends, then the row says so (only a dial still to come reads it)
SessionEnds ==
    /\ sess # "running" => sess = "ended" /\ tun.st = "idle"
    /\ sess' = IF sess = "running" THEN "ended" ELSE "recorded"
    /\ UNCHANGED <<clientVars, writeVars, upWire, downWire, tunLink, connectorVars>>

ServerStep == DialSession \/ DialSessionReturns \/ DialCancelled \/ CloseConn \/ NotifyClose
              \/ HandleConnectMessage \/ Read \/ ServerFails
WriteStep == \/ WriteStarts \/ SetWriteDeadline \/ OtherWriter \/ LockAcquired \/ LockGivenUp
             \/ LockRetried \/ FrameWritten \/ WriteRefused \/ WriteTimesOut
             \/ \E k \in Attempts : HelperLocks(k) \/ HelperDrops(k)
RunnerStep == \/ HandleConnect \/ AttachConn \/ DialFails \/ SendConnected \/ HandleConnectData
              \/ HandleConnectClose \/ ReadSocket \/ SendRead \/ WriteSocket \/ CloseWithSession
              \/ DetachConnectors
TunnelNext ==
    /\ \/ ServerStep \/ WriteStep \/ RunnerStep \/ LinkCut
       \/ ServiceWrites \/ ServiceEnds("eof") \/ ServiceEnds("reset") \/ SessionEnds
    /\ UNCHANGED load

TunnelSpec == TunnelInit /\ [][TunnelNext]_<<tunnelVars, load>>

\* goroutines run, mutexes are fair, a dial has a deadline, a broken connection
\* is noticed; nobody is obliged to close, cancel or write
TunnelFairness ==
    /\ WF_tunnelVars(DialSessionReturns \/ HandleConnectMessage \/ ServerFails)
    /\ WF_tunnelVars(\/ HandleConnect \/ HandleConnectData \/ HandleConnectClose \/ DetachConnectors
                     \/ AttachConn \/ DialFails \/ SendConnected)
    /\ WF_tunnelVars(\/ LockAcquired \/ LockGivenUp \/ LockRetried \/ FrameWritten \/ WriteRefused
                     \/ WriteTimesOut \/ (writeMu = -1 /\ OtherWriter)
                     \/ \E k \in Attempts : HelperDrops(k))
    /\ SF_tunnelVars(NotifyClose)
TunnelFairSpec == TunnelSpec /\ TunnelFairness

-----------------------------------------------------------------------------
UpTo(n) == [i \in 1..n |-> i]

\* TunnelTypeOK: the queues stay within the depths their channels are made
\* with, and counters within their bounds.
TunnelTypeOK ==
    /\ tun.st \in {"idle", "dialing", "open", "failed"}
    /\ tun.reg \in BOOLEAN /\ tun.done \in BOOLEAN /\ tun.connected \in {"none", "ok", "err"}
    /\ tun.err \in {"none", "eof", "code", "link", "ctx", "local", "backpressure"}
    /\ tun.end \in {"none", "eof", "code", "link", "local", "backpressure"}
    /\ Len(tun.incoming) <= DownDepth /\ Len(connector.writes) <= UpDepth
    /\ wr.pc \in {"idle", "locking", "holding"} /\ wr.k \in 0..MaxAttempts /\ wr.sent \in 0..load[1]
    /\ writeMu \in -1..MaxAttempts
    /\ connector.st \in {"none", "dialing", "attached", "serving", "over"}
    /\ svc.sock \in {"none", "open", "closed"}

\* the chunks among the frames on the way to the runner
InFlightUp == LET data == SelectSeq(upWire, LAMBDA m : m.t = "data") IN [i \in DOMAIN data |-> data[i].n]

\* UpIsExact: what the service receives is, chunk by chunk, what the server
\* wrote: none is repeated or reordered, whatever deadlines are moved while a
\* write waits for the shared mutex, and none is missing as long as the tunnel
\* is up: a chunk that cannot be queued ends the tunnel (Write,
\* writeSessionMessage, handleConnectData).
UpIsExact ==
    /\ svc.got = UpTo(Len(svc.got))
    /\ Known /\ svc.fin = "no" /\ tunLink.up => svc.got \o connector.writes \o InFlightUp = UpTo(wr.sent)

\* CleanEndIsComplete: a reader that is told the stream ended (io.EOF), without
\* having closed the tunnel itself, has read every chunk the service wrote: a
\* truncated stream never looks complete (Read, handleConnectMessage, readLoop).
CleanEndIsComplete ==
    /\ tun.got = UpTo(Len(tun.got))
    /\ tun.end = "eof" => tun.got = UpTo(svc.wrote)

\* NoOrphanSocket: when the connector is closed and its dial is over, the
\* runner holds no socket to the service, whichever came first (attachConn, close).
NoOrphanSocket == connector.done /\ connector.st # "dialing" => svc.sock # "open"

\* LockHasOwner: the connection's write mutex is never left locked by an attempt
\* that was abandoned: whoever holds it is about to use it or to give it back
\* (lockWriteMutexUntil).
LockHasOwner ==
    writeMu > 0 => \/ helpers[writeMu] \in {"offering", "dropping"}
                   \/ helpers[writeMu] = "handed" /\ wr.pc = "holding" /\ wr.k = writeMu

\* TunnelReleased: once the server's end is closed - by its user, by a cancelled
\* dial, by back pressure or with the connection - the runner's connector and
\* its socket go too (closeLocal, handleConnectClose, detachConnectors).
TunnelReleased ==
    []<>(tun.done => (connector.st = "none" \/ connector.done) /\ svc.sock # "open")

\* DialSettles: DialSession returns even if its context never ends: the runner
\* answers every connect or the connection fails (handleConnect, dialConnector).
DialSettles == []<>(tun.st # "dialing")

\* TunnelSettles: a tunnel that is closed at one end is released at the other, and
\* a dial comes to an answer.
TunnelSettles == TunnelReleased /\ DialSettles

\* TunnelSafe: both directions of a tunnel are exact, and neither a socket nor the
\* shared write mutex is left behind by an end that came from the other side.
TunnelSafe == /\ TunnelTypeOK /\ UpIsExact /\ CleanEndIsComplete
              /\ NoOrphanSocket /\ LockHasOwner
=============================================================================
