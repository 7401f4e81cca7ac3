---------------------------- MODULE RunnerSessions ----------------------------
(***************************************************************************)
(* A runner and the server composed over transports that come and go: either *)
(* end may stop and start again, a transport may be cut at any time, and the *)
(* durable session rows are what the server has left after a restart.       *)
(***************************************************************************)
EXTENDS ExecutionSessions

sessionVars == <<hostVars, controlVars>>

SessionsInit == HostInit /\ ControlInit

\* acceptConnection and handshake of the server: the reported sessions are kept
\* with the transport.
AcceptConnection(c) ==
    /\ health' = [health EXCEPT ![c] = slots]
    /\ srv' = [srv EXCEPT ![c] = "accepted"]

\* outbound Connect and handshake: the runner dials when it serves no transport,
\* reports its active sessions and re-attaches the idle deliveries; the server
\* authenticates it.  Timing: the second the runner waits before it dials again
\* outlasts what ServeHTTP still does for the previous transport, and what the
\* manager still does for a session whose exit has been written.
Dial ==
    /\ hostConn = NoConn
    /\ \A c \in Conns : srv[c] \notin {"accepted", "checked"}
    /\ \A s \in slots : out[s][starts[s]].phase = "streaming"
    /\ dialled < MaxConns
    /\ revocation = "no"
    /\ LET c == dialled + 1
       IN  /\ dialled' = c
           /\ hostConn' = c
           /\ out' = AttachDeliveries(c)
           /\ AcceptConnection(c)
    /\ UNCHANGED <<cut, toServer, toHost, slots, proc, killed, starts, deliveries, stops>>
    /\ UNCHANGED <<row, pending, entry, away, starter, live, cancel, recon, orphans, revocation,
                   sweep, abandoned>>

\* A dial that is refused for its credential kills every active session.
DialRefused ==
    /\ hostConn = NoConn
    /\ revocation # "no"
    /\ killed' = killed \cup slots
    /\ UNCHANGED <<dialled, hostConn, cut, toServer, toHost, slots, proc, starts, deliveries,
                   out, stops>>
    /\ UNCHANGED controlVars

\* serveConnection returns when the transport is cut or the server closed it
\* and everything before the close was read; the deliveries detach.
HostNotices ==
    /\ hostConn # NoConn
    /\ hostConn \in cut \/ (srv[hostConn] = "done" /\ toHost[hostConn] = <<>>)
    /\ out' = DetachDeliveries(hostConn)
    /\ hostConn' = NoConn
    /\ UNCHANGED <<dialled, cut, toServer, toHost, slots, proc, killed, starts, deliveries, stops>>
    /\ UNCHANGED controlVars

\* The runner process stops: Shutdown ends its sessions and no exit is sent.
HostStops ==
    /\ stops < MaxStops
    /\ stops' = stops + 1
    /\ hostConn' = NoConn
    /\ slots' = {}
    /\ proc' = [s \in Sessions |-> IF proc[s] = "running" THEN "exited" ELSE proc[s]]
    /\ deliveries' = [s \in Sessions |-> 0]
    /\ out' = [s \in Sessions |-> [i \in 1..MaxStarts |-> [phase |-> "off", writer |-> NoConn]]]
    /\ UNCHANGED <<dialled, cut, toServer, toHost, killed, starts>>
    /\ UNCHANGED controlVars

\* The server stops and starts again: everything but the rows is gone.
ServerRestarts ==
    /\ stops < MaxStops
    /\ stops' = stops + 1
    /\ srv' = [c \in Conns |-> IF srv[c] = "none" THEN "none" ELSE "done"]
    /\ pending' = [c \in Conns |-> [s \in Sessions |-> <<>>]]
    /\ toServer' = [c \in Conns |-> <<>>]
    /\ entry' = NoConn
    /\ away' = "no"
    /\ starter' = [s \in Sessions |-> NoHolder]
    /\ live' = [s \in Sessions |-> NoHolder]
    /\ cancel' = [s \in Sessions |-> "no"]
    /\ recon' = [s \in Sessions |-> NoHolder]
    /\ orphans' = [c \in Conns |-> {}]
    /\ sweep' = {}
    /\ UNCHANGED <<row, health, revocation, abandoned>>
    /\ UNCHANGED <<dialled, hostConn, cut, toHost, slots, proc, killed, starts, deliveries,
                   out>>

HostStep ==
    /\ \/ HostReceives
       \/ \E s \in Sessions : ProcessExits(s) \/ SlotFreed(s)
       \/ \E s \in Sessions, i \in 1..MaxStarts :
            ExitSent(s, i) \/ DeliveryExpires(s, i) \/ DeliveryRemoved(s, i)
       \/ \E c \in Conns : TransportCut(c)
    /\ UNCHANGED controlVars

ServerLinkStep ==
    /\ \/ \E c \in Conns : ServerNotices(c) \/ InstallChecked(c) \/ Installed(c)
       \/ EntryRemoved
    /\ UNCHANGED hostVars

ServerReads ==
    /\ \E c \in Conns : ServerReceives(c)
    /\ UNCHANGED <<dialled, hostConn, cut, toHost, slots, proc, killed, starts, deliveries,
                   out, stops>>

ServiceFrame == UNCHANGED <<dialled, hostConn, cut, toServer, slots, proc, killed, starts,
                            deliveries, out, stops>>

ServiceStep ==
    /\ \/ \E s \in Sessions :
            \/ StartSession(s) \/ SendStart(s) \/ StartAnswered(s) \/ ObserveEnd(s) \/ Signal(s)
            \/ ReconcileSession(s) \/ ReconcileEnd(s) \/ ReconcileAbandoned(s)
            \/ SweepSession(s)
       \/ ReconnectTimeout \/ SweepListed \/ Disconnect
    /\ ServiceFrame

\* Revocations count as stops for the bound.
RunnerRevoked ==
    /\ stops < MaxStops
    /\ stops' = stops + 1
    /\ Revoke
    /\ UNCHANGED <<dialled, hostConn, cut, toServer, slots, proc, killed, starts, deliveries, out>>

SessionsNext ==
    \/ RunnerRevoked
    \/ HostStep \/ ServerLinkStep \/ ServerReads \/ ServiceStep
    \/ Dial \/ DialRefused \/ HostNotices \/ HostStops \/ ServerRestarts

SessionsSpec == SessionsInit /\ [][SessionsNext]_sessionVars

\* The read loops, the goroutines that wait on a result, the redial timer and
\* the deadlines run by themselves; reconciliation is repeated for every
\* expired claim; a process ends at some time.  Nothing is assumed of cuts,
\* stops, revocation, cancellation, expiry of deliveries or new starts.
SessionsFairness ==
    /\ WF_sessionVars(HostReceives /\ UNCHANGED controlVars)
    /\ WF_sessionVars(HostNotices)
    /\ WF_sessionVars(Dial)
    /\ WF_sessionVars(ServerLinkStep)
    /\ WF_sessionVars(ServerReads)
    /\ WF_sessionVars(ReconnectTimeout /\ ServiceFrame)
    /\ \A s \in Sessions :
        /\ WF_sessionVars((ProcessExits(s) \/ SlotFreed(s)) /\ UNCHANGED controlVars)
        /\ \A i \in 1..MaxStarts :
            WF_sessionVars((ExitSent(s, i) \/ DeliveryRemoved(s, i)) /\ UNCHANGED controlVars)
        /\ WF_sessionVars((SendStart(s) \/ StartAnswered(s) \/ ObserveEnd(s)) /\ ServiceFrame)
        /\ WF_sessionVars((ReconcileSession(s) \/ ReconcileEnd(s)) /\ ServiceFrame)

SessionsFairSpec == SessionsSpec /\ SessionsFairness

-----------------------------------------------------------------------------
\* Every variable keeps to the values its Go counterpart can hold.
SessionsTypeOK ==
    /\ row \in [Sessions -> {"PENDING"} \cup Live \cup Terminal]
    /\ entry \in Conns \cup {NoConn}
    /\ away \in {"no", "recorded", "over"}
    /\ hostConn \in Conns \cup {NoConn}
    /\ slots \subseteq Sessions
    /\ \A c \in Conns : health[c] \subseteq Sessions /\ orphans[c] \subseteq Sessions
    /\ \A s \in Sessions : /\ starter[s].got \in {"nothing", "started", "exit", "error"}
                            /\ starter[s].step \in {"none", "begin", "wait"}
                            /\ live[s].step \in {"none", "observe"}
                            /\ recon[s].step \in {"none", "wait"}

\* A row that says COMPLETED or CANCELLED tells the truth: the process of the
\* session's latest start has ended.  Late, buffered or replayed terminal
\* messages of another transport or another start never end a running session.
EndedRowIsTrue ==
    \A s \in Sessions : row[s] \in {"COMPLETED", "CANCELLED"} => proc[s] # "running"

\* A session whose process still runs is given up in exactly two ways: the
\* reconnect timeout (failRunnerSessionAfterDisconnectTimeout) or the
\* revocation of its runner (TerminateRunnerSessions).
GivenUpOnlyByTimeout ==
    \A s \in Sessions : row[s] = "FAILED" /\ proc[s] = "running" => s \in abandoned

\* One consumer per session object: of the start in progress, the observer and
\* the reconciliation, at most one holds the object of a transport, so a
\* terminal message is never consumed by a holder that will not record it
\* while another waits for it.
OneHolder ==
    \A s \in Sessions, c \in Conns :
        Cardinality({h \in {"starter", "live", "recon"} :
            CASE h = "starter" -> Holds(starter[s], c)
              [] h = "live"    -> Holds(live[s], c)
              [] h = "recon"   -> Holds(recon[s], c)}) <= 1

\* The exit of a session can no longer be delivered: its delivery expired while the
\* process still ran, or a reconciliation whose caller went away keeps its object.
Undeliverable(s) ==
    \/ \E i \in 1..MaxStarts : out[s][i].writer = Expired
    \/ \E c \in Conns : s \in orphans[c]

\* A session row does not stay STARTING or RUNNING for ever: whatever transports
\* do, observation (ObserveEnd), reconciliation (ReconcileRunnerSessions) or the
\* reconnect timeout ends it, unless its exit can no longer be delivered.
SessionSettlesIfDeliverable ==
    \A s \in Sessions : []<>(row[s] \notin Live \/ Undeliverable(s))

\* SessionsSafe: rows tell the truth about processes, a process that still runs is
\* given up only by timeout or revocation, and each session object has one
\* consumer, whatever transports are cut and replaced.
SessionsSafe == SessionsTypeOK /\ EndedRowIsTrue /\ GivenUpOnlyByTimeout /\ OneHolder
=============================================================================
