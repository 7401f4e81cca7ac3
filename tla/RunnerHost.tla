------------------------------ MODULE RunnerHost ------------------------------
(***************************************************************************)
(* The agent-runner process: the sessions its manager holds, the processes  *)
(* of those sessions, and the delivery of each session's terminal message,  *)
(* which outlives the transport it was started on.                          *)
(*                                                                         *)
(* The runner dials one transport at a time (Connect), numbered in dialling *)
(* order.  A transport carries messages in order both ways; it may be cut,  *)
(* which loses what is in flight, and each end learns of that by itself.    *)
(***************************************************************************)
EXTENDS Naturals, Sequences, FiniteSets, SequencesExt

CONSTANTS
    Sessions,       \* execution sessions bound to this runner
    MaxConns,       \* bound: transports the runner dials
    MaxStarts,      \* bound: times one session is started
    Capacity,       \* session.Manager's capacity
    MaxStops        \* bound: stops of the runner or the server, and revocations

ASSUME HostBounds ==
    MaxConns \in Nat /\ MaxStarts \in Nat /\ Capacity \in Nat /\ MaxStops \in Nat

Conns  == 1..MaxConns
NoConn == 0
Expired == MaxConns + 1     \* a delivery whose reconnect window has passed

VARIABLES
    dialled,      \* transports dialled so far; the last is the current one
    hostConn,     \* transport serveConnection serves, or NoConn
    cut,          \* transports that lost their network
    toServer,     \* messages in flight to the server, per transport
    toHost,       \* messages in flight to the runner, per transport
    slots,        \* session.Manager.sessions
    proc,         \* the process of each session's latest start
    killed,       \* sessions whose process got SIGKILL
    starts,       \* how often each session was started here
    deliveries,   \* the delivery map: the start it serves, 0 for none
    out,          \* delivery of each start: [phase, writer]
    stops         \* stops and revocations so far

hostVars == <<dialled, hostConn, cut, toServer, toHost, slots, proc, killed,
              starts, deliveries, out, stops>>

Message(type, s) == [type |-> type, sid |-> s]

HostInit ==
    /\ dialled = 0
    /\ hostConn = NoConn
    /\ cut = {}
    /\ toServer = [c \in Conns |-> <<>>]
    /\ toHost = [c \in Conns |-> <<>>]
    /\ slots = {}
    /\ proc = [s \in Sessions |-> "none"]
    /\ killed = {}
    /\ starts = [s \in Sessions |-> 0]
    /\ deliveries = [s \in Sessions |-> 0]
    /\ out = [s \in Sessions |-> [i \in 1..MaxStarts |-> [phase |-> "off", writer |-> NoConn]]]
    /\ stops = 0

\* A write succeeds locally and is lost when the transport is already cut.
Written(queues, c, m) ==
    IF c \in cut THEN queues ELSE [queues EXCEPT ![c] = Append(@, m)]

AttachNone(c) == out

\* attachDeliveries: deliveries of the map that are idle and not expired.
AttachDeliveries(c) ==
    [s \in Sessions |-> [i \in 1..MaxStarts |->
        IF deliveries[s] = i /\ out[s][i].writer = NoConn
        THEN [out[s][i] EXCEPT !.writer = c] ELSE out[s][i]]]

\* detachDeliveries: the deliveries of the map that write to c.
DetachDeliveries(c) ==
    [s \in Sessions |-> [i \in 1..MaxStarts |->
        IF deliveries[s] = i /\ out[s][i].writer = c
        THEN [out[s][i] EXCEPT !.writer = NoConn] ELSE out[s][i]]]

\* Manager.Start: an id it holds already is refused, and one beyond capacity.
ManagerAccepts(s) == s \notin slots /\ Cardinality(slots) < Capacity

\* start: the process group of a new session runs.
ProcessStarted(s) ==
    /\ proc' = [proc EXCEPT ![s] = "running"]
    /\ killed' = killed \ {s}
    /\ starts' = [starts EXCEPT ![s] = @ + 1]

\* registerDelivery: the map names the delivery of the latest start.
RegisterDelivery(s) ==
    /\ deliveries' = [deliveries EXCEPT ![s] = starts[s] + 1]
    /\ out' = [out EXCEPT ![s][starts[s] + 1] = [phase |-> "streaming", writer |-> hostConn]]

\* handleStart: the manager refuses a duplicate and a session beyond capacity,
\* and the process itself may fail to start; else the delivery is registered
\* on this transport and the start is confirmed.
HandleStart(s) ==
    LET refuse == /\ toServer' = Written(toServer, hostConn, Message("error", s))
                  /\ UNCHANGED <<slots, proc, killed, starts, deliveries, out>>
    IN  \/ refuse
        \/ /\ ManagerAccepts(s)
           /\ starts[s] < MaxStarts
           /\ slots' = slots \cup {s}
           /\ ProcessStarted(s)
           /\ RegisterDelivery(s)
           /\ toServer' = Written(toServer, hostConn, Message("started", s))

\* handleSignal: a session the manager no longer holds is an error.  SIGTERM
\* may be ignored by the process; SIGKILL may not.
HandleSignal(s, force) ==
    /\ IF s \in slots
       THEN /\ killed' = IF force THEN killed \cup {s} ELSE killed
            /\ UNCHANGED toServer
       ELSE /\ toServer' = Written(toServer, hostConn, Message("error", s))
            /\ UNCHANGED killed
    /\ UNCHANGED <<slots, proc, starts, deliveries, out>>

\* The read loop of serveConnection handles one message.
HostReceives ==
    /\ hostConn # NoConn
    /\ toHost[hostConn] # <<>>
    /\ LET m == Head(toHost[hostConn])
       IN  CASE m.type = "start"     -> HandleStart(m.sid)
             [] m.type = "terminate" -> HandleSignal(m.sid, FALSE)
             [] m.type = "kill"      -> HandleSignal(m.sid, TRUE)
    /\ toHost' = [toHost EXCEPT ![hostConn] = Tail(@)]
    /\ UNCHANGED <<dialled, hostConn, cut, stops>>

\* supervise and complete: the process ends, on its own or by a signal.
ProcessExits(s) ==
    /\ proc[s] = "running"
    /\ proc' = [proc EXCEPT ![s] = "exited"]
    /\ UNCHANGED <<dialled, hostConn, cut, toServer, toHost, slots, killed, starts,
                   deliveries, out, stops>>

\* The manager's goroutine frees the slot after Done, independently of the
\* goroutine that delivers the exit.
SlotFreed(s) ==
    /\ s \in slots
    /\ proc[s] = "exited"
    /\ slots' = slots \ {s}
    /\ UNCHANGED <<dialled, hostConn, cut, toServer, toHost, proc, killed, starts,
                   deliveries, out, stops>>

\* streamExecution: once the process is done, the exit goes out on the writer
\* of the delivery.  A write that fails detaches the writer and is tried again.
ExitSent(s, i) ==
    /\ out[s][i].phase = "streaming"
    /\ i = starts[s] /\ proc[s] = "exited"
    /\ out[s][i].writer \in Conns
    /\ \/ /\ toServer' = Written(toServer, out[s][i].writer, Message("exit", s))
          /\ out' = [out EXCEPT ![s][i].phase = "sent"]
       \/ /\ out[s][i].writer \in cut
          /\ out' = [out EXCEPT ![s][i].writer = NoConn]
          /\ UNCHANGED toServer
    /\ UNCHANGED <<dialled, hostConn, cut, toHost, slots, proc, killed, starts,
                   deliveries, stops>>

\* waitWriter: a delivery detached for its whole retention expires for good.
DeliveryExpires(s, i) ==
    /\ out[s][i].phase = "streaming"
    /\ out[s][i].writer = NoConn
    /\ out' = [out EXCEPT ![s][i].writer = Expired]
    /\ UNCHANGED <<dialled, hostConn, cut, toServer, toHost, slots, proc, killed,
                   starts, deliveries, stops>>

\* removeDelivery, deferred until streamExecution returns: the map entry goes
\* only if it is still this delivery's.
DeliveryRemoved(s, i) ==
    /\ \/ out[s][i].phase = "sent"
       \/ out[s][i].phase = "streaming" /\ out[s][i].writer = Expired
          /\ (i = starts[s] => proc[s] = "exited")
    /\ out' = [out EXCEPT ![s][i].phase = "off"]
    /\ deliveries' = [deliveries EXCEPT ![s] = IF @ = i THEN 0 ELSE @]
    /\ UNCHANGED <<dialled, hostConn, cut, toServer, toHost, slots, proc, killed,
                   starts, stops>>

\* The network under a transport is lost with everything in flight.
TransportCut(c) ==
    /\ c <= dialled /\ c \notin cut
    /\ cut' = cut \cup {c}
    /\ toServer' = [toServer EXCEPT ![c] = <<>>]
    /\ toHost' = [toHost EXCEPT ![c] = <<>>]
    /\ UNCHANGED <<dialled, hostConn, slots, proc, killed, starts, deliveries, out, stops>>
=============================================================================
