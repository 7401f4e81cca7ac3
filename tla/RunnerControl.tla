---------------------------- MODULE RunnerControl ----------------------------
(***************************************************************************)
(* The server's side of one runner: the registry of transports, the client  *)
(* of a transport with its registered sessions, and the service that owns   *)
(* the durable execution-session rows.                                      *)
(*                                                                         *)
(* A session object of the client (register) has one holder: the call that  *)
(* starts the session, the process that observes it, or the reconciliation  *)
(* that waits for a retained exit.  A holder that goes away without a result *)
(* leaves its object registered (orphans).  The failure of a transport      *)
(* wakes its holders in the same step: none of them writes anything then.   *)
(***************************************************************************)
EXTENDS RunnerHost

CONSTANT Cancellable    \* sessions a user may cancel

VARIABLES
    row,          \* execution_sessions.status
    srv,          \* server end of each transport
    health,       \* active sessions each transport reported in its handshake
    pending,      \* messages buffered for sessions nobody registered yet
    entry,        \* Registry.entries
    away,         \* Registry.disconnected: not recorded, recorded, timed out
    starter,      \* startRunnerSession in progress
    live,         \* live map: the observing ExecutionProcess
    cancel,       \* its cancel flag
    recon,        \* reconcileRunnerSession in progress
    orphans,      \* sessions registered on a transport without a holder
    revocation,   \* Revoke: the durable flag, then the sessions, then the transport
    sweep,        \* sessions TerminateRunnerSessions still has to fail
    abandoned     \* history: sessions failed by the reconnect timeout or revocation

controlVars == <<row, srv, health, pending, entry, away, starter, live, cancel,
                 recon, orphans, revocation, sweep, abandoned>>

Live     == {"STARTING", "RUNNING"}
Terminal == {"COMPLETED", "FAILED", "CANCELLED"}
NoHolder == [step |-> "none", conn |-> NoConn, got |-> "nothing"]

ControlInit ==
    /\ row = [s \in Sessions |-> "PENDING"]
    /\ srv = [c \in Conns |-> "none"]
    /\ health = [c \in Conns |-> {}]
    /\ pending = [c \in Conns |-> [s \in Sessions |-> <<>>]]
    /\ entry = NoConn
    /\ away = "no"
    /\ starter = [s \in Sessions |-> NoHolder]
    /\ live = [s \in Sessions |-> NoHolder]
    /\ cancel = [s \in Sessions |-> "no"]
    /\ recon = [s \in Sessions |-> NoHolder]
    /\ orphans = [c \in Conns |-> {}]
    /\ revocation = "no"
    /\ sweep = {}
    /\ abandoned = {}

Alive(c) == c \in Conns /\ srv[c] = "up"

Holds(h, c) == h.conn = c /\ h.got \notin {"exit", "error"}

\* Connection.sessions: the objects a message can be delivered to.
Registered(c, s) ==
    \/ Holds(starter[s], c) \/ Holds(live[s], c) \/ Holds(recon[s], c)
    \/ s \in orphans[c]

\* register drains what arrived early, up to the first terminal message.
Drained(c, s) ==
    LET seen == ToSet(pending[c][s])
        terminal == SelectSeq(pending[c][s], LAMBDA t : t \in {"exit", "error"})
    IN  IF terminal # <<>> THEN Head(terminal)
        ELSE IF "started" \in seen THEN "started" ELSE "nothing"

Forget(c, s) == [pending EXCEPT ![c][s] = <<>>]

\* TransitionExecutionSession: conditional on the current status.
Moved(s, from, to) == IF row[s] \in from THEN [row EXCEPT ![s] = to] ELSE row

EndedWith(h, c) == IF h.conn = c THEN [h EXCEPT !.got = "exit"] ELSE h

\* Connection.fail: every session object fails, every holder wakes.
Woken(h, c) == IF h.conn = c THEN NoHolder ELSE h

ClosedAt(c) ==
    /\ srv' = [srv EXCEPT ![c] = "done"]
    /\ pending' = [pending EXCEPT ![c] = [s \in Sessions |-> <<>>]]
    /\ starter' = [s \in Sessions |-> Woken(starter[s], c)]
    /\ live' = [s \in Sessions |-> Woken(live[s], c)]
    /\ cancel' = [s \in Sessions |-> IF live[s].conn = c THEN "no" ELSE cancel[s]]
    /\ recon' = [s \in Sessions |-> Woken(recon[s], c)]
    /\ orphans' = [orphans EXCEPT ![c] = {}]

\* readLoop: the peer is gone, or the liveness deadline of a cut transport passed.
ServerNotices(c) ==
    /\ srv[c] \in {"accepted", "checked", "up"}
    /\ c \in cut \/ (hostConn # c /\ toServer[c] = <<>>)
    /\ ClosedAt(c)
    /\ UNCHANGED <<row, health, entry, away, revocation, sweep, abandoned>>

\* The goroutine ServeHTTP leaves behind: it removes the entry only while the
\* entry is still its client, and keeps the first time of disconnection.
EntryRemoved ==
    /\ entry # NoConn /\ srv[entry] = "done"
    /\ entry' = NoConn
    /\ away' = IF away = "no" THEN "recorded" ELSE away
    /\ UNCHANGED <<row, srv, health, pending, starter, live, cancel, recon, orphans,
                   revocation, sweep, abandoned>>

\* handleMessage: to the registered object, else to the reconnect buffer.
Got(h, c, type) == IF Holds(h, c) THEN [h EXCEPT !.got = type] ELSE h

ServerReceives(c) ==
    /\ srv[c] \in {"accepted", "checked", "up"}
    /\ toServer[c] # <<>>
    /\ LET m == Head(toServer[c])
       IN  /\ starter' = [starter EXCEPT ![m.sid] = Got(@, c, m.type)]
           /\ live' = [live EXCEPT ![m.sid] = Got(@, c, m.type)]
           /\ recon' = [recon EXCEPT ![m.sid] = Got(@, c, m.type)]
           /\ orphans' = [orphans EXCEPT ![c] = IF m.type = "started" THEN @ ELSE @ \ {m.sid}]
           /\ pending' = IF Registered(c, m.sid) THEN pending
                         ELSE [pending EXCEPT ![c][m.sid] = Append(@, m.type)]
    /\ toServer' = [toServer EXCEPT ![c] = Tail(@)]
    /\ UNCHANGED <<row, srv, health, entry, away, cancel, revocation, sweep, abandoned>>

\* runnerHealthSessions: the rows that may be active on the runner.
ExpectedActive == {s \in Sessions : row[s] \in Live}

\* ReconcileRunnerConnection: the sessions the current transport reported must
\* be known and be reported by the replacement too, and the replacement may
\* report only sessions the rows call live.
ConnectionAgrees(c) ==
    LET current == IF Alive(entry) THEN health[entry] ELSE {}
    IN  /\ current \subseteq ExpectedActive
        /\ health[c] \subseteq ExpectedActive
        /\ ExpectedActive # {} => current \subseteq health[c]

\* ServeHTTP up to the swap: authentication is repeated, the rows are read.
InstallChecked(c) ==
    /\ srv[c] = "accepted"
    /\ \A d \in Conns : srv[d] # "checked"          \* installMu
    /\ IF revocation = "no" /\ ConnectionAgrees(c)
       THEN /\ srv' = [srv EXCEPT ![c] = "checked"]
            /\ UNCHANGED <<pending, starter, live, cancel, recon, orphans>>
       ELSE ClosedAt(c)
    /\ UNCHANGED <<row, health, entry, away, revocation, sweep, abandoned>>

\* The swap: the new transport becomes the entry, the old one is closed.
Installed(c) ==
    /\ srv[c] = "checked"
    /\ entry' = c
    /\ away' = "no"
    /\ IF Alive(entry)
       THEN /\ srv' = [srv EXCEPT ![c] = "up", ![entry] = "done"]
            /\ pending' = [pending EXCEPT ![entry] = [s \in Sessions |-> <<>>]]
            /\ starter' = [s \in Sessions |-> Woken(starter[s], entry)]
            /\ live' = [s \in Sessions |-> Woken(live[s], entry)]
            /\ cancel' = [s \in Sessions |-> IF live[s].conn = entry THEN "no" ELSE cancel[s]]
            /\ recon' = [s \in Sessions |-> Woken(recon[s], entry)]
            /\ orphans' = [orphans EXCEPT ![entry] = {}]
       ELSE /\ srv' = [srv EXCEPT ![c] = "up"]
            /\ UNCHANGED <<pending, starter, live, cancel, recon, orphans>>
    /\ UNCHANGED <<row, health, revocation, sweep, abandoned>>
=============================================================================
