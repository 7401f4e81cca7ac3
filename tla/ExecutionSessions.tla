-------------------------- MODULE ExecutionSessions --------------------------
(***************************************************************************)
(* The execution-session service over the registry: starting a prepared     *)
(* session, observing it, cancelling it, reconciling a row without an       *)
(* observer, and revoking the runner.                                       *)
(***************************************************************************)
EXTENDS RunnerControl

\* Timing: no starter stands between its row and its start message, and no
\* observer between its result and its row.  Round trips and deadlines wait for
\* this: they take longer than the few instructions concerned.
Settled(s) == starter[s].step # "begin" /\ live[s].got \notin {"exit", "error"}

\* StartPreparedOnRunner: a prepared or completed session becomes STARTING.  The
\* launcher runs one process after the other: it has waited for the last one.
StartSession(s) ==
    /\ row[s] \in {"PENDING", "COMPLETED"}
    /\ starts[s] < MaxStarts
    /\ starter[s] = NoHolder /\ live[s] = NoHolder
    /\ row' = [row EXCEPT ![s] = "STARTING"]
    /\ starter' = [starter EXCEPT ![s].step = "begin"]
    /\ UNCHANGED <<srv, health, pending, entry, away, live, cancel, recon, orphans,
                   revocation, sweep, abandoned, toHost>>

\* registry.Connect and client.Start: without a transport the session failed;
\* a session someone else registered is left uncertain; else the start goes out.
SendStart(s) ==
    /\ starter[s].step = "begin"
    /\ IF ~Alive(entry)
       THEN /\ row' = Moved(s, {"STARTING"}, "FAILED")
            /\ starter' = [starter EXCEPT ![s] = NoHolder]
            /\ UNCHANGED <<pending, toHost>>
       ELSE IF Registered(entry, s)
       THEN /\ starter' = [starter EXCEPT ![s] = NoHolder]
            /\ UNCHANGED <<row, pending, toHost>>
       ELSE /\ starter' = [starter EXCEPT ![s] =
                              [step |-> "wait", conn |-> entry, got |-> Drained(entry, s)]]
            /\ pending' = Forget(entry, s)
            /\ toHost' = Written(toHost, entry, Message("start", s))
            /\ UNCHANGED row
    /\ UNCHANGED <<srv, health, entry, away, live, cancel, recon, orphans, revocation,
                   sweep, abandoned>>

\* newExecutionProcess and track: the object gets an observing process.
ObservedBy(h) == [h EXCEPT !.step = "observe"]

\* A start that was confirmed makes the row RUNNING, a refused one FAILED; a
\* start without an answer leaves it STARTING (updateRunnerStatusRecovery).
RowAfterStart(s, g) ==
    CASE g = "error" -> Moved(s, {"STARTING"}, "FAILED")
      [] g = "nothing" -> row
      [] OTHER -> Moved(s, {"STARTING"}, "RUNNING")

\* The answer to the start, or the caller's deadline: the object passes to an
\* observing process (retainExecutionProcess when the row is not confirmed).
StartAnswered(s) ==
    /\ starter[s].step = "wait"
    /\ LET g == starter[s].got
       IN  /\ row' = RowAfterStart(s, g)
           /\ IF g = "error"
              THEN UNCHANGED <<live, cancel>>
              ELSE /\ live' = [live EXCEPT ![s] = ObservedBy(starter[s])]
                   /\ cancel' = [cancel EXCEPT ![s] = "no"]
    /\ starter' = [starter EXCEPT ![s] = NoHolder]
    /\ UNCHANGED <<srv, health, pending, entry, away, recon, orphans, revocation,
                   sweep, abandoned, toHost>>

\* observe: the outcome becomes the row's final status, then the process is untracked.
ObserveEnd(s) ==
    /\ live[s].got \in {"exit", "error"}
    /\ row' = Moved(s, Live, IF live[s].got = "error" THEN "FAILED"
                             ELSE IF cancel[s] = "no" THEN "COMPLETED" ELSE "CANCELLED")
    /\ live' = [live EXCEPT ![s] = NoHolder]
    /\ cancel' = [cancel EXCEPT ![s] = "no"]
    /\ UNCHANGED <<srv, health, pending, entry, away, starter, recon, orphans, revocation,
                   sweep, abandoned, toHost>>

\* Cancel: terminate, and after the grace period kill, through the observer.
Signal(s) ==
    /\ s \in Cancellable
    /\ live[s].step = "observe" /\ Settled(s)
    /\ cancel[s] # "kill"
    /\ LET force == cancel[s] = "terminate"
       IN  /\ cancel' = [cancel EXCEPT ![s] = IF force THEN "kill" ELSE "terminate"]
           /\ toHost' = Written(toHost, live[s].conn, Message(IF force THEN "kill" ELSE "terminate", s))
    /\ UNCHANGED <<row, srv, health, pending, entry, away, starter, live, recon, orphans,
                   revocation, sweep, abandoned>>

\* Reconcile of a live row that no process observes.  Without a transport the
\* row waits for the reconnect timeout.  A session somebody registered is left
\* uncertain.  A session the handshake reported active gets an observer; for
\* any other the retained terminal message is waited for.
ReconcileSession(s) ==
    /\ row[s] \in Live
    /\ recon[s] = NoHolder /\ live[s] = NoHolder
    /\ IF ~Alive(entry)
       THEN /\ away' = IF away = "no" THEN "recorded" ELSE away
            /\ row' = IF away = "over" THEN [row EXCEPT ![s] = "FAILED"] ELSE row
            /\ abandoned' = IF away = "over" THEN abandoned \cup {s} ELSE abandoned
            /\ UNCHANGED <<live, cancel, recon, pending>>
       ELSE /\ ~Registered(entry, s)
            /\ pending' = Forget(entry, s)
            /\ LET holder(step) == [step |-> step, conn |-> entry, got |-> Drained(entry, s)]
               IN  IF s \in health[entry]
                   THEN /\ row' = [row EXCEPT ![s] = "RUNNING"]
                        /\ live' = [live EXCEPT ![s] = holder("observe")]
                        /\ cancel' = [cancel EXCEPT ![s] = "no"]
                        /\ UNCHANGED recon
                   ELSE /\ recon' = [recon EXCEPT ![s] = holder("wait")]
                        /\ UNCHANGED <<row, live, cancel>>
            /\ UNCHANGED <<away, abandoned>>
    /\ UNCHANGED <<srv, health, entry, starter, orphans, revocation, sweep, toHost>>

Outcome(g) == IF g = "exit" THEN "COMPLETED" ELSE "FAILED"

\* The wait for a retained terminal message ends: with it, or with the
\* deadline, which fails the row and leaves the object registered.
ReconcileEnd(s) ==
    /\ recon[s].step = "wait"
    /\ recon[s].got \in {"exit", "error"} \/ Settled(s)
    /\ LET g == recon[s].got
       IN  /\ row' = Moved(s, Live, Outcome(g))
           /\ orphans' = [orphans EXCEPT ![recon[s].conn] =
                            IF g \in {"exit", "error"} THEN @ ELSE @ \cup {s}]
    /\ recon' = [recon EXCEPT ![s] = NoHolder]
    /\ UNCHANGED <<srv, health, pending, entry, away, starter, live, cancel, revocation,
                   sweep, abandoned, toHost>>

\* The caller of the reconciliation goes away first: the row keeps its status.
ReconcileAbandoned(s) ==
    /\ recon[s].step = "wait" /\ recon[s].got \notin {"exit", "error"}
    /\ orphans' = [orphans EXCEPT ![recon[s].conn] = @ \cup {s}]
    /\ recon' = [recon EXCEPT ![s] = NoHolder]
    /\ UNCHANGED <<row, srv, health, pending, entry, away, starter, live, cancel, revocation,
                   sweep, abandoned, toHost>>

\* The reconnect timeout (default five minutes) passes while disconnected.
ReconnectTimeout ==
    /\ away = "recorded"
    /\ away' = "over"
    /\ UNCHANGED <<row, srv, health, pending, entry, starter, live, cancel, recon, orphans,
                   revocation, sweep, abandoned, toHost>>

\* Revoke: the runner's credential is withdrawn first ...
Revoke ==
    /\ revocation = "no"
    /\ revocation' = "flagged"
    /\ UNCHANGED <<row, srv, health, pending, entry, away, starter, live, cancel, recon, orphans,
                   sweep, abandoned, toHost>>

\* ... then TerminateRunnerSessions lists the sessions that have not ended ...
SweepListed ==
    /\ revocation = "flagged"
    /\ revocation' = "sweeping"
    /\ sweep' = {s \in Sessions : row[s] \notin Terminal}
    /\ UNCHANGED <<row, srv, health, pending, entry, away, starter, live, cancel, recon, orphans,
                   abandoned, toHost>>

\* ... and kills and fails them one by one ...
SweepSession(s) ==
    /\ s \in sweep
    /\ sweep' = sweep \ {s}
    /\ IF live[s].step = "observe"
       THEN /\ cancel' = [cancel EXCEPT ![s] = "kill"]
            /\ toHost' = Written(toHost, live[s].conn, Message("kill", s))
       ELSE UNCHANGED <<cancel, toHost>>
    /\ row' = Moved(s, {"PENDING"} \cup Live, "FAILED")
    /\ abandoned' = abandoned \cup {s}
    /\ UNCHANGED <<srv, health, pending, entry, away, starter, live, recon, orphans, revocation>>

\* ... and Disconnect closes the transport behind a kill for every session the
\* transport reported in its handshake.
Disconnect ==
    /\ revocation = "sweeping" /\ sweep = {}
    /\ revocation' = "done"
    /\ entry' = NoConn
    /\ away' = IF away = "no" THEN "recorded" ELSE away
    /\ IF Alive(entry)
       THEN /\ toHost' = IF entry \in cut THEN toHost
                         ELSE [toHost EXCEPT ![entry] =
                                 @ \o SetToSeq({Message("kill", s) : s \in health[entry]})]
            /\ ClosedAt(entry)
       ELSE UNCHANGED <<toHost, srv, pending, starter, live, cancel, recon, orphans>>
    /\ UNCHANGED <<row, health, sweep, abandoned>>
=============================================================================
