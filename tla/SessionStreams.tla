--------------------------- MODULE SessionStreams ---------------------------
(***************************************************************************)
(* The byte streams of one execution session, end to end.  Input: the      *)
(* server's stdin frames pass a bounded pump in front of the process       *)
(* (agent-runner server/stdin_pump.go).  Output: the process writes into a *)
(* bounded buffer that drops its oldest bytes (session/stream_buffer.go),  *)
(* a pump sends them (server.go, session_delivery.go), the server's read   *)
(* loop pushes them into a bounded queue (runner/session.go outputStream)  *)
(* and a reader that also settles at the end of the process hands them to  *)
(* the consumer and releases the redaction lease once                      *)
(* (app/authorized_execution.go).  One output stream stands for both.      *)
(* Chunks are numbered in the order the producer wrote them.               *)
(***************************************************************************)
EXTENDS Naturals, Sequences, SequencesExt

CONSTANTS
    MaxInput,           \* bound: chunks written to stdin
    MaxChunks,          \* bound: chunks the process writes
    StdinCap,           \* stdinQueueCapacity
    BufLimit,           \* the stream buffer's limit, in chunks
    OutCap,             \* the queue of outputStream
    MaxLinkCuts         \* bound: broken connections

ASSUME StreamBounds == /\ MaxInput \in Nat /\ MaxChunks \in Nat \ {0} /\ MaxLinkCuts \in Nat
                       /\ StdinCap \in Nat \ {0} /\ BufLimit \in Nat \ {0} /\ OutCap \in Nat \ {0}

VARIABLES
    inSent, inPump, inGot,      \* stdin: frames sent; the pump; what the process got
    buf, pumping,               \* the stream buffer and the goroutine that drains it
    wire,                       \* frames on the connection
    outStream,                  \* outputStream: [queue, closed, err]
    reader,                     \* completionReader and its consumer
    lease,                      \* [terminal, done, released]
    linkCuts

streamVars == <<inSent, inPump, inGot, buf, pumping, wire, outStream, reader, lease, linkCuts>>
stdinVars == <<inSent, inPump, inGot>>
runnerSide == <<buf, pumping>>
serverSide == <<outStream, reader, lease>>

\* the frames that are not chunks: the exit result, and a session error,
\* which fails the session on the server
ExitFrame == 0
ErrorFrame == MaxChunks + 1

StreamsInit ==
    /\ inSent = 0
    /\ inPump = [queue |-> <<>>, accepting |-> TRUE, err |-> FALSE, over |-> FALSE]
    /\ inGot = <<>>
    /\ buf = [data |-> <<>>, wrote |-> 0, dropped |-> 0, closed |-> FALSE]
    /\ pumping = [st |-> "draining", sending |-> TRUE]
    /\ wire = <<>>
    /\ outStream = [queue |-> <<>>, closed |-> FALSE, result |-> "none"]
    /\ reader = [buffer |-> <<>>, got |-> <<>>, settled |-> FALSE, abandoned |-> FALSE, eof |-> FALSE]
    /\ lease = [terminal |-> FALSE, done |-> FALSE, released |-> 0]
    /\ linkCuts = 0

-----------------------------------------------------------------------------

\* handleStdin: Enqueue never blocks the receive loop; a full queue is
\* terminal for the pump, and a refused frame is answered by a session error
Enqueue ==
    LET accepted == inPump.accepting /\ Len(inPump.queue) < StdinCap IN
    /\ inSent < MaxInput /\ inSent' = inSent + 1
    /\ inPump' = IF accepted THEN [inPump EXCEPT !.queue = Append(@, inSent + 1)]
                 ELSE [inPump EXCEPT !.accepting = FALSE, !.err = @ \/ inPump.accepting]
    /\ wire' = IF accepted THEN wire ELSE Append(wire, ErrorFrame)
    /\ UNCHANGED <<inGot, runnerSide, serverSide, linkCuts>>

\* handleStdinClose, and cleanupStdinPump when the process is done
CloseStdin ==
    /\ inPump.accepting
    /\ inPump' = [inPump EXCEPT !.accepting = FALSE]
    /\ UNCHANGED <<inSent, inGot, runnerSide, wire, serverSide, linkCuts>>

\* run: one write; a failed write closes the pump and drops what is queued
PumpStdin(ok) ==
    /\ inPump.queue # <<>> /\ ~inPump.over
    /\ IF ok
       THEN /\ inGot' = Append(inGot, Head(inPump.queue))
            /\ inPump' = [inPump EXCEPT !.queue = Tail(@)]
       ELSE /\ inPump' = [queue |-> <<>>, accepting |-> FALSE, err |-> TRUE, over |-> TRUE]
            /\ UNCHANGED inGot
    /\ UNCHANGED <<inSent, runnerSide, wire, serverSide, linkCuts>>

\* run returns: the queue is closed and drained, the process sees end of input
StdinEnds ==
    /\ inPump.queue = <<>> /\ ~inPump.accepting /\ ~inPump.over
    /\ inPump' = [inPump EXCEPT !.over = TRUE]
    /\ UNCHANGED <<inSent, inGot, runnerSide, wire, serverSide, linkCuts>>

-----------------------------------------------------------------------------

\* streamBuffer.Write: the process never blocks, the oldest chunk goes
ProcessWrites ==
    /\ buf.wrote < MaxChunks /\ ~buf.closed
    /\ LET full == Len(buf.data) = BufLimit IN
       buf' = [buf EXCEPT !.data = Append(IF full THEN Tail(@) ELSE @, buf.wrote + 1),
                          !.wrote = @ + 1,
                          !.dropped = @ + IF full THEN 1 ELSE 0]
    /\ UNCHANGED <<stdinVars, pumping, wire, serverSide, linkCuts>>

\* CloseWithError: the process and its stream have ended
ProcessCloses ==
    /\ ~buf.closed
    /\ buf' = [buf EXCEPT !.closed = TRUE]
    /\ UNCHANGED <<stdinVars, pumping, wire, serverSide, linkCuts>>

PumpSilently ==
    /\ pumping.st = "draining"
    /\ \/ /\ buf.data # <<>>
          /\ buf' = [buf EXCEPT !.data = Tail(@)]
          /\ wire' = IF pumping.sending THEN Append(wire, Head(buf.data)) ELSE wire
          /\ UNCHANGED pumping
       \/ /\ buf.data = <<>> /\ buf.closed
          /\ pumping' = [pumping EXCEPT !.st = "drained"]
          /\ UNCHANGED <<buf, wire>>
    /\ UNCHANGED <<stdinVars, serverSide, linkCuts>>

\* pumpStream: send a chunk, or after the last one say whether some were lost
PumpOutput ==
    /\ pumping.st = "draining"
    /\ \/ /\ buf.data # <<>>
          /\ buf' = [buf EXCEPT !.data = Tail(@)]
          /\ wire' = IF pumping.sending THEN Append(wire, Head(buf.data)) ELSE wire
          /\ UNCHANGED pumping
       \/ /\ buf.data = <<>> /\ buf.closed
          /\ wire' = IF buf.dropped > 0 /\ pumping.sending THEN Append(wire, ErrorFrame) ELSE wire
          /\ pumping' = [pumping EXCEPT !.st = "drained"]
          /\ UNCHANGED buf
    /\ UNCHANGED <<stdinVars, serverSide, linkCuts>>

\* streamExecution: the exit frame goes after both streams are drained
SendExit ==
    /\ pumping.st = "drained"
    /\ pumping' = [pumping EXCEPT !.st = "over"]
    /\ wire' = IF pumping.sending THEN Append(wire, ExitFrame) ELSE wire
    /\ UNCHANGED <<stdinVars, buf, serverSide, linkCuts>>

\* the connection breaks and a new one is attached: frames in flight are
\* lost; or none is attached in time and the delivery stops sending
CutWire(expired) ==
    /\ linkCuts < MaxLinkCuts /\ linkCuts' = linkCuts + 1
    /\ wire' = <<>>
    /\ pumping' = [pumping EXCEPT !.sending = @ /\ ~expired]
    /\ outStream' = IF outStream.closed THEN outStream
                    ELSE [outStream EXCEPT !.closed = expired, !.result = IF expired THEN "failed" ELSE @]
    /\ UNCHANGED <<stdinVars, buf, reader, lease>>

-----------------------------------------------------------------------------
\* deliverSessionMessage: push blocks the read loop while the queue is full;
\* a truncation is a session error, which finishes the session before exit
Deliver ==
    /\ wire # <<>>
    /\ wire' = Tail(wire)
    /\ LET m == Head(wire) IN
       \/ /\ m \in 1..MaxChunks
          /\ outStream.closed \/ Len(outStream.queue) < OutCap
          /\ outStream' = IF outStream.closed THEN outStream ELSE [outStream EXCEPT !.queue = Append(@, m)]
       \/ /\ m \in {ErrorFrame, ExitFrame}
          /\ outStream' = IF outStream.closed THEN outStream
                          ELSE [outStream EXCEPT !.closed = TRUE,
                                                 !.result = IF m = ExitFrame THEN "exited" ELSE "failed"]
    /\ UNCHANGED <<stdinVars, runnerSide, reader, lease, linkCuts>>

\* takeReleaseLocked, under the lifecycle lock
Mark(terminal, done) ==
    LET t == lease.terminal \/ terminal
        d == lease.done \/ done IN
    lease' = [terminal |-> t, done |-> d,
              released |-> IF t /\ d /\ lease.released = 0 THEN 1 ELSE lease.released]

\* completionReader.Read by the consumer
ConsumerReads ==
    /\ ~reader.eof
    /\ \/ /\ reader.buffer # <<>>
          /\ reader' = [reader EXCEPT !.got = Append(@, Head(reader.buffer)), !.buffer = Tail(@)]
          /\ UNCHANGED <<outStream, lease>>
       \/ /\ reader.buffer = <<>> /\ reader.settled
          /\ reader' = [reader EXCEPT !.eof = TRUE]
          /\ UNCHANGED <<outStream, lease>>
       \/ /\ reader.buffer = <<>> /\ ~reader.settled /\ outStream.queue # <<>>
          /\ reader' = [reader EXCEPT !.got = Append(@, Head(outStream.queue))]
          /\ outStream' = [outStream EXCEPT !.queue = Tail(@)]
          /\ UNCHANGED lease
       \/ /\ reader.buffer = <<>> /\ ~reader.settled
          /\ outStream.queue = <<>> /\ outStream.closed
          /\ reader' = [reader EXCEPT !.settled = TRUE, !.eof = TRUE]
          /\ Mark(FALSE, TRUE)
          /\ UNCHANGED outStream
    /\ UNCHANGED <<stdinVars, runnerSide, wire, linkCuts>>

\* settleTerminalOutput after the session's result: markTerminal ...
StreamTerminal ==
    /\ outStream.closed /\ ~lease.terminal
    /\ Mark(TRUE, FALSE)
    /\ UNCHANGED <<stdinVars, runnerSide, wire, outStream, reader, linkCuts>>

\* ... then settle reads the rest for the consumer, unless a Read or an
\* abandon got there first
Settle ==
    /\ lease.terminal /\ ~lease.done
    /\ IF reader.settled
       THEN UNCHANGED <<reader, outStream>>
       ELSE /\ reader' = [reader EXCEPT !.settled = TRUE, !.buffer = outStream.queue]
            /\ outStream' = [outStream EXCEPT !.queue = <<>>]
    /\ Mark(FALSE, TRUE)
    /\ UNCHANGED <<stdinVars, runnerSide, wire, linkCuts>>

\* AbandonStdout: the pipe is closed, later chunks are discarded
Abandon ==
    /\ ~reader.abandoned
    /\ reader' = [reader EXCEPT !.abandoned = TRUE, !.settled = TRUE, !.buffer = <<>>]
    /\ outStream' = [outStream EXCEPT !.queue = <<>>]
    /\ Mark(FALSE, TRUE)
    /\ UNCHANGED <<stdinVars, runnerSide, wire, linkCuts>>

\* outputStream.run discards what is pushed after the pipe was closed
Discard ==
    /\ reader.abandoned /\ outStream.queue # <<>>
    /\ outStream' = [outStream EXCEPT !.queue = <<>>]
    /\ UNCHANGED <<stdinVars, runnerSide, wire, reader, lease, linkCuts>>

StreamsNext ==
    \/ Enqueue \/ CloseStdin \/ StdinEnds
    \/ \E ok \in BOOLEAN : PumpStdin(ok)
    \/ ProcessWrites \/ ProcessCloses \/ PumpOutput \/ SendExit
    \/ \E expired \in BOOLEAN : CutWire(expired)
    \/ Deliver \/ ConsumerReads \/ StreamTerminal \/ Settle \/ Abandon \/ Discard

StreamsFairness ==
    /\ WF_streamVars(PumpOutput) /\ WF_streamVars(SendExit) /\ WF_streamVars(ProcessCloses)
    /\ WF_streamVars(Deliver) /\ WF_streamVars(ConsumerReads)
    /\ WF_streamVars(StreamTerminal) /\ WF_streamVars(Settle) /\ WF_streamVars(Discard)

StreamsSpec == StreamsInit /\ [][StreamsNext]_streamVars
StreamsFairSpec == StreamsSpec /\ StreamsFairness

-----------------------------------------------------------------------------
\* Every variable has its type, no queue outgrows its capacity and the lease is
\* released at most once.
StreamsTypeOK ==
    /\ inSent \in 0..MaxInput /\ Len(inPump.queue) <= StdinCap
    /\ buf.wrote \in 0..MaxChunks /\ Len(buf.data) <= BufLimit
    /\ Len(outStream.queue) <= OutCap /\ linkCuts \in 0..MaxLinkCuts
    /\ outStream.result \in {"none", "exited", "failed"}
    /\ lease.released \in 0..1

(* The process reads a gapless prefix of the frames sent to its stdin: the *)
(* pump's overflow, a failed write and a late close never skip one chunk   *)
(* and deliver a later one.                                                *)
StdinIsPrefix == inGot = [k \in 1..Len(inGot) |-> k]

(* What a consumer reads is in the order the process wrote it, without     *)
(* repeats, and after a clean exit over an unbroken connection a consumer  *)
(* that reads to the end has every chunk: a buffer that dropped output     *)
(* turns the exit into a failure, and settling at the end of the process   *)
(* takes nothing from a consumer that is still reading.                    *)
OutputIsFaithful ==
    /\ \A j, k \in DOMAIN reader.got : j < k => reader.got[j] < reader.got[k]
    /\ (reader.eof /\ ~reader.abandoned /\ outStream.result = "exited" /\ linkCuts = 0)
          => reader.got = [k \in 1..buf.wrote |-> k]

(* The process's redaction lease is released only when its result is known *)
(* and no more of its output can be read from the transport.               *)
LeaseCoversOutput ==
    lease.released = 1 => (outStream.closed /\ reader.settled)

(* Once the process has ended, a session whose connection does not break   *)
(* again gets its result and releases its lease: no full queue, settled    *)
(* reader or abandoned stream blocks the read loop for good.               *)
StreamsSettle == (buf.closed /\ pumping.sending) ~> (lease.released = 1 \/ linkCuts > 0)

\* StreamsSafe: stdin and output arrive in order and without loss that goes
\* unnoticed, and the redaction lease outlives the output.
StreamsSafe == StreamsTypeOK /\ StdinIsPrefix /\ OutputIsFaithful /\ LeaseCoversOutput
=============================================================================
