------------------------------ MODULE MCOutput ------------------------------
(***************************************************************************)
(* What a running session says and hears: the frames of its stdin and its  *)
(* output, the tunnels to its network, and the capture of its raw output.  *)
(* The components share no state: `focus' picks the one that moves, the    *)
(* others rest.                                                            *)
(***************************************************************************)
EXTENDS SessionStreams, Tunnels, OutputCapture

VARIABLE focus

OutLoads == {<<2, 0>>, <<0, 2>>}
OutChunks == <<2, 2>>

OutputInit ==
    /\ focus \in {"streams", "tunnels", "capture"}
    /\ StreamsInit /\ TunnelInit /\ CaptureInit
    /\ load = <<0, 2>> \/ focus = "tunnels"

Rest ==
    /\ UNCHANGED focus
    /\ IF focus # "streams" THEN UNCHANGED streamVars ELSE TRUE
    /\ IF focus # "tunnels" THEN UNCHANGED <<tunnelVars, load>> ELSE TRUE
    /\ IF focus # "capture" THEN UNCHANGED captureVars ELSE TRUE

OutputNext ==
    /\ Rest
    /\ \/ focus = "streams" /\ StreamsNext
       \/ focus = "tunnels" /\ TunnelNext
       \/ focus = "capture" /\ CaptureNext

\* StreamsFairness, TunnelFairness and CaptureFairness, each where it moves
OutputFairness ==
    /\ WF_streamVars(focus = "streams" /\ PumpOutput) /\ WF_streamVars(focus = "streams" /\ SendExit)
    /\ WF_streamVars(focus = "streams" /\ ProcessCloses) /\ WF_streamVars(focus = "streams" /\ Deliver)
    /\ WF_streamVars(focus = "streams" /\ ConsumerReads) /\ WF_streamVars(focus = "streams" /\ StreamTerminal)
    /\ WF_streamVars(focus = "streams" /\ Settle) /\ WF_streamVars(focus = "streams" /\ Discard)
    /\ WF_tunnelVars(focus = "tunnels" /\ (DialSessionReturns \/ HandleConnectMessage \/ ServerFails))
    /\ WF_tunnelVars(focus = "tunnels" /\ (\/ HandleConnect \/ HandleConnectData \/ HandleConnectClose
                                           \/ DetachConnectors \/ AttachConn \/ DialFails \/ SendConnected))
    /\ WF_tunnelVars(focus = "tunnels" /\ (\/ LockAcquired \/ LockGivenUp \/ LockRetried \/ FrameWritten
                                           \/ WriteRefused \/ WriteTimesOut \/ (writeMu = -1 /\ OtherWriter)
                                           \/ \E k \in Attempts : HelperDrops(k)))
    /\ SF_tunnelVars(focus = "tunnels" /\ NotifyClose)
    /\ \A p \in Processes : WF_captureVars(focus = "capture" /\ CaptureStep(p))

OutputSpec ==
    /\ OutputInit
    /\ [][OutputNext]_<<focus, streamVars, tunnelVars, load, captureVars>>
    /\ OutputFairness

\* OutputSettles: output that ended is handed over and its lease released, a
\* tunnel closed at one end is released at the other, and every capture ends.
OutputSettles == StreamsSettle /\ TunnelSettles /\ CapturesEnd
=============================================================================
