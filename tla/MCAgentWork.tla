----------------------------- MODULE MCAgentWork ----------------------------
(***************************************************************************)
(* The work of an agent from end to end: the requests that comments make,  *)
(* the OpenCode session that carries them out, the events it shows and the *)
(* usage that is counted.  The components share no state: `focus' picks the *)
(* one that moves, the others rest.                                        *)
(***************************************************************************)
EXTENDS WorkRequests, OpenCodeSession, EventStreams, ModelUsage

VARIABLE focus

WorkInit ==
    /\ focus \in {"requests", "opencode", "events", "usage"}
    /\ WrInit /\ OpenCodeInit /\ EventInit /\ UsageInit
    /\ kind = "run" \/ focus = "events"

Rest ==
    /\ UNCHANGED focus
    /\ IF focus # "requests" THEN UNCHANGED wrVars ELSE TRUE
    /\ IF focus # "opencode" THEN UNCHANGED openCodeVars ELSE TRUE
    /\ IF focus # "events" THEN UNCHANGED eventVars ELSE TRUE
    /\ IF focus # "usage" THEN UNCHANGED usageVars ELSE TRUE

WorkNext ==
    /\ Rest
    /\ \/ focus = "requests" /\ WrNext
       \/ focus = "opencode" /\ OpenCodeNext
       \/ focus = "events" /\ EventNext
       \/ focus = "usage" /\ UsageNext

\* WrFairness, OpenCodeFairness and EventFairness, each where it moves
WorkFairness ==
    /\ WF_wrVars(focus = "requests" /\ ReadCandidate) /\ SF_wrVars(focus = "requests" /\ Promote)
    /\ WF_openCodeVars(focus = "opencode" /\ EngineStep) /\ WF_openCodeVars(focus = "opencode" /\ Poll)
    /\ WF_openCodeVars(focus = "opencode" /\ ReadEvent) /\ WF_openCodeVars(focus = "opencode" /\ NativeStep)
    /\ WF_openCodeVars(focus = "opencode" /\ PromptStalls /\ native.turn = "idle")
    /\ \A w \in EventWriters : WF_eventVars(focus = "events" /\ Publication(w))
    /\ WF_eventVars(focus = "events" /\ StreamSteps)

WorkSpec ==
    /\ WorkInit
    /\ [][WorkNext]_<<focus, wrVars, openCodeVars, eventVars, usageVars>>
    /\ WorkFairness
=============================================================================
