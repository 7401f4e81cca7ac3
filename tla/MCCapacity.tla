------------------------------ MODULE MCCapacity ------------------------------
(***************************************************************************)
(* Two runs compete, in one of two scenarios that `cast' picks: r1 and r2   *)
(* for the only slot of their agent and of its model, while their sessions  *)
(* die; or r3 and r4 for runners that come and go, with two agent slots, no *)
(* model limit and an agent whose configuration comes and goes.             *)
(***************************************************************************)
EXTENDS SchedulerProperties, TLC

CONSTANTS r1, r2, r3, r4, a1, a2, m1, m2, w1, w2, n1, n2, inf, t1, t2

VARIABLE cast

MCTokens      == {t1, t2}
MCSymmetry    == Permutations(MCTokens)
MCRuns        == {r1, r2, r3, r4}
MCAgentOf     == (r1 :> a1) @@ (r2 :> a1) @@ (r3 :> a2) @@ (r4 :> a2)
MCModelOf     == (a1 :> m1) @@ (a2 :> m2)
MCWorkspaceOf == (r1 :> w1) @@ (r2 :> w2) @@ (r3 :> w1) @@ (r4 :> w2)
MCPriorityOf  == (r1 :> 1) @@ (r2 :> 2) @@ (r3 :> 1) @@ (r4 :> 2)
MCParentOf    == [r \in MCRuns |-> NoRun]
MCAgentLimit  == (a1 :> 1) @@ (a2 :> 2)
MCModelLimit  == (m1 :> 1) @@ (m2 :> inf)
MCRunnerRank  == (n1 :> 1) @@ (n2 :> 2)
MCRunnerLimit == (n1 :> 1) @@ (n2 :> 1)
MCPolicy      == (w1 :> {n1, n2}) @@ (w2 :> {n1})
MCQuestionRun == [q \in {} |-> NoRun]

CapacityInit == cast \in {{r1, r2}, {r3, r4}} /\ Init

CapacityNext ==
    /\ UNCHANGED cast
    /\ \/ Loop \/ EvaluateFails \/ ServerRestarts
       \/ \E t \in Tokens : Work(t) \/ MayHappen(t)
       \/ Request /\ \A r \in Runs \ cast : runStatus'[r] = "NONE"
       \/ r1 \in cast /\ Die
       \/ \E j \in Jobs : Expire(j) \/ Retry(j)
       \/ r3 \in cast /\ \E n \in Unsteady : ConnectionChanges(n)
       \/ r3 \in cast /\ \E a \in Editable : ConfigurationChanges(a)

CapacitySpec == CapacityInit /\ [][CapacityNext]_<<vars, cast>>
=============================================================================
