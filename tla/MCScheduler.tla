----------------------------- MODULE MCScheduler -----------------------------
(***************************************************************************)
(* The scheduler with one run that asks questions, or with two runs of two  *)
(* agents in one workspace, as rivals or as a run and the run it delegates  *)
(* a task to.                                                               *)
(***************************************************************************)
EXTENDS SchedulerProperties, TLC

CONSTANTS r1, r2, a1, a2, m1, w1, n1, n2, inf, q1, q2, t1, t2, t3

TwoTokens     == {t1, t2}
ThreeTokens   == {t1, t2, t3}
BothQuestions == {q1, q2}
MCSymmetry    == Permutations(Tokens) \cup Permutations(Questions)

MCModelOf     == (a1 :> m1) @@ (a2 :> m1)
MCAgentLimit  == (a1 :> 1) @@ (a2 :> 1)
MCRunnerRank  == (n1 :> 1) @@ (n2 :> 2)
OneOfEach     == (n1 :> 1) @@ (n2 :> 1)
TwoOfEach     == (n1 :> 2) @@ (n2 :> 2)
MCPolicy      == (w1 :> Runners)
OneModel      == (m1 :> 1)
TwoModels     == (m1 :> 2)
AnyModels     == (m1 :> inf)
MCAgentOf     == [r \in Runs |-> IF r = r1 THEN a1 ELSE a2]
MCWorkspaceOf == [r \in Runs |-> w1]
MCPriorityOf  == [r \in Runs |-> 1]
RankedRuns    == (r1 :> 1) @@ (r2 :> 2)
NoParents     == [r \in Runs |-> NoRun]
ParentAndChild == (r1 :> NoRun) @@ (r2 :> r1)
MCQuestionRun == [q \in Questions |-> r1]
=============================================================================
