------------------------------ MODULE ClaimPool ------------------------------
(***************************************************************************)
(* What the scheduler promises to whoever relies on its claims, with no     *)
(* runs, questions, workers or coordinator in it: a pool that grants jobs   *)
(* exclusive, leased claims on limited capacity.  A grant finds room for    *)
(* every unit it takes and no rival claimed, and takes all units at once;   *)
(* a lease may lapse, which frees nothing; a lapsed claim may be taken over *)
(* under a lease nobody holds; and a claim that is given up gives up its    *)
(* lease and all of its units in the same step.                             *)
(***************************************************************************)
EXTENDS Integers, FiniteSets

CONSTANTS
    Jobs,
    Tokens, NoToken,
    Bundles(_),        \* job -> the sets of units that would serve it
    Limit(_, _),       \* kind, resource -> units that may be held at once
    Unlimited,
    Rivals(_, _)       \* two jobs that may not be claimed together

VARIABLES
    claimed,   \* jobs somebody has a claim on
    lease,     \* job -> the token of its claim
    lapsed,    \* claims whose lease has run out
    held       \* units: [job, kind, resource]

poolVars == <<claimed, lease, lapsed, held>>

Init ==
    /\ claimed = {} /\ lapsed = {} /\ held = {}
    /\ lease = [j \in Jobs |-> NoToken]

Fresh(t) == \A j \in Jobs : lease[j] # t

HasRoom(kind, resource) ==
    \/ Limit(kind, resource) = Unlimited
    \/ Cardinality({x \in held : x.kind = kind /\ x.resource = resource})
          < Limit(kind, resource)

Grant(j, t, units) ==
    /\ j \notin claimed /\ lease[j] = NoToken /\ Fresh(t)
    /\ \A i \in claimed : ~Rivals(i, j)
    /\ \A x \in units : HasRoom(x.kind, x.resource)
    /\ claimed' = claimed \cup {j}
    /\ lease' = [lease EXCEPT ![j] = t]
    /\ held' = held \cup units
    /\ UNCHANGED lapsed

Lapse(j) ==
    /\ j \in claimed \ lapsed
    /\ lapsed' = lapsed \cup {j}
    /\ UNCHANGED <<claimed, lease, held>>

TakeOver(j, t) ==
    /\ j \in lapsed /\ Fresh(t)
    /\ lease' = [lease EXCEPT ![j] = t]
    /\ lapsed' = lapsed \ {j}
    /\ UNCHANGED <<claimed, held>>

GiveUp(J) ==
    /\ claimed' = claimed \ J
    /\ lease' = [j \in Jobs |-> IF j \in J THEN NoToken ELSE lease[j]]
    /\ lapsed' = lapsed \ J
    /\ held' = {x \in held : x.job \notin J}

Next ==
    \/ \E J \in SUBSET claimed : GiveUp(J)
    \/ \E j \in Jobs : Lapse(j)
    \/ \E j \in Jobs, t \in Tokens :
          TakeOver(j, t) \/ \E units \in Bundles(j) : Grant(j, t, units)

Spec == Init /\ [][Next]_poolVars
=============================================================================
