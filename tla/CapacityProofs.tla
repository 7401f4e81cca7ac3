---------------------------- MODULE CapacityProofs ----------------------------
(***************************************************************************)
(* The safety theorems about claims and capacity.  SchedulerProofs has      *)
(* shown that every transaction changes claims in one of four ways          *)
(* (ClaimStep), so each invariant is shown to survive four cases.           *)
(***************************************************************************)
EXTENDS SchedulerProofs

\* Every step of the system is a claim step.
LEMMA EveryStepIsClaimStep == IInv /\ [Next]_vars => ClaimStep
BY EveryStep DEF Good

-----------------------------------------------------------------------------
Held(j) == {x \in reservations : x.job = j}

\* ReservationsFor(j, n) are reservations of j.
LEMMA ReservationsForJob ==
    ASSUME NEW j, NEW n, NEW x \in ReservationsFor(j, n) PROVE x.job = j
BY DEF ReservationsFor

\* Releasing claims keeps every other claim's lease and capacity.
LEMMA ReleaseKeepsOwnership ==
    ASSUME IInv, ClaimOwnsCapacity, NEW J \in SUBSET Jobs, Release(J),
           \A j \in Jobs : jobState'[j] = "CLAIMED" <=>
                              jobState[j] = "CLAIMED" /\ j \notin J
    PROVE  ClaimOwnsCapacity'
<1> SUFFICES ASSUME NEW j \in Jobs
             PROVE  /\ Claimed(j)' <=> leaseToken'[j] # NoToken
                    /\ j \in expired' => Claimed(j)'
                    /\ IF Claimed(j)'
                       THEN \E n \in Runners :
                              {x \in reservations' : x.job = j} = ReservationsFor(j, n)
                       ELSE {x \in reservations' : x.job = j} = {}
  BY DEF ClaimOwnsCapacity, ReservationsFor
<1>1. Claimed(j)' <=> Claimed(j) /\ j \notin J
  BY DEF Claimed
<1>2. leaseToken'[j] = (IF j \in J THEN NoToken ELSE leaseToken[j])
  BY DEF Release, LeasesWithout
<1>3. j \in expired' <=> j \in expired /\ j \notin J
  BY DEF Release
<1>4. {x \in reservations' : x.job = j} = (IF j \in J THEN {} ELSE Held(j))
  BY DEF Release, ReservationsWithout, Held
<1>5. /\ Claimed(j) <=> leaseToken[j] # NoToken
      /\ j \in expired => Claimed(j)
      /\ IF Claimed(j) THEN \E n \in Runners : Held(j) = ReservationsFor(j, n)
                       ELSE Held(j) = {}
  BY DEF ClaimOwnsCapacity, Held
<1>6. CASE j \in J
  BY <1>1, <1>2, <1>3, <1>4, <1>6
<1>7. CASE j \notin J
  BY <1>1, <1>2, <1>3, <1>4, <1>5, <1>7
<1> QED BY <1>6, <1>7

\* AdmitNextJob gives a job that held nothing a lease and its three rows.
LEMMA AdmitKeepsOwnership ==
    ASSUME IInv, ClaimOwnsCapacity, NEW i \in Jobs, NEW m \in Runners,
           NEW t \in Tokens, jobState[i] = "QUEUED", AdmitJob(i, m, t)
    PROVE  ClaimOwnsCapacity'
<1> SUFFICES ASSUME NEW j \in Jobs
             PROVE  /\ Claimed(j)' <=> leaseToken'[j] # NoToken
                    /\ j \in expired' => Claimed(j)'
                    /\ IF Claimed(j)'
                       THEN \E n \in Runners :
                              {x \in reservations' : x.job = j} = ReservationsFor(j, n)
                       ELSE {x \in reservations' : x.job = j} = {}
  BY DEF ClaimOwnsCapacity, ReservationsFor
<1>1. jobState \in [Jobs -> JobStates] /\ leaseToken \in [Jobs -> Tokens \cup {NoToken}]
  BY DEF IInv, TypeOK, TablesType
<1>2. /\ Claimed(j) <=> leaseToken[j] # NoToken
      /\ j \in expired => Claimed(j)
      /\ IF Claimed(j) THEN \E n \in Runners : Held(j) = ReservationsFor(j, n)
                       ELSE Held(j) = {}
  BY DEF ClaimOwnsCapacity, Held
<1>3. {x \in reservations' : x.job = j} =
         Held(j) \cup {x \in ReservationsFor(i, m) : x.job = j}
  BY DEF AdmitJob, Held
<1>4. CASE j = i
  <2>1. Held(j) = {}
    BY <1>2, <1>4 DEF Claimed
  <2>2. {x \in ReservationsFor(i, m) : x.job = j} = ReservationsFor(j, m)
    BY <1>4, ReservationsForJob
  <2>3. {x \in reservations' : x.job = j} = ReservationsFor(j, m)
    BY <1>3, <2>1, <2>2
  <2>4. Claimed(j)' /\ leaseToken'[j] # NoToken
    BY <1>1, <1>4, ReferencesAssumption DEF AdmitJob, Claimed
  <2> QED BY <2>3, <2>4
<1>5. CASE j # i
  <2>1. {x \in ReservationsFor(i, m) : x.job = j} = {}
    BY <1>5, ReservationsForJob
  <2>2. {x \in reservations' : x.job = j} = Held(j)
    BY <1>3, <2>1
  <2>3. /\ Claimed(j)' <=> Claimed(j)
        /\ leaseToken'[j] = leaseToken[j]
        /\ j \in expired' => j \in expired
    BY <1>1, <1>5 DEF AdmitJob, Claimed
  <2> QED BY <1>2, <2>2, <2>3
<1> QED BY <1>4, <1>5

\* ClaimOwnsCapacity is inductive relative to the types.
LEMMA OwnershipIsInductive ==
    ASSUME IInv, ClaimOwnsCapacity, ClaimStep PROVE ClaimOwnsCapacity'
<1> USE DEF IInv, TypeOK, TablesType
<1>1. CASE \E J \in SUBSET Jobs :
              /\ Release(J)
              /\ \A j \in Jobs : jobState'[j] = "CLAIMED" <=>
                                    jobState[j] = "CLAIMED" /\ j \notin J
  BY <1>1, ReleaseKeepsOwnership
<1>2. CASE \E i \in Jobs : LeaseExpires(i) \/ \E t \in Tokens : ClaimExpired(i, t)
  <2>1. PICK i \in Jobs : LeaseExpires(i) \/ \E t \in Tokens : ClaimExpired(i, t)
    BY <1>2
  <2>2. UNCHANGED <<jobState, reservations>>
    BY <2>1 DEF LeaseExpires, ClaimExpired
  <2>3. \A j \in Jobs : leaseToken'[j] # NoToken <=> leaseToken[j] # NoToken
    <3>1. CASE LeaseExpires(i)
      BY <3>1 DEF LeaseExpires
    <3>2. CASE \E t \in Tokens : ClaimExpired(i, t)
      <4>1. PICK t \in Tokens : ClaimExpired(i, t)
        BY <3>2
      <4>2. leaseToken' = [leaseToken EXCEPT ![i] = t] /\ jobState[i] = "CLAIMED"
        BY <4>1 DEF ClaimExpired, NeedsReconciler, ExpiredCandidate
      <4>3. leaseToken[i] # NoToken /\ t # NoToken
        BY <4>2, ReferencesAssumption DEF ClaimOwnsCapacity, Claimed
      <4> QED BY <4>2, <4>3
    <3> QED BY <2>1, <3>1, <3>2
  <2>4. \A j \in Jobs : j \in expired' => j \in expired \/ leaseToken[j] # NoToken
    BY <2>1 DEF LeaseExpires, ClaimExpired
  <2>5. \A j \in Jobs : Claimed(j)' <=> Claimed(j)
    BY <2>2 DEF Claimed
  <2>6. \A j \in Jobs : j \in expired' => Claimed(j)'
    BY <2>4, <2>5 DEF ClaimOwnsCapacity
  <2> QED BY <2>2, <2>3, <2>5, <2>6 DEF ClaimOwnsCapacity
<1>3. CASE \E j \in Jobs, n \in Runners, t \in Tokens :
              jobState[j] = "QUEUED" /\ AdmitJob(j, n, t)
  BY <1>3, AdmitKeepsOwnership
<1> QED BY <1>1, <1>2, <1>3 DEF ClaimStep

\* No leaked capacity, for every number of runs, runners and tokens: a job
\* holds a lease and exactly its run's capacity precisely while it is claimed,
\* whichever transaction ended the claim.
THEOREM ClaimsOwnCapacity == Spec => []ClaimOwnsCapacity
<1>1. Init => ClaimOwnsCapacity
  BY DEF Init, ClaimOwnsCapacity, Claimed
<1>2. IInv /\ ClaimOwnsCapacity /\ [Next]_vars => ClaimOwnsCapacity'
  BY EveryStepIsClaimStep, OwnershipIsInductive
<1> QED BY <1>1, <1>2, IInvHolds, PTL DEF Spec

-----------------------------------------------------------------------------
\* Two runs of one workspace are never claimed at the same time: only
\* admission adds a claim, and workspaceAdmissionOccupied looks at claims.
THEOREM WorkspacesHaveOneClaim == Spec => []OneClaimPerWorkspace
<1>1. Init => OneClaimPerWorkspace
  BY DEF Init, OneClaimPerWorkspace, HasClaim, Claimed, JobsOf
<1>2. ASSUME IInv, OneClaimPerWorkspace, ClaimStep PROVE OneClaimPerWorkspace'
  <2>1. CASE \A j \in Jobs : jobState'[j] = "CLAIMED" => jobState[j] = "CLAIMED"
    <3>1. \A r \in Runs : HasClaim(r)' => HasClaim(r)
      BY <2>1 DEF HasClaim, Claimed, JobsOf
    <3> QED BY <1>2, <3>1 DEF OneClaimPerWorkspace
  <2>2. CASE \E j \in Jobs, n \in Runners, t \in Tokens :
                ~MustDefer(JobRun(j)) /\ AdmitJob(j, n, t)
    <3>1. PICK j \in Jobs, n \in Runners, t \in Tokens :
             ~MustDefer(JobRun(j)) /\ AdmitJob(j, n, t)
      BY <2>2
    <3>2. \A i \in Jobs : jobState'[i] = "CLAIMED" => jobState[i] = "CLAIMED" \/ i = j
      BY <1>2, <3>1 DEF AdmitJob, IInv, TypeOK, TablesType
    <3>3. \A x \in Runs \ {JobRun(j)} :
             WorkspaceOf[x] = WorkspaceOf[JobRun(j)] => ~HasClaim(x)
      BY <3>1 DEF MustDefer, WorkspaceOccupied, ExecutionOccupied, HasClaim, Claimed
    <3>4. \A x \in Runs : HasClaim(x)' => HasClaim(x) \/ x = JobRun(j)
      BY <3>2 DEF HasClaim, Claimed, JobsOf
    <3> QED BY <1>2, <3>3, <3>4 DEF OneClaimPerWorkspace
  <2> QED BY <1>2, <2>1, <2>2 DEF ClaimStep, LeaseExpires, ClaimExpired
<1>3. IInv /\ OneClaimPerWorkspace /\ [Next]_vars => OneClaimPerWorkspace'
  BY <1>2, EveryStepIsClaimStep
<1> QED BY <1>1, <1>3, IInvHolds, PTL DEF Spec

-----------------------------------------------------------------------------
Uses(kind, resource) == {x \in reservations : x.kind = kind /\ x.resource = resource}

FiniteReservations == IsFiniteSet(reservations)

\* Deleting rows never raises a count.
LEMMA FewerReservationsUseLess ==
    ASSUME FiniteReservations, reservations' \subseteq reservations,
           NEW kind, NEW resource
    PROVE  /\ FiniteReservations'
           /\ Used(kind, resource) \in Nat /\ Used(kind, resource)' \in Nat
           /\ Used(kind, resource)' <= Used(kind, resource)
<1>1. /\ Uses(kind, resource) \subseteq reservations
      /\ Uses(kind, resource)' \subseteq Uses(kind, resource)
  BY DEF Uses
<1>2. /\ IsFiniteSet(Uses(kind, resource)) /\ IsFiniteSet(Uses(kind, resource)')
      /\ Cardinality(Uses(kind, resource)') <= Cardinality(Uses(kind, resource))
  BY <1>1, FS_Subset DEF FiniteReservations
<1>3. FiniteReservations'
  BY FS_Subset DEF FiniteReservations
<1> QED BY <1>2, <1>3, FS_CardinalityType DEF Used, Uses

\* What admission reserves: the chosen runner, the run's agent and its model.
LEMMA ReservedResources ==
    ASSUME NEW j, NEW n, NEW x \in ReservationsFor(j, n)
    PROVE  /\ x = [job |-> j, kind |-> x.kind, resource |-> x.resource]
           /\ x.kind = "RUNNER" => x.resource = n
           /\ x.kind = "AGENT" => x.resource = AgentOf[JobRun(j)]
           /\ x.kind = "MODEL_PROFILE" => x.resource = ModelOf[AgentOf[JobRun(j)]]
<1> DEFINE a == AgentOf[JobRun(j)]
           m == ModelOf[a]
<1>1. \/ x = [job |-> j, kind |-> "RUNNER", resource |-> n]
      \/ x = [job |-> j, kind |-> "AGENT", resource |-> a]
      \/ x = [job |-> j, kind |-> "MODEL_PROFILE", resource |-> m]
  BY DEF ReservationsFor
<1> HIDE DEF a, m
<1>2. /\ x = [job |-> j, kind |-> x.kind, resource |-> x.resource]
      /\ x.kind = "RUNNER" => x.resource = n
      /\ x.kind = "AGENT" => x.resource = a
      /\ x.kind = "MODEL_PROFILE" => x.resource = m
  BY <1>1
<1> QED BY <1>2 DEF a, m

\* Admission adds one row per kind: one count of each kind grows, by one.
LEMMA AdmissionUsesOneMore ==
    ASSUME FiniteReservations, NEW j \in Jobs, NEW n \in Runners,
           reservations' = reservations \cup ReservationsFor(j, n),
           NEW kind \in Kinds, NEW resource
    PROVE  /\ FiniteReservations'
           /\ Used(kind, resource) \in Nat /\ Used(kind, resource)' \in Nat
           /\ Used(kind, resource)' <= Used(kind, resource) + 1
           /\ (~ \E x \in ReservationsFor(j, n) : x.kind = kind /\ x.resource = resource)
                 => Used(kind, resource)' = Used(kind, resource)
<1> DEFINE U == Uses(kind, resource)
           new == [job |-> j, kind |-> kind, resource |-> resource]
<1>1. IsFiniteSet(ReservationsFor(j, n))
  <2>1. \A a, b, c : IsFiniteSet({a, b, c})
    <3> TAKE a, b, c
    <3>1. IsFiniteSet({a})
      BY FS_Singleton
    <3>2. IsFiniteSet({a} \cup {b})
      BY <3>1, FS_AddElement
    <3>3. IsFiniteSet(({a} \cup {b}) \cup {c})
      BY <3>2, FS_AddElement
    <3>4. ({a} \cup {b}) \cup {c} = {a, b, c}
      OBVIOUS
    <3> QED BY <3>3, <3>4
  <2> QED BY <2>1 DEF ReservationsFor
<1>2. FiniteReservations'
  BY <1>1, FS_Union DEF FiniteReservations
<1>3. IsFiniteSet(U) /\ Cardinality(U) \in Nat
  <2>1. U \subseteq reservations
    BY DEF Uses
  <2>2. IsFiniteSet(U)
    BY <2>1, FS_Subset DEF FiniteReservations
  <2> QED BY <2>2, FS_CardinalityType
<1>4. \A x \in ReservationsFor(j, n) : x.kind = kind /\ x.resource = resource => x = new
  BY ReservedResources
<1>5. U' = U \/ U' = U \cup {new}
  BY <1>4 DEF Uses
<1>6. (~ \E x \in ReservationsFor(j, n) : x.kind = kind /\ x.resource = resource) => U' = U
  BY DEF Uses
<1> HIDE DEF U, new
<1>7. Cardinality(U') \in Nat /\ Cardinality(U') <= Cardinality(U) + 1
  <2>1. CASE U' = U
    BY <1>3, <2>1
  <2>2. CASE U' = U \cup {new}
    <3>1. Cardinality(U \cup {new}) \in {Cardinality(U), Cardinality(U) + 1}
      BY <1>3, FS_AddElement
    <3> QED BY <1>3, <2>2, <3>1
  <2> QED BY <1>5, <2>1, <2>2
<1> QED BY <1>2, <1>3, <1>6, <1>7 DEF Used, Uses, U

\* The limits are numbers; a model profile may have none.
LEMMA LimitTypes ==
    /\ \A a \in Agents : AgentLimit[a] \in Nat
    /\ \A m \in Models : ModelLimit[m] \in Nat \cup {Unlimited}
    /\ \A n \in Runners : RunnerLimit[n] \in Nat
BY LimitsAssumption DEF Agents, Models

\* AdmitNextJob checks the limits it then counts against: after ~MustDefer the
\* agent, the model profile and the chosen runner each have room for one more.
LEMMA AdmissionRespectsLimits ==
    ASSUME IInv, FiniteReservations, CapacityRespected,
           NEW j \in Jobs, NEW n \in Runners, NEW t \in Tokens,
           ~MustDefer(JobRun(j)), FirstRunner(JobRun(j), n), AdmitJob(j, n, t)
    PROVE  CapacityRespected'
<1> DEFINE r == JobRun(j)
<1>1. r \in Runs
  BY JobRunIsRun
<1>2. reservations' = reservations \cup ReservationsFor(j, n)
  BY DEF AdmitJob
<1>3. \A kind \in Kinds : \A resource :
             /\ Used(kind, resource) \in Nat /\ Used(kind, resource)' \in Nat
             /\ Used(kind, resource)' <= Used(kind, resource) + 1
             /\ (~ \E x \in ReservationsFor(j, n) :
                       x.kind = kind /\ x.resource = resource)
                   => Used(kind, resource)' = Used(kind, resource)
  BY <1>2, AdmissionUsesOneMore, SMTT(30)
<1>4. \A a \in Agents : Used("AGENT", a)' <= AgentLimit[a]
  <2> SUFFICES ASSUME NEW a \in Agents PROVE Used("AGENT", a)' <= AgentLimit[a]
    OBVIOUS
  <2>1. AgentLimit[a] \in Nat /\ Used("AGENT", a) <= AgentLimit[a]
    BY LimitTypes DEF CapacityRespected
  <2>2. /\ Used("AGENT", a) \in Nat /\ Used("AGENT", a)' \in Nat
        /\ Used("AGENT", a)' <= Used("AGENT", a) + 1
    BY <1>3 DEF Kinds
  <2>3. (~ \E x \in ReservationsFor(j, n) : x.kind = "AGENT" /\ x.resource = a)
           => Used("AGENT", a)' = Used("AGENT", a)
    BY <1>3 DEF Kinds
  <2>4. CASE a = AgentOf[r]
    <3>1. ~AgentFull(r)
      BY DEF MustDefer
    <3>2. ~ (Used("AGENT", a) >= AgentLimit[a])
      <4> HIDE DEF r
      <4> QED BY <2>4, <3>1 DEF AgentFull
    <3> QED BY <2>1, <2>2, <3>2
  <2>5. CASE a # AgentOf[r]
    <3>1. ~ \E x \in ReservationsFor(j, n) : x.kind = "AGENT" /\ x.resource = a
      BY <2>5, ReservedResources
    <3> QED BY <2>1, <2>3, <3>1
  <2> QED BY <2>4, <2>5
<1>5. \A m \in Models : ModelLimit[m] = Unlimited \/ Used("MODEL_PROFILE", m)' <= ModelLimit[m]
  <2> SUFFICES ASSUME NEW m \in Models, ModelLimit[m] # Unlimited
               PROVE  Used("MODEL_PROFILE", m)' <= ModelLimit[m]
    OBVIOUS
  <2>1. ModelLimit[m] \in Nat /\ Used("MODEL_PROFILE", m) <= ModelLimit[m]
    BY LimitTypes DEF CapacityRespected
  <2>2. /\ Used("MODEL_PROFILE", m) \in Nat /\ Used("MODEL_PROFILE", m)' \in Nat
        /\ Used("MODEL_PROFILE", m)' <= Used("MODEL_PROFILE", m) + 1
    BY <1>3 DEF Kinds
  <2>3. (~ \E x \in ReservationsFor(j, n) : x.kind = "MODEL_PROFILE" /\ x.resource = m)
           => Used("MODEL_PROFILE", m)' = Used("MODEL_PROFILE", m)
    BY <1>3 DEF Kinds
  <2>4. CASE m = ModelOf[AgentOf[r]]
    <3>1. ~ModelFull(r)
      BY DEF MustDefer
    <3>2. ~ (Used("MODEL_PROFILE", m) >= ModelLimit[m])
      <4> HIDE DEF r
      <4> QED BY <2>4, <3>1 DEF ModelFull
    <3> QED BY <2>1, <2>2, <3>2
  <2>5. CASE m # ModelOf[AgentOf[r]]
    <3>1. ~ \E x \in ReservationsFor(j, n) : x.kind = "MODEL_PROFILE" /\ x.resource = m
      BY <2>5, ReservedResources
    <3> QED BY <2>1, <2>3, <3>1
  <2> QED BY <2>4, <2>5
<1>6. \A k \in Runners : Used("RUNNER", k)' <= RunnerLimit[k]
  <2> SUFFICES ASSUME NEW k \in Runners PROVE Used("RUNNER", k)' <= RunnerLimit[k]
    OBVIOUS
  <2>1. RunnerLimit[k] \in Nat /\ Used("RUNNER", k) <= RunnerLimit[k]
    BY LimitTypes DEF CapacityRespected
  <2>2. /\ Used("RUNNER", k) \in Nat /\ Used("RUNNER", k)' \in Nat
        /\ Used("RUNNER", k)' <= Used("RUNNER", k) + 1
    BY <1>3 DEF Kinds
  <2>3. (~ \E x \in ReservationsFor(j, n) : x.kind = "RUNNER" /\ x.resource = k)
           => Used("RUNNER", k)' = Used("RUNNER", k)
    BY <1>3 DEF Kinds
  <2>4. CASE k = n
    <3>1. Used("RUNNER", k) < RunnerLimit[k]
      BY <2>4 DEF FirstRunner, RunnerCandidates
    <3> QED BY <2>1, <2>2, <3>1
  <2>5. CASE k # n
    <3>1. ~ \E x \in ReservationsFor(j, n) : x.kind = "RUNNER" /\ x.resource = k
      BY <2>5, ReservedResources
    <3> QED BY <2>1, <2>3, <3>1
  <2> QED BY <2>4, <2>5
<1> QED BY <1>4, <1>5, <1>6 DEF CapacityRespected, Agents, Models

\* The limits hold and the rows they count stay finitely many.
LEMMA CapacityInvariant == Spec => [](FiniteReservations /\ CapacityRespected)
<1> DEFINE Inv == FiniteReservations /\ CapacityRespected
<1>1. Init => Inv
  <2> SUFFICES ASSUME Init PROVE Inv
    OBVIOUS
  <2>1. FiniteReservations
    BY FS_EmptySet DEF Init, FiniteReservations
  <2>2. \A kind, resource : Used(kind, resource) = 0
    <3> TAKE kind, resource
    <3>1. {x \in reservations : x.kind = kind /\ x.resource = resource} = {}
      BY DEF Init
    <3> QED BY <3>1, FS_EmptySet DEF Used
  <2>3. \A a \in Agents : Used("AGENT", a) <= AgentLimit[a]
    BY <2>2, LimitTypes
  <2>4. \A m \in Models : ModelLimit[m] = Unlimited \/ Used("MODEL_PROFILE", m) <= ModelLimit[m]
    BY <2>2, LimitTypes
  <2>5. \A n \in Runners : Used("RUNNER", n) <= RunnerLimit[n]
    BY <2>2, LimitTypes
  <2> QED BY <2>1, <2>3, <2>4, <2>5 DEF CapacityRespected
<1>2. ASSUME IInv, Inv, ClaimStep PROVE Inv'
  <2>1. CASE reservations' \subseteq reservations
    <3>1. \A kind, resource :
             /\ Used(kind, resource) \in Nat /\ Used(kind, resource)' \in Nat
             /\ Used(kind, resource)' <= Used(kind, resource)
      BY <1>2, <2>1, FewerReservationsUseLess
    <3>2. FiniteReservations'
      BY <1>2, <2>1, FewerReservationsUseLess
    <3>4. \A a \in Agents : Used("AGENT", a)' <= AgentLimit[a]
      BY <1>2, <3>1, LimitTypes, SMTT(30) DEF CapacityRespected
    <3>5. \A m \in Models : ModelLimit[m] = Unlimited \/ Used("MODEL_PROFILE", m)' <= ModelLimit[m]
      BY <1>2, <3>1, LimitTypes, SMTT(30) DEF CapacityRespected
    <3>6. \A k \in Runners : Used("RUNNER", k)' <= RunnerLimit[k]
      BY <1>2, <3>1, LimitTypes, SMTT(30) DEF CapacityRespected
    <3>7. CapacityRespected'
      BY <3>4, <3>5, <3>6 DEF CapacityRespected, Agents, Models
    <3> QED BY <3>2, <3>7
  <2>2. CASE \E j \in Jobs, n \in Runners, t \in Tokens :
                /\ ~MustDefer(JobRun(j)) /\ FirstRunner(JobRun(j), n)
                /\ AdmitJob(j, n, t)
    <3>1. PICK j \in Jobs, n \in Runners, t \in Tokens :
                /\ ~MustDefer(JobRun(j)) /\ FirstRunner(JobRun(j), n)
                /\ AdmitJob(j, n, t)
      BY <2>2
    <3>2. CapacityRespected'
      BY <1>2, <3>1, AdmissionRespectsLimits
    <3>3. reservations' = reservations \cup ReservationsFor(j, n) /\ "AGENT" \in Kinds
      BY <3>1 DEF AdmitJob, Kinds
    <3>4. FiniteReservations'
      BY <1>2, <3>3, AdmissionUsesOneMore
    <3> QED BY <3>2, <3>4
  <2> QED BY <1>2, <2>1, <2>2
             DEF ClaimStep, Release, ReservationsWithout, LeaseExpires, ClaimExpired
<1>3. IInv /\ Inv /\ [Next]_vars => Inv'
  BY <1>2, EveryStepIsClaimStep
<1> QED BY <1>1, <1>3, IInvHolds, PTL DEF Spec

\* The limits of agents, model profiles and runners hold in every state, for
\* every choice of limits, although claims outlive workers, leases and servers.
THEOREM CapacityIsRespected == Spec => []CapacityRespected
BY CapacityInvariant, PTL

-----------------------------------------------------------------------------
(***************************************************************************)
(* The scheduler implements ClaimPool.  Each of the four ways in which a    *)
(* transaction changes claims (ClaimStep) is one of the pool's four steps;  *)
(* that the pool's guards hold follows from the ownership of leases and     *)
(* capacity (ClaimOwnsCapacity), which is an invariant, and from what       *)
(* admission looks at before it commits.                                    *)
(***************************************************************************)
\* Releasing the jobs in J gives up the claims among them: a job without a claim
\* has no lease and no capacity to lose.
LEMMA ReleaseIsGiveUp ==
    ASSUME IInv, ClaimOwnsCapacity, NEW J \in SUBSET Jobs, Release(J),
           \A j \in Jobs : jobState'[j] = "CLAIMED" <=>
                              jobState[j] = "CLAIMED" /\ j \notin J
    PROVE  Pool!Next
<1> DEFINE K == J \cap ClaimedJobs
<1>1. ClaimedJobs' = ClaimedJobs \ K
  BY DEF ClaimedJobs, Claimed
<1>2. \A j \in J \ K : /\ leaseToken[j] = NoToken /\ j \notin expired
                       /\ {x \in reservations : x.job = j} = {}
  BY DEF ClaimOwnsCapacity, ClaimedJobs
<1>3. leaseToken' = [j \in Jobs |-> IF j \in K THEN NoToken ELSE leaseToken[j]]
  BY <1>2 DEF Release, LeasesWithout
<1>4. expired' = expired \ K
  BY <1>2 DEF Release
<1>5. reservations' = {x \in reservations : x.job \notin K}
  BY <1>2 DEF Release, ReservationsWithout
<1>6. Pool!GiveUp(K)
  BY <1>1, <1>3, <1>4, <1>5 DEF Pool!GiveUp
<1>7. K \in SUBSET ClaimedJobs
  OBVIOUS
<1> QED BY <1>6, <1>7 DEF Pool!Next

\* A lease that expires is the lease of a claim.
LEMMA ExpiryIsLapse ==
    ASSUME ClaimOwnsCapacity, NEW j \in Jobs, LeaseExpires(j) PROVE Pool!Next
<1>1. j \in ClaimedJobs \ expired
  BY DEF LeaseExpires, ClaimOwnsCapacity, ClaimedJobs
<1>2. ClaimedJobs' = ClaimedJobs
  BY DEF LeaseExpires, ClaimedJobs, Claimed
<1>3. Pool!Lapse(j)
  BY <1>1, <1>2 DEF LeaseExpires, Pool!Lapse
<1> QED BY <1>3 DEF Pool!Next

\* claimExpiredJobForReconciliation takes over a lapsed claim.
LEMMA ReconcilerTakesOver ==
    ASSUME NEW j \in Jobs, NEW t \in Tokens, Unused(t), ClaimExpired(j, t)
    PROVE  Pool!Next
<1>1. j \in expired
  BY DEF ClaimExpired, NeedsReconciler, ExpiredCandidate
<1>2. ClaimedJobs' = ClaimedJobs
  BY DEF ClaimExpired, ClaimedJobs, Claimed
<1>3. Pool!TakeOver(j, t)
  BY <1>1, <1>2 DEF ClaimExpired, Unused, Pool!TakeOver, Pool!Fresh
<1> QED BY <1>3 DEF Pool!Next

\* The pool counts as the scheduler does.
LEMMA SameCount == \A S : Pool!Cardinality(S) = Cardinality(S)
BY DEF Pool!Cardinality, Cardinality

\* A count of reservations is a number.
LEMMA UseIsANumber ==
    ASSUME FiniteReservations, NEW kind, NEW resource
    PROVE  Used(kind, resource) \in Nat
<1>1. IsFiniteSet(Uses(kind, resource))
  BY FS_Subset DEF Uses, FiniteReservations
<1> QED BY <1>1, FS_CardinalityType DEF Used, Uses

\* A run that need not wait finds room for each of the three units it takes.
LEMMA AdmissionFindsRoom ==
    ASSUME FiniteReservations, NEW j \in Jobs, NEW n \in Runners,
           ~MustDefer(JobRun(j)), FirstRunner(JobRun(j), n),
           NEW x \in ReservationsFor(j, n)
    PROVE  Pool!HasRoom(x.kind, x.resource)
<1> DEFINE a == AgentOf[JobRun(j)]
           m == ModelOf[a]
<1>1. JobRun(j) \in Runs
  BY JobRunIsRun
<1>2. \/ x.kind = "RUNNER" /\ x.resource = n
      \/ x.kind = "AGENT" /\ x.resource = a
      \/ x.kind = "MODEL_PROFILE" /\ x.resource = m
  BY DEF ReservationsFor
<1>3. SUFFICES \/ LimitOf(x.kind, x.resource) = Unlimited
               \/ Used(x.kind, x.resource) < LimitOf(x.kind, x.resource)
  BY SameCount DEF Pool!HasRoom, Used
<1>4. CASE x.kind = "RUNNER" /\ x.resource = n
  <2>1. Used("RUNNER", n) < RunnerLimit[n]
    BY DEF FirstRunner, RunnerCandidates
  <2>2. LimitOf("RUNNER", n) = RunnerLimit[n]
    BY DEF LimitOf
  <2> QED BY <1>4, <2>1, <2>2
<1>5. CASE x.kind = "AGENT" /\ x.resource = a
  <2>1. ~(Used("AGENT", a) >= AgentLimit[a])
    BY DEF MustDefer, AgentFull
  <2>2. LimitOf("AGENT", a) = AgentLimit[a]
    BY DEF LimitOf
  <2>3. Used("AGENT", a) \in Nat /\ AgentLimit[a] \in Nat
    BY <1>1, UseIsANumber, LimitsAssumption
  <2> QED BY <1>5, <2>1, <2>2, <2>3
<1>6. CASE x.kind = "MODEL_PROFILE" /\ x.resource = m
  <2>1. ModelLimit[m] = Unlimited \/ ~(Used("MODEL_PROFILE", m) >= ModelLimit[m])
    BY DEF MustDefer, ModelFull
  <2>2. LimitOf("MODEL_PROFILE", m) = ModelLimit[m]
    BY DEF LimitOf
  <2>3. Used("MODEL_PROFILE", m) \in Nat /\ ModelLimit[m] \in Nat \cup {Unlimited}
    BY <1>1, UseIsANumber, LimitsAssumption
  <2> QED BY <1>6, <2>1, <2>2, <2>3
<1> QED BY <1>2, <1>4, <1>5, <1>6

\* The committing path of AdmitNextJob is a grant.
LEMMA AdmissionIsGrant ==
    ASSUME IInv, ClaimOwnsCapacity, FiniteReservations,
           NEW j \in Jobs, NEW n \in Runners, NEW t \in Tokens,
           jobState[j] = "QUEUED", Unused(t), ~MustDefer(JobRun(j)),
           FirstRunner(JobRun(j), n), AdmitJob(j, n, t)
    PROVE  Pool!Next
<1> DEFINE units == ReservationsFor(j, n)
<1>1. j \notin ClaimedJobs /\ leaseToken[j] = NoToken /\ j \notin expired
  BY DEF ClaimOwnsCapacity, ClaimedJobs, Claimed
<1>2. \A i \in ClaimedJobs : ~ShareWorkspace(i, j)
  <2> SUFFICES ASSUME NEW i \in ClaimedJobs, ShareWorkspace(i, j) PROVE FALSE
    OBVIOUS
  <2>1. i \in JobsOf(JobRun(i)) /\ jobState[i] = "CLAIMED" /\ JobRun(i) \in Runs
    BY JobRunIsRun DEF ClaimedJobs, Claimed, JobsOf
  <2>2. ExecutionOccupied(JobRun(i))
    BY <2>1 DEF ExecutionOccupied
  <2> QED BY <2>1, <2>2 DEF ShareWorkspace, MustDefer, WorkspaceOccupied
<1>3. \A x \in units : Pool!HasRoom(x.kind, x.resource)
  BY AdmissionFindsRoom
<1>4. ClaimedJobs' = ClaimedJobs \cup {j}
  BY DEF AdmitJob, ClaimedJobs, Claimed, IInv, TypeOK, TablesType
<1>5. expired' = expired
  BY <1>1 DEF AdmitJob
<1>6. Pool!Grant(j, t, units)
  BY <1>1, <1>2, <1>3, <1>4, <1>5 DEF AdmitJob, Unused, Pool!Grant, Pool!Fresh
<1>7. units \in BundlesOf(j)
  BY DEF BundlesOf
<1> QED BY <1>6, <1>7 DEF Pool!Next

\* The scheduler implements the claim pool, for every number of runs, runners,
\* questions and tokens: coordinators, workers, reconcilers and crashes change
\* claims, leases and capacity only as the pool does.
THEOREM SchedulerImplementsPool == Spec => ImplementsPool
<1>1. Init => Pool!Init
  BY DEF Init, Pool!Init, ClaimedJobs, Claimed
<1>2. ASSUME IInv, ClaimOwnsCapacity, FiniteReservations, ClaimStep PROVE Pool!Next
  BY <1>2, ReleaseIsGiveUp, ExpiryIsLapse, ReconcilerTakesOver, AdmissionIsGrant
     DEF ClaimStep
<1>3. IInv /\ ClaimOwnsCapacity /\ FiniteReservations /\ [Next]_vars
         => [Pool!Next]_Pool!poolVars
  BY <1>2, EveryStepIsClaimStep
<1> QED BY <1>1, <1>3, IInvHolds, ClaimsOwnCapacity, CapacityInvariant, PTL
        DEF Spec, ImplementsPool, Pool!Spec
=============================================================================
