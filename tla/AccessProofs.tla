---------------------------- MODULE AccessProofs ----------------------------
(***************************************************************************)
(* Proofs about Access for every set of people, Projects, Groups and       *)
(* callers.  The inductive invariant says what the two table locks are     *)
(* worth: a transaction past its first lock holds it, so at most one       *)
(* command is between its checks and its commit, nothing that its checks   *)
(* read changes meanwhile, and an accepted command is still acceptable     *)
(* when it commits.                                                        *)
(***************************************************************************)
EXTENDS Access, TLAPS

PastUsers == {"users", "locked", "accepted"}
PastAccess == {"locked", "accepted"}

\* A command past a lock statement holds the lock, and a held lock has its command.
LocksHeld ==
  /\ \A c \in Callers :
       /\ call[c].at \in PastUsers => usersLock = c
       /\ call[c].at \in PastAccess /\ call[c].op # "bootstrap" => accessLock = c
  /\ usersLock # NoCaller => call[usersLock].at \in PastUsers
  /\ accessLock # NoCaller =>
       call[accessLock].at \in PastAccess /\ call[accessLock].op # "bootstrap"

\* An account command is about an account that exists: accounts never go away.
AccountsExist ==
  \A c \in Callers :
    call[c].at # "idle" /\ call[c].op \in {"disable", "enable"} => person[call[c].who] # Nobody

\* The checks a command passed still hold when it commits.
ChecksStand == \A c \in Callers : call[c].at = "accepted" => Accepted(call[c])

AccessInv ==
  /\ AccessTypeOK
  /\ LocksHeld
  /\ AccountsExist
  /\ ChecksStand
  /\ ProjectsKeepAnAdmin
  /\ DeploymentKeepsAnAdmin

-----------------------------------------------------------------------------
Fields == {"asked", "users", "locked", "accepted"}

\* What a transaction in flight carries: the records Request puts into call
\* (store.ProjectUserAccess and the arguments of setUserStatus).
LEMMA CommandFields ==
  ASSUME NEW k \in InFlight, k.at # "idle"
  PROVE  /\ k.at \in Fields
         /\ k.op \in {"bootstrap", "disable", "enable", "create", "remove", "grant"}
         /\ k.who \in People
         /\ k.op \in {"create", "remove", "grant"} => k.project \in Projects
         /\ k.op = "grant" => k.role \in {1, AdminRole}
         /\ k.op = "bootstrap" => k.at # "users"
BY DEF InFlight, Hung, Fields

\* A request as it arrives is a transaction in flight (Request).
LEMMA AskedIsInFlight ==
  ASSUME NEW k \in Commands
  PROVE  k \in InFlight /\ k.at = "asked" /\ k.op \in {"bootstrap", "disable", "enable", "create", "remove", "grant"}
BY DEF Commands, InFlight

\* Moving a transaction on changes nothing but where it is (At).
LEMMA CommandMoves ==
  ASSUME NEW k \in InFlight, k.at # "idle",
         NEW x \in Fields, k.op = "bootstrap" => x # "users"
  PROVE  /\ [k EXCEPT !.at = x] \in InFlight
         /\ [k EXCEPT !.at = x].at = x
         /\ [k EXCEPT !.at = x].op = k.op
         /\ [k EXCEPT !.at = x].who = k.who
         /\ k.op \in {"create", "remove", "grant"} => [k EXCEPT !.at = x].project = k.project
         /\ k.op = "grant" => [k EXCEPT !.at = x].role = k.role
<1>1. CASE k \in [at : {"asked", "locked", "accepted"}, op : {"bootstrap"}, who : People]
  BY <1>1 DEF InFlight, Fields
<1>2. CASE k \in [at : Fields, op : {"disable", "enable"}, who : People]
  BY <1>2 DEF InFlight, Fields
<1>3. CASE k \in [at : Fields, op : {"create", "remove"}, who : People, project : Projects]
  BY <1>3 DEF InFlight, Fields
<1>4. CASE k \in [at : Fields, op : {"grant"}, who : People, project : Projects, role : {1, AdminRole}]
  BY <1>4 DEF InFlight, Fields
<1> QED BY <1>1, <1>2, <1>3, <1>4 DEF InFlight, Hung, Fields

\* The same for the transaction of one caller, the others standing still (At).
LEMMA CallMoves ==
  ASSUME AccessTypeOK, NEW c \in Callers, call[c].at # "idle",
         NEW x \in Fields, call[c].op = "bootstrap" => x # "users", call' = At(c, x)
  PROVE  /\ call' \in [Callers -> InFlight]
         /\ call'[c].at = x
         /\ call'[c].op = call[c].op
         /\ call'[c].who = call[c].who
         /\ call[c].op \in {"create", "remove", "grant"} => call'[c].project = call[c].project
         /\ call[c].op = "grant" => call'[c].role = call[c].role
         /\ \A d \in Callers \ {c} : call'[d] = call[d]
<1>1. call \in [Callers -> InFlight] /\ call[c] \in InFlight
  BY DEF AccessTypeOK
<1>2. call'[c] = [call[c] EXCEPT !.at = x] /\ \A d \in Callers \ {c} : call'[d] = call[d]
  BY <1>1 DEF At
<1>3. /\ [call[c] EXCEPT !.at = x] \in InFlight
      /\ [call[c] EXCEPT !.at = x].at = x
      /\ [call[c] EXCEPT !.at = x].op = call[c].op
      /\ [call[c] EXCEPT !.at = x].who = call[c].who
      /\ call[c].op \in {"create", "remove", "grant"} => [call[c] EXCEPT !.at = x].project = call[c].project
      /\ call[c].op = "grant" => [call[c] EXCEPT !.at = x].role = call[c].role
  BY <1>1, CommandMoves
<1>4. call' = [d \in Callers |-> call'[d]]
  BY <1>1 DEF At
<1> QED BY <1>1, <1>2, <1>3, <1>4

\* A transaction that ends leaves the others where they are (Rollback).
LEMMA CallEnds ==
  ASSUME AccessTypeOK, NEW c \in Callers, Rollback(c)
  PROVE  /\ call' \in [Callers -> InFlight]
         /\ call'[c].at = "idle"
         /\ \A d \in Callers \ {c} : call'[d] = call[d]
         /\ usersLock' \in Callers \cup {NoCaller}
         /\ accessLock' \in Callers \cup {NoCaller}
<1>1. Hung \in InFlight /\ Hung.at = "idle"
  BY DEF InFlight, Hung
<1> QED BY <1>1 DEF AccessTypeOK, Rollback, Released

\* Two commands are never past their first lock together.
LEMMA OneCommandPastUsers ==
  ASSUME AccessTypeOK, LocksHeld, NEW c \in Callers, NEW d \in Callers,
         call[c].at \in PastUsers, call[d].at \in PastUsers
  PROVE  c = d
BY DEF LocksHeld

\* Ending a transaction gives back exactly its own locks (Rollback).
LEMMA RollbackKeepsLocksHeld ==
  ASSUME AccessTypeOK, LocksHeld, NEW c \in Callers, Rollback(c)
  PROVE  LocksHeld'
<1>1. /\ call'[c].at = "idle"
      /\ \A d \in Callers \ {c} : call'[d] = call[d]
  BY CallEnds
<1>2. usersLock \in Callers \cup {NoCaller} /\ accessLock \in Callers \cup {NoCaller}
  BY DEF AccessTypeOK
<1>3. ASSUME NEW d \in Callers
      PROVE  /\ call'[d].at \in PastUsers => usersLock' = d
             /\ call'[d].at \in PastAccess /\ call'[d].op # "bootstrap" => accessLock' = d
  BY <1>1, <1>3, CallersAreCallers DEF LocksHeld, Rollback, Released, PastUsers, PastAccess
<1>4. usersLock' # NoCaller => call'[usersLock'].at \in PastUsers
  BY <1>1, <1>2 DEF LocksHeld, Rollback, Released
<1>5. accessLock' # NoCaller =>
        call'[accessLock'].at \in PastAccess /\ call'[accessLock'].op # "bootstrap"
  BY <1>1, <1>2 DEF LocksHeld, Rollback, Released
<1> QED BY <1>3, <1>4, <1>5 DEF LocksHeld

-----------------------------------------------------------------------------
\* A step that writes neither accounts nor Projects nor direct grants leaves the
\* administrators as they are, and every check as it was (group commands, locks).
LEMMA UnwrittenKeepsAdmins ==
  ASSUME AccessInv, UNCHANGED <<person, projects, direct>>
  PROVE  /\ ProjectsKeepAnAdmin' /\ DeploymentKeepsAnAdmin'
         /\ \A k : Accepted(k)' <=> Accepted(k)
<1>1. ProjectsKeepAnAdmin'
  BY DEF AccessInv, ProjectsKeepAnAdmin, HasAdmin, Serving
<1>2. DeploymentKeepsAnAdmin'
  BY DEF AccessInv, DeploymentKeepsAnAdmin, Chief, Serving
<1>3. ASSUME NEW k PROVE Accepted(k)' <=> Accepted(k)
  BY DEF Accepted, HasAdmin, GrantsAfter, StatusAfter, SoleAdmin, LastChief, Chief, Serving
<1> QED BY <1>1, <1>2, <1>3

\* Moving a transaction on leaves its checks as they are (At).
LEMMA SameChecks ==
  ASSUME NEW k, NEW l, k.op = l.op, k.who = l.who,
         l.op \in {"create", "remove", "grant"} => k.project = l.project,
         l.op = "grant" => k.role = l.role
  PROVE  Accepted(k) <=> Accepted(l)
BY DEF Accepted, HasAdmin, GrantsAfter, StatusAfter, SoleAdmin, LastChief, Chief, Serving

\* A request opens its transaction without a lock (Request).
LEMMA RequestKeepsInv ==
  ASSUME AccessInv, NEW c \in Callers, NEW k \in Commands, Request(c, k)
  PROVE  AccessInv'
<1>1. k \in InFlight /\ k.at = "asked"
  BY AskedIsInFlight
<1>2. /\ call \in [Callers -> InFlight] /\ call' = [call EXCEPT ![c] = k] /\ call[c].at = "idle"
      /\ UNCHANGED <<person, projects, direct, members, shared, usersLock, accessLock>>
  BY DEF AccessInv, AccessTypeOK, Request
<1>3. AccessTypeOK'
  BY <1>1, <1>2 DEF AccessInv, AccessTypeOK, Serving
<1>4. LocksHeld'
  BY <1>1, <1>2 DEF AccessInv, LocksHeld, PastUsers, PastAccess
<1>5. AccountsExist'
  BY <1>1, <1>2 DEF AccessInv, AccountsExist, Request
<1>6. \A d \in Callers : call'[d].at = "accepted" => d # c /\ call'[d] = call[d]
  BY <1>1, <1>2
<1>7. ChecksStand'
  BY <1>2, <1>6, UnwrittenKeepsAdmins DEF AccessInv, ChecksStand
<1> QED BY <1>2, <1>3, <1>4, <1>5, <1>7, UnwrittenKeepsAdmins DEF AccessInv

\* A lock statement is granted only while nobody holds the lock
\* (lockDirectProjectAdminState).
LEMMA LocksKeepInv ==
  ASSUME AccessInv, NEW c \in Callers, LockUsers(c) \/ LockAccess(c)
  PROVE  AccessInv'
<1> DEFINE x == IF LockUsers(c) THEN IF call[c].op = "bootstrap" THEN "locked" ELSE "users" ELSE "locked"
<1>1. /\ UNCHANGED <<person, projects, direct, members, shared>>
      /\ call' = At(c, x) /\ x \in {"users", "locked"} /\ (call[c].op = "bootstrap" => x # "users")
      /\ call[c].at \in {"asked", "users"}
  BY DEF LockUsers, LockAccess
<1>2. call[c] \in InFlight /\ (call[c].op = "bootstrap" => call[c].at # "users")
  BY <1>1, CommandFields DEF AccessInv, AccessTypeOK
<1>3. /\ call' \in [Callers -> InFlight]
      /\ call'[c].at = x
      /\ call'[c].op = call[c].op
      /\ call'[c].who = call[c].who
      /\ \A d \in Callers \ {c} : call'[d] = call[d]
  BY <1>1, CallMoves DEF AccessInv, Fields
<1>4. AccessTypeOK'
  BY <1>1, <1>3 DEF AccessInv, AccessTypeOK, LockUsers, LockAccess, Serving
<1>5. LocksHeld'
  <2>1. CASE LockUsers(c)
    BY <2>1, <1>1, <1>3, CallersAreCallers DEF AccessInv, AccessTypeOK, LocksHeld, LockUsers, PastUsers, PastAccess
  <2>2. CASE ~LockUsers(c) /\ LockAccess(c)
    BY <2>2, <1>1, <1>2, <1>3, CallersAreCallers DEF AccessInv, AccessTypeOK, LocksHeld, LockAccess, PastUsers, PastAccess
  <2> QED BY <2>1, <2>2
<1>6. AccountsExist'
  BY <1>1, <1>3 DEF AccessInv, AccountsExist
<1>7. \A d \in Callers : call'[d].at = "accepted" => d # c /\ call'[d] = call[d]
  BY <1>1, <1>3
<1>8. ChecksStand'
  BY <1>1, <1>7, UnwrittenKeepsAdmins DEF AccessInv, ChecksStand
<1> QED BY <1>1, <1>4, <1>5, <1>6, <1>8, UnwrittenKeepsAdmins DEF AccessInv

\* A transaction that is rolled back or lost leaves no trace (Rollback, CallLost).
LEMMA RollbackKeepsInv ==
  ASSUME AccessInv, NEW c \in Callers, Rollback(c),
         UNCHANGED <<person, projects, direct, members, shared>>
  PROVE  AccessInv'
<1>1. /\ call' \in [Callers -> InFlight]
      /\ call'[c].at = "idle"
      /\ \A d \in Callers \ {c} : call'[d] = call[d]
      /\ usersLock' \in Callers \cup {NoCaller}
      /\ accessLock' \in Callers \cup {NoCaller}
  BY CallEnds DEF AccessInv
<1>2. AccessTypeOK'
  BY <1>1 DEF AccessInv, AccessTypeOK, Serving
<1>3. LocksHeld'
  BY RollbackKeepsLocksHeld DEF AccessInv
<1>4. AccountsExist'
  BY <1>1 DEF AccessInv, AccountsExist
<1>5. \A d \in Callers : call'[d].at = "accepted" => d # c /\ call'[d] = call[d]
  BY <1>1
<1>6. ChecksStand'
  BY <1>5, UnwrittenKeepsAdmins DEF AccessInv, ChecksStand
<1> QED BY <1>2, <1>3, <1>4, <1>6, UnwrittenKeepsAdmins DEF AccessInv

\* The checks under the locks either pass, and then hold, or end the command
\* (UpsertProjectUserAccess, DeleteProjectUserAccess, setUserStatus).
LEMMA VerifyKeepsInv ==
  ASSUME AccessInv, NEW c \in Callers, Verify(c)
  PROVE  AccessInv'
<1>1. CASE Rollback(c)
  BY <1>1, RollbackKeepsInv DEF Verify
<1>2. CASE Accepted(call[c]) /\ call' = At(c, "accepted") /\ UNCHANGED <<usersLock, accessLock>>
  <2>1. /\ UNCHANGED <<person, projects, direct, members, shared>> /\ call[c].at = "locked"
    BY DEF Verify
  <2>2. /\ call' \in [Callers -> InFlight]
        /\ call'[c].at = "accepted"
        /\ call'[c].op = call[c].op
        /\ call'[c].who = call[c].who
        /\ call[c].op \in {"create", "remove", "grant"} => call'[c].project = call[c].project
        /\ call[c].op = "grant" => call'[c].role = call[c].role
        /\ \A d \in Callers \ {c} : call'[d] = call[d]
    BY <1>2, <2>1, CallMoves DEF AccessInv, Fields
  <2>3. AccessTypeOK'
    BY <1>2, <2>1, <2>2 DEF AccessInv, AccessTypeOK, Serving
  <2>4. LocksHeld'
    BY <1>2, <2>1, <2>2, CallersAreCallers DEF AccessInv, AccessTypeOK, LocksHeld, PastUsers, PastAccess
  <2>5. AccountsExist'
    BY <2>1, <2>2 DEF AccessInv, AccountsExist
  <2>6. Accepted(call'[c])
    BY <1>2, <2>2, SameChecks
  <2>7. ChecksStand'
    BY <2>1, <2>2, <2>6, UnwrittenKeepsAdmins DEF AccessInv, ChecksStand
  <2> QED BY <2>1, <2>3, <2>4, <2>5, <2>7, UnwrittenKeepsAdmins DEF AccessInv
<1> QED BY <1>1, <1>2 DEF Verify

\* Registering an account or setting its password waits for the users lock, so no
\* command is past its checks, and no administrator is lost (CreateUser, setUserPassword).
LEMMA AccountRowsKeepInv ==
  ASSUME AccessInv, NEW u \in People, RegisterPerson(u) \/ PasswordSet(u)
  PROVE  AccessInv'
<1>1. /\ usersLock = NoCaller
      /\ UNCHANGED <<projects, direct, members, shared, call, usersLock, accessLock>>
      /\ person \in [People -> [status : Statuses, chief : BOOLEAN, secret : BOOLEAN]]
  BY DEF AccessInv, AccessTypeOK, RegisterPerson, PasswordSet
<1>2. \A c \in Callers : call[c].at \notin PastUsers
  BY <1>1, CallersAreCallers DEF AccessInv, LocksHeld
<1>3. /\ person' \in [People -> [status : Statuses, chief : BOOLEAN, secret : BOOLEAN]]
      /\ \A v \in People : v # u => person'[v] = person[v]
      /\ person'[u].chief = person[u].chief /\ person'[u] # Nobody
      /\ Serving(u) => Serving(u)'
      /\ Serving(u)' => person'[u].secret
  <2>1. CASE RegisterPerson(u)
    <3> DEFINE new == [status |-> "pending", chief |-> FALSE, secret |-> FALSE]
    <3>1. /\ person[u] = Nobody /\ person' = [person EXCEPT ![u] = new]
      BY <2>1 DEF RegisterPerson
    <3>2. /\ new \in [status : Statuses, chief : BOOLEAN, secret : BOOLEAN]
          /\ new # Nobody /\ new.chief = Nobody.chief /\ new.status = "pending" /\ Nobody.status = "absent"
      BY DEF Nobody, Statuses
    <3>3. /\ person'[u] = new /\ \A v \in People : v # u => person'[v] = person[v]
          /\ person' \in [People -> [status : Statuses, chief : BOOLEAN, secret : BOOLEAN]]
      BY <1>1, <3>1, <3>2
    <3> HIDE DEF new
    <3> QED BY <3>1, <3>2, <3>3 DEF Serving
  <2>2. CASE PasswordSet(u)
    BY <2>2, <1>1 DEF PasswordSet, Nobody, Statuses, Serving
  <2> QED BY <2>1, <2>2
<1>4. AccessTypeOK'
  BY <1>1, <1>3 DEF AccessInv, AccessTypeOK, Serving
<1>5. LocksHeld' /\ ChecksStand'
  BY <1>1, <1>2 DEF AccessInv, LocksHeld, ChecksStand, PastUsers
<1>6. AccountsExist'
  <2>1. \A c \in Callers : call[c].at # "idle" => call[c].who \in People
    BY CommandFields DEF AccessInv, AccessTypeOK
  <2> QED BY <2>1, <1>1, <1>3 DEF AccessInv, AccountsExist
<1>7. ProjectsKeepAnAdmin'
  BY <1>1, <1>3 DEF AccessInv, ProjectsKeepAnAdmin, HasAdmin, Serving
<1>8. DeploymentKeepsAnAdmin'
  <2>1. \E v \in People : person[v] # Nobody
    BY DEF RegisterPerson, PasswordSet, Chief, Serving, Nobody
  <2> QED BY <2>1, <1>3 DEF AccessInv, DeploymentKeepsAnAdmin, Chief, Serving
<1> QED BY <1>4, <1>5, <1>6, <1>7, <1>8 DEF AccessInv

\* Group members and group grants are written under no lock, and no check reads
\* them (AddGroupMember, UpsertProjectGroupAccess, DeleteGroup).
LEMMA GroupRowsKeepInv ==
  ASSUME AccessInv,
         \/ \E g \in Groups, u \in People : ChangeMembership(g, u)
         \/ \E g \in Groups, p \in Projects, role \in {0, AdminRole} : ChangeGroupAccess(g, p, role)
         \/ \E g \in Groups : DeleteGroup(g)
  PROVE  AccessInv'
<1>1. UNCHANGED <<person, projects, direct, call, usersLock, accessLock>>
  BY DEF ChangeMembership, ChangeGroupAccess, DeleteGroup
<1>2. members \subseteq Groups \X People /\ shared \in [Projects \X Groups -> 0..AdminRole]
  BY DEF AccessInv, AccessTypeOK
<1>3. members' \subseteq Groups \X People /\ shared' \in [Projects \X Groups -> 0..AdminRole]
  <2>1. CASE \E g \in Groups, u \in People : ChangeMembership(g, u)
    BY <2>1, <1>2 DEF ChangeMembership
  <2>2. CASE \E g \in Groups, p \in Projects, role \in {0, AdminRole} : ChangeGroupAccess(g, p, role)
    BY <2>2, <1>2 DEF ChangeGroupAccess, AdminRole
  <2>3. CASE \E g \in Groups : DeleteGroup(g)
    BY <2>3, <1>2 DEF DeleteGroup, AdminRole
  <2> QED BY <2>1, <2>2, <2>3
<1>4. AccessTypeOK'
  BY <1>1, <1>3 DEF AccessInv, AccessTypeOK, Serving
<1>5. LocksHeld' /\ AccountsExist'
  BY <1>1 DEF AccessInv, LocksHeld, AccountsExist
<1>6. ChecksStand'
  BY <1>1, UnwrittenKeepsAdmins DEF AccessInv, ChecksStand
<1> QED BY <1>1, <1>4, <1>5, <1>6, UnwrittenKeepsAdmins DEF AccessInv

-----------------------------------------------------------------------------
\* The typed fields of a command at its commit, and the checks that still hold.
Committing(k) ==
  /\ k.op \in {"bootstrap", "disable", "enable", "create", "remove", "grant"}
  /\ k.who \in People
  /\ k.op \in {"create", "remove", "grant"} => k.project \in Projects
  /\ k.op = "grant" => k.role \in {1, AdminRole}
  /\ k.op \in {"disable", "enable"} => person[k.who] # Nobody
  /\ Accepted(k)

\* The writes of a command.
Writes(k) ==
  /\ person' = PeopleAfter(k)
  /\ direct' = GrantsAfter(k)
  /\ projects' = IF k.op = "create" THEN projects \cup {k.project} ELSE projects

\* The first account is written while there is no account, hence no Project
\* (BootstrapUser).
LEMMA BootstrapWrites ==
  ASSUME AccessInv, NEW k, Committing(k), Writes(k), k.op = "bootstrap"
  PROVE  /\ person' \in [People -> [status : Statuses, chief : BOOLEAN, secret : BOOLEAN]]
         /\ direct' = direct /\ projects' \subseteq Projects
         /\ \A u \in People : Serving(u)' => person'[u].secret
         /\ \A u \in People : person[u] # Nobody => person'[u] # Nobody
         /\ ProjectsKeepAnAdmin' /\ DeploymentKeepsAnAdmin'
<1> DEFINE first == [status |-> "active", chief |-> TRUE, secret |-> TRUE]
<1>1. /\ person' = [person EXCEPT ![k.who] = first] /\ direct' = direct /\ projects' = projects
      /\ \A u \in People : person[u] = Nobody
      /\ k.who \in People
  BY DEF Committing, Writes, PeopleAfter, GrantsAfter, Accepted
<1>2. /\ first \in [status : Statuses, chief : BOOLEAN, secret : BOOLEAN]
      /\ first.status = "active" /\ first.chief /\ first.secret
      /\ Nobody.status = "absent" /\ ~Nobody.chief
  BY DEF Statuses, Nobody
<1> HIDE DEF first
<1>3. /\ person \in [People -> [status : Statuses, chief : BOOLEAN, secret : BOOLEAN]]
      /\ projects \subseteq Projects
  BY DEF AccessInv, AccessTypeOK
<1>4. /\ person'[k.who] = first /\ \A u \in People : u # k.who => person'[u] = Nobody
      /\ person' \in [People -> [status : Statuses, chief : BOOLEAN, secret : BOOLEAN]]
  BY <1>1, <1>2, <1>3
<1>5. projects = {}
  BY <1>1, <1>2 DEF AccessInv, ProjectsKeepAnAdmin, HasAdmin, Serving
<1>6. ProjectsKeepAnAdmin'
  BY <1>1, <1>5 DEF ProjectsKeepAnAdmin
<1>7. DeploymentKeepsAnAdmin'
  BY <1>1, <1>2, <1>4 DEF DeploymentKeepsAnAdmin, Chief, Serving
<1> QED BY <1>1, <1>2, <1>3, <1>4, <1>6, <1>7 DEF Serving

\* Creating a Project, granting and removing a direct role change no account, and
\* the Project they are about has an active direct admin afterwards
\* (CreateProjectWithAdmin, UpsertProjectUserAccess, DeleteProjectUserAccess).
LEMMA GrantWrites ==
  ASSUME AccessInv, NEW k, Committing(k), Writes(k), k.op \in {"create", "remove", "grant"}
  PROVE  /\ person' = person
         /\ direct' \in [Projects \X People -> 0..AdminRole] /\ projects' \subseteq Projects
         /\ ProjectsKeepAnAdmin' /\ DeploymentKeepsAnAdmin'
<1> DEFINE role == IF k.op = "create" THEN AdminRole ELSE IF k.op = "grant" THEN k.role ELSE 0
<1>1. /\ direct \in [Projects \X People -> 0..AdminRole] /\ projects \subseteq Projects
      /\ k.project \in Projects /\ k.who \in People
  BY DEF AccessInv, AccessTypeOK, Committing
<1>2. person' = person
  BY DEF Writes, PeopleAfter
<1>3. direct' = [direct EXCEPT ![<<k.project, k.who>>] = role] /\ direct' = GrantsAfter(k)
  BY DEF Writes, GrantsAfter
<1>4. role \in 0..AdminRole
  BY DEF Committing, AdminRole
<1> HIDE DEF role
<1>5. direct' \in [Projects \X People -> 0..AdminRole]
  BY <1>1, <1>3, <1>4
<1>6. \A p \in Projects, u \in People : p # k.project => direct'[<<p, u>>] = direct[<<p, u>>]
  BY <1>1, <1>3
<1>7. \E u \in People : Serving(u) /\ direct'[<<k.project, u>>] = AdminRole
  <2>1. CASE k.op = "create"
    <3>1. Serving(k.who)
      BY <2>1 DEF Committing, Accepted
    <3>2. direct'[<<k.project, k.who>>] = AdminRole
      BY <2>1, <1>1, <1>3 DEF role
    <3> QED BY <1>1, <3>1, <3>2
  <2>2. CASE k.op \in {"remove", "grant"}
    <3>1. HasAdmin(k.project, GrantsAfter(k))
      BY <2>2 DEF Committing, Accepted
    <3> QED BY <3>1, <1>3 DEF HasAdmin
  <2> QED BY <2>1, <2>2
<1>8. projects' \subseteq projects \cup {k.project}
  BY DEF Writes
<1>9. ProjectsKeepAnAdmin'
  <2>1. ASSUME NEW p \in projects'
        PROVE  \E u \in People : Serving(u) /\ direct'[<<p, u>>] = AdminRole
    <3>1. CASE p = k.project
      BY <1>7, <3>1
    <3>2. CASE p # k.project
      <4>1. p \in projects /\ p \in Projects
        BY <1>1, <1>8, <3>2
      <4>2. PICK u \in People : Serving(u) /\ direct[<<p, u>>] = AdminRole
        BY <4>1 DEF AccessInv, ProjectsKeepAnAdmin, HasAdmin
      <4> QED BY <1>6, <3>2, <4>1, <4>2
    <3> QED BY <3>1, <3>2
  <2> QED BY <2>1, <1>2 DEF ProjectsKeepAnAdmin, HasAdmin, Serving
<1>10. DeploymentKeepsAnAdmin'
  BY <1>2 DEF AccessInv, DeploymentKeepsAnAdmin, Chief, Serving
<1> QED BY <1>1, <1>2, <1>5, <1>8, <1>9, <1>10

\* An account is disabled only if it is not the last active direct admin of a
\* Project nor the last active deployment admin; enabling takes nothing away
\* (setUserStatus).
LEMMA StatusWrites ==
  ASSUME AccessInv, NEW k, Committing(k), Writes(k), k.op \in {"disable", "enable"}
  PROVE  /\ person' \in [People -> [status : Statuses, chief : BOOLEAN, secret : BOOLEAN]]
         /\ direct' = direct /\ projects' \subseteq Projects
         /\ \A u \in People : Serving(u)' => person'[u].secret
         /\ \A u \in People : person[u] # Nobody => person'[u] # Nobody
         /\ ProjectsKeepAnAdmin' /\ DeploymentKeepsAnAdmin'
<1>1. /\ person \in [People -> [status : Statuses, chief : BOOLEAN, secret : BOOLEAN]]
      /\ projects \subseteq Projects /\ k.who \in People
      /\ \A u \in People : Serving(u) => person[u].secret
  BY DEF AccessInv, AccessTypeOK, Committing
<1>2. /\ person' = [person EXCEPT ![k.who].status = StatusAfter(k)]
      /\ direct' = direct /\ projects' = projects
  BY DEF Writes, PeopleAfter, GrantsAfter
<1>3. /\ StatusAfter(k) \in {"disabled", "active", "pending"}
      /\ StatusAfter(k) = "active" => person[k.who].secret
      /\ StatusAfter(k) # person[k.who].status
      /\ Serving(k.who) => k.op = "disable" /\ ~SoleAdmin(k.who) /\ ~LastChief(k.who)
  <2>1. /\ StatusAfter(k) # person[k.who].status
        /\ Serving(k.who) => ~SoleAdmin(k.who) /\ ~LastChief(k.who)
    BY DEF Committing, Accepted
  <2>2. /\ StatusAfter(k) \in {"disabled", "active", "pending"}
        /\ StatusAfter(k) = "active" => person[k.who].secret
        /\ Serving(k.who) /\ k.op # "disable" => StatusAfter(k) = "active"
    BY <1>1 DEF StatusAfter
  <2> QED BY <2>1, <2>2 DEF Serving
<1>4. /\ person' \in [People -> [status : Statuses, chief : BOOLEAN, secret : BOOLEAN]]
      /\ \A u \in People : u # k.who => person'[u] = person[u]
      /\ person'[k.who].status = StatusAfter(k)
      /\ person'[k.who].chief = person[k.who].chief
      /\ person'[k.who].secret = person[k.who].secret
  BY <1>1, <1>2, <1>3 DEF Statuses
<1>5. \A u \in People : Serving(u)' => person'[u].secret
  BY <1>1, <1>3, <1>4 DEF Serving
<1>6. \A u \in People : person[u] # Nobody => person'[u] # Nobody
  <2>1. Nobody.status = "absent"
    BY DEF Nobody
  <2> QED BY <2>1, <1>3, <1>4
<1>7. ProjectsKeepAnAdmin'
  <2>1. ASSUME NEW p \in projects
        PROVE  \E v \in People : v # k.who /\ Serving(v) /\ direct[<<p, v>>] = AdminRole
    <3>1. PICK v \in People : Serving(v) /\ direct[<<p, v>>] = AdminRole
      BY DEF AccessInv, ProjectsKeepAnAdmin, HasAdmin
    <3>2. CASE v # k.who
      BY <3>1, <3>2
    <3>3. CASE v = k.who
      BY <3>1, <3>3, <1>3 DEF SoleAdmin
    <3> QED BY <3>2, <3>3
  <2>2. ASSUME NEW p \in projects
        PROVE  \E v \in People : person'[v].status = "active" /\ direct'[<<p, v>>] = AdminRole
    BY <2>1, <1>2, <1>4 DEF Serving
  <2> QED BY <2>2, <1>2 DEF ProjectsKeepAnAdmin, HasAdmin, Serving
<1>8. DeploymentKeepsAnAdmin'
  <2>1. person[k.who] # Nobody
    BY DEF Committing
  <2>2. /\ \E u \in People : Chief(u)
        /\ \A u, v \in People : person[u].chief /\ person[v].chief => u = v
    BY <1>1, <2>1 DEF AccessInv, DeploymentKeepsAnAdmin
  <2>3. \E u \in People : u # k.who /\ Chief(u)
    BY <1>3, <2>2 DEF LastChief, Chief
  <2> QED BY <2>2, <2>3, <1>4 DEF DeploymentKeepsAnAdmin, Chief, Serving
<1> QED BY <1>1, <1>2, <1>4, <1>5, <1>6, <1>7, <1>8

\* A commit finds what its checks found, since the users lock excludes every
\* other command, and keeps an admin everywhere (the commits of all commands).
LEMMA CommitKeepsInv ==
  ASSUME AccessInv, NEW c \in Callers, Commit(c)
  PROVE  AccessInv'
<1> DEFINE k == call[c]
<1>1. /\ k \in InFlight /\ k.at = "accepted" /\ Rollback(c) /\ Writes(k)
      /\ members' = members /\ shared' = shared
  BY DEF AccessInv, AccessTypeOK, Commit, Writes
<1>2. Committing(k)
  BY <1>1, CommandFields DEF AccessInv, AccountsExist, ChecksStand, Committing
<1>3. /\ call' \in [Callers -> InFlight]
      /\ call'[c].at = "idle"
      /\ \A d \in Callers \ {c} : call'[d] = call[d]
      /\ usersLock' \in Callers \cup {NoCaller}
      /\ accessLock' \in Callers \cup {NoCaller}
  BY <1>1, CallEnds DEF AccessInv
<1>4. LocksHeld'
  BY <1>1, RollbackKeepsLocksHeld DEF AccessInv
<1>5. ChecksStand'
  <2>1. \A d \in Callers \ {c} : call[d].at # "accepted"
    BY <1>1, OneCommandPastUsers DEF AccessInv, PastUsers
  <2> QED BY <1>3, <2>1 DEF ChecksStand
<1> HIDE DEF k
<1>6. /\ person' \in [People -> [status : Statuses, chief : BOOLEAN, secret : BOOLEAN]]
      /\ direct' \in [Projects \X People -> 0..AdminRole] /\ projects' \subseteq Projects
      /\ \A u \in People : Serving(u)' => person'[u].secret
      /\ \A u \in People : person[u] # Nobody => person'[u] # Nobody
      /\ ProjectsKeepAnAdmin' /\ DeploymentKeepsAnAdmin'
  <2>1. CASE k.op = "bootstrap"
    BY <1>1, <1>2, <2>1, BootstrapWrites DEF AccessInv, AccessTypeOK
  <2>2. CASE k.op \in {"create", "remove", "grant"}
    BY <1>1, <1>2, <2>2, GrantWrites DEF AccessInv, AccessTypeOK, Serving
  <2>3. CASE k.op \in {"disable", "enable"}
    BY <1>1, <1>2, <2>3, StatusWrites DEF AccessInv, AccessTypeOK
  <2> QED BY <1>2, <2>1, <2>2, <2>3 DEF Committing
<1>7. AccessTypeOK'
  BY <1>1, <1>3, <1>6 DEF AccessInv, AccessTypeOK
<1>8. AccountsExist'
  <2>1. \A d \in Callers : call[d].at # "idle" => call[d].who \in People
    BY CommandFields DEF AccessInv, AccessTypeOK
  <2> QED BY <1>3, <1>6, <2>1 DEF AccessInv, AccountsExist
<1> QED BY <1>4, <1>5, <1>6, <1>7, <1>8 DEF AccessInv

-----------------------------------------------------------------------------
\* No account, no Project, no lock (the empty database).
LEMMA InitHasInv == AccessInit => AccessInv
<1> SUFFICES ASSUME AccessInit PROVE AccessInv
  OBVIOUS
<1>1. Hung \in InFlight /\ Hung.at = "idle"
  BY DEF InFlight, Hung
<1>2. /\ Nobody \in [status : Statuses, chief : BOOLEAN, secret : BOOLEAN]
      /\ Nobody.status = "absent"
  BY DEF Nobody, Statuses
<1>3. \A c \in Callers : call[c] = Hung
  BY DEF AccessInit
<1>4. AccessTypeOK
  BY <1>1, <1>2 DEF AccessInit, AccessTypeOK, Serving, AdminRole
<1>5. LocksHeld /\ AccountsExist /\ ChecksStand
  BY <1>1, <1>3 DEF AccessInit, LocksHeld, AccountsExist, ChecksStand, PastUsers, PastAccess
<1>6. ProjectsKeepAnAdmin /\ DeploymentKeepsAnAdmin
  BY DEF AccessInit, ProjectsKeepAnAdmin, DeploymentKeepsAnAdmin
<1> QED BY <1>4, <1>5, <1>6 DEF AccessInv

\* Every step of every command and of every other writer keeps the invariant.
LEMMA NextKeepsInv == AccessInv /\ [AccessNext]_accessVars => AccessInv'
<1> SUFFICES ASSUME AccessInv, [AccessNext]_accessVars PROVE AccessInv'
  OBVIOUS
<1>1. CASE \E c \in Callers, k \in Commands : Request(c, k)
  BY <1>1, RequestKeepsInv
<1>2. CASE \E c \in Callers : LockUsers(c) \/ LockAccess(c)
  BY <1>2, LocksKeepInv
<1>3. CASE \E c \in Callers : Verify(c)
  BY <1>3, VerifyKeepsInv
<1>4. CASE \E c \in Callers : Commit(c)
  BY <1>4, CommitKeepsInv
<1>5. CASE \E c \in Callers : CallLost(c)
  BY <1>5, RollbackKeepsInv DEF CallLost
<1>6. CASE \E u \in People : RegisterPerson(u) \/ PasswordSet(u)
  BY <1>6, AccountRowsKeepInv
<1>7. CASE \/ \E g \in Groups, u \in People : ChangeMembership(g, u)
           \/ \E g \in Groups, p \in Projects, role \in {0, AdminRole} : ChangeGroupAccess(g, p, role)
           \/ \E g \in Groups : DeleteGroup(g)
  BY <1>7, GroupRowsKeepInv
<1>8. CASE UNCHANGED accessVars
  <2>1. UNCHANGED <<person, projects, direct, members, shared, call, usersLock, accessLock>>
    BY <1>8 DEF accessVars
  <2>2. AccessTypeOK' /\ LocksHeld' /\ AccountsExist'
    BY <2>1 DEF AccessInv, AccessTypeOK, LocksHeld, AccountsExist, Serving
  <2>3. ChecksStand'
    BY <2>1, UnwrittenKeepsAdmins DEF AccessInv, ChecksStand
  <2> QED BY <2>1, <2>2, <2>3, UnwrittenKeepsAdmins DEF AccessInv
<1> QED BY <1>1, <1>2, <1>3, <1>4, <1>5, <1>6, <1>7, <1>8 DEF AccessNext, CommandStep, PlainStep

\* The invariant holds in every reachable state.
LEMMA AccessInvariant == AccessSpec => []AccessInv
BY InitHasInv, NextKeepsInv, PTL DEF AccessSpec

\* Whatever administration commands run at once, every Project keeps an active
\* direct admin (ensureActiveDirectProjectAdmin, userIsSoleActiveDirectAdmin), the
\* deployment keeps exactly one bootstrap admin, which stays active (BootstrapUser,
\* setUserStatus), and the direct-access table is locked only by the holder of the
\* users table (lockDirectProjectAdminState), for any number of people, Projects,
\* Groups and callers.
THEOREM AdministratorsRemain == AccessSpec => []AdminsRemain
<1>1. AccessInv => LocksNest
  BY DEF AccessInv, AccessTypeOK, LocksHeld, LocksNest, PastUsers, PastAccess
<1>2. AccessInv => AdminsRemain
  BY <1>1 DEF AccessInv, AdminsRemain
<1> QED BY <1>2, AccessInvariant, PTL

=============================================================================
