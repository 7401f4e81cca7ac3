------------------------------- MODULE Access -------------------------------
(***************************************************************************)
(* Accounts, Groups and Project roles: the administration commands that    *)
(* decide who may administer what.  A command runs as the code runs it:    *)
(* the caller is authorized by a read outside any transaction; then one    *)
(* ReadCommitted transaction locks the users table, locks the direct-      *)
(* access table, reads what it needs, writes and commits.  Commands of     *)
(* several callers interleave between these steps, and two table locks in  *)
(* SHARE ROW EXCLUSIVE mode exclude each other and every other writer.     *)
(*                                                                         *)
(* Project roles are their ranks: 0 is no grant, 1 viewer, 2 member and 3  *)
(* admin.  Group grants are not locked by anything.                        *)
(***************************************************************************)
EXTENDS Naturals

CONSTANTS People, Projects, Groups,
          Callers        \* administration requests in flight at once


VARIABLES
  person,     \* users rows: status, deployment role, whether a password is set
  projects,   \* projects that exist
  direct,     \* project_user_access: role of a person on a project
  members,    \* group_members
  shared,     \* project_group_access: role of a group on a project
  call,       \* the transaction each caller is in
  usersLock,  \* caller that holds LOCK TABLE users
  accessLock  \* caller that holds LOCK TABLE project_user_access

accessVars == <<person, projects, direct, members, shared, call, usersLock, accessLock>>

AdminRole == 3
Nobody == [status |-> "absent", chief |-> FALSE, secret |-> FALSE]
NoCaller == "none"
ASSUME CallersAreCallers == NoCaller \notin Callers

Hung == [at |-> "idle"]
Statuses == {"absent", "pending", "active", "disabled"}

AccessInit ==
  /\ person = [u \in People |-> Nobody]
  /\ projects = {}
  /\ direct = [g \in Projects \X People |-> 0]
  /\ members = {}
  /\ shared = [g \in Projects \X Groups |-> 0]
  /\ call = [c \in Callers |-> Hung]
  /\ usersLock = NoCaller
  /\ accessLock = NoCaller

Serving(u) == person[u].status = "active"

\* effectiveProjectRoleExpression: a deployment admin has every Project;
\* otherwise the highest of the direct grant and the grants of the person's
\* Groups counts.
AtLeast(u, p, role) ==
  \/ person[u].chief
  \/ direct[<<p, u>>] >= role
  \/ \E g \in Groups : <<g, u>> \in members /\ shared[<<p, g>>] >= role

Administers(u, p) == Serving(u) /\ p \in projects /\ AtLeast(u, p, AdminRole)
Chief(u) == Serving(u) /\ person[u].chief

\* The rows a command's own writes leave, before it commits.
GrantsAfter(k) ==
  CASE k.op = "create" -> [direct EXCEPT ![<<k.project, k.who>>] = AdminRole]
    [] k.op = "grant"  -> [direct EXCEPT ![<<k.project, k.who>>] = k.role]
    [] k.op = "remove" -> [direct EXCEPT ![<<k.project, k.who>>] = 0]
    [] OTHER -> direct

\* deriveEnabledStatus: enabling an account without a password makes it
\* pending again.
StatusAfter(k) ==
  IF k.op = "disable" THEN "disabled"
  ELSE IF person[k.who].secret THEN "active" ELSE "pending"

PeopleAfter(k) ==
  CASE k.op = "bootstrap" ->
         [person EXCEPT ![k.who] = [status |-> "active", chief |-> TRUE, secret |-> TRUE]]
    [] k.op \in {"disable", "enable"} -> [person EXCEPT ![k.who].status = StatusAfter(k)]
    [] OTHER -> person

\* ensureActiveDirectProjectAdmin, over given grants.
HasAdmin(p, grants) == \E u \in People : Serving(u) /\ grants[<<p, u>>] = AdminRole

\* userIsSoleActiveDirectAdmin
SoleAdmin(u) ==
  \E p \in projects :
    /\ direct[<<p, u>>] = AdminRole
    /\ ~ \E v \in People \ {u} : Serving(v) /\ direct[<<p, v>>] = AdminRole

LastChief(u) == person[u].chief /\ ~ \E v \in People \ {u} : Chief(v)

\* The checks a command makes once its locks are held; FALSE rolls it back.
Accepted(k) ==
  CASE k.op = "bootstrap" -> \A u \in People : person[u] = Nobody
    [] k.op = "create"    -> Serving(k.who) /\ k.project \notin projects
    [] k.op = "grant"     -> HasAdmin(k.project, GrantsAfter(k))
    [] k.op = "remove"    -> /\ direct[<<k.project, k.who>>] # 0
                             /\ HasAdmin(k.project, GrantsAfter(k))
    [] OTHER              -> /\ person[k.who].status # StatusAfter(k)
                             /\ Serving(k.who) => ~SoleAdmin(k.who) /\ ~LastChief(k.who)

\* A caller's request passes its authorization (RequireRole,
\* requireDeploymentAdmin, requireNormalAuthenticatedUser, or none at all for
\* the first account) and opens its transaction.
Request(c, k) ==
  /\ call[c].at = "idle"
  /\ CASE k.op = "bootstrap" -> TRUE
       [] k.op = "create"    -> Serving(k.who) /\ k.project \notin projects
       [] k.op \in {"grant", "remove"} ->
            /\ \E a \in People : Administers(a, k.project)
            /\ person[k.who] # Nobody
       [] OTHER              -> /\ \E a \in People : Chief(a)
                                /\ person[k.who] # Nobody
  /\ call' = [call EXCEPT ![c] = k]
  /\ UNCHANGED <<person, projects, direct, members, shared, usersLock, accessLock>>

At(c, at) == [call EXCEPT ![c].at = at]

LockUsersShared(c) ==
  /\ call[c].at = "asked"
  /\ usersLock' = c
  /\ call' = At(c, IF call[c].op = "bootstrap" THEN "locked" ELSE "users")
  /\ UNCHANGED <<person, projects, direct, members, shared, accessLock>>

\* lockDirectProjectAdminState, first statement; BootstrapUser takes only it.
LockUsers(c) ==
  /\ call[c].at = "asked"
  /\ usersLock = NoCaller
  /\ usersLock' = c
  /\ call' = At(c, IF call[c].op = "bootstrap" THEN "locked" ELSE "users")
  /\ UNCHANGED <<person, projects, direct, members, shared, accessLock>>

\* lockDirectProjectAdminState, second statement
LockAccess(c) ==
  /\ call[c].at = "users"
  /\ accessLock = NoCaller
  /\ accessLock' = c
  /\ call' = At(c, "locked")
  /\ UNCHANGED <<person, projects, direct, members, shared, usersLock>>

Released(lock, c) == IF lock = c THEN NoCaller ELSE lock

Rollback(c) ==
  /\ usersLock' = Released(usersLock, c)
  /\ accessLock' = Released(accessLock, c)
  /\ call' = [call EXCEPT ![c] = Hung]

\* The reads under the locks: the command goes on, or its transaction is
\* rolled back by the deferred Rollback and the locks with it.
Verify(c) ==
  /\ call[c].at = "locked"
  /\ \/ /\ Accepted(call[c])
        /\ call' = At(c, "accepted")
        /\ UNCHANGED <<usersLock, accessLock>>
     \/ /\ ~Accepted(call[c])
        /\ Rollback(c)
  /\ UNCHANGED <<person, projects, direct, members, shared>>

\* The writes and the commit.
Commit(c) ==
  /\ call[c].at = "accepted"
  /\ person' = PeopleAfter(call[c])
  /\ direct' = GrantsAfter(call[c])
  /\ projects' = IF call[c].op = "create" THEN projects \cup {call[c].project} ELSE projects
  /\ Rollback(c)
  /\ UNCHANGED <<members, shared>>

\* The connection or the caller's context is lost: Postgres rolls back.
CallLost(c) ==
  /\ call[c].at # "idle"
  /\ Rollback(c)
  /\ UNCHANGED <<person, projects, direct, members, shared>>

\* CreatePendingUserWithSetupToken, SetUserPassword and CompletePasswordToken
\* write users rows: the row lock waits for the table lock.
RegisterPerson(u) ==
  /\ usersLock = NoCaller
  /\ person[u] = Nobody
  /\ \E a \in People : Chief(a)
  /\ person' = [person EXCEPT ![u] = [status |-> "pending", chief |-> FALSE, secret |-> FALSE]]
  /\ UNCHANGED <<projects, direct, members, shared, call, usersLock, accessLock>>

PasswordSet(u) ==
  /\ usersLock = NoCaller
  /\ person[u] # Nobody
  /\ person' = [person EXCEPT ![u].secret = TRUE,
                              ![u].status = IF @ = "pending" THEN "active" ELSE @]
  /\ UNCHANGED <<projects, direct, members, shared, call, usersLock, accessLock>>

\* AddGroupMember, RemoveGroupMember
ChangeMembership(g, u) ==
  /\ person[u] # Nobody
  /\ members' = IF <<g, u>> \in members THEN members \ {<<g, u>>} ELSE members \cup {<<g, u>>}
  /\ UNCHANGED <<person, projects, direct, shared, call, usersLock, accessLock>>

\* UpsertProjectGroupAccess, DeleteProjectGroupAccess
ChangeGroupAccess(g, p, role) ==
  /\ \E a \in People : Administers(a, p)
  /\ shared' = [shared EXCEPT ![<<p, g>>] = role]
  /\ UNCHANGED <<person, projects, direct, members, call, usersLock, accessLock>>

\* DeleteGroup: its members and grants go with it.
DeleteGroup(g) ==
  /\ \E a \in People : Chief(a)
  /\ members' = {m \in members : m[1] # g}
  /\ shared' = [x \in Projects \X Groups |-> IF x[2] = g THEN 0 ELSE shared[x]]
  /\ UNCHANGED <<person, projects, direct, call, usersLock, accessLock>>

Commands ==
  [at : {"asked"}, op : {"bootstrap", "disable", "enable"}, who : People]
    \cup [at : {"asked"}, op : {"create", "remove"}, who : People, project : Projects]
    \cup [at : {"asked"}, op : {"grant"}, who : People, project : Projects, role : {1, AdminRole}]

CommandStep ==
  \E c \in Callers :
    \/ \E k \in Commands : Request(c, k)
    \/ LockUsers(c)
    \/ LockAccess(c)
    \/ Verify(c)
    \/ Commit(c)
    \/ CallLost(c)

PlainStep ==
  \/ \E u \in People : RegisterPerson(u) \/ PasswordSet(u)
  \/ \E g \in Groups, u \in People : ChangeMembership(g, u)
  \/ \E g \in Groups, p \in Projects, role \in {0, AdminRole} : ChangeGroupAccess(g, p, role)
  \/ \E g \in Groups : DeleteGroup(g)

AccessNext == CommandStep \/ PlainStep
AccessSpec == AccessInit /\ [][AccessNext]_accessVars

-----------------------------------------------------------------------------

InFlight ==
  {Hung} \cup [at : {"asked", "locked", "accepted"}, op : {"bootstrap"}, who : People]
    \cup [at : {"asked", "users", "locked", "accepted"},
          op : {"disable", "enable"}, who : People]
    \cup [at : {"asked", "users", "locked", "accepted"},
          op : {"create", "remove"}, who : People, project : Projects]
    \cup [at : {"asked", "users", "locked", "accepted"},
          op : {"grant"}, who : People, project : Projects, role : {1, AdminRole}]

\* Every variable has its type, and an active account has a password: the
\* status that enabling derives is pending until one is set
\* (auth.go setUserStatus).
AccessTypeOK ==
  /\ person \in [People -> [status : Statuses, chief : BOOLEAN, secret : BOOLEAN]]
  /\ projects \subseteq Projects
  /\ direct \in [Projects \X People -> 0..AdminRole]
  /\ members \subseteq Groups \X People
  /\ shared \in [Projects \X Groups -> 0..AdminRole]
  /\ call \in [Callers -> InFlight]
  /\ usersLock \in Callers \cup {NoCaller}
  /\ accessLock \in Callers \cup {NoCaller}
  /\ \A u \in People : Serving(u) => person[u].secret

\* Whatever grants, removals, demotions and account changes run at once, every
\* Project keeps an active individual admin; Group grants and deployment
\* admins do not count (lockDirectProjectAdminState: "avoids a race that could
\* otherwise leave a Project without an active direct individual admin").
ProjectsKeepAnAdmin == \A p \in projects : HasAdmin(p, direct)

\* Once the first account exists there is exactly one deployment admin made by
\* BootstrapUser and it is never disabled: concurrent first-run requests make
\* one account, and setUserStatus refuses the last active deployment admin.
DeploymentKeepsAnAdmin ==
  (\E u \in People : person[u] # Nobody) =>
    /\ \E u \in People : Chief(u)
    /\ \A u, v \in People : person[u].chief /\ person[v].chief => u = v

\* The locks nest: the direct-access table is only ever locked by the caller
\* that already holds the users table, and both go together when a command
\* commits or is rolled back.  No two commands can each hold one and wait for
\* the other ("must take these locks in this order").
LocksNest == accessLock # NoCaller => accessLock = usersLock

\* AdminsRemain: every Project and the deployment keep an admin under concurrent
\* commands, and the locks that see to it nest.
AdminsRemain == /\ AccessTypeOK /\ ProjectsKeepAnAdmin /\ DeploymentKeepsAnAdmin
                /\ LocksNest
=============================================================================
