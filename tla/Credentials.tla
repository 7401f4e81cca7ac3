----------------------------- MODULE Credentials -----------------------------
(***************************************************************************)
(* One account's sign-in credentials: its password and auth version, the   *)
(* single-use setup and reset tokens, and the refresh-token sessions.      *)
(* Browser tabs and administrators act at once; an operation of AuthService *)
(* is a read outside any transaction followed by one store transaction,    *)
(* and anything may commit between the two.                                *)
(*                                                                         *)
(* Secrets are numbered in the order they are made: passwords, password    *)
(* tokens and refresh tokens are never made twice.                         *)
(***************************************************************************)
EXTENDS Naturals, Sequences

CONSTANTS Tabs,          \* operations in flight at once
          MaxPasswords, MaxTokens, MaxRefreshes

ASSUME CredentialBounds == MaxPasswords \in Nat /\ MaxTokens \in Nat /\ MaxRefreshes \in Nat

VARIABLES
  account,    \* users row: status, password (0 when unset), auth version
  pwTokens,   \* password_tokens, in the order of creation
  refreshes,  \* auth_session_refresh_tokens: the session each belongs to, and
              \* how many rotations it was exchanged in
  sessions,   \* auth_sessions: current refresh token, revoked or live
  tab,        \* what each operation in flight has read
  made        \* passwords chosen so far

credVars == <<account, pwTokens, refreshes, sessions, tab, made>>

Purposes == {"setup", "reset"}
Blank == [op |-> "none"]

CredInit ==
  /\ account = [status |-> "pending", password |-> 0, version |-> 1]
  /\ pwTokens = <<[purpose |-> "setup", state |-> "open", used |-> 0]>>
  /\ refreshes = <<>>
  /\ sessions = <<>>
  /\ tab = [t \in Tabs |-> Blank]
  /\ made = 0

\* revokeOutstandingPasswordTokens; CreatePasswordToken revokes those of its
\* own purpose only.
Revoked(tokens, purposes) ==
  [i \in DOMAIN tokens |->
     IF tokens[i].state = "open" /\ tokens[i].purpose \in purposes
     THEN [tokens[i] EXCEPT !.state = "revoked"] ELSE tokens[i]]

SignedOut(S) == [i \in DOMAIN sessions |-> [sessions[i] EXCEPT !.live = @ /\ i \notin S]]

\* The users row after a new password: pending becomes active.
Renewed == [account EXCEPT !.password = made + 1, !.version = @ + 1,
                           !.status = IF @ = "pending" THEN "active" ELSE @]

\* setUserPassword: the new password ends every session and every open token.
SetUserPassword ==
  /\ made < MaxPasswords
  /\ made' = made + 1
  /\ account' = Renewed
  /\ sessions' = SignedOut(DOMAIN sessions)
  /\ pwTokens' = Revoked(pwTokens, Purposes)
  /\ UNCHANGED refreshes

\* AdminSetPassword
AdminSetPassword ==
  /\ SetUserPassword
  /\ UNCHANGED tab

\* ChangeOwnPassword reads the account and verifies the current password.
ReadOwnPassword(t) ==
  /\ tab[t] = Blank
  /\ account.status = "active"
  /\ tab' = [tab EXCEPT ![t] = [op |-> "change", version |-> account.version,
                                password |-> account.password]]
  /\ UNCHANGED <<account, pwTokens, refreshes, sessions, made>>

\* SetUserPasswordIfAuthVersion
ChangeOwnPassword(t) ==
  /\ tab[t].op = "change"
  /\ tab' = [tab EXCEPT ![t] = Blank]
  /\ \/ account.version = tab[t].version /\ SetUserPassword
     \/ /\ account.version # tab[t].version
        /\ UNCHANGED <<account, pwTokens, refreshes, sessions, made>>

\* AdminCreatePasswordToken reads the account's status first.
ReadForToken(t, purpose) ==
  /\ tab[t] = Blank
  /\ (purpose = "setup") <=> (account.status = "pending")
  /\ tab' = [tab EXCEPT ![t] = [op |-> "token", purpose |-> purpose]]
  /\ UNCHANGED <<account, pwTokens, refreshes, sessions, made>>

\* CreatePasswordToken
CreatePasswordToken(t) ==
  /\ tab[t].op = "token"
  /\ Len(pwTokens) < MaxTokens
  /\ pwTokens' = Append(Revoked(pwTokens, {tab[t].purpose}),
                        [purpose |-> tab[t].purpose, state |-> "open", used |-> 0])
  /\ tab' = [tab EXCEPT ![t] = Blank]
  /\ UNCHANGED <<account, refreshes, sessions, made>>

\* CompletePasswordToken: consume the token, set the password, end the
\* sessions and the other open tokens, in one transaction.  A setup token
\* counts for a pending account only; a reset leaves the status alone.
CompletePasswordToken(i) ==
  /\ made < MaxPasswords
  /\ pwTokens[i].state = "open"
  /\ pwTokens[i].purpose = "setup" => account.status = "pending"
  /\ made' = made + 1
  /\ account' = [Renewed EXCEPT !.status =
                   IF pwTokens[i].purpose = "setup" THEN "active" ELSE account.status]
  /\ pwTokens' = Revoked([pwTokens EXCEPT ![i].state = "used", ![i].used = @ + 1], Purposes)
  /\ sessions' = SignedOut(DOMAIN sessions)
  /\ UNCHANGED <<refreshes, tab>>

\* Login: the account is read and the password verified before startSession.
ReadLogin(t) ==
  /\ tab[t] = Blank
  /\ account.status = "active" /\ account.password # 0
  /\ tab' = [tab EXCEPT ![t] = [op |-> "login"]]
  /\ UNCHANGED <<account, pwTokens, refreshes, sessions, made>>

\* startSession, CreateAuthSession
StartAuthSession(t) ==
  /\ tab[t].op = "login"
  /\ Len(refreshes) < MaxRefreshes
  /\ refreshes' = Append(refreshes, [session |-> Len(sessions) + 1, rotated |-> 0])
  /\ sessions' = Append(sessions, [current |-> Len(refreshes) + 1, live |-> TRUE])
  /\ tab' = [tab EXCEPT ![t] = Blank]
  /\ UNCHANGED <<account, pwTokens, made>>

\* Refresh: the session is found by its current token and checked.
ReadRefresh(t, s) ==
  /\ tab[t] = Blank
  /\ sessions[s].live
  /\ account.status = "active"
  /\ tab' = [tab EXCEPT ![t] = [op |-> "refresh", session |-> s, token |-> sessions[s].current]]
  /\ UNCHANGED <<account, pwTokens, refreshes, sessions, made>>

StillLive(t) == sessions[tab[t].session].live

\* The UPDATE's WHERE clause: still the session's token, still live.
StillCurrent(t) ==
  sessions[tab[t].session].live /\ sessions[tab[t].session].current = tab[t].token


\* RotateAuthSession
RotateAuthSession(t) ==
  /\ tab[t].op = "refresh"
  /\ Len(refreshes) < MaxRefreshes
  /\ tab' = [tab EXCEPT ![t] = Blank]
  /\ \/ /\ StillCurrent(t)
        /\ refreshes' = Append([refreshes EXCEPT ![tab[t].token].rotated = @ + 1],
                               [session |-> tab[t].session, rotated |-> 0])
        /\ sessions' = [sessions EXCEPT ![tab[t].session].current = Len(refreshes) + 1]
     \/ ~StillCurrent(t) /\ UNCHANGED <<refreshes, sessions>>
  /\ UNCHANGED <<account, pwTokens, made>>

\* Logout with any refresh token the session ever had; RevokeOwnSession.
Logout(r) ==
  /\ sessions' = SignedOut({refreshes[r].session})
  /\ UNCHANGED <<account, pwTokens, refreshes, tab, made>>

\* LogoutOtherSessions
LogoutOthers(s) ==
  /\ sessions[s].live
  /\ sessions' = SignedOut(DOMAIN sessions \ {s})
  /\ UNCHANGED <<account, pwTokens, refreshes, tab, made>>

\* setUserStatus of an account that is nobody's only admin
AdminSetDisabled ==
  /\ account.version < MaxPasswords + 2
  /\ account' = [account EXCEPT !.version = @ + 1,
       !.status = IF @ # "disabled" THEN "disabled"
                  ELSE IF account.password = 0 THEN "pending" ELSE "active"]
  /\ sessions' = SignedOut(DOMAIN sessions)
  /\ UNCHANGED <<pwTokens, refreshes, tab, made>>

PasswordStep ==
  \/ AdminSetPassword
  \/ AdminSetDisabled
  \/ \E i \in DOMAIN pwTokens : CompletePasswordToken(i)
  \/ \E t \in Tabs :
       \/ ReadOwnPassword(t)
       \/ ChangeOwnPassword(t)
       \/ \E purpose \in Purposes : ReadForToken(t, purpose)
       \/ CreatePasswordToken(t)

SessionStep ==
  \/ \E t \in Tabs :
       \/ ReadLogin(t)
       \/ StartAuthSession(t)
       \/ \E s \in DOMAIN sessions : ReadRefresh(t, s)
       \/ RotateAuthSession(t)
  \/ \E r \in DOMAIN refreshes : Logout(r)
  \/ \E s \in DOMAIN sessions : LogoutOthers(s)

CredNext == PasswordStep \/ SessionStep
CredSpec == CredInit /\ [][CredNext]_credVars

-----------------------------------------------------------------------------

\* Every variable has its type, an active account has a password, and the
\* session and refresh-token tables point at each other.
CredTypeOK ==
  /\ account \in [status : {"pending", "active", "disabled"}, password : 0..MaxPasswords,
                  version : 1..(2 * MaxPasswords + 2)]
  /\ account.status = "active" => account.password # 0
  /\ account.password <= made /\ made <= MaxPasswords
  /\ \A i \in DOMAIN pwTokens :
       pwTokens[i] \in [purpose : Purposes, state : {"open", "used", "revoked"}, used : 0..1]
  /\ \A r \in DOMAIN refreshes : refreshes[r].session \in DOMAIN sessions
  /\ \A s \in DOMAIN sessions :
       sessions[s].current \in DOMAIN refreshes /\ refreshes[sessions[s].current].session = s

\* However many tabs refresh with the same token at once, it is exchanged for
\* at most one new token, and a session's current token is the one that was
\* never exchanged (RotateAuthSession's compare-and-swap on the old hash).
RotationIsSingleUse ==
  /\ \A r \in DOMAIN refreshes : refreshes[r].rotated <= 1
  /\ \A s \in DOMAIN sessions : refreshes[sessions[s].current].rotated = 0

\* At most one token of each purpose can still be used, however many
\* administrators issue one at once: issuing revokes what is outstanding.
OneUsableToken ==
  \A i, j \in DOMAIN pwTokens :
    pwTokens[i].state = "open" /\ pwTokens[j].state = "open"
      /\ pwTokens[i].purpose = pwTokens[j].purpose => i = j

\* A person's own password change never overwrites a password that was set
\* after the one they confirmed: the change is conditional on the auth version
\* read with it.
ChangeReplacesConfirmed ==
  [][\A t \in Tabs :
       tab[t].op = "change" /\ tab'[t] = Blank /\ account' # account
         => account.password = tab[t].password]_credVars

\* CredentialsSafe: a refresh token is exchanged once, one token of a purpose is
\* usable, and a change replaces only the password that was confirmed.
CredentialsSafe == /\ [](CredTypeOK /\ RotationIsSingleUse /\ OneUsableToken)
                   /\ ChangeReplacesConfirmed
=============================================================================
