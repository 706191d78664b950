------------------------------ MODULE Sessions ------------------------------
(***************************************************************************)
(* Signing in, the sessions, the check in front of every page, and the two  *)
(* ways a password changes, against an administrator who edits, resets,     *)
(* deletes and recreates accounts meanwhile.                                *)
(***************************************************************************)
EXTENDS Naturals

CONSTANTS Person,        \* user names
          Token,         \* session tokens; each is drawn once
          Web,           \* requests in progress at once
          NoPerson,
          MaxMade,       \* bound: times an account of a name is created
          MaxPasswords   \* bound: passwords ever set

ASSUME SessionsAssumption ==
    /\ NoPerson \notin Person
    /\ MaxMade \in Nat /\ MaxPasswords \in Nat

VARIABLES
    accounts,   \* users; made tells the accounts a name has had apart
    sessions,   \* sessions
    issued,     \* tokens given out
    web,        \* what each request is doing
    created,    \* accounts each name has had
    lastPassword, \* passwords set so far: each is a new number
    crossed     \* an account was deleted or reset under a login or a password change of it

sessionVars == <<accounts, sessions, issued, web, created, lastPassword, crossed>>

UserRole == {"admin", "operator"}
Account == [made : 0 .. MaxMade, role : UserRole, password : 0 .. MaxPasswords, must : BOOLEAN]
NoAccount == [made |-> 0, role |-> "operator", password |-> 0, must |-> FALSE]
(* made is not a column: the account that signed in.                        *)
SessionRow == [user : Person \union {NoPerson}, made : 0 .. MaxMade]
NoSession == [user |-> NoPerson, made |-> 0]

(* shown : the password typed; edited : the account was changed since the   *)
(* request arrived.                                                         *)
WebState == [pc : {"idle", "verify", "session", "lookup", "handler", "change", "set"},
             user : Person \union {NoPerson}, made : 0 .. MaxMade, role : UserRole, exempt : BOOLEAN, shown : 0 .. MaxPasswords,
             edited : BOOLEAN]
NoWeb == [pc |-> "idle", user |-> NoPerson, made |-> 0, role |-> "operator",
          exempt |-> FALSE, shown |-> 0, edited |-> FALSE]

Known(u) == u \in Person /\ accounts[u].made > 0
WebAt(r, pc) == web[r].pc = pc
WebStart(r, next) == WebAt(r, "idle") /\ web' = [web EXCEPT ![r] = next]
WebEnd(r) == web' = [web EXCEPT ![r] = NoWeb]

-----------------------------------------------------------------------------
(* Signing in.                                                              *)

(* loginHandler, past the limiter (LoginLimiter).  bcrypt takes its time    *)
(* between the read of the hash and what follows.                           *)
LoginTyped(r, u, password) ==
    /\ password \in 1 .. lastPassword
    /\ WebStart(r, [NoWeb EXCEPT !.pc = "verify", !.user = u, !.shown = password])
    /\ UNCHANGED <<accounts, sessions, issued, created, lastPassword, crossed>>

(* VerifyUserCredentials: an account without a password never matches.      *)
Verified(u, password) == Known(u) /\ accounts[u].password = password

LoginVerify(r) ==
    LET q == web[r] IN
    /\ WebAt(r, "verify")
    /\ IF Verified(q.user, q.shown)
       THEN web' = [web EXCEPT ![r].pc = "session", ![r].made = accounts[q.user].made]
       ELSE WebEnd(r)
    /\ UNCHANGED <<accounts, sessions, issued, created, lastPassword, crossed>>

(* oidcCallbackHandler: the account linked to the identity has been found.  *)
LoginSSO(r, u) ==
    /\ Known(u) /\ accounts[u].password = 0
    /\ WebStart(r, [NoWeb EXCEPT !.pc = "session", !.user = u, !.made = accounts[u].made])
    /\ UNCHANGED <<accounts, sessions, issued, created, lastPassword, crossed>>

(* CreateSession: the account is not looked at again.                       *)
LoginSession(r, t) ==
    LET q == web[r] IN
    /\ WebAt(r, "session")
    /\ t \notin issued
    /\ issued' = issued \union {t}
    /\ sessions' = [sessions EXCEPT ![t] = [user |-> q.user, made |-> q.made]]
    /\ WebEnd(r)
    /\ UNCHANGED <<accounts, created, lastPassword, crossed>>

(* logoutHandler, or the end of a session's seven days.                     *)
DeleteSession(t) ==
    /\ sessions[t] # NoSession
    /\ sessions' = [sessions EXCEPT ![t] = NoSession]
    /\ UNCHANGED <<accounts, issued, web, created, lastPassword, crossed>>

-----------------------------------------------------------------------------
(* Every other page: requireAuth.                                           *)

(* GetSessionUsername; exempt are /change-password and /logout.             *)
Arrive(r, t, exempt) ==
    /\ sessions[t] # NoSession
    /\ WebStart(r, [NoWeb EXCEPT !.pc = "lookup", !.user = sessions[t].user, !.exempt = exempt])
    /\ UNCHANGED <<accounts, sessions, issued, created, lastPassword, crossed>>

(* Slip: the flag is looked at when signing in only.                        *)
AccountOfLenient(q) == [accounts[q.user] EXCEPT !.must = FALSE]

(* GetUserByUsername, on every request.                                     *)
AccountOf(q) == accounts[q.user]

Lookup(r) ==
    LET q == web[r]
        account == AccountOf(q) IN
    /\ WebAt(r, "lookup")
    /\ IF account.made = 0 \/ (account.must /\ ~ q.exempt) THEN WebEnd(r)
       ELSE web' = [web EXCEPT ![r].pc = IF q.exempt THEN "change" ELSE "handler",
                               ![r].role = account.role]
    /\ UNCHANGED <<accounts, sessions, issued, created, lastPassword, crossed>>

Handler(r) ==
    /\ WebAt(r, "handler")
    /\ WebEnd(r)
    /\ UNCHANGED <<accounts, sessions, issued, created, lastPassword, crossed>>

(* Slip: the current password is not asked for.                             *)
CurrentPasswordAny(u, password) == Known(u)

CurrentPassword(u, password) == Verified(u, password)

(* changePasswordHandler: the current password, then the new one.           *)
ChangeVerify(r, password) ==
    /\ WebAt(r, "change")
    /\ password \in 1 .. lastPassword
    /\ IF CurrentPassword(web[r].user, password)
       THEN web' = [web EXCEPT ![r].pc = "set", ![r].shown = password]
       ELSE WebEnd(r)
    /\ UNCHANGED <<accounts, sessions, issued, created, lastPassword, crossed>>

(* SetUserPassword, of whatever account has the name now.                   *)
ChangeSet(r) ==
    LET u == web[r].user IN
    /\ WebAt(r, "set")
    /\ lastPassword < MaxPasswords /\ lastPassword' = lastPassword + 1
    /\ accounts' = IF Known(u) THEN [accounts EXCEPT ![u].password = lastPassword', ![u].must = FALSE]
                   ELSE accounts
    /\ WebEnd(r)
    /\ UNCHANGED <<sessions, issued, created, crossed>>

-----------------------------------------------------------------------------
(* The administrator: /users.                                               *)

(* The requests of u are served by what they have read of it.               *)
Touched(u) ==
    web' = [r \in Web |-> IF web[r].user = u THEN [web[r] EXCEPT !.edited = TRUE] ELSE web[r]]

(* CreateUser, with a password to be changed at once; CreateOIDCUser, with  *)
(* none.                                                                    *)
MakeUser(u, role, sso) ==
    /\ ~ Known(u)
    /\ created[u] < MaxMade /\ created' = [created EXCEPT ![u] = @ + 1]
    /\ lastPassword' = IF sso THEN lastPassword ELSE lastPassword + 1
    /\ lastPassword' <= MaxPasswords
    /\ accounts' = [accounts EXCEPT ![u] = [made |-> created'[u], role |-> role, must |-> ~ sso,
                                           password |-> IF sso THEN 0 ELSE lastPassword']]
    /\ Touched(u)
    /\ UNCHANGED <<sessions, issued, crossed>>

SetUserRole(u, role) ==
    /\ Known(u) /\ accounts[u].role # role
    /\ accounts' = [accounts EXCEPT ![u].role = role]
    /\ Touched(u)
    /\ UNCHANGED <<sessions, issued, created, lastPassword, crossed>>

(* resetUserPasswordHandler: not for an account of the provider's.          *)
AdminResetUserPassword(u) ==
    /\ Known(u) /\ accounts[u].password # 0
    /\ lastPassword < MaxPasswords /\ lastPassword' = lastPassword + 1
    /\ accounts' = [accounts EXCEPT ![u].password = lastPassword', ![u].must = TRUE]
    /\ crossed' = (crossed \/ \E r \in Web : web[r].user = u /\ WebAt(r, "set"))
    /\ Touched(u)
    /\ UNCHANGED <<sessions, issued, created>>

(* Slip: the sessions are left to expire.                                   *)
WipedNone(u) == sessions

(* "every one of its live sessions in the same transaction".                *)
Wiped(u) == [t \in Token |-> IF sessions[t].user = u THEN NoSession ELSE sessions[t]]

(* DeleteUser (that an admin remains: Accounts).                            *)
RemoveUser(u) ==
    /\ Known(u)
    /\ accounts' = [accounts EXCEPT ![u] = NoAccount]
    /\ sessions' = Wiped(u)
    /\ crossed' = (crossed \/ \E r \in Web : web[r].user = u /\ web[r].pc \in {"session", "set"})
    /\ Touched(u)
    /\ UNCHANGED <<issued, created, lastPassword>>

-----------------------------------------------------------------------------
SessionsInit ==
    /\ accounts = [u \in Person |-> NoAccount]
    /\ sessions = [t \in Token |-> NoSession]
    /\ issued = {}
    /\ web = [r \in Web |-> NoWeb]
    /\ created = [u \in Person |-> 0]
    /\ lastPassword = 0
    /\ crossed = FALSE

WebStep(r) ==
    \/ \E u \in Person, password \in 1 .. MaxPasswords : LoginTyped(r, u, password)
    \/ LoginVerify(r)
    \/ \E u \in Person : LoginSSO(r, u)
    \/ \E t \in Token : LoginSession(r, t)
    \/ \E t \in Token, exempt \in BOOLEAN : Arrive(r, t, exempt)
    \/ Lookup(r) \/ Handler(r)
    \/ \E password \in 1 .. MaxPasswords : ChangeVerify(r, password)
    \/ ChangeSet(r)

AdminStep(u) ==
    \/ \E role \in UserRole, sso \in BOOLEAN : MakeUser(u, role, sso)
    \/ \E role \in UserRole : SetUserRole(u, role)
    \/ AdminResetUserPassword(u) \/ RemoveUser(u)

SessionsNext ==
    \/ \E r \in Web : WebStep(r)
    \/ \E t \in Token : DeleteSession(t)
    \/ \E u \in Person : AdminStep(u)

SessionsSpec == SessionsInit /\ [][SessionsNext]_sessionVars

-----------------------------------------------------------------------------
(* Properties.                                                              *)

(* Accounts, sessions and requests stay well formed.                        *)
SessionsTypeOK ==
    /\ accounts \in [Person -> Account]
    /\ sessions \in [Token -> SessionRow]
    /\ issued \subseteq Token
    /\ web \in [Web -> WebState]
    /\ created \in [Person -> 0 .. MaxMade]
    /\ lastPassword \in 0 .. MaxPasswords
    /\ crossed \in BOOLEAN

(* Unless an account was deleted between the check of a password and the    *)
(* session it leads to: a session belongs to the very account that signed   *)
(* in, never to a later one of the same name.                               *)
SessionsHaveAccounts ==
    ~ crossed => \A t \in Token : sessions[t] # NoSession =>
        sessions[t].made = accounts[sessions[t].user].made

(* "a role change or a forced password reset takes effect on the very next  *)
(* request": a page is served with the role the account has now, and not    *)
(* while a new password is due, unless the account was edited during the    *)
(* request itself.                                                          *)
NextRequestSeesIt ==
    \A r \in Web : WebAt(r, "handler") /\ ~ web[r].edited =>
        LET account == accounts[web[r].user] IN
        account.made > 0 /\ ~ account.must /\ web[r].role = account.role

(* A password that is due to be changed is changed by someone who knows it, *)
(* unless a change was already past its check when it was set.              *)
DuePasswordIsShown ==
    [][\A u \in Person :
          /\ accounts[u].must /\ accounts'[u].made = accounts[u].made /\ ~ accounts'[u].must
          /\ ~ crossed
          => \E r \in Web : /\ WebAt(r, "set") /\ web[r].user = u
                          /\ web[r].shown = accounts[u].password]_sessionVars
=============================================================================
