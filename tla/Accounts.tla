------------------------------ MODULE Accounts ------------------------------
(***************************************************************************)
(* The users table and everything that adds, removes, promotes or demotes   *)
(* an account: the /users page and single sign-on.  SetUserRole and         *)
(* DeleteUser are read-then-write transactions on a SQLite database in WAL  *)
(* mode, opened without a write lock: the reads see a snapshot, and the     *)
(* write fails when anything was committed after it was taken.              *)
(***************************************************************************)

CONSTANTS User,    \* user names
          Ident,   \* identities of the provider: (issuer, subject) pairs
          Local,   \* the identity of an account with a password; nobody's name
          Req,     \* goroutines serving the UI
          Name     \* Name[i] : user names the provider can give identity i

ASSUME AccountsAssumption ==
    /\ Local \notin Ident \union User
    /\ Name \in [Ident -> SUBSET User]

VARIABLES users,    \* users[u] : the row of u (role "none": no row)
          req,      \* req[r] : what goroutine r is doing
          renamed   \* an account was created while another first login of its
                    \* identity, under another name, was past its look-up

vars == <<users, req, renamed>>

Role   == {"admin", "operator"}
Row    == [role : Role \union {"none"}, ident : Ident \union {Local}]
NoUser == [role |-> "none", ident |-> Local]

(* fresh: nothing was committed since the transaction's snapshot was taken. *)
ReqState == [pc : {"idle", "role", "delete", "lookup", "name", "insert", "sync", "syncrole"},
             user : User \union {Local}, role : Role, ident : Ident \union {Local},
             gated : BOOLEAN, fresh : BOOLEAN]
NoReq == [pc |-> "idle", user |-> Local, role |-> "operator", ident |-> Local,
          gated |-> FALSE, fresh |-> FALSE]

Exists(u)    == users[u].role # "none"
IsAdmin(u)   == users[u].role = "admin"
(* adminCount <= 1, asked of an admin.                                      *)
LastAdmin(u) == IsAdmin(u) /\ \A v \in User \ {u} : ~IsAdmin(v)
LinkedTo(i)  == {u \in User : Exists(u) /\ users[u].ident = i}

At(r, pc) == req[r].pc = pc
Done(r) == req' = [req EXCEPT ![r] = NoReq]

(* Goroutine r commits its only write: every other snapshot is stale.       *)
Commit(r) ==
    req' = [q \in Req |-> IF q = r THEN NoReq ELSE [req[q] EXCEPT !.fresh = FALSE]]

(* A request that needs one statement only.                                 *)
Single(r) == At(r, "idle") /\ Commit(r)

Begin(r, pc, u, role) ==
    req' = [req EXCEPT ![r].pc = pc, ![r].user = u, ![r].role = role, ![r].fresh = TRUE]

-----------------------------------------------------------------------------
(* The /users page.                                                         *)

(* createUserHandler: one INSERT, refused when the name is taken.           *)
CreateUser(r, u, role) ==
    /\ Single(r)
    /\ ~Exists(u)
    /\ users' = [users EXCEPT ![u] = [role |-> role, ident |-> Local]]
    /\ UNCHANGED renamed

(* SetUserRole, its reads: an unknown user, or a demotion of the last admin,*)
(* ends it.                                                                 *)
SetRoleRead(r, u, role) ==
    /\ At(r, "idle")
    /\ Exists(u)
    /\ role = "admin" \/ ~LastAdmin(u)
    /\ Begin(r, "role", u, role)
    /\ UNCHANGED <<users, renamed>>

DeleteRead(r, u) ==
    /\ At(r, "idle")
    /\ Exists(u)
    /\ ~LastAdmin(u)
    /\ Begin(r, "delete", u, "operator")
    /\ UNCHANGED <<users, renamed>>

(* Slip: a write that does not care what it read, as without a transaction. *)
WriteBlindly(r, new) ==
    /\ users' = IF Exists(req[r].user) THEN [users EXCEPT ![req[r].user] = new] ELSE users
    /\ Commit(r)

(* The write and the commit, or SQLITE_BUSY and the request fails.          *)
Write(r, new) ==
    \/ /\ req[r].fresh
       /\ users' = [users EXCEPT ![req[r].user] = new]
       /\ Commit(r)
    \/ /\ ~req[r].fresh
       /\ Done(r)
       /\ UNCHANGED users

SetRoleWrite(r) ==
    /\ At(r, "role")
    /\ Write(r, [users[req[r].user] EXCEPT !.role = req[r].role])
    /\ UNCHANGED renamed

(* DeleteUser, its writes: the row and the user's sessions.                 *)
DeleteWrite(r) ==
    /\ At(r, "delete")
    /\ Write(r, NoUser)
    /\ UNCHANGED renamed

-----------------------------------------------------------------------------
(* oidcCallbackHandler, from the claims on.                                 *)

(* The provider vouches for an identity.  With groups configured (gated),   *)
(* its groups decide the role or turn it away; without, it is an operator.  *)
Claims(r, i, name, gated, role) ==
    /\ At(r, "idle")
    /\ ~gated => role = "operator"
    /\ req' = [req EXCEPT ![r] = [pc |-> "lookup", user |-> name, role |-> role, ident |-> i,
                                  gated |-> gated, fresh |-> FALSE]]
    /\ UNCHANGED <<users, renamed>>

(* GetUserByOIDCSubject: an account is linked to the identity, and its role *)
(* is right or is not the provider's business ...                           *)
SignIn(r) ==
    /\ At(r, "lookup")
    /\ \E u \in LinkedTo(req[r].ident) : ~req[r].gated \/ users[u].role = req[r].role
    /\ Done(r)
    /\ UNCHANGED <<users, renamed>>

(* ... or has to be brought in line ...                                     *)
SignInSync(r) ==
    /\ At(r, "lookup")
    /\ \E u \in LinkedTo(req[r].ident) :
          /\ req[r].gated /\ users[u].role # req[r].role
          /\ req' = [req EXCEPT ![r].pc = "sync", ![r].user = u]
    /\ UNCHANGED <<users, renamed>>

(* ... with the same SetUserRole.  ErrLastAdmin is no error here.           *)
SyncRead(r) ==
    LET u == req[r].user IN
    /\ At(r, "sync")
    /\ IF Exists(u) /\ (req[r].role = "admin" \/ ~LastAdmin(u))
       THEN Begin(r, "syncrole", u, req[r].role)
       ELSE Done(r)
    /\ UNCHANGED <<users, renamed>>

SyncWrite(r) ==
    /\ At(r, "syncrole")
    /\ Write(r, [users[req[r].user] EXCEPT !.role = req[r].role])
    /\ UNCHANGED renamed

(* Nobody is linked to the identity: a first login.                         *)
FirstLogin(r) ==
    /\ At(r, "lookup")
    /\ LinkedTo(req[r].ident) = {}
    /\ req' = [req EXCEPT ![r].pc = "name"]
    /\ UNCHANGED <<users, renamed>>

(* GetUserByUsername: an account of that name is not taken over.            *)
NameIsFree(r) ==
    /\ At(r, "name")
    /\ IF Exists(req[r].user) THEN Done(r) ELSE req' = [req EXCEPT ![r].pc = "insert"]
    /\ UNCHANGED <<users, renamed>>

(* Another first login of the identity, under another name, found no account*)
(* of it either and has yet to insert one.                                  *)
RivalUnderWay(r) ==
    \E q \in Req : /\ req[q].pc \in {"name", "insert"}
                   /\ req[q].ident = req[r].ident
                   /\ req[q].user # req[r].user

(* Slip: a taken name is avoided, as freeHostID does, not refused.          *)
CreateOIDCUserRenamed(r) ==
    /\ At(r, "insert")
    /\ \E u \in User : /\ ~Exists(u)
                       /\ users' = [users EXCEPT ![u] = [role |-> req[r].role, ident |-> req[r].ident]]
    /\ Commit(r)
    /\ renamed' = (renamed \/ RivalUnderWay(r))

(* CreateOIDCUser: the name is the primary key, the identity is not unique. *)
CreateOIDCUser(r) ==
    /\ At(r, "insert")
    /\ IF Exists(req[r].user)
       THEN Done(r) /\ UNCHANGED <<users, renamed>>
       ELSE /\ users' = [users EXCEPT ![req[r].user] = [role |-> req[r].role, ident |-> req[r].ident]]
            /\ Commit(r)
            /\ renamed' = (renamed \/ RivalUnderWay(r))

-----------------------------------------------------------------------------
(* Passwords, login times, sessions, and every other write to the database: *)
(* no account appears, disappears or changes its role.                      *)
OtherWrite(r) == Single(r) /\ UNCHANGED <<users, renamed>>

(* A statement fails, or the controller stops.                              *)
RequestDies(r) ==
    /\ ~At(r, "idle")
    /\ Done(r)
    /\ UNCHANGED <<users, renamed>>

(* EnsureFirstUser has bootstrapped the table.                              *)
Init ==
    /\ \E u \in User : users = [v \in User |->
          IF v = u THEN [role |-> "admin", ident |-> Local] ELSE NoUser]
    /\ req = [r \in Req |-> NoReq]
    /\ renamed = FALSE

UsersPage(r) ==
    \/ \E u \in User, role \in Role : CreateUser(r, u, role) \/ SetRoleRead(r, u, role)
    \/ \E u \in User : DeleteRead(r, u)
    \/ SetRoleWrite(r) \/ DeleteWrite(r)

SingleSignOn(r) ==
    \/ \E i \in Ident, role \in Role, gated \in BOOLEAN :
          \E name \in Name[i] : Claims(r, i, name, gated, role)
    \/ SignIn(r) \/ SignInSync(r) \/ SyncRead(r) \/ SyncWrite(r)
    \/ FirstLogin(r) \/ NameIsFree(r) \/ CreateOIDCUser(r)

Next == \E r \in Req : UsersPage(r) \/ SingleSignOn(r) \/ OtherWrite(r) \/ RequestDies(r)

Spec == Init /\ [][Next]_vars

-----------------------------------------------------------------------------
(* The inductive invariant behind the theorems of AccountsProofs.           *)

(* A goroutine at work has an account, or a name for one, in mind.          *)
RequestHasUser == \A r \in Req : req[r].pc # "idle" => req[r].user \in User

(* A transaction whose snapshot is still the database may go ahead: it does *)
(* not take the last admin away.                                            *)
FreshIsSafe ==
    \A r \in Req : req[r].fresh =>
        /\ req[r].pc \in {"role", "syncrole", "delete"}
        /\ (req[r].pc # "delete" /\ req[r].role = "admin") \/ ~LastAdmin(req[r].user)

-----------------------------------------------------------------------------
(* Properties.                                                              *)

(* A row of users and a request's progress stay what the schema and the     *)
(* handlers allow: no role but the two that exist, whatever a provider's    *)
(* claims say.                                                              *)
TypeOK ==
    /\ users \in [User -> Row]
    /\ req \in [Req -> ReqState]
    /\ renamed \in BOOLEAN

(* ErrLastAdmin: "a controller with no admin left can never manage git      *)
(* connections, registry credentials, or users again", so however the       *)
(* /users page of several admins and the provider's group mapping interleave*)
(* their reads and writes, an admin is left.                                *)
AlwaysAnAdmin == \E u \in User : IsAdmin(u)

IInv == TypeOK /\ AlwaysAnAdmin /\ RequestHasUser /\ FreshIsSafe

(* GetUserByOIDCSubject: the (issuer, subject) pair is "the stable identity *)
(* OIDC actually promises, unlike a username/email a provider could let     *)
(* change".  No two accounts are linked to one, whatever names the provider *)
(* gives it ...                                                             *)
NeverTwoAccounts == \A i \in Ident : \A u, v \in LinkedTo(i) : u = v

(* ... unless two first logins of it overlap and come under different names:*)
(* logins under one name meet in the primary key, and a login that comes    *)
(* after a change of name, or after the account was deleted, is looked up   *)
(* by the identity.                                                         *)
OneAccountPerIdentity == ~renamed => NeverTwoAccounts

(* Why: as long as no rival was under way, whoever is past the look-up finds*)
(* at most the account of the name it is about to use.                      *)
FirstLoginsAgree ==
    ~renamed => \A r \in Req : req[r].pc \in {"name", "insert"} =>
                                  LinkedTo(req[r].ident) \subseteq {req[r].user}
=============================================================================
