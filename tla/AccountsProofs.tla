--------------------------- MODULE AccountsProofs ---------------------------
(* An admin is always left, and an identity has one account, for any number *)
(* of accounts, identities and requests.                                    *)
EXTENDS Accounts, TLAPS

USE AccountsAssumption

(* EnsureFirstUser has left one admin, and no request is under way.         *)
LEMMA InitIInv == Init => IInv
<1> SUFFICES ASSUME Init PROVE IInv
    OBVIOUS
<1> USE DEF Init, NoReq, NoUser
<1>1. TypeOK
    <2>1. users \in [User -> Row] /\ req \in [Req -> ReqState]
        BY DEF Row, Role, ReqState
    <2> QED
        BY <2>1 DEF TypeOK
<1>2. AlwaysAnAdmin
    BY DEF AlwaysAnAdmin, IsAdmin
<1>3. RequestHasUser /\ FreshIsSafe
    BY DEF RequestHasUser, FreshIsSafe
<1> QED
    BY <1>1, <1>2, <1>3 DEF IInv

(* A step that leaves the table alone, and gives one goroutine a state that *)
(* is safe to go on from.                                                   *)
LEMMA PrivateStep ==
    ASSUME IInv, UNCHANGED users, renamed' \in BOOLEAN, NEW r \in Req, NEW x \in ReqState,
           req' = [req EXCEPT ![r] = x],
           x.pc # "idle" => x.user \in User,
           x.fresh => /\ x.pc \in {"role", "syncrole", "delete"}
                      /\ (x.pc # "delete" /\ x.role = "admin") \/ ~LastAdmin(x.user)
    PROVE  IInv'
<1> USE DEF IInv, TypeOK
<1>1. TypeOK' /\ AlwaysAnAdmin'
    BY DEF AlwaysAnAdmin, IsAdmin
<1>2. RequestHasUser'
    BY DEF RequestHasUser
<1>3. FreshIsSafe'
    <2> USE DEF LastAdmin, IsAdmin
    <2> SUFFICES ASSUME NEW q \in Req, req'[q].fresh
                 PROVE  (/\ req[q].pc \in {"role", "syncrole", "delete"}
                         /\ (req[q].pc # "delete" /\ req[q].role = "admin") \/ ~LastAdmin(req[q].user))'
        BY DEF FreshIsSafe
    <2>1. CASE q = r
        BY <2>1
    <2>2. CASE q # r
        BY <2>2 DEF FreshIsSafe
    <2> QED
        BY <2>1, <2>2
<1> QED
    BY <1>1, <1>2, <1>3

(* A request that ends without a write keeps the invariant.                 *)
LEMMA RequestEnds ==
    ASSUME IInv, UNCHANGED users, renamed' \in BOOLEAN, NEW r \in Req, Done(r) PROVE IInv'
<1>1. NoReq \in ReqState /\ NoReq.pc = "idle" /\ ~NoReq.fresh
    BY DEF NoReq, ReqState, Role
<1> QED
    BY <1>1, PrivateStep DEF Done

(* A commit makes every open transaction stale, so only the table matters.  *)
LEMMA CommitStep ==
    ASSUME IInv, NEW r \in Req, Commit(r), users' \in [User -> Row], renamed' \in BOOLEAN, AlwaysAnAdmin'
    PROVE  IInv'
<1> USE DEF IInv, TypeOK
<1>0. NoReq \in ReqState /\ NoReq.pc = "idle" /\ ~NoReq.fresh
    BY DEF NoReq, ReqState, Role
<1>1. TypeOK'
    BY <1>0 DEF Commit, ReqState
<1>2. \A q \in Req : ~req'[q].fresh
    BY <1>0 DEF Commit, ReqState
<1>3. RequestHasUser'
    BY <1>0 DEF Commit, RequestHasUser, ReqState
<1>4. FreshIsSafe'
    BY <1>2 DEF FreshIsSafe
<1> QED
    BY <1>1, <1>3, <1>4

(* The write of a transaction: it either fails, or was checked against the  *)
(* very table it changes.                                                   *)
LEMMA WriteStep ==
    ASSUME IInv, NEW r \in Req, NEW new \in Row, Write(r, new), renamed' \in BOOLEAN,
           req[r].pc # "delete" => new.role = req[r].role
    PROVE  IInv'
<1> DEFINE u == req[r].user
<1>1. CASE /\ req[r].fresh
           /\ users' = [users EXCEPT ![u] = new]
           /\ Commit(r)
    <2>1. users' \in [User -> Row]
        BY <1>1 DEF IInv, TypeOK
    <2>2. u \in User /\ ((req[r].pc # "delete" /\ req[r].role = "admin") \/ ~LastAdmin(u))
        BY <1>1 DEF IInv, FreshIsSafe, RequestHasUser
    <2>3. AlwaysAnAdmin'
        <3>1. CASE new.role = "admin"
            BY <1>1, <2>2, <3>1 DEF IInv, TypeOK, AlwaysAnAdmin, IsAdmin
        <3>2. CASE ~LastAdmin(u)
            <4>1. PICK v \in User : IsAdmin(v) /\ v # u
                BY <3>2 DEF IInv, AlwaysAnAdmin, LastAdmin
            <4> QED
                BY <1>1, <4>1 DEF IInv, TypeOK, AlwaysAnAdmin, IsAdmin
        <3> QED
            BY <2>2, <3>1, <3>2
    <2> QED
        BY <1>1, <2>1, <2>3, CommitStep
<1>2. CASE Done(r) /\ UNCHANGED users
    BY <1>2, RequestEnds
<1> QED
    BY <1>1, <1>2 DEF Write

(* The table gains a row: the admins it had stay.                           *)
LEMMA InsertStep ==
    ASSUME IInv, NEW r \in Req, NEW u \in User, NEW new \in Row, ~Exists(u),
           users' = [users EXCEPT ![u] = new], Commit(r), renamed' \in BOOLEAN
    PROVE  IInv'
<1>1. users' \in [User -> Row]
    BY DEF IInv, TypeOK
<1>2. PICK v \in User : IsAdmin(v)
    BY DEF IInv, AlwaysAnAdmin
<1>3. v # u
    BY <1>2 DEF Exists, IsAdmin
<1>4. AlwaysAnAdmin'
    BY <1>2, <1>3 DEF IInv, TypeOK, AlwaysAnAdmin, IsAdmin
<1> QED
    BY <1>1, <1>4, CommitStep

(* Every step of the /users handlers keeps the invariant.                   *)
LEMMA UsersPageIInv == ASSUME IInv, NEW r \in Req, UsersPage(r), renamed' \in BOOLEAN PROVE IInv'
<1>0. req[r] \in ReqState /\ users \in [User -> Row] /\ (req[r].pc # "idle" => req[r].user \in User)
    BY DEF IInv, TypeOK, RequestHasUser
<1>1. ASSUME NEW u \in User, NEW role \in Role, CreateUser(r, u, role) PROVE IInv'
    <2>1. [role |-> role, ident |-> Local] \in Row
        BY DEF Row
    <2> QED
        BY <1>1, <2>1, InsertStep DEF CreateUser, Single
<1>2. ASSUME NEW u \in User, NEW role \in Role, SetRoleRead(r, u, role) PROVE IInv'
    <2> DEFINE x == [req[r] EXCEPT !.pc = "role", !.user = u, !.role = role, !.fresh = TRUE]
    <2>1. x \in ReqState /\ x.user = u /\ x.role = role /\ x.pc = "role"
        BY <1>0 DEF ReqState
    <2>2. req' = [req EXCEPT ![r] = x]
        BY <1>2 DEF SetRoleRead, Begin, IInv, TypeOK
    <2> HIDE DEF x
    <2> QED
        BY <1>2, <2>1, <2>2, PrivateStep DEF SetRoleRead
<1>3. ASSUME NEW u \in User, DeleteRead(r, u) PROVE IInv'
    <2> DEFINE x == [req[r] EXCEPT !.pc = "delete", !.user = u, !.role = "operator", !.fresh = TRUE]
    <2>1. x \in ReqState /\ x.user = u /\ x.pc = "delete"
        BY <1>0 DEF ReqState, Role
    <2>2. req' = [req EXCEPT ![r] = x]
        BY <1>3 DEF DeleteRead, Begin, IInv, TypeOK
    <2> HIDE DEF x
    <2> QED
        BY <1>3, <2>1, <2>2, PrivateStep DEF DeleteRead
<1>4. CASE SetRoleWrite(r)
    <2> DEFINE new == [users[req[r].user] EXCEPT !.role = req[r].role]
    <2>1. new \in Row /\ new.role = req[r].role
        BY <1>0, <1>4 DEF SetRoleWrite, At, Row, ReqState
    <2> QED
        BY <1>4, <2>1, WriteStep DEF SetRoleWrite
<1>5. CASE DeleteWrite(r)
    <2>1. NoUser \in Row
        BY DEF NoUser, Row
    <2> QED
        BY <1>5, <2>1, WriteStep DEF DeleteWrite, At
<1> QED
    BY <1>1, <1>2, <1>3, <1>4, <1>5 DEF UsersPage

(* Every step of a single sign-on keeps the invariant.                      *)
LEMMA SingleSignOnIInv == ASSUME IInv, NEW r \in Req, SingleSignOn(r), renamed' \in BOOLEAN PROVE IInv'
<1>0. req \in [Req -> ReqState] /\ req[r] \in ReqState /\ users \in [User -> Row]
      /\ (req[r].pc # "idle" => req[r].user \in User)
    BY DEF IInv, TypeOK, RequestHasUser
<1>1. ASSUME NEW i \in Ident, NEW role \in Role, NEW gated \in BOOLEAN, NEW name \in Name[i],
             Claims(r, i, name, gated, role)
      PROVE  IInv'
    <2> DEFINE x == [pc |-> "lookup", user |-> name, role |-> role, ident |-> i,
                     gated |-> gated, fresh |-> FALSE]
    <2>1. x \in ReqState /\ x.user \in User /\ ~x.fresh
        BY DEF ReqState
    <2> QED
        BY <1>1, <2>1, PrivateStep DEF Claims
<1>2. CASE SignIn(r)
    BY <1>2, RequestEnds DEF SignIn
<1>3. CASE SignInSync(r)
    <2>1. PICK u \in LinkedTo(req[r].ident) : req' = [req EXCEPT ![r].pc = "sync", ![r].user = u]
        BY <1>3 DEF SignInSync
    <2> DEFINE x == [req[r] EXCEPT !.pc = "sync", !.user = u]
    <2>2. x \in ReqState /\ x.user \in User /\ x.fresh = req[r].fresh
        BY <1>0 DEF ReqState, LinkedTo
    <2>3. ~req[r].fresh
        BY <1>3 DEF IInv, FreshIsSafe, SignInSync, At
    <2>4. req' = [req EXCEPT ![r] = x]
        BY <1>0, <2>1
    <2> HIDE DEF x
    <2> QED
        BY <1>3, <2>2, <2>3, <2>4, PrivateStep DEF SignInSync
<1>4. CASE SyncRead(r)
    <2>1. CASE Begin(r, "syncrole", req[r].user, req[r].role)
               /\ (req[r].role = "admin" \/ ~LastAdmin(req[r].user))
        <3> DEFINE x == [req[r] EXCEPT !.pc = "syncrole", !.user = req[r].user,
                                       !.role = req[r].role, !.fresh = TRUE]
        <3>1. x \in ReqState /\ x.user = req[r].user /\ x.role = req[r].role /\ x.pc = "syncrole"
            BY <1>0 DEF ReqState
        <3>2. req' = [req EXCEPT ![r] = x]
            BY <1>0, <2>1 DEF Begin
        <3>3. req[r].user \in User
            BY <1>0, <1>4 DEF SyncRead, At
        <3> HIDE DEF x
        <3> QED
            BY <1>4, <2>1, <3>1, <3>2, <3>3, PrivateStep DEF SyncRead
    <2>2. CASE Done(r)
        BY <1>4, <2>2, RequestEnds DEF SyncRead
    <2> QED
        BY <1>4, <2>1, <2>2 DEF SyncRead
<1>5. CASE SyncWrite(r)
    <2> DEFINE new == [users[req[r].user] EXCEPT !.role = req[r].role]
    <2>1. new \in Row /\ new.role = req[r].role
        BY <1>0, <1>5 DEF SyncWrite, At, Row, ReqState
    <2> QED
        BY <1>5, <2>1, WriteStep DEF SyncWrite
<1>6. ASSUME NEW pc \in {"name", "insert"}, req[r].pc \in {"lookup", "name"},
             req' = [req EXCEPT ![r].pc = pc], UNCHANGED users
      PROVE  IInv'
    <2> DEFINE x == [req[r] EXCEPT !.pc = pc]
    <2>1. x \in ReqState /\ x.user = req[r].user /\ x.fresh = req[r].fresh
        BY <1>0 DEF ReqState
    <2>2. req' = [req EXCEPT ![r] = x]
        BY <1>0, <1>6
    <2>3. ~req[r].fresh /\ req[r].user \in User
        BY <1>0, <1>6 DEF IInv, FreshIsSafe
    <2> HIDE DEF x
    <2> QED
        BY <1>6, <2>1, <2>2, <2>3, PrivateStep
<1>7. CASE FirstLogin(r)
    BY <1>6, <1>7 DEF FirstLogin, At
<1>8. CASE NameIsFree(r)
    BY <1>6, <1>8, RequestEnds DEF NameIsFree, At
<1>9. CASE CreateOIDCUser(r)
    <2>1. CASE Done(r) /\ UNCHANGED users
        BY <2>1, RequestEnds
    <2>2. CASE ~Exists(req[r].user) /\ Commit(r)
               /\ users' = [users EXCEPT ![req[r].user] = [role |-> req[r].role, ident |-> req[r].ident]]
        <3>1. [role |-> req[r].role, ident |-> req[r].ident] \in Row
            BY <1>0 DEF Row, ReqState
        <3>2. req[r].user \in User
            BY <1>0, <1>9 DEF CreateOIDCUser, At
        <3> QED
            BY <2>2, <3>1, <3>2, InsertStep
    <2> QED
        BY <1>9, <2>1, <2>2 DEF CreateOIDCUser
<1> QED
    BY <1>1, <1>2, <1>3, <1>4, <1>5, <1>7, <1>8, <1>9 DEF SingleSignOn

(* Every step keeps the invariant.                                          *)
LEMMA NextIInv == IInv /\ [Next]_vars => IInv'
<1> SUFFICES ASSUME IInv, [Next]_vars PROVE IInv'
    OBVIOUS
<1>0. renamed' \in BOOLEAN
    BY DEF IInv, TypeOK, Next, vars, UsersPage, CreateUser, SetRoleRead, DeleteRead, SetRoleWrite,
           DeleteWrite, SingleSignOn, Claims, SignIn, SignInSync, SyncRead, SyncWrite, FirstLogin,
           NameIsFree, CreateOIDCUser, OtherWrite, RequestDies
<1>1. ASSUME NEW r \in Req, OtherWrite(r) PROVE IInv'
    <2>1. users' \in [User -> Row] /\ AlwaysAnAdmin'
        BY <1>1 DEF OtherWrite, IInv, TypeOK, AlwaysAnAdmin, IsAdmin
    <2> QED
        BY <1>0, <1>1, <2>1, CommitStep DEF OtherWrite, Single
<1>2. ASSUME NEW r \in Req, RequestDies(r) PROVE IInv'
    BY <1>0, <1>2, RequestEnds DEF RequestDies
<1>3. CASE UNCHANGED vars
    BY <1>3 DEF vars, IInv, TypeOK, AlwaysAnAdmin, RequestHasUser, FreshIsSafe, LastAdmin, IsAdmin
<1> QED
    BY <1>0, <1>1, <1>2, <1>3, UsersPageIInv, SingleSignOnIInv DEF Next

(* The accounts keep their types.                                           *)
THEOREM TypeCorrect == Spec => []TypeOK
<1>1. IInv => TypeOK
    BY DEF IInv
<1> QED
    BY InitIInv, NextIInv, <1>1, PTL DEF Spec

(* No interleaving of role changes, deletions and sign-ins, however many    *)
(* requests are under way, removes the last admin (ErrLastAdmin).           *)
THEOREM AdminRemains == Spec => []AlwaysAnAdmin
<1>1. IInv => AlwaysAnAdmin
    BY DEF IInv
<1> QED
    BY InitIInv, NextIInv, <1>1, PTL DEF Spec

-----------------------------------------------------------------------------
(* One account per identity: an account linked to an identity bears a name  *)
(* the provider gave it, and a first login works under such a name.         *)
NamedByProvider ==
    /\ \A u \in User : users[u].ident \in Ident => u \in Name[users[u].ident]
    /\ \A r \in Req : req[r].pc \in {"lookup", "name", "insert"} =>
          req[r].ident \in Ident /\ req[r].user \in Name[req[r].ident]

(* A step of one goroutine that writes no account, or writes one it may.    *)
LEMMA NamesKept ==
    ASSUME TypeOK, NamedByProvider, NEW r \in Req,
           \A q \in Req \ {r} : /\ req'[q].pc = req[q].pc /\ req'[q].ident = req[q].ident
                                /\ req'[q].user = req[q].user,
           req'[r].pc \in {"lookup", "name", "insert"} =>
               req'[r].ident \in Ident /\ req'[r].user \in Name[req'[r].ident],
           \A u \in User : \/ users'[u].ident \in {users[u].ident, Local}
                           \/ u \in Name[users'[u].ident]
    PROVE  NamedByProvider'
<1>1. \A u \in User : users'[u].ident \in Ident => u \in Name[users'[u].ident]
    BY DEF NamedByProvider
<1>2. \A q \in Req : req'[q].pc \in {"lookup", "name", "insert"} =>
          req'[q].ident \in Ident /\ req'[q].user \in Name[req'[q].ident]
    BY DEF NamedByProvider
<1> QED
    BY <1>1, <1>2 DEF NamedByProvider

LEMMA NextNamed == TypeOK /\ RequestHasUser /\ NamedByProvider /\ [Next]_vars => NamedByProvider'
<1> SUFFICES ASSUME TypeOK, RequestHasUser, NamedByProvider, [Next]_vars PROVE NamedByProvider'
    OBVIOUS
<1>1. CASE UNCHANGED vars
    BY <1>1 DEF vars, NamedByProvider
<1>2. ASSUME NEW r \in Req, UsersPage(r) \/ SingleSignOn(r) \/ OtherWrite(r) \/ RequestDies(r)
      PROVE  NamedByProvider'
    <2> DEFINE Same == \A q \in Req \ {r} : /\ req'[q].pc = req[q].pc /\ req'[q].ident = req[q].ident
                                            /\ req'[q].user = req[q].user
               Given == req'[r].pc \in {"lookup", "name", "insert"} =>
                            req'[r].ident \in Ident /\ req'[r].user \in Name[req'[r].ident]
               Idents == \A u \in User : \/ users'[u].ident \in {users[u].ident, Local}
                                         \/ u \in Name[users'[u].ident]
    <2>0. req[r] \in ReqState /\ \A q \in Req : req[q] \in ReqState
        BY DEF TypeOK
    <2>1. ASSUME Done(r) PROVE Same /\ Given
        BY <2>1 DEF Done, TypeOK, NoReq
    <2>2. ASSUME Commit(r) PROVE Same /\ Given
        BY <2>0, <2>2 DEF Commit, TypeOK, ReqState, NoReq
    <2>3. ASSUME NEW pc, pc \notin {"lookup", "name", "insert"}, NEW u, NEW role, Begin(r, pc, u, role)
          PROVE  Same /\ Given
        BY <2>0, <2>3 DEF Begin, TypeOK, ReqState
    <2>4. ASSUME UNCHANGED users PROVE Idents
        BY <2>4
    <2>5. ASSUME NEW new, Write(r, new), req[r].user \in User,
                 new.ident \in {users[req[r].user].ident, Local}
          PROVE  Same /\ Given /\ Idents
        <3>1. CASE req[r].fresh
            BY <2>2, <2>5, <3>1 DEF Write, TypeOK
        <3>2. CASE ~ req[r].fresh
            BY <2>1, <2>4, <2>5, <3>2 DEF Write
        <3> QED
            BY <3>1, <3>2
    <2>6. ASSUME UsersPage(r) PROVE Same /\ Given /\ Idents
        <3>1. ASSUME NEW u \in User, NEW role \in Role, CreateUser(r, u, role) PROVE Same /\ Given /\ Idents
            BY <2>2, <3>1 DEF CreateUser, Single, TypeOK
        <3>2. ASSUME NEW u \in User, NEW role \in Role, SetRoleRead(r, u, role) PROVE Same /\ Given /\ Idents
            BY <2>3, <2>4, <3>2 DEF SetRoleRead
        <3>3. ASSUME NEW u \in User, DeleteRead(r, u) PROVE Same /\ Given /\ Idents
            BY <2>3, <2>4, <3>3 DEF DeleteRead
        <3>4. CASE SetRoleWrite(r)
            <4>1. req[r].user \in User /\ users[req[r].user] \in Row
                BY <3>4 DEF SetRoleWrite, At, RequestHasUser, TypeOK
            <4>2. [users[req[r].user] EXCEPT !.role = req[r].role].ident = users[req[r].user].ident
                BY <4>1 DEF Row
            <4> QED
                BY <2>5, <3>4, <4>1, <4>2 DEF SetRoleWrite
        <3>5. CASE DeleteWrite(r)
            BY <2>5, <3>5 DEF DeleteWrite, At, RequestHasUser, NoUser
        <3> QED
            BY <2>6, <3>1, <3>2, <3>3, <3>4, <3>5 DEF UsersPage
    <2>7. ASSUME SingleSignOn(r) PROVE Same /\ Given /\ Idents
        <3>1. ASSUME NEW i \in Ident, NEW role \in Role, NEW gated \in BOOLEAN, NEW name \in Name[i],
                     Claims(r, i, name, gated, role)
              PROVE  Same /\ Given /\ Idents
            BY <2>4, <3>1 DEF Claims, TypeOK
        <3>2. CASE SignIn(r)
            BY <2>1, <2>4, <3>2 DEF SignIn
        <3>3. CASE SignInSync(r)
            BY <2>0, <2>4, <3>3 DEF SignInSync, TypeOK, ReqState
        <3>4. CASE SyncRead(r)
            BY <2>1, <2>3, <2>4, <3>4 DEF SyncRead
        <3>5. CASE SyncWrite(r)
            <4>1. req[r].user \in User /\ users[req[r].user] \in Row
                BY <3>5 DEF SyncWrite, At, RequestHasUser, TypeOK
            <4>2. [users[req[r].user] EXCEPT !.role = req[r].role].ident = users[req[r].user].ident
                BY <4>1 DEF Row
            <4> QED
                BY <2>5, <3>5, <4>1, <4>2 DEF SyncWrite
        <3>6. CASE FirstLogin(r)
            BY <2>0, <2>4, <3>6 DEF FirstLogin, At, TypeOK, ReqState, NamedByProvider
        <3>7. CASE NameIsFree(r)
            <4>1. CASE Done(r)
                BY <2>1, <2>4, <3>7, <4>1 DEF NameIsFree
            <4>2. CASE req' = [req EXCEPT ![r].pc = "insert"]
                BY <2>0, <2>4, <3>7, <4>2 DEF NameIsFree, At, TypeOK, ReqState, NamedByProvider
            <4> QED
                BY <3>7, <4>1, <4>2 DEF NameIsFree
        <3>8. CASE CreateOIDCUser(r)
            <4>1. CASE Done(r) /\ UNCHANGED users
                BY <2>1, <2>4, <4>1
            <4>2. CASE /\ users' = [users EXCEPT ![req[r].user] = [role |-> req[r].role, ident |-> req[r].ident]]
                       /\ Commit(r)
                <5>1. req[r].user \in Name[req[r].ident] /\ req[r].user \in User
                    BY <3>8 DEF CreateOIDCUser, At, NamedByProvider, RequestHasUser
                <5>2. Idents
                    BY <4>2, <5>1 DEF TypeOK
                <5> QED
                    BY <2>2, <4>2, <5>2
            <4> QED
                BY <3>8, <4>1, <4>2 DEF CreateOIDCUser
        <3> QED
            BY <2>7, <3>1, <3>2, <3>3, <3>4, <3>5, <3>6, <3>7, <3>8 DEF SingleSignOn
    <2>8. ASSUME OtherWrite(r) \/ RequestDies(r) PROVE Same /\ Given /\ Idents
        BY <2>1, <2>2, <2>4, <2>8 DEF OtherWrite, Single, RequestDies
    <2>9. Same /\ Given /\ Idents
        BY <1>2, <2>6, <2>7, <2>8
    <2> QED
        BY <2>9, NamesKept
<1> QED
    BY <1>1, <1>2 DEF Next

LEMMA InitNamed == Init => NamedByProvider
BY DEF Init, NamedByProvider, NoUser, NoReq

(* An account linked to an identity bears a name the provider gave that     *)
(* identity: single sign-on never leads to an account made under another's. *)
THEOREM AccountsAreNamed == Spec => []NamedByProvider
<1>1. IInv => TypeOK /\ RequestHasUser
    BY DEF IInv
<1> QED
    BY <1>1, InitIInv, NextIInv, InitNamed, NextNamed, PTL DEF Spec

-----------------------------------------------------------------------------
(* One account per identity, whatever names the provider gives it.          *)

(* A name without an account is linked to nobody.                           *)
FreeNamesAreFree == \A u \in User : users[u].role = "none" => users[u].ident = Local

OneEach == FirstLoginsAgree /\ OneAccountPerIdentity /\ FreeNamesAreFree

(* A step that links no account to an identity, and takes nobody past the   *)
(* look-up of an identity that has one.                                     *)
LEMMA NobodyLinked ==
    ASSUME OneEach, NamedByProvider', UNCHANGED renamed, users' \in [User -> Row],
           \A u \in User : /\ users'[u].ident \in {users[u].ident, Local}
                           /\ users'[u].role = "none" => users'[u].ident = Local,
           \A q \in Req : req'[q].pc \in {"name", "insert"} =>
              \/ /\ req[q].pc \in {"name", "insert"}
                 /\ req'[q].ident = req[q].ident /\ req'[q].user = req[q].user
              \/ LinkedTo(req'[q].ident) = {}
    PROVE  OneEach'
<1>0. \A i \in Ident : LinkedTo(i)' \subseteq LinkedTo(i)
    BY DEF OneEach, FreeNamesAreFree, LinkedTo, Exists
<1>1. FirstLoginsAgree'
    <2> SUFFICES ASSUME ~renamed, NEW q \in Req, req'[q].pc \in {"name", "insert"}
                 PROVE  LinkedTo(req[q].ident)' \subseteq {req'[q].user}
        BY DEF FirstLoginsAgree
    <2>1. req'[q].ident \in Ident
        BY DEF NamedByProvider
    <2> QED
        BY <1>0, <2>1 DEF OneEach, FirstLoginsAgree
<1>2. OneAccountPerIdentity'
    BY <1>0 DEF OneEach, OneAccountPerIdentity, NeverTwoAccounts
<1>3. FreeNamesAreFree'
    BY DEF FreeNamesAreFree
<1> QED
    BY <1>1, <1>2, <1>3 DEF OneEach

(* The insert of a first login, which no rival under another name waits for.*)
LEMMA InsertLinks ==
    ASSUME TypeOK, RequestHasUser, NamedByProvider, OneEach, NEW r \in Req, CreateOIDCUser(r),
           ~Exists(req[r].user)
    PROVE  OneEach'
<1> DEFINE i == req[r].ident
           n == req[r].user
<1>1. /\ users' = [users EXCEPT ![n] = [role |-> req[r].role, ident |-> i]]
      /\ Commit(r) /\ req[r].pc = "insert"
      /\ renamed' = (renamed \/ RivalUnderWay(r))
    BY DEF CreateOIDCUser, At
<1>2. n \in User /\ i \in Ident /\ users \in [User -> Row] /\ req[r].role \in Role
    BY <1>1 DEF RequestHasUser, NamedByProvider, TypeOK, ReqState
<1>3. FreeNamesAreFree'
    BY <1>1, <1>2 DEF OneEach, FreeNamesAreFree, Role
<1>4. CASE renamed'
    BY <1>3, <1>4 DEF OneEach, FirstLoginsAgree, OneAccountPerIdentity
<1>5. CASE ~renamed'
    <2>0. ~renamed /\ ~RivalUnderWay(r)
        BY <1>1, <1>5
    <2>1. LinkedTo(i) \subseteq {n}
        BY <1>1, <2>0 DEF OneEach, FirstLoginsAgree
    <2>2. \A j \in Ident : LinkedTo(j)' \subseteq IF j = i THEN {n} ELSE LinkedTo(j)
        BY <1>1, <1>2, <2>1 DEF LinkedTo, Exists, Row
    <2>3. \A q \in Req : req'[q].pc \in {"name", "insert"} =>
              /\ req[q].pc \in {"name", "insert"}
              /\ req'[q].ident = req[q].ident /\ req'[q].user = req[q].user
        BY <1>1 DEF Commit, NoReq, TypeOK, ReqState
    <2>4. FirstLoginsAgree'
        <3> SUFFICES ASSUME NEW q \in Req, req'[q].pc \in {"name", "insert"}
                     PROVE  LinkedTo(req[q].ident)' \subseteq {req'[q].user}
            BY DEF FirstLoginsAgree
        <3>1. req[q].ident \in Ident /\ req[q].pc \in {"name", "insert"}
            BY <2>3 DEF NamedByProvider
        <3>2. req[q].ident = i => req[q].user = n
            BY <2>0, <3>1 DEF RivalUnderWay
        <3>3. LinkedTo(req[q].ident) \subseteq {req[q].user}
            BY <2>0, <3>1 DEF OneEach, FirstLoginsAgree
        <3> QED
            BY <2>2, <2>3, <3>1, <3>2, <3>3
    <2>5. NeverTwoAccounts'
        BY <2>0, <2>2 DEF OneEach, OneAccountPerIdentity, NeverTwoAccounts
    <2> QED
        BY <1>3, <2>4, <2>5 DEF OneEach, OneAccountPerIdentity
<1> QED
    BY <1>4, <1>5

LEMMA NextOneEach == IInv /\ NamedByProvider /\ OneEach /\ [Next]_vars => OneEach'
<1> SUFFICES ASSUME IInv, NamedByProvider, OneEach, [Next]_vars PROVE OneEach'
    OBVIOUS
<1>0. /\ TypeOK /\ RequestHasUser /\ NamedByProvider'
      /\ users \in [User -> Row] /\ users' \in [User -> Row]
      /\ req \in [Req -> ReqState] /\ \A q \in Req : req[q] \in ReqState
      /\ \A u \in User : users[u].role = "none" => users[u].ident = Local
    BY NextIInv, NextNamed DEF IInv, TypeOK, OneEach, FreeNamesAreFree
<1>1. CASE UNCHANGED vars
    BY <1>1 DEF vars, OneEach, FirstLoginsAgree, OneAccountPerIdentity, NeverTwoAccounts, LinkedTo,
                Exists, FreeNamesAreFree
<1>2. ASSUME NEW r \in Req, UsersPage(r) \/ SingleSignOn(r) \/ OtherWrite(r) \/ RequestDies(r)
      PROVE  OneEach'
    <2> DEFINE Rows == \A u \in User : /\ users'[u].ident \in {users[u].ident, Local}
                                       /\ users'[u].role = "none" => users'[u].ident = Local
               Past == \A q \in Req : req'[q].pc \in {"name", "insert"} =>
                             \/ /\ req[q].pc \in {"name", "insert"}
                                /\ req'[q].ident = req[q].ident /\ req'[q].user = req[q].user
                             \/ LinkedTo(req'[q].ident) = {}
               Kept == UNCHANGED renamed /\ Rows /\ Past
    <2>1. ASSUME UNCHANGED users PROVE Rows
        BY <1>0, <2>1
    <2>2. ASSUME Done(r) PROVE Past
        BY <1>0, <2>2 DEF Done, NoReq
    <2>3. ASSUME Commit(r) PROVE Past
        BY <1>0, <2>3 DEF Commit, NoReq, ReqState
    <2>4. ASSUME NEW pc, pc \notin {"name", "insert"}, NEW u, NEW role, Begin(r, pc, u, role)
          PROVE  Past
        BY <1>0, <2>4 DEF Begin, ReqState
    <2>5. ASSUME NEW new, Write(r, new), req[r].user \in User,
                 \/ new.ident = Local
                 \/ new.ident = users[req[r].user].ident /\ new.role \in Role
          PROVE  Rows /\ Past
        <3>1. CASE req[r].fresh
            BY <1>0, <2>3, <2>5, <3>1 DEF Write, Role
        <3>2. CASE ~req[r].fresh
            BY <2>1, <2>2, <2>5, <3>2 DEF Write
        <3> QED
            BY <3>1, <3>2
    <2>6. ASSUME req[r].user \in User
          PROVE  LET new == [users[req[r].user] EXCEPT !.role = req[r].role]
                 IN  new.ident = users[req[r].user].ident /\ new.role \in Role
        BY <1>0, <2>6 DEF Row, ReqState
    <2>7. ASSUME UsersPage(r) PROVE Kept
        <3>1. ASSUME NEW u \in User, NEW role \in Role, CreateUser(r, u, role) PROVE Kept
            BY <1>0, <2>3, <3>1 DEF CreateUser, Single
        <3>2. ASSUME NEW u \in User, NEW role \in Role, SetRoleRead(r, u, role) PROVE Kept
            BY <2>1, <2>4, <3>2 DEF SetRoleRead
        <3>3. ASSUME NEW u \in User, DeleteRead(r, u) PROVE Kept
            BY <2>1, <2>4, <3>3 DEF DeleteRead
        <3>4. CASE SetRoleWrite(r)
            BY <1>0, <2>5, <2>6, <3>4 DEF SetRoleWrite, At, RequestHasUser
        <3>5. CASE DeleteWrite(r)
            BY <1>0, <2>5, <3>5 DEF DeleteWrite, At, RequestHasUser, NoUser
        <3> QED
            BY <2>7, <3>1, <3>2, <3>3, <3>4, <3>5 DEF UsersPage
    <2>8. ASSUME SingleSignOn(r) PROVE Kept \/ (CreateOIDCUser(r) /\ ~Exists(req[r].user))
        <3>1. ASSUME NEW i \in Ident, NEW role \in Role, NEW gated \in BOOLEAN, NEW name \in Name[i],
                     Claims(r, i, name, gated, role)
              PROVE  Kept
            BY <1>0, <2>1, <3>1 DEF Claims
        <3>2. CASE SignIn(r)
            BY <2>1, <2>2, <3>2 DEF SignIn
        <3>3. CASE SignInSync(r)
            BY <1>0, <2>1, <3>3 DEF SignInSync, ReqState
        <3>4. CASE SyncRead(r)
            BY <2>1, <2>2, <2>4, <3>4 DEF SyncRead
        <3>5. CASE SyncWrite(r)
            BY <1>0, <2>5, <2>6, <3>5 DEF SyncWrite, At, RequestHasUser
        <3>6. CASE FirstLogin(r)
            BY <1>0, <2>1, <3>6 DEF FirstLogin, ReqState
        <3>7. CASE NameIsFree(r)
            <4>1. CASE Done(r)
                BY <2>1, <2>2, <3>7, <4>1 DEF NameIsFree
            <4>2. CASE req' = [req EXCEPT ![r].pc = "insert"]
                BY <1>0, <2>1, <3>7, <4>2 DEF NameIsFree, At, ReqState
            <4> QED
                BY <3>7, <4>1, <4>2 DEF NameIsFree
        <3>8. CASE CreateOIDCUser(r) /\ Exists(req[r].user)
            BY <2>1, <2>2, <3>8 DEF CreateOIDCUser
        <3> QED
            BY <2>8, <3>1, <3>2, <3>3, <3>4, <3>5, <3>6, <3>7, <3>8 DEF SingleSignOn
    <2>9. ASSUME OtherWrite(r) \/ RequestDies(r) PROVE Kept
        BY <2>1, <2>2, <2>3, <2>9 DEF OtherWrite, Single, RequestDies
    <2>10. CASE Kept
        BY <1>0, <2>10, NobodyLinked
    <2>11. CASE CreateOIDCUser(r) /\ ~Exists(req[r].user)
        BY <1>0, <2>11, InsertLinks
    <2> QED
        BY <1>2, <2>7, <2>8, <2>9, <2>10, <2>11
<1> QED
    BY <1>1, <1>2 DEF Next

LEMMA InitOneEach == Init => OneEach
BY DEF Init, OneEach, FirstLoginsAgree, OneAccountPerIdentity, NeverTwoAccounts, FreeNamesAreFree,
       LinkedTo, Exists, NoUser, NoReq

(* An identity has one account, for any number of requests, identities and  *)
(* names the provider may give them, although the table does not enforce it *)
(* (CreateOIDCUser): it takes two first logins under different names that   *)
(* are both past GetUserByOIDCSubject to make two.                          *)
THEOREM OneAccountEach == Spec => []OneAccountPerIdentity
<1>1. OneEach => OneAccountPerIdentity
    BY DEF OneEach
<1> QED
    BY <1>1, InitIInv, NextIInv, AccountsAreNamed, InitOneEach, NextOneEach, PTL DEF Spec
=============================================================================
