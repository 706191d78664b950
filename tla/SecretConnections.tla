------------------------- MODULE SecretConnections -------------------------
(***************************************************************************)
(* The connections to secret providers and the stacks bound to them, for   *)
(* one provider type.  Rows are in wharf.db, credentials in keys.db, and no *)
(* transaction spans the two: a handler is a sequence of statements, and    *)
(* the handlers of several requests interleave.                             *)
(***************************************************************************)
EXTENDS Naturals, FiniteSets

CONSTANTS SecretConn,    \* ids a connection can get; each is drawn once
          SecretStack,   \* ids of Git stacks
          SecretReq,     \* requests in progress at once
          NoConn,        \* a missing connection, or parent
          Nobody,        \* the stack_id '' of a shared connection
          MaxCuts,       \* bound: requests cut short by a failing statement or a stop
          AfterRace      \* bound: whether requests still arrive once two have raced

ASSUME SecretConnectionsAssumption ==
    /\ NoConn \notin SecretConn /\ Nobody \notin SecretStack
    /\ MaxCuts \in Nat /\ AfterRace \in BOOLEAN

VARIABLES
    conns,      \* secret_connections
    drawn,      \* ids randomHex has given out
    creds,      \* connections with a row in secret_connection_credentials
    bindings,   \* stack_secret_bindings: the connection a stack is bound to
    secStacks,  \* stacks
    secReq,     \* what each request is doing
    raced,      \* two requests that may harm each other have overlapped
    cuts

secretVars == <<conns, drawn, creds, bindings, secStacks, secReq, raced, cuts>>

ConnId == SecretConn \union {NoConn}
Mode == {"shared", "own", "separate"}

(* A connection: shared (stack Nobody), or private to a stack, with the     *)
(* address of a shared parent or its own.                                   *)
ConnRow == [live : BOOLEAN, stack : SecretStack \union {Nobody}, parent : ConnId]
NoConnRow == [live |-> FALSE, stack |-> Nobody, parent |-> NoConn]

(* op : the handler; conn : the connection it is about; prev : the binding's *)
(* connection as it was read, private : whether that one is the stack's own; *)
(* left : connections still to be cleaned up.                               *)
SecretReqState == [op : {"none", "create", "update", "delete", "save", "unbind", "drop"},
                   pc : {"idle", "load", "creds", "row", "update", "bind", "look",
                         "dropCreds", "dropRow", "list", "stack"},
                   stack : SecretStack \union {Nobody}, mode : Mode, conn : ConnId,
                   parent : ConnId, prev : ConnId, typed : BOOLEAN, private : BOOLEAN,
                   left : SUBSET SecretConn]
NoSecretReq == [op |-> "none", pc |-> "idle", stack |-> Nobody, mode |-> "shared",
                conn |-> NoConn, parent |-> NoConn, prev |-> NoConn, typed |-> FALSE,
                private |-> FALSE, left |-> {}]

Live(c) == c \in SecretConn /\ conns[c].live
Global(c) == Live(c) /\ conns[c].stack = Nobody

(* Requests that may harm each other: two that work on the binding of the   *)
(* same stack, and the deletion of a shared connection with anything else   *)
(* that names it.                                                           *)
Conflict(a, b) ==
    \/ a.stack # Nobody /\ a.stack = b.stack
    \/ a.op = "delete" /\ a.conn \in {b.conn, b.parent} \ {NoConn}

Step(r, next) ==
    /\ secReq' = [secReq EXCEPT ![r] = next]
    /\ raced' = (raced \/ \E q \in SecretReq \ {r} : Conflict(next, secReq[q]) \/ Conflict(secReq[q], next))

Arrives(r) == secReq[r].op = "none" /\ (raced => AfterRace)
At(r, op, pc) == secReq[r].op = op /\ secReq[r].pc = pc
Goto(r, pc) == Step(r, [secReq[r] EXCEPT !.pc = pc])
Return(r) == Step(r, NoSecretReq)

-----------------------------------------------------------------------------
(* What a resolution gets (stackBinding, effectiveForStack).                *)

(* The connection whose address is used.                                    *)
EffectiveConfig(c) == IF conns[c].parent # NoConn THEN conns[c].parent ELSE c

(* effectiveForStack finds everything it needs.                             *)
Resolves(s) ==
    LET c == bindings[s] IN
    Live(c) /\ Live(EffectiveConfig(c)) /\ c \in creds

-----------------------------------------------------------------------------
(* Shared connections: Settings, Secret providers.                          *)

(* createSecretProviderHandler: the credentials first, if any were typed.   *)
CreateProviderStart(r, c, typed) ==
    /\ Arrives(r)
    /\ c \notin drawn
    /\ drawn' = drawn \union {c}
    /\ creds' = IF typed THEN creds \union {c} ELSE creds \ {c}
    /\ Step(r, [NoSecretReq EXCEPT !.op = "create", !.pc = "row", !.conn = c])
    /\ UNCHANGED <<conns, bindings, secStacks, cuts>>

(* ... then the row.  A name already taken makes the INSERT fail, and the   *)
(* credentials are removed again.                                           *)
CreateProviderRow(r) ==
    /\ At(r, "create", "row")
    /\ \/ /\ conns' = [conns EXCEPT ![secReq[r].conn] = [NoConnRow EXCEPT !.live = TRUE]]
          /\ UNCHANGED creds
       \/ /\ creds' = creds \ {secReq[r].conn}
          /\ UNCHANGED conns
    /\ Return(r)
    /\ UNCHANGED <<drawn, bindings, secStacks, cuts>>

(* updateSecretProviderHandler: credentials kept, replaced or cleared, then  *)
(* the row.                                                                 *)
UpdateProviderStart(r, c) ==
    /\ Arrives(r)
    /\ Global(c)
    /\ Step(r, [NoSecretReq EXCEPT !.op = "update", !.pc = "creds", !.conn = c])
    /\ UNCHANGED <<conns, drawn, creds, bindings, secStacks, cuts>>

(* UpdateSecretConnection replaces name and config, which nothing here      *)
(* depends on, of a row that may be gone.                                   *)
UpdateProvider(r) ==
    /\ At(r, "update", "creds")
    /\ creds' \in {creds, creds \union {secReq[r].conn}, creds \ {secReq[r].conn}}
    /\ Return(r)
    /\ UNCHANGED <<conns, drawn, bindings, secStacks, cuts>>

(* Slip: only the stacks bound to the connection itself count.              *)
UsersDirect(c) == {s \in SecretStack : bindings[s] = c}

(* SecretConnectionUsers: bound to it, or to a connection inheriting it.    *)
Users(c) ==
    {s \in SecretStack : bindings[s] = c \/ (Live(bindings[s]) /\ conns[bindings[s]].parent = c)}

(* deleteSecretProviderHandler: refused while used, then two deletions.     *)
DeleteProviderCheck(r, c) ==
    /\ Arrives(r)
    /\ Global(c)
    /\ Users(c) = {}
    /\ Step(r, [NoSecretReq EXCEPT !.op = "delete", !.pc = "creds", !.conn = c])
    /\ UNCHANGED <<conns, drawn, creds, bindings, secStacks, cuts>>

DeleteProviderCreds(r) ==
    /\ At(r, "delete", "creds")
    /\ creds' = creds \ {secReq[r].conn}
    /\ Goto(r, "row")
    /\ UNCHANGED <<conns, drawn, bindings, secStacks, cuts>>

DeleteProviderRow(r) ==
    /\ At(r, "delete", "row")
    /\ conns' = [conns EXCEPT ![secReq[r].conn] = NoConnRow]
    /\ Return(r)
    /\ UNCHANGED <<drawn, creds, bindings, secStacks, cuts>>

-----------------------------------------------------------------------------
(* A stack's binding.                                                       *)

(* saveStackBindingHandler: the stack exists; its binding is read.          *)
SaveStart(r, s, mode, c, typed) ==
    /\ Arrives(r)
    /\ s \in secStacks
    /\ (mode = "separate") = (c = NoConn)
    /\ Step(r, [NoSecretReq EXCEPT !.op = "save", !.pc = "load", !.stack = s, !.mode = mode,
                                   !.parent = c, !.prev = bindings[s], !.typed = typed])
    /\ UNCHANGED <<conns, drawn, creds, bindings, secStacks, cuts>>

(* Slip: any connection will do, also one private to a stack.               *)
ChoosableAny(c) == Live(c)

(* "choose one of the shared connections".                                  *)
Choosable(c) == Global(c)

(* localConnection: the connection bound so far is edited, not replaced,    *)
(* when it is this stack's and has the same parent.                         *)
Reusable(q) == Live(q.prev) /\ conns[q.prev].stack = q.stack /\ conns[q.prev].parent = q.parent

(* ... the chosen and the previous connection are loaded and what was typed *)
(* is validated: a shared connection must have credentials, a new private   *)
(* one gets some, one that is edited keeps those it has.                    *)
SaveLoad(r) ==
    LET q == secReq[r]
        next == [q EXCEPT !.prev = IF Live(@) THEN @ ELSE NoConn,
                          !.private = Live(q.prev) /\ conns[q.prev].stack # Nobody] IN
    /\ At(r, "save", "load")
    /\ \/ /\ q.mode # "separate" /\ ~ Choosable(q.parent)
          /\ Return(r) /\ UNCHANGED drawn
       \/ /\ q.mode = "shared" /\ Choosable(q.parent)
          /\ IF q.parent \in creds THEN Step(r, [next EXCEPT !.conn = q.parent, !.pc = "bind"])
                                   ELSE Return(r)
          /\ UNCHANGED drawn
       \/ /\ q.mode = "separate" \/ (q.mode = "own" /\ Choosable(q.parent))
          /\ \/ /\ Reusable(q) /\ (q.typed \/ q.prev \in creds)
                /\ Step(r, [next EXCEPT !.conn = q.prev, !.pc = "update"])
                /\ UNCHANGED drawn
             \/ /\ ~ Reusable(q) /\ q.typed
                /\ \E c \in SecretConn \ drawn :
                      /\ drawn' = drawn \union {c}
                      /\ Step(r, [next EXCEPT !.conn = c, !.pc = "creds"])
             \/ /\ ~ q.typed /\ ~ (Reusable(q) /\ q.prev \in creds)
                /\ Return(r) /\ UNCHANGED drawn
    /\ UNCHANGED <<conns, creds, bindings, secStacks, cuts>>

(* The row that is edited may be gone: ErrNotFound, and nothing is bound.   *)
SaveUpdate(r) ==
    /\ At(r, "save", "update")
    /\ IF Live(secReq[r].conn) THEN Goto(r, IF secReq[r].typed THEN "creds" ELSE "bind")
                               ELSE Return(r)
    /\ UNCHANGED <<conns, drawn, creds, bindings, secStacks, cuts>>

SaveCreds(r) ==
    /\ At(r, "save", "creds")
    /\ creds' = creds \union {secReq[r].conn}
    /\ Goto(r, IF secReq[r].conn = secReq[r].prev THEN "bind" ELSE "row")
    /\ UNCHANGED <<conns, drawn, bindings, secStacks, cuts>>

SaveRow(r) ==
    LET q == secReq[r] IN
    /\ At(r, "save", "row")
    /\ conns' = [conns EXCEPT ![q.conn] = [live |-> TRUE, stack |-> q.stack, parent |-> q.parent]]
    /\ Goto(r, "bind")
    /\ UNCHANGED <<drawn, creds, bindings, secStacks, cuts>>

(* Slip: whatever was bound before is dropped, shared or not.               *)
SupersededAny(q) == q.prev \notin {NoConn, q.conn}

(* "A previous stack-private connection that is no longer the target".      *)
Superseded(q) == q.private /\ q.prev # q.conn

(* SetSecretBinding, an upsert; then the clean-up.                          *)
SaveBind(r) ==
    /\ At(r, "save", "bind")
    /\ bindings' = [bindings EXCEPT ![secReq[r].stack] = secReq[r].conn]
    /\ IF Superseded(secReq[r]) THEN Goto(r, "dropCreds") ELSE Return(r)
    /\ UNCHANGED <<conns, drawn, creds, secStacks, cuts>>

(* dropLocalConnection: the credentials, then the row.                      *)
DropCreds(r) ==
    /\ secReq[r].pc = "dropCreds"
    /\ creds' = creds \ {secReq[r].prev}
    /\ Goto(r, "dropRow")
    /\ UNCHANGED <<conns, drawn, bindings, secStacks, cuts>>

DropRow(r) ==
    /\ secReq[r].pc = "dropRow"
    /\ conns' = [conns EXCEPT ![secReq[r].prev] = NoConnRow]
    /\ Return(r)
    /\ UNCHANGED <<drawn, creds, bindings, secStacks, cuts>>

(* deleteStackBindingHandler: the binding is read and deleted, then its     *)
(* connection looked up and, if private, dropped.                           *)
UnbindStart(r, s) ==
    /\ Arrives(r)
    /\ s \in secStacks /\ bindings[s] # NoConn
    /\ Step(r, [NoSecretReq EXCEPT !.op = "unbind", !.pc = "bind", !.stack = s, !.prev = bindings[s]])
    /\ UNCHANGED <<conns, drawn, creds, bindings, secStacks, cuts>>

Unbind(r) ==
    /\ At(r, "unbind", "bind")
    /\ bindings' = [bindings EXCEPT ![secReq[r].stack] = NoConn]
    /\ Goto(r, "look")
    /\ UNCHANGED <<conns, drawn, creds, secStacks, cuts>>

UnbindLook(r) ==
    /\ At(r, "unbind", "look")
    /\ IF Live(secReq[r].prev) /\ conns[secReq[r].prev].stack # Nobody
       THEN Goto(r, "dropCreds") ELSE Return(r)
    /\ UNCHANGED <<conns, drawn, creds, bindings, secStacks, cuts>>

-----------------------------------------------------------------------------
(* Stacks.                                                                  *)

CreateGitStack(s) ==
    /\ s \notin secStacks
    /\ secStacks' = secStacks \union {s}
    /\ UNCHANGED <<conns, drawn, creds, bindings, secReq, raced, cuts>>

(* deleteStackHandler, from where the deployments have been looked at: the  *)
(* credentials of the private connections go one by one, then DeleteStack   *)
(* removes binding, connections and stack in one transaction.               *)
DropStackStart(r, s) ==
    /\ Arrives(r)
    /\ s \in secStacks
    /\ Step(r, [NoSecretReq EXCEPT !.op = "drop", !.pc = "list", !.stack = s])
    /\ UNCHANGED <<conns, drawn, creds, bindings, secStacks, cuts>>

DropStackList(r) ==
    /\ At(r, "drop", "list")
    /\ Step(r, [secReq[r] EXCEPT !.pc = "creds",
                                 !.left = {c \in SecretConn : Live(c) /\ conns[c].stack = secReq[r].stack}])
    /\ UNCHANGED <<conns, drawn, creds, bindings, secStacks, cuts>>

DropStackCreds(r) ==
    /\ At(r, "drop", "creds")
    /\ IF secReq[r].left = {} THEN Goto(r, "stack") /\ UNCHANGED creds
       ELSE \E c \in secReq[r].left :
              /\ creds' = creds \ {c}
              /\ Step(r, [secReq[r] EXCEPT !.left = @ \ {c}])
    /\ UNCHANGED <<conns, drawn, bindings, secStacks, cuts>>

DropStackRows(r) ==
    LET s == secReq[r].stack IN
    /\ At(r, "drop", "stack")
    /\ IF s \in secStacks
       THEN /\ secStacks' = secStacks \ {s}
            /\ bindings' = [bindings EXCEPT ![s] = NoConn]
            /\ conns' = [c \in SecretConn |-> IF conns[c].stack = s THEN NoConnRow ELSE conns[c]]
       ELSE UNCHANGED <<secStacks, bindings, conns>>
    /\ Return(r)
    /\ UNCHANGED <<drawn, creds, cuts>>

(* A statement fails, or the controller stops: the handler ends where it is. *)
CutShort(r) ==
    /\ secReq[r].op # "none"
    /\ cuts < MaxCuts
    /\ cuts' = cuts + 1
    /\ Return(r)
    /\ UNCHANGED <<conns, drawn, creds, bindings, secStacks>>

-----------------------------------------------------------------------------
SecretInit ==
    /\ conns = [c \in SecretConn |-> NoConnRow]
    /\ drawn = {}
    /\ creds = {}
    /\ bindings = [s \in SecretStack |-> NoConn]
    /\ secStacks = {}
    /\ secReq = [r \in SecretReq |-> NoSecretReq]
    /\ raced = FALSE
    /\ cuts = 0

ProviderStep(r) ==
    \/ \E c \in SecretConn, typed \in BOOLEAN : CreateProviderStart(r, c, typed)
    \/ CreateProviderRow(r)
    \/ \E c \in SecretConn : UpdateProviderStart(r, c)
    \/ UpdateProvider(r)
    \/ \E c \in SecretConn : DeleteProviderCheck(r, c)
    \/ DeleteProviderCreds(r) \/ DeleteProviderRow(r)

BindingStep(r) ==
    \/ \E s \in SecretStack, mode \in Mode, c \in ConnId, typed \in BOOLEAN :
          SaveStart(r, s, mode, c, typed)
    \/ SaveLoad(r) \/ SaveUpdate(r) \/ SaveCreds(r) \/ SaveRow(r) \/ SaveBind(r)
    \/ DropCreds(r) \/ DropRow(r)
    \/ \E s \in SecretStack : UnbindStart(r, s)
    \/ Unbind(r) \/ UnbindLook(r)

StackStep(r) ==
    \/ \E s \in SecretStack : DropStackStart(r, s)
    \/ DropStackList(r) \/ DropStackCreds(r) \/ DropStackRows(r)

SecretNext ==
    \/ \E s \in SecretStack : CreateGitStack(s)
    \/ \E r \in SecretReq : ProviderStep(r) \/ BindingStep(r) \/ StackStep(r) \/ CutShort(r)

SecretSpec == SecretInit /\ [][SecretNext]_secretVars

-----------------------------------------------------------------------------
(* Properties.                                                              *)

(* The two databases and the requests' progress stay well formed.           *)
SecretTypeOK ==
    /\ conns \in [SecretConn -> ConnRow]
    /\ drawn \subseteq SecretConn /\ creds \subseteq drawn
    /\ bindings \in [SecretStack -> ConnId]
    /\ secStacks \subseteq SecretStack
    /\ secReq \in [SecretReq -> SecretReqState]
    /\ raced \in BOOLEAN
    /\ cuts \in 0 .. MaxCuts

(* However requests overlap or break off, a stack is never bound to the     *)
(* private connection of another stack, and what a private connection       *)
(* inherits is never another private one: resolution uses credentials of    *)
(* the stack itself or shared ones only.                                    *)
OwnOrShared ==
    \A s \in SecretStack : LET c == bindings[s] IN
        Live(c) => /\ conns[c].stack \in {s, Nobody}
                   /\ conns[c].stack = Nobody => conns[c].parent = NoConn
                   /\ Live(conns[c].parent) => Global(conns[c].parent)

(* Whatever stacks do, only the deletion of a provider in Settings removes  *)
(* a shared connection.                                                     *)
SharedOutlivesStacks ==
    [][\A c \in SecretConn : Global(c) /\ ~ Global(c)' =>
           \E r \in SecretReq : secReq[r].op = "delete" /\ secReq[r].conn = c]_secretVars

Working(s) == \E r \in SecretReq : secReq[r].stack = s
Dropping(c) == \E r \in SecretReq : c \in {secReq[r].conn, secReq[r].prev}

(* Unless two requests on the same stack, or the deletion of a provider and *)
(* a request naming it, overlapped, or a request was cut short: a stack     *)
(* nobody is working on can use what it is bound to (a shared connection    *)
(* whose credentials an admin cleared excepted), and every private          *)
(* connection and every credential belongs to a binding or a provider.      *)
BindingsAreWhole ==
    ~ raced /\ cuts = 0 =>
        /\ \A s \in SecretStack : ~ Working(s) /\ bindings[s] # NoConn =>
               /\ s \in secStacks
               /\ Resolves(s) \/ (Global(bindings[s]) /\ bindings[s] \notin creds)
        /\ \A c \in SecretConn : ~ Dropping(c) =>
               /\ c \in creds => Live(c)
               /\ Live(c) /\ ~ Global(c) /\ ~ Working(conns[c].stack) =>
                      bindings[conns[c].stack] = c

(* stack_secrets.go, deleteSecretProviderHandler's promise to the stacks    *)
(* that use a connection: "still used by: ... remove it from those stacks   *)
(* first".  A bound connection is there.                                    *)
BoundIsThere == \A s \in secStacks : bindings[s] # NoConn => Live(bindings[s])
=============================================================================
