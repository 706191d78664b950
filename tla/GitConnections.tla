--------------------------- MODULE GitConnections ---------------------------
(***************************************************************************)
(* The shared Git connections and the stacks that use them.  A connection's *)
(* row is in wharf.db, its SSH key or HTTP credential in keys.db; its id is *)
(* derived from its name, so a deleted connection's id can come back.       *)
(***************************************************************************)
EXTENDS Naturals

CONSTANTS GitConn,       \* ids, slugs of names
          GitStack,      \* ids of Git stacks
          GitReq,        \* requests in progress at once
          NoGitConn,     \* no connection: the stack has a deploy key of its own
          MaxGitCuts     \* bound: requests cut short by a failing statement or a stop

ASSUME GitConnectionsAssumption ==
    /\ NoGitConn \notin GitConn /\ "none" \notin GitConn \union GitStack \union {NoGitConn}
    /\ MaxGitCuts \in Nat

VARIABLES
    gitRows,    \* git_connections: the auth_kind of each row, or "none"
    sshKeys,    \* connection_ssh_keys
    httpCreds,  \* connection_http_credentials
    gitStacks,  \* stacks: the connection each uses, or "none" for no stack
    gitReq,     \* what each request is doing
    gitRaced,   \* a deletion has overlapped another request on its connection
    gitCuts

gitVars == <<gitRows, sshKeys, httpCreds, gitStacks, gitReq, gitRaced, gitCuts>>

AuthKind == {"ssh_key", "http_password"}
GitReqState == [op : {"none", "create", "regenerate", "credential", "delete", "stack"},
                pc : {"idle", "keys", "ssh", "http", "row", "insert"},
                conn : GitConn \union {NoGitConn}, stack : GitStack \union {"none"}, kind : AuthKind]
NoGitReq == [op |-> "none", pc |-> "idle", conn |-> NoGitConn, stack |-> "none",
             kind |-> "ssh_key"]

GitConflict(a, b) == a.op = "delete" /\ b.op # "none" /\ a.conn = b.conn

GitStep(r, next) ==
    /\ gitReq' = [gitReq EXCEPT ![r] = next]
    /\ gitRaced' = (gitRaced \/ \E q \in GitReq \ {r} :
                        GitConflict(next, gitReq[q]) \/ GitConflict(gitReq[q], next))

GitAt(r, op, pc) == gitReq[r].op = op /\ gitReq[r].pc = pc
GitGoto(r, pc) == GitStep(r, [gitReq[r] EXCEPT !.pc = pc])
GitReturn(r) == GitStep(r, NoGitReq)
GitStart(r, op, pc, c) == /\ gitReq[r].op = "none"
                          /\ GitStep(r, [NoGitReq EXCEPT !.op = op, !.pc = pc, !.conn = c])

-----------------------------------------------------------------------------
(* createGitConnectionHandler: the row first; an id that is taken is refused.*)
CreateGitConnection(r, c, kind) ==
    /\ gitRows[c] = "none"
    /\ gitRows' = [gitRows EXCEPT ![c] = kind]
    /\ gitReq[r].op = "none"
    /\ GitStep(r, [NoGitReq EXCEPT !.op = "create", !.pc = "keys", !.conn = c, !.kind = kind])
    /\ UNCHANGED <<sshKeys, httpCreds, gitStacks, gitCuts>>

(* ... then its key, generated or imported, or its credential.  What was    *)
(* typed is looked at only now: a key that does not parse, or a missing     *)
(* password, leaves the row without one.                                    *)
CreateKeys(r) ==
    LET q == gitReq[r] IN
    /\ GitAt(r, "create", "keys")
    /\ \/ q.kind = "ssh_key" /\ sshKeys' = sshKeys \union {q.conn} /\ UNCHANGED httpCreds
       \/ q.kind = "http_password" /\ httpCreds' = httpCreds \union {q.conn} /\ UNCHANGED sshKeys
       \/ UNCHANGED <<sshKeys, httpCreds>>
    /\ GitReturn(r)
    /\ UNCHANGED <<gitRows, gitStacks, gitCuts>>

(* Slip: the old key goes before the new one is there.                      *)
RegenerateEagerly(r, c) ==
    /\ gitRows[c] = "ssh_key"
    /\ sshKeys' = sshKeys \ {c}
    /\ GitStart(r, "regenerate", "keys", c)
    /\ UNCHANGED <<gitRows, httpCreds, gitStacks, gitCuts>>

(* regenerateGitConnectionKeyHandler: a new key takes seconds to generate.  *)
Regenerate(r, c) ==
    /\ gitRows[c] = "ssh_key"
    /\ GitStart(r, "regenerate", "keys", c)
    /\ UNCHANGED <<gitRows, sshKeys, httpCreds, gitStacks, gitCuts>>

StoreGenerated(r) ==
    /\ GitAt(r, "regenerate", "keys")
    /\ sshKeys' = sshKeys \union {gitReq[r].conn}
    /\ GitReturn(r)
    /\ UNCHANGED <<gitRows, httpCreds, gitStacks, gitCuts>>

(* updateGitConnectionCredentialHandler: an empty password keeps the stored *)
(* one, which must exist then.                                              *)
UpdateCredential(r, c, typed) ==
    /\ gitRows[c] = "http_password"
    /\ typed \/ c \in httpCreds
    /\ GitStart(r, "credential", "keys", c)
    /\ UNCHANGED <<gitRows, sshKeys, httpCreds, gitStacks, gitCuts>>

StoreCredential(r) ==
    /\ GitAt(r, "credential", "keys")
    /\ httpCreds' = httpCreds \union {gitReq[r].conn}
    /\ GitReturn(r)
    /\ UNCHANGED <<gitRows, sshKeys, gitStacks, gitCuts>>

(* Slip: the use of a connection is not looked at.                          *)
GitConnectionInUseNever(c) == FALSE

GitConnectionInUse(c) == \E s \in GitStack : gitStacks[s] = c

(* deleteGitConnectionHandler: refused while a stack uses it; then the key, *)
(* the credential and the row, a statement each.                            *)
DeleteGitConnection(r, c) ==
    /\ gitRows[c] # "none"
    /\ ~ GitConnectionInUse(c)
    /\ GitStart(r, "delete", "ssh", c)
    /\ UNCHANGED <<gitRows, sshKeys, httpCreds, gitStacks, gitCuts>>

DeleteSSHKey(r) ==
    /\ GitAt(r, "delete", "ssh")
    /\ sshKeys' = sshKeys \ {gitReq[r].conn}
    /\ GitGoto(r, "http")
    /\ UNCHANGED <<gitRows, httpCreds, gitStacks, gitCuts>>

DeleteHTTPCredential(r) ==
    /\ GitAt(r, "delete", "http")
    /\ httpCreds' = httpCreds \ {gitReq[r].conn}
    /\ GitGoto(r, "row")
    /\ UNCHANGED <<gitRows, sshKeys, gitStacks, gitCuts>>

DeleteGitRow(r) ==
    /\ GitAt(r, "delete", "row")
    /\ gitRows' = [gitRows EXCEPT ![gitReq[r].conn] = "none"]
    /\ GitReturn(r)
    /\ UNCHANGED <<sshKeys, httpCreds, gitStacks, gitCuts>>

-----------------------------------------------------------------------------
(* createStackHandler: the connection is looked up, the stack inserted      *)
(* later.  No other handler changes a stack's connection.                   *)
ChooseConnection(r, s, c) ==
    /\ gitStacks[s] = "none"
    /\ c # NoGitConn => gitRows[c] # "none"
    /\ gitReq[r].op = "none"
    /\ GitStep(r, [NoGitReq EXCEPT !.op = "stack", !.pc = "insert", !.conn = c, !.stack = s])
    /\ UNCHANGED <<gitRows, sshKeys, httpCreds, gitStacks, gitCuts>>

InsertStack(r) ==
    /\ GitAt(r, "stack", "insert")
    /\ gitStacks' = IF gitStacks[gitReq[r].stack] = "none"
                    THEN [gitStacks EXCEPT ![gitReq[r].stack] = gitReq[r].conn]
                    ELSE gitStacks
    /\ GitReturn(r)
    /\ UNCHANGED <<gitRows, sshKeys, httpCreds, gitCuts>>

DeleteGitStack(s) ==
    /\ gitStacks[s] # "none"
    /\ gitStacks' = [gitStacks EXCEPT ![s] = "none"]
    /\ UNCHANGED <<gitRows, sshKeys, httpCreds, gitReq, gitRaced, gitCuts>>

(* A statement fails, or the controller stops: the handler ends where it is. *)
GitCutShort(r) ==
    /\ gitReq[r].op # "none"
    /\ gitCuts < MaxGitCuts
    /\ gitCuts' = gitCuts + 1
    /\ GitReturn(r)
    /\ UNCHANGED <<gitRows, sshKeys, httpCreds, gitStacks>>

-----------------------------------------------------------------------------
GitInit ==
    /\ gitRows = [c \in GitConn |-> "none"]
    /\ sshKeys = {}
    /\ httpCreds = {}
    /\ gitStacks = [s \in GitStack |-> "none"]
    /\ gitReq = [r \in GitReq |-> NoGitReq]
    /\ gitRaced = FALSE
    /\ gitCuts = 0

GitRequest(r) ==
    \/ \E c \in GitConn, kind \in AuthKind : CreateGitConnection(r, c, kind)
    \/ \E c \in GitConn : Regenerate(r, c) \/ DeleteGitConnection(r, c)
    \/ \E c \in GitConn, typed \in BOOLEAN : UpdateCredential(r, c, typed)
    \/ CreateKeys(r) \/ StoreGenerated(r) \/ StoreCredential(r)
    \/ DeleteSSHKey(r) \/ DeleteHTTPCredential(r) \/ DeleteGitRow(r)
    \/ \E s \in GitStack, c \in GitConn \union {NoGitConn} : ChooseConnection(r, s, c)
    \/ InsertStack(r) \/ GitCutShort(r)

GitNext ==
    \/ \E s \in GitStack : DeleteGitStack(s)
    \/ \E r \in GitReq : GitRequest(r)

GitSpec == GitInit /\ [][GitNext]_gitVars

-----------------------------------------------------------------------------
(* What resolveGitAuth hands to the agent for a connection: nothing, or a   *)
(* credential of the row's kind.                                            *)
AuthFor(c) ==
    CASE gitRows[c] = "ssh_key" /\ c \in sshKeys -> "ssh"
      [] gitRows[c] = "http_password" /\ c \in httpCreds -> "http"
      [] OTHER -> "none"

(* Unless a deletion overlapped another request on its connection: every    *)
(* stack's connection is there (also when requests break off half way), and *)
(* none but a connection's own kind of key is stored under its id, so that  *)
(* an id that is used again starts without the key of its predecessor.      *)
GitConnectionsAreWhole ==
    ~ gitRaced =>
        /\ \A s \in GitStack : gitStacks[s] \in GitConn => gitRows[gitStacks[s]] # "none"
        /\ \A c \in GitConn : /\ c \in sshKeys => gitRows[c] = "ssh_key"
                              /\ c \in httpCreds => gitRows[c] = "http_password"

(* Unless a deletion overlapped, a credential a stack could be deployed     *)
(* with stays usable for as long as a stack uses the connection: no edit    *)
(* takes it away.                                                           *)
UsedAuthStays ==
    [][\A c \in GitConn : /\ AuthFor(c) # "none" /\ GitConnectionInUse(c) /\ ~ gitRaced'
                          => AuthFor(c)' = AuthFor(c)]_gitVars

(* git_connections.go, deleteGitConnectionHandler: "so a connection several *)
(* stacks share can't be pulled out from under them by mistake".            *)
NotPulledOut ==
    \A s \in GitStack : gitStacks[s] \in GitConn => gitRows[gitStacks[s]] # "none"
=============================================================================
