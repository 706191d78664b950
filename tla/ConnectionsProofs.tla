------------------------- MODULE ConnectionsProofs -------------------------
(* The connections to secret providers, Git hosts and backup destinations, *)
(* for any number of connections, stacks, jobs and requests.               *)
EXTENDS GitConnections, BackupDestinations, SecretConnections, TLAPS

-----------------------------------------------------------------------------
(* Git connections: the inductive invariant.                                *)

GitTypeOK ==
    /\ gitRows \in [GitConn -> AuthKind \union {"none"}]
    /\ sshKeys \subseteq GitConn /\ httpCreds \subseteq GitConn
    /\ gitStacks \in [GitStack -> GitConn \union {NoGitConn, "none"}]
    /\ gitReq \in [GitReq -> GitReqState]
    /\ gitRaced \in BOOLEAN

(* A request names what it works on: a connection, or the stack it makes.   *)
GitReqNames ==
    \A r \in GitReq : LET q == gitReq[r] IN
        /\ q.op \notin {"none", "stack"} => q.conn \in GitConn
        /\ q.op = "stack" => q.stack \in GitStack

(* Two requests of which one deletes a connection have been noticed.        *)
GitRacesNoticed ==
    \A q, r \in GitReq : q # r /\ GitConflict(gitReq[q], gitReq[r]) => gitRaced

(* What a request found when it looked at its connection still holds.       *)
GitFound(q) ==
    /\ q.op = "create" => gitRows[q.conn] = q.kind
    /\ q.op = "regenerate" => gitRows[q.conn] = "ssh_key"
    /\ q.op = "credential" => gitRows[q.conn] = "http_password"
    /\ q.op = "stack" /\ q.conn \in GitConn => gitRows[q.conn] # "none"
    /\ q.op = "delete" => /\ gitRows[q.conn] # "none" /\ ~ GitConnectionInUse(q.conn)
                          /\ q.pc \in {"ssh", "http", "row"}
                          /\ q.pc \in {"http", "row"} => q.conn \notin sshKeys
                          /\ q.pc = "row" => q.conn \notin httpCreds

GitReqsStand == ~ gitRaced => \A r \in GitReq : GitFound(gitReq[r])

GitIInv == GitTypeOK /\ GitReqNames /\ GitRacesNoticed /\ GitReqsStand /\ GitConnectionsAreWhole

(* Nothing is stored and nobody is at work.                                 *)
LEMMA GitInitIInv == GitInit => GitIInv
<1> SUFFICES ASSUME GitInit PROVE GitIInv
    OBVIOUS
<1> USE GitConnectionsAssumption DEF GitInit, NoGitReq
<1>1. GitTypeOK /\ GitReqNames
    BY DEF GitTypeOK, GitReqNames, GitReqState, AuthKind
<1>2. GitRacesNoticed /\ GitReqsStand
    BY DEF GitRacesNoticed, GitConflict, GitReqsStand, GitFound
<1>3. GitConnectionsAreWhole
    BY DEF GitConnectionsAreWhole
<1> QED
    BY <1>1, <1>2, <1>3 DEF GitIInv

(* What a step of request r to x does to the requests: they stay well       *)
(* formed, and a race with another one is noticed.                          *)
GitMoved(r, x) ==
    /\ gitReq' \in [GitReq -> GitReqState] /\ gitRaced' \in BOOLEAN
    /\ gitReq'[r] = x /\ \A q \in GitReq \ {r} : gitReq'[q] = gitReq[q]
    /\ GitReqNames' /\ GitRacesNoticed'
    /\ ~ gitRaced' => ~ gitRaced /\ \A q \in GitReq \ {r} :
           ~ GitConflict(x, gitReq[q]) /\ ~ GitConflict(gitReq[q], x)

LEMMA GitStepFrame ==
    ASSUME GitIInv, NEW r \in GitReq, NEW x \in GitReqState, GitStep(r, x),
           x.op \notin {"none", "stack"} => x.conn \in GitConn,
           x.op = "stack" => x.stack \in GitStack
    PROVE  GitMoved(r, x)
<1> USE DEF GitIInv, GitTypeOK, GitStep
<1>1. /\ gitReq' \in [GitReq -> GitReqState] /\ gitRaced' \in BOOLEAN
      /\ gitReq'[r] = x /\ \A q \in GitReq \ {r} : gitReq'[q] = gitReq[q]
    OBVIOUS
<1>2. GitReqNames'
    BY <1>1 DEF GitReqNames
<1>3. ~ gitRaced' => ~ gitRaced /\ \A q \in GitReq \ {r} :
          ~ GitConflict(x, gitReq[q]) /\ ~ GitConflict(gitReq[q], x)
    OBVIOUS
<1>4. GitRacesNoticed'
    BY <1>1, <1>3 DEF GitRacesNoticed
<1> QED
    BY <1>1, <1>2, <1>3, <1>4 DEF GitMoved

(* The state of a request that has ended.                                   *)
LEMMA NoGitReqType == NoGitReq \in GitReqState /\ NoGitReq.op = "none"
BY DEF NoGitReq, GitReqState, AuthKind

(* Every step of a request on Git connections keeps the invariant.          *)
LEMMA GitRequestIInv ==
    ASSUME GitIInv, NEW r \in GitReq, GitRequest(r)
    PROVE  GitIInv'
<1> USE GitConnectionsAssumption
<1>0. /\ GitTypeOK /\ gitReq[r] \in GitReqState
      /\ gitReq[r].op \notin {"none", "stack"} => gitReq[r].conn \in GitConn
      /\ gitReq[r].op = "stack" => gitReq[r].stack \in GitStack
    BY DEF GitIInv, GitTypeOK, GitReqNames
<1>a. ~ gitRaced => /\ \A q \in GitReq : GitFound(gitReq[q])
                    /\ \A q \in GitReq \ {r} : ~ GitConflict(gitReq[r], gitReq[q])
                                               /\ ~ GitConflict(gitReq[q], gitReq[r])
    BY DEF GitIInv, GitReqsStand, GitRacesNoticed
<1>b. ASSUME ~ gitRaced' => ~ gitRaced /\ \A q \in GitReq : GitFound(gitReq[q])' PROVE GitReqsStand'
    BY <1>b DEF GitReqsStand
<1>1. ASSUME NEW c \in GitConn, NEW kind \in AuthKind, CreateGitConnection(r, c, kind) PROVE GitIInv'
    <2> DEFINE x == [NoGitReq EXCEPT !.op = "create", !.pc = "keys", !.conn = c, !.kind = kind]
    <2>1. x \in GitReqState /\ x.op = "create" /\ x.conn = c /\ x.kind = kind
        BY <1>0, <1>1, NoGitReqType DEF CreateGitConnection, GitReqState, NoGitReq
    <2>2. GitStep(r, x)
        BY <1>1 DEF CreateGitConnection
    <2> HIDE DEF x
    <2>3. GitMoved(r, x)
        BY <1>0, <1>1, <2>1, <2>2, GitStepFrame
    <2>4. GitTypeOK'
        BY <1>0, <1>1, <2>3 DEF CreateGitConnection, GitTypeOK, GitMoved
    <2>5. GitReqsStand'
        BY <1>0, <1>1, <1>a, <2>1, <2>3
        DEF CreateGitConnection, GitReqsStand, GitFound, GitTypeOK, GitConnectionInUse, GitConflict, GitMoved, GitReqState, AuthKind
    <2>6. GitConnectionsAreWhole'
        BY <1>0, <1>1, <1>a, <2>3 DEF CreateGitConnection, GitFound, GitTypeOK, GitConnectionsAreWhole, GitConnectionInUse, GitIInv, GitMoved
    <2> QED
        BY <2>3, <2>4, <2>5, <2>6 DEF GitIInv, GitMoved
<1>2. ASSUME NEW c \in GitConn, Regenerate(r, c) PROVE GitIInv'
    <2> DEFINE x == [NoGitReq EXCEPT !.op = "regenerate", !.pc = "keys", !.conn = c]
    <2>1. x \in GitReqState /\ x.op = "regenerate" /\ x.conn = c
        BY <1>0, <1>2, NoGitReqType DEF Regenerate, GitStart, GitReqState, NoGitReq
    <2>2. GitStep(r, x)
        BY <1>2 DEF Regenerate, GitStart
    <2> HIDE DEF x
    <2>3. GitMoved(r, x)
        BY <1>0, <1>2, <2>1, <2>2, GitStepFrame
    <2>4. GitTypeOK'
        BY <1>0, <1>2, <2>3 DEF Regenerate, GitStart, GitTypeOK, GitMoved
    <2>5. GitReqsStand'
        BY <1>0, <1>2, <1>a, <2>1, <2>3
        DEF Regenerate, GitStart, GitReqsStand, GitFound, GitTypeOK, GitConnectionInUse, GitConflict, GitMoved
    <2>6. GitConnectionsAreWhole'
        BY <1>0, <1>2, <1>a, <2>3 DEF Regenerate, GitStart, GitFound, GitTypeOK, GitConnectionsAreWhole, GitConnectionInUse, GitIInv, GitMoved
    <2> QED
        BY <2>3, <2>4, <2>5, <2>6 DEF GitIInv, GitMoved
<1>3. ASSUME NEW c \in GitConn, DeleteGitConnection(r, c) PROVE GitIInv'
    <2> DEFINE x == [NoGitReq EXCEPT !.op = "delete", !.pc = "ssh", !.conn = c]
    <2>1. x \in GitReqState /\ x.op = "delete" /\ x.pc = "ssh" /\ x.conn = c
        BY <1>0, <1>3, NoGitReqType DEF DeleteGitConnection, GitStart, GitReqState, NoGitReq
    <2>2. GitStep(r, x)
        BY <1>3 DEF DeleteGitConnection, GitStart
    <2> HIDE DEF x
    <2>3. GitMoved(r, x)
        BY <1>0, <1>3, <2>1, <2>2, GitStepFrame
    <2>4. GitTypeOK'
        BY <1>0, <1>3, <2>3 DEF DeleteGitConnection, GitStart, GitTypeOK, GitMoved
    <2>5. GitReqsStand'
        BY <1>0, <1>3, <1>a, <2>1, <2>3
        DEF DeleteGitConnection, GitStart, GitReqsStand, GitFound, GitTypeOK, GitConnectionInUse, GitConflict, GitMoved
    <2>6. GitConnectionsAreWhole'
        BY <1>0, <1>3, <1>a, <2>3 DEF DeleteGitConnection, GitStart, GitFound, GitTypeOK, GitConnectionsAreWhole, GitConnectionInUse, GitIInv, GitMoved
    <2> QED
        BY <2>3, <2>4, <2>5, <2>6 DEF GitIInv, GitMoved
<1>4. ASSUME NEW c \in GitConn, NEW typed \in BOOLEAN, UpdateCredential(r, c, typed) PROVE GitIInv'
    <2> DEFINE x == [NoGitReq EXCEPT !.op = "credential", !.pc = "keys", !.conn = c]
    <2>1. x \in GitReqState /\ x.op = "credential" /\ x.conn = c
        BY <1>0, <1>4, NoGitReqType DEF UpdateCredential, GitStart, GitReqState, NoGitReq
    <2>2. GitStep(r, x)
        BY <1>4 DEF UpdateCredential, GitStart
    <2> HIDE DEF x
    <2>3. GitMoved(r, x)
        BY <1>0, <1>4, <2>1, <2>2, GitStepFrame
    <2>4. GitTypeOK'
        BY <1>0, <1>4, <2>3 DEF UpdateCredential, GitStart, GitTypeOK, GitMoved
    <2>5. GitReqsStand'
        BY <1>0, <1>4, <1>a, <2>1, <2>3
        DEF UpdateCredential, GitStart, GitReqsStand, GitFound, GitTypeOK, GitConnectionInUse, GitConflict, GitMoved
    <2>6. GitConnectionsAreWhole'
        BY <1>0, <1>4, <1>a, <2>3 DEF UpdateCredential, GitStart, GitFound, GitTypeOK, GitConnectionsAreWhole, GitConnectionInUse, GitIInv, GitMoved
    <2> QED
        BY <2>3, <2>4, <2>5, <2>6 DEF GitIInv, GitMoved
<1>5. CASE CreateKeys(r)
    <2> DEFINE x == NoGitReq
    <2>1. x \in GitReqState /\ x.op = "none"
        BY <1>0, <1>5, NoGitReqType DEF CreateKeys, GitReturn, GitAt, GitReqState, NoGitReq
    <2>2. GitStep(r, x)
        BY <1>5 DEF CreateKeys, GitReturn, GitAt
    <2> HIDE DEF x
    <2>3. GitMoved(r, x)
        BY <1>0, <1>5, <2>1, <2>2, GitStepFrame
    <2>4. GitTypeOK'
        BY <1>0, <1>5, <2>3 DEF CreateKeys, GitReturn, GitAt, GitTypeOK, GitMoved
    <2>5. GitReqsStand'
        BY <1>0, <1>5, <1>a, <2>1, <2>3
        DEF CreateKeys, GitReturn, GitAt, GitReqsStand, GitFound, GitTypeOK, GitConnectionInUse, GitConflict, GitMoved
    <2>6. GitConnectionsAreWhole'
        BY <1>0, <1>5, <1>a, <2>3 DEF CreateKeys, GitReturn, GitAt, GitFound, GitTypeOK, GitConnectionsAreWhole, GitConnectionInUse, GitIInv, GitMoved
    <2> QED
        BY <2>3, <2>4, <2>5, <2>6 DEF GitIInv, GitMoved
<1>6. CASE StoreGenerated(r)
    <2> DEFINE x == NoGitReq
    <2>1. x \in GitReqState /\ x.op = "none"
        BY <1>0, <1>6, NoGitReqType DEF StoreGenerated, GitReturn, GitAt, GitReqState, NoGitReq
    <2>2. GitStep(r, x)
        BY <1>6 DEF StoreGenerated, GitReturn, GitAt
    <2> HIDE DEF x
    <2>3. GitMoved(r, x)
        BY <1>0, <1>6, <2>1, <2>2, GitStepFrame
    <2>4. GitTypeOK'
        BY <1>0, <1>6, <2>3 DEF StoreGenerated, GitReturn, GitAt, GitTypeOK, GitMoved
    <2>5. GitReqsStand'
        BY <1>0, <1>6, <1>a, <2>1, <2>3
        DEF StoreGenerated, GitReturn, GitAt, GitReqsStand, GitFound, GitTypeOK, GitConnectionInUse, GitConflict, GitMoved
    <2>6. GitConnectionsAreWhole'
        BY <1>0, <1>6, <1>a, <2>3 DEF StoreGenerated, GitReturn, GitAt, GitFound, GitTypeOK, GitConnectionsAreWhole, GitConnectionInUse, GitIInv, GitMoved
    <2> QED
        BY <2>3, <2>4, <2>5, <2>6 DEF GitIInv, GitMoved
<1>7. CASE StoreCredential(r)
    <2> DEFINE x == NoGitReq
    <2>1. x \in GitReqState /\ x.op = "none"
        BY <1>0, <1>7, NoGitReqType DEF StoreCredential, GitReturn, GitAt, GitReqState, NoGitReq
    <2>2. GitStep(r, x)
        BY <1>7 DEF StoreCredential, GitReturn, GitAt
    <2> HIDE DEF x
    <2>3. GitMoved(r, x)
        BY <1>0, <1>7, <2>1, <2>2, GitStepFrame
    <2>4. GitTypeOK'
        BY <1>0, <1>7, <2>3 DEF StoreCredential, GitReturn, GitAt, GitTypeOK, GitMoved
    <2>5. GitReqsStand'
        BY <1>0, <1>7, <1>a, <2>1, <2>3
        DEF StoreCredential, GitReturn, GitAt, GitReqsStand, GitFound, GitTypeOK, GitConnectionInUse, GitConflict, GitMoved
    <2>6. GitConnectionsAreWhole'
        BY <1>0, <1>7, <1>a, <2>3 DEF StoreCredential, GitReturn, GitAt, GitFound, GitTypeOK, GitConnectionsAreWhole, GitConnectionInUse, GitIInv, GitMoved
    <2> QED
        BY <2>3, <2>4, <2>5, <2>6 DEF GitIInv, GitMoved
<1>8. CASE DeleteSSHKey(r)
    <2> DEFINE x == [gitReq[r] EXCEPT !.pc = "http"]
    <2>1. x \in GitReqState /\ x.op = "delete" /\ x.pc = "http" /\ x.conn = gitReq[r].conn
        BY <1>0, <1>8 DEF DeleteSSHKey, GitGoto, GitAt, GitReqState, NoGitReq
    <2>2. GitStep(r, x)
        BY <1>8 DEF DeleteSSHKey, GitGoto, GitAt
    <2> HIDE DEF x
    <2>3. GitMoved(r, x)
        BY <1>0, <1>8, <2>1, <2>2, GitStepFrame DEF GitAt, DeleteSSHKey
    <2>4. GitTypeOK'
        BY <1>0, <1>8, <2>3 DEF DeleteSSHKey, GitGoto, GitAt, GitTypeOK, GitMoved
    <2>5. GitReqsStand'
        BY <1>0, <1>8, <1>a, <2>1, <2>3
        DEF DeleteSSHKey, GitGoto, GitAt, GitReqsStand, GitFound, GitTypeOK, GitConnectionInUse, GitConflict, GitMoved
    <2>6. GitConnectionsAreWhole'
        BY <1>0, <1>8, <1>a, <2>3 DEF DeleteSSHKey, GitGoto, GitAt, GitFound, GitTypeOK, GitConnectionsAreWhole, GitConnectionInUse, GitIInv, GitMoved
    <2> QED
        BY <2>3, <2>4, <2>5, <2>6 DEF GitIInv, GitMoved
<1>9. CASE DeleteHTTPCredential(r)
    <2> DEFINE x == [gitReq[r] EXCEPT !.pc = "row"]
    <2>1. x \in GitReqState /\ x.op = "delete" /\ x.pc = "row" /\ x.conn = gitReq[r].conn
        BY <1>0, <1>9 DEF DeleteHTTPCredential, GitGoto, GitAt, GitReqState, NoGitReq
    <2>2. GitStep(r, x)
        BY <1>9 DEF DeleteHTTPCredential, GitGoto, GitAt
    <2> HIDE DEF x
    <2>3. GitMoved(r, x)
        BY <1>0, <1>9, <2>1, <2>2, GitStepFrame DEF GitAt, DeleteHTTPCredential
    <2>4. GitTypeOK'
        BY <1>0, <1>9, <2>3 DEF DeleteHTTPCredential, GitGoto, GitAt, GitTypeOK, GitMoved
    <2>5. GitReqsStand'
        BY <1>0, <1>9, <1>a, <2>1, <2>3
        DEF DeleteHTTPCredential, GitGoto, GitAt, GitReqsStand, GitFound, GitTypeOK, GitConnectionInUse, GitConflict, GitMoved
    <2>6. GitConnectionsAreWhole'
        BY <1>0, <1>9, <1>a, <2>3 DEF DeleteHTTPCredential, GitGoto, GitAt, GitFound, GitTypeOK, GitConnectionsAreWhole, GitConnectionInUse, GitIInv, GitMoved
    <2> QED
        BY <2>3, <2>4, <2>5, <2>6 DEF GitIInv, GitMoved
<1>10. CASE DeleteGitRow(r)
    <2> DEFINE x == NoGitReq
    <2>1. x \in GitReqState /\ x.op = "none"
        BY <1>0, <1>10, NoGitReqType DEF DeleteGitRow, GitReturn, GitAt, GitReqState, NoGitReq
    <2>2. GitStep(r, x)
        BY <1>10 DEF DeleteGitRow, GitReturn, GitAt
    <2> HIDE DEF x
    <2>3. GitMoved(r, x)
        BY <1>0, <1>10, <2>1, <2>2, GitStepFrame
    <2>4. GitTypeOK'
        BY <1>0, <1>10, <2>3 DEF DeleteGitRow, GitReturn, GitAt, GitTypeOK, GitMoved
    <2>5. GitReqsStand'
        BY <1>0, <1>10, <1>a, <2>1, <2>3
        DEF DeleteGitRow, GitReturn, GitAt, GitReqsStand, GitFound, GitTypeOK, GitConnectionInUse, GitConflict, GitMoved
    <2>6. GitConnectionsAreWhole'
        BY <1>0, <1>10, <1>a, <2>3 DEF DeleteGitRow, GitReturn, GitAt, GitFound, GitTypeOK, GitConnectionsAreWhole, GitConnectionInUse, GitIInv, GitMoved
    <2> QED
        BY <2>3, <2>4, <2>5, <2>6 DEF GitIInv, GitMoved
<1>11. ASSUME NEW s \in GitStack, NEW c \in GitConn \union {NoGitConn}, ChooseConnection(r, s, c) PROVE GitIInv'
    <2> DEFINE x == [NoGitReq EXCEPT !.op = "stack", !.pc = "insert", !.conn = c, !.stack = s]
    <2>1. x \in GitReqState /\ x.op = "stack" /\ x.conn = c /\ x.stack = s
        BY <1>0, <1>11, NoGitReqType DEF ChooseConnection, GitReqState, NoGitReq
    <2>2. GitStep(r, x)
        BY <1>11 DEF ChooseConnection
    <2> HIDE DEF x
    <2>3. GitMoved(r, x)
        BY <1>0, <1>11, <2>1, <2>2, GitStepFrame
    <2>4. GitTypeOK'
        BY <1>0, <1>11, <2>3 DEF ChooseConnection, GitTypeOK, GitMoved
    <2>5. GitReqsStand'
        BY <1>0, <1>11, <1>a, <2>1, <2>3
        DEF ChooseConnection, GitReqsStand, GitFound, GitTypeOK, GitConnectionInUse, GitConflict, GitMoved
    <2>6. GitConnectionsAreWhole'
        BY <1>0, <1>11, <1>a, <2>3 DEF ChooseConnection, GitFound, GitTypeOK, GitConnectionsAreWhole, GitConnectionInUse, GitIInv, GitMoved
    <2> QED
        BY <2>3, <2>4, <2>5, <2>6 DEF GitIInv, GitMoved
<1>12. CASE InsertStack(r)
    <2> DEFINE x == NoGitReq
    <2>1. x \in GitReqState /\ x.op = "none"
        BY <1>0, <1>12, NoGitReqType DEF InsertStack, GitReturn, GitAt, GitReqState, NoGitReq
    <2>2. GitStep(r, x)
        BY <1>12 DEF InsertStack, GitReturn, GitAt
    <2> HIDE DEF x
    <2>3. GitMoved(r, x)
        BY <1>0, <1>12, <2>1, <2>2, GitStepFrame
    <2>4. GitTypeOK'
        BY <1>0, <1>12, <2>3 DEF InsertStack, GitReturn, GitAt, GitTypeOK, GitMoved, GitReqState
    <2>5. GitReqsStand'
        BY <1>0, <1>12, <1>a, <2>1, <2>3
        DEF InsertStack, GitReturn, GitAt, GitReqsStand, GitFound, GitTypeOK, GitConnectionInUse, GitConflict, GitMoved
    <2>6. GitConnectionsAreWhole'
        BY <1>0, <1>12, <1>a, <2>3 DEF InsertStack, GitReturn, GitAt, GitFound, GitTypeOK, GitConnectionsAreWhole, GitConnectionInUse, GitIInv, GitMoved
    <2> QED
        BY <2>3, <2>4, <2>5, <2>6 DEF GitIInv, GitMoved
<1>13. CASE GitCutShort(r)
    <2> DEFINE x == NoGitReq
    <2>1. x \in GitReqState /\ x.op = "none"
        BY <1>0, <1>13, NoGitReqType DEF GitCutShort, GitReturn, GitReqState, NoGitReq
    <2>2. GitStep(r, x)
        BY <1>13 DEF GitCutShort, GitReturn
    <2> HIDE DEF x
    <2>3. GitMoved(r, x)
        BY <1>0, <1>13, <2>1, <2>2, GitStepFrame
    <2>4. GitTypeOK'
        BY <1>0, <1>13, <2>3 DEF GitCutShort, GitReturn, GitTypeOK, GitMoved
    <2>5. GitReqsStand'
        BY <1>0, <1>13, <1>a, <2>1, <2>3
        DEF GitCutShort, GitReturn, GitReqsStand, GitFound, GitTypeOK, GitConnectionInUse, GitConflict, GitMoved
    <2>6. GitConnectionsAreWhole'
        BY <1>0, <1>13, <1>a, <2>3 DEF GitCutShort, GitReturn, GitFound, GitTypeOK, GitConnectionsAreWhole, GitConnectionInUse, GitIInv, GitMoved
    <2> QED
        BY <2>3, <2>4, <2>5, <2>6 DEF GitIInv, GitMoved
<1> QED
    BY <1>1, <1>2, <1>3, <1>4, <1>5, <1>6, <1>7, <1>8, <1>9, <1>10, <1>11, <1>12, <1>13 DEF GitRequest

(* Every step keeps the invariant.                                          *)
LEMMA GitNextIInv == GitIInv /\ [GitNext]_gitVars => GitIInv'
<1> SUFFICES ASSUME GitIInv, [GitNext]_gitVars PROVE GitIInv'
    OBVIOUS
<1> USE GitConnectionsAssumption DEF GitIInv, GitTypeOK, GitReqNames, GitRacesNoticed, GitConflict,
        GitReqsStand, GitFound, GitConnectionsAreWhole, GitConnectionInUse
<1>1. ASSUME NEW s \in GitStack, DeleteGitStack(s) PROVE GitIInv'
    BY <1>1 DEF DeleteGitStack
<1>2. CASE UNCHANGED gitVars
    BY <1>2 DEF gitVars
<1> QED
    BY <1>1, <1>2, GitRequestIInv DEF GitNext

(* Every connection a stack uses is there and no id holds a key of the      *)
(* wrong kind, unless a deletion overlapped another request.                *)
THEOREM GitWhole == GitSpec => []GitConnectionsAreWhole
<1>1. GitIInv => GitConnectionsAreWhole
    BY DEF GitIInv
<1> QED
    BY GitInitIInv, GitNextIInv, <1>1, PTL DEF GitSpec

(* Only a deletion takes a key, a credential or a row away, and it has      *)
(* looked whether the connection is in use.                                 *)
LEMMA GitStepKeepsAuth ==
    ASSUME GitIInv, GitNext, NEW c \in GitConn,
           AuthFor(c) # "none", GitConnectionInUse(c), ~ gitRaced'
    PROVE  AuthFor(c)' = AuthFor(c)
<1>1. /\ c \in sshKeys => c \in sshKeys'
      /\ c \in httpCreds => c \in httpCreds'
      /\ gitRows'[c] = gitRows[c]
    <2>0. GitTypeOK /\ gitRows[c] # "none"
        BY DEF AuthFor, GitIInv
    <2>1. ASSUME NEW r \in GitReq, GitRequest(r)
          PROVE  /\ c \in sshKeys => c \in sshKeys'
                 /\ c \in httpCreds => c \in httpCreds'
                 /\ gitRows'[c] = gitRows[c]
        <3>1. ~ gitRaced
            BY <2>1 DEF GitRequest, CreateGitConnection, Regenerate, DeleteGitConnection, UpdateCredential,
               CreateKeys, StoreGenerated, StoreCredential, DeleteSSHKey, DeleteHTTPCredential,
               DeleteGitRow, ChooseConnection, InsertStack, GitCutShort, GitStart, GitGoto, GitReturn, GitStep
        <3>2. gitReq[r].op = "delete" => gitReq[r].conn # c
            BY <3>1 DEF GitIInv, GitReqsStand, GitFound
        <3> QED
            BY <2>0, <2>1, <3>2 DEF GitTypeOK, GitRequest, CreateGitConnection, Regenerate, DeleteGitConnection,
               UpdateCredential, CreateKeys, StoreGenerated, StoreCredential, DeleteSSHKey,
               DeleteHTTPCredential, DeleteGitRow, ChooseConnection, InsertStack, GitCutShort, GitAt
    <2>2. ASSUME NEW s \in GitStack, DeleteGitStack(s)
          PROVE  UNCHANGED <<sshKeys, httpCreds, gitRows>>
        BY <2>2 DEF DeleteGitStack
    <2> QED
        BY <2>1, <2>2 DEF GitNext
<1> QED
    BY <1>1 DEF AuthFor

(* No edit takes a usable credential away from a connection that stacks     *)
(* use, for any number of requests at once.                                 *)
THEOREM GitAuthStays == GitSpec => UsedAuthStays
<1>1. GitIInv /\ [GitNext]_gitVars =>
          [\A c \in GitConn : /\ AuthFor(c) # "none" /\ GitConnectionInUse(c) /\ ~ gitRaced'
                              => AuthFor(c)' = AuthFor(c)]_gitVars
    BY GitStepKeepsAuth
<1> QED
    BY GitInitIInv, GitNextIInv, <1>1, PTL DEF GitSpec, UsedAuthStays

-----------------------------------------------------------------------------
(* Backup destinations: the inductive invariant.                            *)

DestTypeOK ==
    /\ dests \in [Dest -> Share \union {NoShare}] /\ destDrawn \subseteq Dest
    /\ passwords \in [Dest -> Passwords]
    /\ destJobs \in [DestJob -> Dest \union {NoDest}]
    /\ repos \in [Dest -> Repo]
    /\ work \in [DestJob -> Run]
    /\ destReq \in [DestReq -> DestReqState]
    /\ misled \in BOOLEAN

(* A request has an id that was given out, and what else its kind needs.    *)
DestNamed(q) ==
    /\ q.op # "none" => q.dest \in destDrawn
    /\ q.op \in {"create", "update", "probe"} => q.share \in Share
    /\ q.op = "job" => q.job \in DestJob
    /\ q.pc = "clear" => q.op \in {"update", "delete"}
    /\ q.op = "delete" => q.pc \in {"row", "clear", "creds"}

DestIds ==
    /\ \A d \in Dest : There(d) => d \in destDrawn
    /\ \A r \in DestReq : DestNamed(destReq[r])
    /\ \A j \in DestJob : work[j] = NoRun \/ work[j].dest \in Dest

(* Until its row is there, a new destination belongs to the request that    *)
(* makes it.                                                                *)
CreatedAlone ==
    \A r \in DestReq : destReq[r].op = "create" =>
        /\ ~ There(destReq[r].dest) /\ "repo" \in passwords[destReq[r].dest]
        /\ \A q \in DestReq \ {r} : destReq[q].op # "none" => destReq[q].dest # destReq[r].dest

(* An edit that is about to write the passwords back holds the repository's *)
(* unless the destination is gone; a deletion takes them after the row.     *)
PasswordHeld ==
    \A r \in DestReq : LET q == destReq[r] IN
        /\ q.op = "update" /\ q.pc = "write" /\ There(q.dest) => "repo" \in q.held
        /\ q.op = "delete" /\ q.pc \in {"clear", "creds"} => ~ There(q.dest)

(* What a request or a run relies on still holds.                           *)
DestFound(q) ==
    /\ q.op = "job" => There(q.dest)
    /\ q.op = "probe" => dests[q.dest] = q.share
    /\ q.op = "delete" /\ q.pc = "row" => ~ UsedBy(q.dest)

RepoIsCurrent(d) == repos[d] = Unknown \/ (There(d) /\ repos[d].share = dests[d])

NobodyMisled ==
    ~ misled =>
        /\ \A r \in DestReq : DestFound(destReq[r])
        /\ \A j \in DestJob : work[j] # NoRun =>
               destJobs[j] = work[j].dest /\ There(work[j].dest) /\ dests[work[j].dest] = work[j].share
        /\ \A d \in Dest : RepoIsCurrent(d) \/ \E r \in DestReq : destReq[r].pc = "clear" /\ destReq[r].dest = d

DestIInv == /\ DestTypeOK /\ DestIds /\ CreatedAlone /\ PasswordHeld /\ RepoPasswordStays
            /\ NobodyMisled /\ JobsHaveDestinations

(* There is no destination yet.                                             *)
LEMMA DestInitIInv == DestInit => DestIInv
<1> SUFFICES ASSUME DestInit PROVE DestIInv
    OBVIOUS
<1> USE BackupDestinationsAssumption DEF DestInit, NoDestReq, NoRun, Unknown, There
<1>1. DestTypeOK /\ DestIds
    BY DEF DestTypeOK, DestIds, DestNamed, DestReqState, Passwords, Repo, Run
<1>2. CreatedAlone /\ PasswordHeld /\ RepoPasswordStays
    BY DEF CreatedAlone, PasswordHeld, RepoPasswordStays
<1>3. NobodyMisled /\ JobsHaveDestinations
    BY DEF NobodyMisled, DestFound, RepoIsCurrent, JobsHaveDestinations
<1> QED
    BY <1>1, <1>2, <1>3 DEF DestIInv

(* What giving request r the state x does to the requests.                  *)
DestMoved(r, x) ==
    /\ destReq' \in [DestReq -> DestReqState]
    /\ destReq'[r] = x /\ \A q \in DestReq \ {r} : destReq'[q] = destReq[q]

LEMMA DestMove ==
    ASSUME DestIInv, NEW r \in DestReq, NEW x \in DestReqState, destReq' = [destReq EXCEPT ![r] = x]
    PROVE  DestMoved(r, x)
BY DEF DestIInv, DestTypeOK, DestMoved

(* The state of a request that has ended.                                   *)
LEMMA NoDestReqType ==
    NoDestReq \in DestReqState /\ NoDestReq.op = "none" /\ NoDestReq.pc = "idle" /\ NoDestReq.dest = NoDest
BY DEF NoDestReq, DestReqState, Passwords

(* Every step of a request on destinations keeps the invariant.             *)
LEMMA DestRequestIInv ==
    ASSUME DestIInv, NEW r \in DestReq, DestRequest(r)
    PROVE  DestIInv'
<1> USE BackupDestinationsAssumption
<1>0. DestTypeOK /\ DestIds /\ destReq[r] \in DestReqState /\ DestNamed(destReq[r])
    BY DEF DestIInv, DestTypeOK, DestIds
<1>1. ASSUME NEW d \in Dest, NEW sh \in Share, CreateDestination(r, d, sh) PROVE DestIInv'
    <2> DEFINE x == [NoDestReq EXCEPT !.op = "create", !.pc = "row", !.dest = d, !.share = sh]
    <2>1. x \in DestReqState /\ x.op = "create" /\ x.pc = "row" /\ x.dest = d /\ x.share = sh
        BY <1>0, <1>1, NoDestReqType DEF CreateDestination, DestStart, DestReqState, NoDestReq, DestTypeOK, DestNamed, Passwords
    <2>2. DestMoved(r, x)
        BY <1>0, <1>1, <2>1, DestMove DEF CreateDestination, DestStart
    <2> HIDE DEF x
    <2>3. DestTypeOK' /\ DestIds'
        BY <1>0, <1>1, <2>1, <2>2 DEF CreateDestination, DestStart, DestMoved, DestTypeOK, DestIds, DestNamed, DestReqState, There,
           Passwords, Repo, Unknown, RunOn, ReliesOn, Deleting
    <2>4. CreatedAlone' /\ PasswordHeld' /\ RepoPasswordStays'
        BY <1>0, <1>1, <2>1, <2>2 DEF CreateDestination, DestStart, DestMoved, DestTypeOK, DestIds, DestNamed, There,
           DestIInv, CreatedAlone, PasswordHeld, RepoPasswordStays, Passwords, DestReqState
    <2>5. NobodyMisled' /\ JobsHaveDestinations'
        BY <1>0, <1>1, <2>1, <2>2 DEF CreateDestination, DestStart, DestMoved, DestTypeOK, DestIds, DestNamed, There,
           DestIInv, CreatedAlone, NobodyMisled, DestFound, RepoIsCurrent, JobsHaveDestinations, UsedBy,
           RunOn, ReliesOn, Deleting, Unknown, NoRun
    <2> QED
        BY <2>3, <2>4, <2>5 DEF DestIInv
<1>2. ASSUME NEW d \in Dest, NEW sh \in Share, NEW typed \in BOOLEAN, UpdateDestination(r, d, sh, typed) PROVE DestIInv'
    <2> DEFINE x == [NoDestReq EXCEPT !.op = "update", !.pc = IF typed THEN "read" ELSE "row", !.dest = d, !.share = sh]
    <2>1. x \in DestReqState /\ x.op = "update" /\ x.pc \in {"read", "row"} /\ x.dest = d /\ x.share = sh
        BY <1>0, <1>2, NoDestReqType DEF UpdateDestination, DestStart, DestReqState, NoDestReq, DestTypeOK, DestNamed, Passwords
    <2>2. DestMoved(r, x)
        BY <1>0, <1>2, <2>1, DestMove DEF UpdateDestination, DestStart
    <2> HIDE DEF x
    <2>3. DestTypeOK' /\ DestIds'
        BY <1>0, <1>2, <2>1, <2>2 DEF UpdateDestination, DestStart, DestMoved, DestTypeOK, DestIds, DestNamed, DestReqState, There,
           Passwords, Repo, Unknown, RunOn, ReliesOn, Deleting
    <2>4. CreatedAlone' /\ PasswordHeld' /\ RepoPasswordStays'
        BY <1>0, <1>2, <2>1, <2>2 DEF UpdateDestination, DestStart, DestMoved, DestTypeOK, DestIds, DestNamed, There,
           DestIInv, CreatedAlone, PasswordHeld, RepoPasswordStays, Passwords, DestReqState
    <2>5. NobodyMisled' /\ JobsHaveDestinations'
        BY <1>0, <1>2, <2>1, <2>2 DEF UpdateDestination, DestStart, DestMoved, DestTypeOK, DestIds, DestNamed, There,
           DestIInv, CreatedAlone, NobodyMisled, DestFound, RepoIsCurrent, JobsHaveDestinations, UsedBy,
           RunOn, ReliesOn, Deleting, Unknown, NoRun
    <2> QED
        BY <2>3, <2>4, <2>5 DEF DestIInv
<1>3. ASSUME NEW d \in Dest, DeleteDestination(r, d) PROVE DestIInv'
    <2> DEFINE x == [NoDestReq EXCEPT !.op = "delete", !.pc = "row", !.dest = d]
    <2>1. x \in DestReqState /\ x.op = "delete" /\ x.pc = "row" /\ x.dest = d
        BY <1>0, <1>3, NoDestReqType DEF DeleteDestination, DestStart, DestReqState, NoDestReq, DestTypeOK, DestNamed, Passwords
    <2>2. DestMoved(r, x)
        BY <1>0, <1>3, <2>1, DestMove DEF DeleteDestination, DestStart
    <2> HIDE DEF x
    <2>3. DestTypeOK' /\ DestIds'
        BY <1>0, <1>3, <2>1, <2>2 DEF DeleteDestination, DestStart, DestMoved, DestTypeOK, DestIds, DestNamed, DestReqState, There,
           Passwords, Repo, Unknown, RunOn, ReliesOn, Deleting
    <2>4. CreatedAlone' /\ PasswordHeld' /\ RepoPasswordStays'
        BY <1>0, <1>3, <2>1, <2>2 DEF DeleteDestination, DestStart, DestMoved, DestTypeOK, DestIds, DestNamed, There,
           DestIInv, CreatedAlone, PasswordHeld, RepoPasswordStays, Passwords, DestReqState
    <2>5. NobodyMisled' /\ JobsHaveDestinations'
        BY <1>0, <1>3, <2>1, <2>2 DEF DeleteDestination, DestStart, DestMoved, DestTypeOK, DestIds, DestNamed, There,
           DestIInv, CreatedAlone, NobodyMisled, DestFound, RepoIsCurrent, JobsHaveDestinations, UsedBy,
           RunOn, ReliesOn, Deleting, Unknown, NoRun
    <2> QED
        BY <2>3, <2>4, <2>5 DEF DestIInv
<1>4. ASSUME NEW d \in Dest, Probe(r, d) PROVE DestIInv'
    <2> DEFINE x == [NoDestReq EXCEPT !.op = "probe", !.pc = "agent", !.dest = d, !.share = dests[d]]
    <2>1. x \in DestReqState /\ x.op = "probe" /\ x.pc = "agent" /\ x.dest = d /\ x.share = dests[d]
        BY <1>0, <1>4, NoDestReqType DEF Probe, Reachable, DestStart, DestReqState, NoDestReq, DestTypeOK, DestNamed, Passwords
    <2>2. DestMoved(r, x)
        BY <1>0, <1>4, <2>1, DestMove DEF Probe, Reachable, DestStart
    <2> HIDE DEF x
    <2>3. DestTypeOK' /\ DestIds'
        BY <1>0, <1>4, <2>1, <2>2 DEF Probe, Reachable, DestStart, DestMoved, DestTypeOK, DestIds, DestNamed, DestReqState, There,
           Passwords, Repo, Unknown, RunOn, ReliesOn, Deleting
    <2>4. CreatedAlone' /\ PasswordHeld' /\ RepoPasswordStays'
        BY <1>0, <1>4, <2>1, <2>2 DEF Probe, Reachable, DestStart, DestMoved, DestTypeOK, DestIds, DestNamed, There,
           DestIInv, CreatedAlone, PasswordHeld, RepoPasswordStays, Passwords, DestReqState
    <2>5. NobodyMisled' /\ JobsHaveDestinations'
        BY <1>0, <1>4, <2>1, <2>2 DEF Probe, Reachable, DestStart, DestMoved, DestTypeOK, DestIds, DestNamed, There,
           DestIInv, CreatedAlone, NobodyMisled, DestFound, RepoIsCurrent, JobsHaveDestinations, UsedBy,
           RunOn, ReliesOn, Deleting, Unknown, NoRun
    <2> QED
        BY <2>3, <2>4, <2>5 DEF DestIInv
<1>5. ASSUME NEW d \in Dest, NEW j \in DestJob, SaveJob(r, j, d) PROVE DestIInv'
    <2> DEFINE x == [NoDestReq EXCEPT !.op = "job", !.pc = "insert", !.dest = d, !.job = j]
    <2>1. x \in DestReqState /\ x.op = "job" /\ x.pc = "insert" /\ x.dest = d /\ x.job = j
        BY <1>0, <1>5, NoDestReqType DEF SaveJob, DestStart, DestReqState, NoDestReq, DestTypeOK, DestNamed, Passwords
    <2>2. DestMoved(r, x)
        BY <1>0, <1>5, <2>1, DestMove DEF SaveJob, DestStart
    <2> HIDE DEF x
    <2>3. DestTypeOK' /\ DestIds'
        BY <1>0, <1>5, <2>1, <2>2 DEF SaveJob, DestStart, DestMoved, DestTypeOK, DestIds, DestNamed, DestReqState, There,
           Passwords, Repo, Unknown, RunOn, ReliesOn, Deleting
    <2>4. CreatedAlone' /\ PasswordHeld' /\ RepoPasswordStays'
        BY <1>0, <1>5, <2>1, <2>2 DEF SaveJob, DestStart, DestMoved, DestTypeOK, DestIds, DestNamed, There,
           DestIInv, CreatedAlone, PasswordHeld, RepoPasswordStays, Passwords, DestReqState
    <2>5. NobodyMisled' /\ JobsHaveDestinations'
        BY <1>0, <1>5, <2>1, <2>2 DEF SaveJob, DestStart, DestMoved, DestTypeOK, DestIds, DestNamed, There,
           DestIInv, CreatedAlone, NobodyMisled, DestFound, RepoIsCurrent, JobsHaveDestinations, UsedBy,
           RunOn, ReliesOn, Deleting, Unknown, NoRun
    <2> QED
        BY <2>3, <2>4, <2>5 DEF DestIInv
<1>6. CASE CreateDestinationRow(r)
    <2> DEFINE x == NoDestReq
    <2>1. x \in DestReqState /\ x.op = "none" /\ x.pc = "idle"
        BY <1>0, <1>6, NoDestReqType DEF CreateDestinationRow, DestAt, DestReturn, DestReqState, NoDestReq, DestTypeOK, DestNamed, Passwords
    <2>2. DestMoved(r, x)
        BY <1>0, <1>6, <2>1, DestMove DEF CreateDestinationRow, DestAt, DestReturn
    <2> HIDE DEF x
    <2>3. DestTypeOK' /\ DestIds'
        BY <1>0, <1>6, <2>1, <2>2 DEF CreateDestinationRow, DestAt, DestReturn, DestMoved, DestTypeOK, DestIds, DestNamed, DestReqState, There,
           Passwords, Repo, Unknown, RunOn, ReliesOn, Deleting
    <2>4. CreatedAlone' /\ PasswordHeld' /\ RepoPasswordStays'
        BY <1>0, <1>6, <2>1, <2>2 DEF CreateDestinationRow, DestAt, DestReturn, DestMoved, DestTypeOK, DestIds, DestNamed, There,
           DestIInv, CreatedAlone, PasswordHeld, RepoPasswordStays, Passwords, DestReqState
    <2>5. NobodyMisled' /\ JobsHaveDestinations'
        BY <1>0, <1>6, <2>1, <2>2 DEF CreateDestinationRow, DestAt, DestReturn, DestMoved, DestTypeOK, DestIds, DestNamed, There,
           DestIInv, CreatedAlone, NobodyMisled, DestFound, RepoIsCurrent, JobsHaveDestinations, UsedBy,
           RunOn, ReliesOn, Deleting, Unknown, NoRun
    <2> QED
        BY <2>3, <2>4, <2>5 DEF DestIInv
<1>7. CASE UpdatePasswordRead(r)
    <2> DEFINE x == [destReq[r] EXCEPT !.pc = "write", !.held = passwords[destReq[r].dest]]
    <2>1. x \in DestReqState /\ x.op = "update" /\ x.pc = "write" /\ x.dest = destReq[r].dest /\ x.share = destReq[r].share /\ x.held = passwords[x.dest]
        BY <1>0, <1>7, NoDestReqType DEF UpdatePasswordRead, DestAt, Kept, DestReqState, NoDestReq, DestTypeOK, DestNamed, Passwords
    <2>2. DestMoved(r, x)
        BY <1>0, <1>7, <2>1, DestMove DEF UpdatePasswordRead, DestAt, Kept
    <2> HIDE DEF x
    <2>3. DestTypeOK' /\ DestIds'
        BY <1>0, <1>7, <2>1, <2>2 DEF UpdatePasswordRead, DestAt, Kept, DestMoved, DestTypeOK, DestIds, DestNamed, DestReqState, There,
           Passwords, Repo, Unknown, RunOn, ReliesOn, Deleting
    <2>4. CreatedAlone' /\ PasswordHeld' /\ RepoPasswordStays'
        BY <1>0, <1>7, <2>1, <2>2 DEF UpdatePasswordRead, DestAt, Kept, DestMoved, DestTypeOK, DestIds, DestNamed, There,
           DestIInv, CreatedAlone, PasswordHeld, RepoPasswordStays, Passwords, DestReqState
    <2>5. NobodyMisled' /\ JobsHaveDestinations'
        BY <1>0, <1>7, <2>1, <2>2 DEF UpdatePasswordRead, DestAt, Kept, DestMoved, DestTypeOK, DestIds, DestNamed, There,
           DestIInv, CreatedAlone, NobodyMisled, DestFound, RepoIsCurrent, JobsHaveDestinations, UsedBy,
           RunOn, ReliesOn, Deleting, Unknown, NoRun
    <2> QED
        BY <2>3, <2>4, <2>5 DEF DestIInv
<1>8. CASE UpdatePasswordWrite(r)
    <2> DEFINE x == [destReq[r] EXCEPT !.pc = "row"]
    <2>1. x \in DestReqState /\ x.op = "update" /\ x.pc = "row" /\ x.dest = destReq[r].dest /\ x.share = destReq[r].share
        BY <1>0, <1>8, NoDestReqType DEF UpdatePasswordWrite, DestAt, DestGoto, DestReqState, NoDestReq, DestTypeOK, DestNamed, Passwords
    <2>2. DestMoved(r, x)
        BY <1>0, <1>8, <2>1, DestMove DEF UpdatePasswordWrite, DestAt, DestGoto
    <2> HIDE DEF x
    <2>3. DestTypeOK' /\ DestIds'
        BY <1>0, <1>8, <2>1, <2>2 DEF UpdatePasswordWrite, DestAt, DestGoto, DestMoved, DestTypeOK, DestIds, DestNamed, DestReqState, There,
           Passwords, Repo, Unknown, RunOn, ReliesOn, Deleting
    <2>4. CreatedAlone' /\ PasswordHeld' /\ RepoPasswordStays'
        BY <1>0, <1>8, <2>1, <2>2 DEF UpdatePasswordWrite, DestAt, DestGoto, DestMoved, DestTypeOK, DestIds, DestNamed, There,
           DestIInv, CreatedAlone, PasswordHeld, RepoPasswordStays, Passwords, DestReqState
    <2>5. NobodyMisled' /\ JobsHaveDestinations'
        BY <1>0, <1>8, <2>1, <2>2 DEF UpdatePasswordWrite, DestAt, DestGoto, DestMoved, DestTypeOK, DestIds, DestNamed, There,
           DestIInv, CreatedAlone, NobodyMisled, DestFound, RepoIsCurrent, JobsHaveDestinations, UsedBy,
           RunOn, ReliesOn, Deleting, Unknown, NoRun
    <2> QED
        BY <2>3, <2>4, <2>5 DEF DestIInv
<1>9. ASSUME There(destReq[r].dest), UpdateDestinationRow(r) PROVE DestIInv'
    <2> DEFINE x == [destReq[r] EXCEPT !.pc = "clear"]
    <2>1. x \in DestReqState /\ x.op = "update" /\ x.pc = "clear" /\ x.dest = destReq[r].dest /\ x.share = destReq[r].share
        BY <1>0, <1>9, NoDestReqType DEF UpdateDestinationRow, DestAt, DestGoto, DestReqState, NoDestReq, DestTypeOK, DestNamed, Passwords
    <2>2. DestMoved(r, x)
        BY <1>0, <1>9, <2>1, DestMove DEF UpdateDestinationRow, DestAt, DestGoto
    <2> HIDE DEF x
    <2>3. DestTypeOK' /\ DestIds'
        <3>1. misled' = (misled \/ RunOn(destReq[r].dest) \/ ReliesOn(r, destReq[r].dest))
              /\ dests' = [dests EXCEPT ![destReq[r].dest] = destReq[r].share]
              /\ UNCHANGED <<destDrawn, passwords, destJobs, repos, work>>
            BY <1>9 DEF UpdateDestinationRow
        <3>2. misled' \in BOOLEAN
            BY <3>1 DEF RunOn, ReliesOn
        <3>3. DestTypeOK'
            BY <1>0, <2>1, <2>2, <3>1, <3>2 DEF DestMoved, DestTypeOK, DestReqState
        <3>4. DestIds'
            BY <1>0, <1>9, <2>1, <2>2, <3>1 DEF UpdateDestinationRow, DestAt, DestMoved, DestTypeOK, DestIds,
               DestNamed, There
        <3> QED
            BY <3>3, <3>4
    <2>4. CreatedAlone' /\ PasswordHeld' /\ RepoPasswordStays'
        BY <1>0, <1>9, <2>1, <2>2 DEF UpdateDestinationRow, DestAt, DestGoto, DestMoved, DestTypeOK, DestIds, DestNamed, There,
           DestIInv, CreatedAlone, PasswordHeld, RepoPasswordStays, Passwords, DestReqState
    <2>5. NobodyMisled' /\ JobsHaveDestinations'
        <3> SUFFICES ASSUME ~ misled' PROVE NobodyMisled' /\ JobsHaveDestinations'
            BY DEF NobodyMisled, JobsHaveDestinations
        <3>1. ~ misled /\ ~ RunOn(destReq[r].dest) /\ ~ ReliesOn(r, destReq[r].dest)
            BY <1>9 DEF UpdateDestinationRow, DestAt, DestGoto
        <3>2. \A q \in DestReq : DestFound(destReq[q])'
            BY <1>0, <1>9, <2>1, <2>2, <3>1 DEF UpdateDestinationRow, DestAt, DestGoto, DestMoved, DestTypeOK, DestIds, DestNamed, There,
               DestIInv, NobodyMisled, DestFound, UsedBy, ReliesOn, Deleting
        <3>3. \A j \in DestJob : (work[j] # NoRun =>
                 destJobs[j] = work[j].dest /\ There(work[j].dest) /\ dests[work[j].dest] = work[j].share)'
            BY <1>0, <1>9, <2>1, <2>2, <3>1 DEF UpdateDestinationRow, DestAt, DestGoto, DestMoved, DestTypeOK, DestIds, DestNamed, There,
               DestIInv, NobodyMisled, RunOn, NoRun
        <3>4. \A d \in Dest : (RepoIsCurrent(d) \/ \E q \in DestReq : destReq[q].pc = "clear" /\ destReq[q].dest = d)'
            BY <1>0, <1>9, <2>1, <2>2, <3>1 DEF UpdateDestinationRow, DestAt, DestGoto, DestMoved, DestTypeOK, DestIds, DestNamed, There,
               DestIInv, NobodyMisled, RepoIsCurrent, Unknown
        <3>5. JobsHaveDestinations'
            BY <1>0, <1>9, <2>1, <2>2, <3>1 DEF UpdateDestinationRow, DestAt, DestGoto, DestMoved, DestTypeOK, DestIds, DestNamed, There,
               DestIInv, NobodyMisled, JobsHaveDestinations, DestFound, UsedBy
        <3> QED
            BY <3>2, <3>3, <3>4, <3>5 DEF NobodyMisled
    <2> QED
        BY <2>3, <2>4, <2>5 DEF DestIInv
<1>10. ASSUME ~ There(destReq[r].dest), UpdateDestinationRow(r) PROVE DestIInv'
    <2> DEFINE x == NoDestReq
    <2>1. x \in DestReqState /\ x.op = "none" /\ x.pc = "idle"
        BY <1>0, <1>10, NoDestReqType DEF UpdateDestinationRow, DestAt, DestReturn, DestReqState, NoDestReq, DestTypeOK, DestNamed, Passwords
    <2>2. DestMoved(r, x)
        BY <1>0, <1>10, <2>1, DestMove DEF UpdateDestinationRow, DestAt, DestReturn
    <2> HIDE DEF x
    <2>3. DestTypeOK' /\ DestIds'
        BY <1>0, <1>10, <2>1, <2>2 DEF UpdateDestinationRow, DestAt, DestReturn, DestMoved, DestTypeOK, DestIds, DestNamed, DestReqState, There,
           Passwords, Repo, Unknown, RunOn, ReliesOn, Deleting
    <2>4. CreatedAlone' /\ PasswordHeld' /\ RepoPasswordStays'
        BY <1>0, <1>10, <2>1, <2>2 DEF UpdateDestinationRow, DestAt, DestReturn, DestMoved, DestTypeOK, DestIds, DestNamed, There,
           DestIInv, CreatedAlone, PasswordHeld, RepoPasswordStays, Passwords, DestReqState
    <2>5. NobodyMisled' /\ JobsHaveDestinations'
        BY <1>0, <1>10, <2>1, <2>2 DEF UpdateDestinationRow, DestAt, DestReturn, DestMoved, DestTypeOK, DestIds, DestNamed, There,
           DestIInv, CreatedAlone, NobodyMisled, DestFound, RepoIsCurrent, JobsHaveDestinations, UsedBy,
           RunOn, ReliesOn, Deleting, Unknown, NoRun
    <2> QED
        BY <2>3, <2>4, <2>5 DEF DestIInv
<1>11. ASSUME destReq[r].op = "delete", ForgetRepos(r) PROVE DestIInv'
    <2> DEFINE x == [destReq[r] EXCEPT !.pc = "creds"]
    <2>1. x \in DestReqState /\ x.op = "delete" /\ x.pc = "creds" /\ x.dest = destReq[r].dest
        BY <1>0, <1>11, NoDestReqType DEF ForgetRepos, ClearBackupRepoStates, DestGoto, DestReqState, NoDestReq, DestTypeOK, DestNamed, Passwords
    <2>2. DestMoved(r, x)
        BY <1>0, <1>11, <2>1, DestMove DEF ForgetRepos, ClearBackupRepoStates, DestGoto
    <2> HIDE DEF x
    <2>3. DestTypeOK' /\ DestIds'
        BY <1>0, <1>11, <2>1, <2>2 DEF ForgetRepos, ClearBackupRepoStates, DestGoto, DestMoved, DestTypeOK, DestIds, DestNamed, DestReqState, There,
           Passwords, Repo, Unknown, RunOn, ReliesOn, Deleting
    <2>4. CreatedAlone' /\ PasswordHeld' /\ RepoPasswordStays'
        BY <1>0, <1>11, <2>1, <2>2 DEF ForgetRepos, ClearBackupRepoStates, DestGoto, DestMoved, DestTypeOK, DestIds, DestNamed, There,
           DestIInv, CreatedAlone, PasswordHeld, RepoPasswordStays, Passwords, DestReqState
    <2>5. NobodyMisled' /\ JobsHaveDestinations'
        BY <1>0, <1>11, <2>1, <2>2 DEF ForgetRepos, ClearBackupRepoStates, DestGoto, DestMoved, DestTypeOK, DestIds, DestNamed, There,
           DestIInv, CreatedAlone, NobodyMisled, DestFound, RepoIsCurrent, JobsHaveDestinations, UsedBy,
           RunOn, ReliesOn, Deleting, Unknown, NoRun
    <2> QED
        BY <2>3, <2>4, <2>5 DEF DestIInv
<1>12. ASSUME destReq[r].op # "delete", ForgetRepos(r) PROVE DestIInv'
    <2> DEFINE x == NoDestReq
    <2>1. x \in DestReqState /\ x.op = "none" /\ x.pc = "idle"
        BY <1>0, <1>12, NoDestReqType DEF ForgetRepos, ClearBackupRepoStates, DestReturn, DestReqState, NoDestReq, DestTypeOK, DestNamed, Passwords
    <2>2. DestMoved(r, x)
        BY <1>0, <1>12, <2>1, DestMove DEF ForgetRepos, ClearBackupRepoStates, DestReturn
    <2> HIDE DEF x
    <2>3. DestTypeOK' /\ DestIds'
        BY <1>0, <1>12, <2>1, <2>2 DEF ForgetRepos, ClearBackupRepoStates, DestReturn, DestMoved, DestTypeOK, DestIds, DestNamed, DestReqState, There,
           Passwords, Repo, Unknown, RunOn, ReliesOn, Deleting
    <2>4. CreatedAlone' /\ PasswordHeld' /\ RepoPasswordStays'
        <3>1. CreatedAlone'
            BY <1>0, <1>12, <2>1, <2>2 DEF ForgetRepos, ClearBackupRepoStates, DestReturn, DestMoved, DestTypeOK, There, DestIInv, CreatedAlone
        <3>2. PasswordHeld' /\ RepoPasswordStays'
            BY <1>0, <1>12, <2>1, <2>2 DEF ForgetRepos, ClearBackupRepoStates, DestReturn, DestMoved, DestTypeOK, There, DestIInv, PasswordHeld, RepoPasswordStays
        <3> QED
            BY <3>1, <3>2
    <2>5. NobodyMisled' /\ JobsHaveDestinations'
        BY <1>0, <1>12, <2>1, <2>2 DEF ForgetRepos, ClearBackupRepoStates, DestReturn, DestMoved, DestTypeOK, DestIds, DestNamed, There,
           DestIInv, CreatedAlone, NobodyMisled, DestFound, RepoIsCurrent, JobsHaveDestinations, UsedBy,
           RunOn, ReliesOn, Deleting, Unknown, NoRun
    <2> QED
        BY <2>3, <2>4, <2>5 DEF DestIInv
<1>13. CASE DeleteDestinationRow(r)
    <2> DEFINE x == [destReq[r] EXCEPT !.pc = "clear"]
    <2>1. x \in DestReqState /\ x.op = "delete" /\ x.pc = "clear" /\ x.dest = destReq[r].dest
        BY <1>0, <1>13, NoDestReqType DEF DeleteDestinationRow, DestAt, DestGoto, DestReqState, NoDestReq, DestTypeOK, DestNamed, Passwords
    <2>2. DestMoved(r, x)
        BY <1>0, <1>13, <2>1, DestMove DEF DeleteDestinationRow, DestAt, DestGoto
    <2> HIDE DEF x
    <2>3. DestTypeOK' /\ DestIds'
        BY <1>0, <1>13, <2>1, <2>2 DEF DeleteDestinationRow, DestAt, DestGoto, DestMoved, DestTypeOK, DestIds, DestNamed, DestReqState, There,
           Passwords, Repo, Unknown, RunOn, ReliesOn, Deleting
    <2>4. CreatedAlone' /\ PasswordHeld' /\ RepoPasswordStays'
        BY <1>0, <1>13, <2>1, <2>2 DEF DeleteDestinationRow, DestAt, DestGoto, DestMoved, DestTypeOK, DestIds, DestNamed, There,
           DestIInv, CreatedAlone, PasswordHeld, RepoPasswordStays, Passwords, DestReqState
    <2>5. NobodyMisled' /\ JobsHaveDestinations'
        <3> SUFFICES ASSUME ~ misled' PROVE NobodyMisled' /\ JobsHaveDestinations'
            BY DEF NobodyMisled, JobsHaveDestinations
        <3>1. ~ misled /\ ~ RunOn(destReq[r].dest) /\ ~ ReliesOn(r, destReq[r].dest)
            BY <1>13 DEF DeleteDestinationRow, DestAt, DestGoto
        <3>2. \A q \in DestReq : DestFound(destReq[q])'
            BY <1>0, <1>13, <2>1, <2>2, <3>1 DEF DeleteDestinationRow, DestAt, DestGoto, DestMoved, DestTypeOK, DestIds, DestNamed, There,
               DestIInv, NobodyMisled, DestFound, UsedBy, ReliesOn, Deleting
        <3>3. \A j \in DestJob : (work[j] # NoRun =>
                 destJobs[j] = work[j].dest /\ There(work[j].dest) /\ dests[work[j].dest] = work[j].share)'
            BY <1>0, <1>13, <2>1, <2>2, <3>1 DEF DeleteDestinationRow, DestAt, DestGoto, DestMoved, DestTypeOK, DestIds, DestNamed, There,
               DestIInv, NobodyMisled, RunOn, NoRun
        <3>4. \A d \in Dest : (RepoIsCurrent(d) \/ \E q \in DestReq : destReq[q].pc = "clear" /\ destReq[q].dest = d)'
            BY <1>0, <1>13, <2>1, <2>2, <3>1 DEF DeleteDestinationRow, DestAt, DestGoto, DestMoved, DestTypeOK, DestIds, DestNamed, There,
               DestIInv, NobodyMisled, RepoIsCurrent, Unknown
        <3>5. JobsHaveDestinations'
            BY <1>0, <1>13, <2>1, <2>2, <3>1 DEF DeleteDestinationRow, DestAt, DestGoto, DestMoved, DestTypeOK, DestIds, DestNamed, There,
               DestIInv, NobodyMisled, JobsHaveDestinations, DestFound, UsedBy
        <3> QED
            BY <3>2, <3>3, <3>4, <3>5 DEF NobodyMisled
    <2> QED
        BY <2>3, <2>4, <2>5 DEF DestIInv
<1>14. CASE DeletePasswords(r)
    <2> DEFINE x == NoDestReq
    <2>1. x \in DestReqState /\ x.op = "none" /\ x.pc = "idle"
        BY <1>0, <1>14, NoDestReqType DEF DeletePasswords, DestAt, DestReturn, DestReqState, NoDestReq, DestTypeOK, DestNamed, Passwords
    <2>2. DestMoved(r, x)
        BY <1>0, <1>14, <2>1, DestMove DEF DeletePasswords, DestAt, DestReturn
    <2> HIDE DEF x
    <2>3. DestTypeOK' /\ DestIds'
        BY <1>0, <1>14, <2>1, <2>2 DEF DeletePasswords, DestAt, DestReturn, DestMoved, DestTypeOK, DestIds, DestNamed, DestReqState, There,
           Passwords, Repo, Unknown, RunOn, ReliesOn, Deleting
    <2>4. CreatedAlone' /\ PasswordHeld' /\ RepoPasswordStays'
        BY <1>0, <1>14, <2>1, <2>2 DEF DeletePasswords, DestAt, DestReturn, DestMoved, DestTypeOK, DestIds, DestNamed, There,
           DestIInv, CreatedAlone, PasswordHeld, RepoPasswordStays, Passwords, DestReqState
    <2>5. NobodyMisled' /\ JobsHaveDestinations'
        BY <1>0, <1>14, <2>1, <2>2 DEF DeletePasswords, DestAt, DestReturn, DestMoved, DestTypeOK, DestIds, DestNamed, There,
           DestIInv, CreatedAlone, NobodyMisled, DestFound, RepoIsCurrent, JobsHaveDestinations, UsedBy,
           RunOn, ReliesOn, Deleting, Unknown, NoRun
    <2> QED
        BY <2>3, <2>4, <2>5 DEF DestIInv
<1>15. CASE WriteJob(r)
    <2> DEFINE x == NoDestReq
    <2>1. x \in DestReqState /\ x.op = "none" /\ x.pc = "idle"
        BY <1>0, <1>15, NoDestReqType DEF WriteJob, DestAt, DestReturn, DestReqState, NoDestReq, DestTypeOK, DestNamed, Passwords
    <2>2. DestMoved(r, x)
        BY <1>0, <1>15, <2>1, DestMove DEF WriteJob, DestAt, DestReturn
    <2> HIDE DEF x
    <2>3. DestTypeOK' /\ DestIds'
        BY <1>0, <1>15, <2>1, <2>2 DEF WriteJob, DestAt, DestReturn, DestMoved, DestTypeOK, DestIds, DestNamed, DestReqState, There,
           Passwords, Repo, Unknown, RunOn, ReliesOn, Deleting
    <2>4. CreatedAlone' /\ PasswordHeld' /\ RepoPasswordStays'
        BY <1>0, <1>15, <2>1, <2>2 DEF WriteJob, DestAt, DestReturn, DestMoved, DestTypeOK, DestIds, DestNamed, There,
           DestIInv, CreatedAlone, PasswordHeld, RepoPasswordStays, Passwords, DestReqState
    <2>5. NobodyMisled' /\ JobsHaveDestinations'
        <3> SUFFICES ASSUME ~ misled' PROVE NobodyMisled' /\ JobsHaveDestinations'
            BY DEF NobodyMisled, JobsHaveDestinations
        <3>1. ~ misled /\ ~ Deleting(destReq[r].dest) /\ work[destReq[r].job].dest \in {NoDest, destReq[r].dest}
            BY <1>15 DEF WriteJob, DestAt, DestReturn
        <3>2. \A q \in DestReq : DestFound(destReq[q])'
            BY <1>0, <1>15, <2>1, <2>2, <3>1 DEF WriteJob, DestAt, DestReturn, DestMoved, DestTypeOK, DestIds, DestNamed, There,
               DestIInv, NobodyMisled, DestFound, UsedBy, ReliesOn, Deleting
        <3>3. \A j \in DestJob : (work[j] # NoRun =>
                 destJobs[j] = work[j].dest /\ There(work[j].dest) /\ dests[work[j].dest] = work[j].share)'
            BY <1>0, <1>15, <2>1, <2>2, <3>1 DEF WriteJob, DestAt, DestReturn, DestMoved, DestTypeOK, DestIds, DestNamed, There,
               DestIInv, NobodyMisled, RunOn, NoRun
        <3>4. \A d \in Dest : (RepoIsCurrent(d) \/ \E q \in DestReq : destReq[q].pc = "clear" /\ destReq[q].dest = d)'
            BY <1>0, <1>15, <2>1, <2>2, <3>1 DEF WriteJob, DestAt, DestReturn, DestMoved, DestTypeOK, DestIds, DestNamed, There,
               DestIInv, NobodyMisled, RepoIsCurrent, Unknown
        <3>5. JobsHaveDestinations'
            BY <1>0, <1>15, <2>1, <2>2, <3>1 DEF WriteJob, DestAt, DestReturn, DestMoved, DestTypeOK, DestIds, DestNamed, There,
               DestIInv, NobodyMisled, JobsHaveDestinations, DestFound, UsedBy
        <3> QED
            BY <3>2, <3>3, <3>4, <3>5 DEF NobodyMisled
    <2> QED
        BY <2>3, <2>4, <2>5 DEF DestIInv
<1>16. CASE DestCutShort(r)
    <2> DEFINE x == NoDestReq
    <2>1. x \in DestReqState /\ x.op = "none" /\ x.pc = "idle"
        BY <1>0, <1>16, NoDestReqType DEF DestCutShort, DestReturn, DestReqState, NoDestReq, DestTypeOK, DestNamed, Passwords
    <2>2. DestMoved(r, x)
        BY <1>0, <1>16, <2>1, DestMove DEF DestCutShort, DestReturn
    <2> HIDE DEF x
    <2>3. DestTypeOK' /\ DestIds'
        BY <1>0, <1>16, <2>1, <2>2 DEF DestCutShort, DestReturn, DestMoved, DestTypeOK, DestIds, DestNamed, DestReqState, There,
           Passwords, Repo, Unknown, RunOn, ReliesOn, Deleting
    <2>4. CreatedAlone' /\ PasswordHeld' /\ RepoPasswordStays'
        BY <1>0, <1>16, <2>1, <2>2 DEF DestCutShort, DestReturn, DestMoved, DestTypeOK, DestIds, DestNamed, There,
           DestIInv, CreatedAlone, PasswordHeld, RepoPasswordStays, Passwords, DestReqState
    <2>5. NobodyMisled' /\ JobsHaveDestinations'
        <3> SUFFICES ASSUME ~ misled' PROVE NobodyMisled' /\ JobsHaveDestinations'
            BY DEF NobodyMisled, JobsHaveDestinations
        <3>1. ~ misled /\ destReq[r].pc # "clear"
            BY <1>16 DEF DestCutShort, DestReturn
        <3>2. \A q \in DestReq : DestFound(destReq[q])'
            BY <1>0, <1>16, <2>1, <2>2, <3>1 DEF DestCutShort, DestReturn, DestMoved, DestTypeOK, DestIds, DestNamed, There,
               DestIInv, NobodyMisled, DestFound, UsedBy, ReliesOn, Deleting
        <3>3. \A j \in DestJob : (work[j] # NoRun =>
                 destJobs[j] = work[j].dest /\ There(work[j].dest) /\ dests[work[j].dest] = work[j].share)'
            BY <1>0, <1>16, <2>1, <2>2, <3>1 DEF DestCutShort, DestReturn, DestMoved, DestTypeOK, DestIds, DestNamed, There,
               DestIInv, NobodyMisled, RunOn, NoRun
        <3>4. \A d \in Dest : (RepoIsCurrent(d) \/ \E q \in DestReq : destReq[q].pc = "clear" /\ destReq[q].dest = d)'
            BY <1>0, <1>16, <2>1, <2>2, <3>1 DEF DestCutShort, DestReturn, DestMoved, DestTypeOK, DestIds, DestNamed, There,
               DestIInv, NobodyMisled, RepoIsCurrent, Unknown
        <3>5. JobsHaveDestinations'
            BY <1>0, <1>16, <2>1, <2>2, <3>1 DEF DestCutShort, DestReturn, DestMoved, DestTypeOK, DestIds, DestNamed, There,
               DestIInv, NobodyMisled, JobsHaveDestinations, DestFound, UsedBy
        <3> QED
            BY <3>2, <3>3, <3>4, <3>5 DEF NobodyMisled
    <2> QED
        BY <2>3, <2>4, <2>5 DEF DestIInv
<1>17. ASSUME NEW state \in {"unknown", "ready", "missing"}, ProbeAnswer(r, state) PROVE DestIInv'
    <2> DEFINE x == NoDestReq
    <2>1. x \in DestReqState /\ x.op = "none" /\ x.pc = "idle"
        BY <1>0, <1>17, NoDestReqType DEF ProbeAnswer, NoteRepo, DestAt, DestReturn, DestReqState, NoDestReq, DestTypeOK, DestNamed, Passwords
    <2>2. DestMoved(r, x)
        BY <1>0, <1>17, <2>1, DestMove DEF ProbeAnswer, NoteRepo, DestAt, DestReturn
    <2> HIDE DEF x
    <2>3. DestTypeOK' /\ DestIds'
        BY <1>0, <1>17, <2>1, <2>2 DEF ProbeAnswer, NoteRepo, DestAt, DestReturn, DestMoved, DestTypeOK, DestIds, DestNamed, DestReqState, There,
           Passwords, Repo, Unknown, RunOn, ReliesOn, Deleting
    <2>4. CreatedAlone' /\ PasswordHeld' /\ RepoPasswordStays'
        BY <1>0, <1>17, <2>1, <2>2 DEF ProbeAnswer, NoteRepo, DestAt, DestReturn, DestMoved, DestTypeOK, DestIds, DestNamed, There,
           DestIInv, CreatedAlone, PasswordHeld, RepoPasswordStays, Passwords, DestReqState
    <2>5. NobodyMisled' /\ JobsHaveDestinations'
        BY <1>0, <1>17, <2>1, <2>2 DEF ProbeAnswer, NoteRepo, DestAt, DestReturn, DestMoved, DestTypeOK, DestIds, DestNamed, There,
           DestIInv, CreatedAlone, NobodyMisled, DestFound, RepoIsCurrent, JobsHaveDestinations, UsedBy,
           RunOn, ReliesOn, Deleting, Unknown, NoRun
    <2> QED
        BY <2>3, <2>4, <2>5 DEF DestIInv
<1> QED
    BY <1>1, <1>2, <1>3, <1>4, <1>5, <1>6, <1>7, <1>8, <1>9, <1>10, <1>11, <1>12, <1>13, <1>14, <1>15, <1>16, <1>17 DEF DestRequest

(* So do the jobs and their runs.                                           *)
LEMMA DestNextIInv == DestIInv /\ [DestNext]_destVars => DestIInv'
<1> SUFFICES ASSUME DestIInv, [DestNext]_destVars PROVE DestIInv'
    OBVIOUS
<1> USE BackupDestinationsAssumption DEF DestIInv, DestTypeOK, DestIds, DestNamed, CreatedAlone, PasswordHeld,
        RepoPasswordStays, NobodyMisled, DestFound, RepoIsCurrent, JobsHaveDestinations, There, UsedBy
<1>1. ASSUME NEW j \in DestJob, DeleteBackupJob(j) PROVE DestIInv'
    BY <1>1 DEF DeleteBackupJob
<1>2. ASSUME NEW j \in DestJob, StartRun(j) PROVE DestIInv'
    BY <1>2 DEF StartRun, Reachable, Run, NoRun
<1>3. ASSUME NEW j \in DestJob, NEW state \in {"unknown", "ready", "missing"}, ReportRun(j, state)
      PROVE  DestIInv'
    <2>1. DestTypeOK' /\ DestIds' /\ CreatedAlone' /\ PasswordHeld' /\ RepoPasswordStays'
        BY <1>3 DEF ReportRun, NoteRepo, Run, NoRun, Repo
    <2>2. JobsHaveDestinations'
        BY <1>3 DEF ReportRun
    <2>3. NobodyMisled'
        <3>1. ~ misled => \A d \in Dest : RepoIsCurrent(d)' \/ repos'[d] = repos[d]
            BY <1>3 DEF ReportRun, NoteRepo, Repo
        <3>2. ~ misled => \A k \in DestJob : (work[k] # NoRun =>
                 destJobs[k] = work[k].dest /\ There(work[k].dest) /\ dests[work[k].dest] = work[k].share)'
            BY <1>3 DEF ReportRun
        <3> QED
            BY <1>3, <3>1, <3>2 DEF ReportRun
    <2> QED
        BY <2>1, <2>2, <2>3
<1>4. CASE UNCHANGED destVars
    BY <1>4 DEF destVars
<1> QED
    BY <1>1, <1>2, <1>3, <1>4, DestRequestIInv DEF DestNext

(* A destination that exists keeps its repository password, however edits,  *)
(* deletions and jobs overlap.                                              *)
THEOREM RepoPasswordSafe == DestSpec => []RepoPasswordStays
<1>1. DestIInv => RepoPasswordStays
    BY DEF DestIInv
<1> QED
    BY DestInitIInv, DestNextIInv, <1>1, PTL DEF DestSpec

(* What is said of a repository was seen on the share its destination has.  *)
THEOREM RepoStateCorrect == DestSpec => []RepoStateIsCurrent
<1>1. DestIInv => RepoStateIsCurrent
    BY DEF DestIInv, DestIds, DestNamed, NobodyMisled, RepoIsCurrent, RepoStateIsCurrent, Editing
<1> QED
    BY DestInitIInv, DestNextIInv, <1>1, PTL DEF DestSpec

(* A job's destination exists unless the job was saved during a deletion.   *)
THEOREM JobsCanWrite == DestSpec => []JobsHaveDestinations
<1>1. DestIInv => JobsHaveDestinations
    BY DEF DestIInv
<1> QED
    BY DestInitIInv, DestNextIInv, <1>1, PTL DEF DestSpec

-----------------------------------------------------------------------------
(* Secret connections: the part of the invariant that no race breaks.       *)

(* The request is about to insert the row of a connection it has drawn.     *)
Inserts(q) == q.op = "create" \/ (q.op = "save" /\ q.pc \in {"creds", "row"} /\ q.conn # q.prev)

(* A connection whose row has been inserted: it may go, but never come back.*)
Settled(c) == c \in drawn /\ \A r \in SecretReq : Inserts(secReq[r]) => secReq[r].conn # c

InsertsApart ==
    \A r \in SecretReq : Inserts(secReq[r]) =>
        /\ secReq[r].conn \in drawn /\ ~ Live(secReq[r].conn)
        /\ \A q \in SecretReq \ {r} : Inserts(secReq[q]) => secReq[q].conn # secReq[r].conn

(* A live connection inherits from a shared one only, a shared one from     *)
(* none.                                                                    *)
ConnsStand ==
    \A c \in SecretConn :
        /\ ~ conns[c].live => conns[c] = NoConnRow
        /\ Live(c) => Settled(c)
        /\ conns[c].stack = Nobody => conns[c].parent = NoConn
        /\ conns[c].parent # NoConn => Settled(conns[c].parent)
        /\ Live(conns[c].parent) => Global(conns[c].parent)

BindingsStand ==
    \A s \in SecretStack : bindings[s] # NoConn =>
        Settled(bindings[s]) /\ (Live(bindings[s]) => conns[bindings[s]].stack \in {s, Nobody})

(* What a handler holds fits the statement it is at ...                     *)
Fits(q) ==
    /\ q.op = "none" => q = NoSecretReq
    /\ q.op = "create" => q.pc = "row" /\ q.conn \in drawn /\ q.stack = Nobody /\ q.parent = NoConn
    /\ q.op \in {"update", "delete"} => q.conn \in drawn /\ q.stack = Nobody
    /\ q.op \in {"save", "unbind", "drop"} => q.stack \in SecretStack
    /\ q.op = "save" => q.pc \in {"load", "update", "creds", "row", "bind", "dropCreds", "dropRow"}
    /\ q.op = "save" /\ q.mode = "separate" => q.parent = NoConn
    /\ q.op = "save" /\ q.pc # "load" => q.conn \in drawn
    /\ q.op = "save" /\ q.pc = "row" => q.conn # q.prev
    /\ q.op = "save" /\ q.pc = "update" => q.conn = q.prev
    /\ q.op = "unbind" => q.pc \in {"bind", "look", "dropCreds", "dropRow"}
    /\ q.op = "drop" => q.pc \in {"list", "creds", "stack"}
    /\ q.pc \in {"dropCreds", "dropRow"} => q.op \in {"save", "unbind"} /\ q.prev # NoConn

(* ... and the connections it names are the stack's own or shared.          *)
Holds(q) ==
    /\ q.prev # NoConn => Settled(q.prev)
    /\ q.op = "save" /\ q.pc # "load" =>
           /\ Live(q.conn) => conns[q.conn].stack \in {q.stack, Nobody}
           /\ q.parent # NoConn => Settled(q.parent)
           /\ Live(q.parent) => Global(q.parent)
           /\ Inserts(q) \/ Settled(q.conn)
           /\ q.private => q.prev # NoConn /\ (Live(q.prev) => conns[q.prev].stack # Nobody)
    /\ q.pc \in {"dropCreds", "dropRow"} => (Live(q.prev) => conns[q.prev].stack # Nobody)

RequestsStand == \A r \in SecretReq : Fits(secReq[r]) /\ Holds(secReq[r])

SecretIInv == SecretTypeOK /\ InsertsApart /\ ConnsStand /\ BindingsStand /\ RequestsStand

(* There is nothing yet.                                                    *)
LEMMA SecretInitIInv == SecretInit => SecretIInv
<1> SUFFICES ASSUME SecretInit PROVE SecretIInv
    OBVIOUS
<1> USE SecretConnectionsAssumption DEF SecretInit, NoSecretReq, NoConnRow
<1>1a. NoSecretReq \in SecretReqState
    BY DEF SecretReqState, Mode, ConnId
<1>1b. NoConnRow \in ConnRow
    BY DEF ConnRow, ConnId
<1>1c. conns \in [SecretConn -> ConnRow] /\ bindings \in [SecretStack -> ConnId]
    BY <1>1b DEF ConnId
<1>1d. secReq \in [SecretReq -> SecretReqState]
    BY <1>1a
<1>1e. cuts \in 0 .. MaxCuts
    OBVIOUS
<1>1. SecretTypeOK
    BY <1>1c, <1>1d, <1>1e DEF SecretTypeOK
<1>2. InsertsApart /\ ConnsStand /\ BindingsStand
    BY DEF InsertsApart, Inserts, ConnsStand, BindingsStand, Live
<1>3. RequestsStand
    BY DEF RequestsStand, Fits, Holds
<1> QED
    BY <1>1, <1>2, <1>3 DEF SecretIInv

(* A step of request r to x leaves the other requests alone; a row stays,   *)
(* goes, or is the one that r inserts.                                      *)
RowOf(q) == [live |-> TRUE, stack |-> q.stack, parent |-> q.parent]
RowsFrom(r, x) ==
    \A c \in SecretConn :
        \/ conns'[c] \in {conns[c], NoConnRow}
        \/ c = secReq[r].conn /\ Inserts(secReq[r]) /\ ~ Inserts(x) /\ conns'[c] = RowOf(secReq[r])
SecretMoved(r, x) ==
    /\ x \in SecretReqState /\ secReq' = [secReq EXCEPT ![r] = x]
    /\ drawn \subseteq drawn'
    /\ RowsFrom(r, x)
    /\ Inserts(x) => \/ Inserts(secReq[r]) /\ x.conn = secReq[r].conn
                     \/ x.conn \in drawn' \ drawn

(* A settled connection stays settled, and its row the same until it goes.  *)
SettledAfter(c) == c \in drawn' /\ \A q \in SecretReq : Inserts(secReq'[q]) => secReq'[q].conn # c
RowKept(c) == SettledAfter(c) /\ conns'[c] \in {conns[c], NoConnRow}

LEMMA SecretKept ==
    ASSUME SecretIInv, NEW r \in SecretReq, NEW x, SecretMoved(r, x), NEW c, Settled(c)
    PROVE  c \in SecretConn /\ RowKept(c)
<1>1. c \in drawn /\ c \in SecretConn /\ c \in drawn'
    BY DEF SecretIInv, SecretTypeOK, Settled, SecretMoved, RowsFrom
<1>2. ASSUME NEW q \in SecretReq, Inserts(secReq[q])', secReq'[q].conn = c PROVE FALSE
    <2>1. CASE q = r
        BY <1>1, <1>2, <2>1 DEF SecretIInv, SecretTypeOK, Settled, SecretMoved, RowsFrom, Inserts
    <2>2. CASE q # r
        BY <1>2, <2>2 DEF SecretIInv, SecretTypeOK, Settled, SecretMoved, RowsFrom, Inserts
    <2> QED
        BY <2>1, <2>2
<1>3. SettledAfter(c)
    BY <1>1, <1>2 DEF SettledAfter, Inserts
<1>4. conns'[c] \in {conns[c], NoConnRow}
    BY <1>1 DEF Settled, SecretMoved, RowsFrom
<1> QED
    BY <1>1, <1>3, <1>4 DEF RowKept

(* What such a step must still show: its own new state, and that a binding  *)
(* it writes is the one it holds.                                           *)
BoundBy(r) ==
    \A s \in SecretStack :
        \/ bindings'[s] \in {bindings[s], NoConn}
        \/ At(r, "save", "bind") /\ s = secReq[r].stack /\ bindings'[s] = secReq[r].conn

LEMMA SecretMovedIInv ==
    ASSUME SecretIInv, NEW r \in SecretReq, NEW x, SecretMoved(r, x), SecretTypeOK', BoundBy(r),
           Fits(secReq[r])', Holds(secReq[r])'
    PROVE  SecretIInv'
<1> USE SecretConnectionsAssumption
<1>1. \A c : Settled(c) => c \in SecretConn /\ RowKept(c)
    BY SecretKept
<1>2. /\ secReq'[r] = x /\ \A q \in SecretReq \ {r} : secReq'[q] = secReq[q]
      /\ \A q \in SecretReq : secReq[q] \in SecretReqState /\ secReq'[q] \in SecretReqState
      /\ \A c \in SecretConn : conns[c] \in ConnRow /\ conns'[c] \in ConnRow
    BY DEF SecretIInv, SecretTypeOK, SecretMoved, RowsFrom
<1>3. ASSUME NEW q \in SecretReq, Inserts(secReq[q])'
      PROVE  /\ secReq'[q].conn \in drawn' /\ ~ Live(secReq[q].conn)'
             /\ \A p \in SecretReq \ {q} : Inserts(secReq[p])' => secReq'[p].conn # secReq'[q].conn
    <2>1. CASE q # r
        <3>1. Inserts(secReq[q]) /\ secReq'[q] = secReq[q]
            BY <1>2, <1>3, <2>1 DEF Inserts
        <3>2. secReq[q].conn \in drawn /\ ~ Live(secReq[q].conn)
            BY <3>1 DEF SecretIInv, InsertsApart
        <3>3. Inserts(secReq[r]) => secReq[r].conn # secReq[q].conn
            BY <3>1, <2>1 DEF SecretIInv, InsertsApart
        <3>4. ~ Live(secReq[q].conn)'
            BY <3>1, <3>2, <3>3 DEF Live, SecretMoved, RowsFrom, NoConnRow
        <3>5. ASSUME NEW p \in SecretReq \ {q}, Inserts(secReq[p])' PROVE secReq'[p].conn # secReq'[q].conn
            <4>1. CASE p # r
                BY <1>2, <3>1, <3>5, <4>1 DEF SecretIInv, InsertsApart, Inserts
            <4>2. CASE p = r
                BY <1>2, <3>1, <3>2, <3>3, <3>5, <4>2 DEF SecretMoved, RowsFrom, Inserts
            <4> QED
                BY <4>1, <4>2
        <3> QED
            BY <3>1, <3>2, <3>4, <3>5 DEF SecretMoved, RowsFrom
    <2>2. CASE q = r
        <3>1. Inserts(x) /\ secReq'[q] = x
            BY <1>2, <1>3, <2>2 DEF Inserts
        <3>2. ~ Live(x.conn)
            BY <3>1 DEF SecretMoved, RowsFrom, SecretIInv, InsertsApart, ConnsStand, Settled, Live
        <3>3. x.conn \in drawn' /\ ~ Live(secReq[q].conn)'
            BY <3>1, <3>2 DEF SecretMoved, RowsFrom, SecretIInv, InsertsApart, Live, NoConnRow
        <3>4. ASSUME NEW p \in SecretReq \ {q}, Inserts(secReq[p])' PROVE secReq'[p].conn # x.conn
            <4>1. Inserts(secReq[p]) /\ secReq'[p] = secReq[p]
                BY <1>2, <2>2, <3>4 DEF Inserts
            <4>2. secReq[p].conn \in drawn /\ (Inserts(secReq[r]) => secReq[r].conn # secReq[p].conn)
                BY <4>1, <2>2 DEF SecretIInv, InsertsApart
            <4> QED
                BY <3>1, <4>1, <4>2 DEF SecretMoved, RowsFrom
        <3> QED
            BY <3>1, <3>3, <3>4
    <2> QED
        BY <2>1, <2>2
<1>4. InsertsApart'
    BY <1>3 DEF InsertsApart
<1>5. ConnsStand'
    <2> SUFFICES ASSUME NEW c \in SecretConn
                 PROVE  /\ ~ conns'[c].live => conns'[c] = NoConnRow
                        /\ Live(c)' => Settled(c)'
                        /\ conns'[c].stack = Nobody => conns'[c].parent = NoConn
                        /\ conns'[c].parent # NoConn => Settled(conns[c].parent)'
                        /\ Live(conns[c].parent)' => Global(conns[c].parent)'
        BY DEF ConnsStand
    <2>1. CASE conns'[c] = NoConnRow
        BY <2>1 DEF NoConnRow, Live
    <2>2. CASE conns'[c] = conns[c]
        <3>1. conns[c].parent # NoConn => RowKept(conns[c].parent)
            BY <1>1 DEF SecretIInv, ConnsStand
        <3>2. Live(c) => RowKept(c)
            BY <1>1 DEF SecretIInv, ConnsStand
        <3>3. Live(conns[c].parent) => Global(conns[c].parent)
            BY DEF SecretIInv, ConnsStand
        <3>4. /\ ~ conns'[c].live => conns'[c] = NoConnRow
              /\ conns'[c].stack = Nobody => conns'[c].parent = NoConn
            BY <2>2 DEF SecretIInv, ConnsStand
        <3>5. Live(c)' => Settled(c)'
            BY <2>2, <3>2 DEF RowKept, SettledAfter, Settled, Live, Inserts
        <3>6. conns'[c].parent # NoConn => Settled(conns[c].parent)'
            BY <2>2, <3>1 DEF RowKept, SettledAfter, Settled, Inserts
        <3>7. Live(conns[c].parent)' => Global(conns[c].parent)'
            BY <2>2, <3>1, <3>3 DEF RowKept, Live, Global, NoConnRow
        <3> QED
            BY <3>4, <3>5, <3>6, <3>7
    <2>3. CASE c = secReq[r].conn /\ Inserts(secReq[r]) /\ ~ Inserts(x) /\ conns'[c] = RowOf(secReq[r])
        <3>1. \A q \in SecretReq : Inserts(secReq[q])' => secReq'[q].conn # c
            BY <1>2, <2>3 DEF SecretIInv, InsertsApart, Inserts
        <3>2. Settled(c)'
            BY <2>3, <3>1 DEF Settled, SecretIInv, InsertsApart, SecretMoved, RowsFrom
        <3>3. LET p == secReq[r].parent IN
              /\ p # NoConn => Settled(p) /\ (Live(p) => Global(p))
              /\ secReq[r].stack = Nobody => p = NoConn
            BY <2>3 DEF SecretIInv, RequestsStand, Fits, Holds, Inserts
        <3>4. secReq[r].parent # NoConn => RowKept(secReq[r].parent)
            BY <1>1, <3>3
        <3>5. conns'[c].parent = secReq[r].parent /\ conns'[c].stack = secReq[r].stack /\ conns'[c].live
            BY <2>3 DEF RowOf
        <3>6. conns'[c].parent # NoConn => Settled(conns[c].parent)'
            BY <3>4, <3>5 DEF RowKept, SettledAfter, Settled, Inserts
        <3>7. Live(conns[c].parent)' => Global(conns[c].parent)'
            BY <3>3, <3>4, <3>5 DEF RowKept, Live, Global, NoConnRow
        <3> QED
            BY <3>2, <3>3, <3>5, <3>6, <3>7
    <2> QED
        BY <2>1, <2>2, <2>3 DEF SecretMoved, RowsFrom
<1>6. BindingsStand'
    <2> SUFFICES ASSUME NEW s \in SecretStack, bindings'[s] # NoConn
                 PROVE  Settled(bindings[s])' /\ (Live(bindings[s])' => conns'[bindings'[s]].stack \in {s, Nobody})
        BY DEF BindingsStand
    <2>1. CASE bindings'[s] = bindings[s]
        <3>1. Settled(bindings[s]) /\ (Live(bindings[s]) => conns[bindings[s]].stack \in {s, Nobody})
            BY <2>1 DEF SecretIInv, BindingsStand
        <3>2. RowKept(bindings[s])
            BY <1>1, <3>1
        <3> QED
            BY <2>1, <3>1, <3>2 DEF RowKept, SettledAfter, Live, Settled, NoConnRow, Inserts
    <2>2. CASE At(r, "save", "bind") /\ s = secReq[r].stack /\ bindings'[s] = secReq[r].conn
        <3>1. Settled(secReq[r].conn)
              /\ (Live(secReq[r].conn) => conns[secReq[r].conn].stack \in {s, Nobody})
            BY <2>2 DEF SecretIInv, RequestsStand, Holds, At, Inserts
        <3>2. RowKept(secReq[r].conn)
            BY <1>1, <3>1
        <3> QED
            BY <2>2, <3>1, <3>2 DEF RowKept, SettledAfter, Live, Settled, NoConnRow, Inserts
    <2> QED
        BY <2>1, <2>2 DEF BoundBy
<1>7. ASSUME NEW q \in SecretReq \ {r} PROVE Fits(secReq[q])' /\ Holds(secReq[q])'
    <2>1. Fits(secReq[q]) /\ Holds(secReq[q]) /\ secReq'[q] = secReq[q]
        BY <1>2, <1>7 DEF SecretIInv, RequestsStand
    <2>2. Fits(secReq[q])'
        BY <2>1 DEF Fits, SecretMoved, RowsFrom
    <2>3. \A c \in {secReq[q].prev, secReq[q].parent, secReq[q].conn} :
              Settled(c) => /\ c \in SecretConn /\ SettledAfter(c)
                            /\ conns'[c] \in {conns[c], NoConnRow}
        BY <1>1 DEF RowKept
    <2>4. Inserts(secReq[q]) => ~ Live(secReq[q].conn)' /\ ~ Live(secReq[q].conn)
        BY <1>3, <2>1, <1>7 DEF Inserts, SecretIInv, InsertsApart
    <2>5. Holds(secReq[q])'
        BY <2>1, <2>3, <2>4 DEF Holds, SettledAfter, Settled, Live, Global, NoConnRow, Inserts
    <2> QED
        BY <2>2, <2>5
<1>8. RequestsStand'
    BY <1>7 DEF RequestsStand
<1> QED
    BY <1>4, <1>5, <1>6, <1>8 DEF SecretIInv

(* What a step does to everything but the requests keeps its type.          *)
RestTyped ==
    /\ conns' \in [SecretConn -> ConnRow]
    /\ drawn' \subseteq SecretConn /\ creds' \subseteq drawn'
    /\ bindings' \in [SecretStack -> ConnId]
    /\ secStacks' \subseteq SecretStack
    /\ cuts' \in 0 .. MaxCuts

(* The step is one of request r alone, and everything is in place after it. *)
SecretDone(r) == SecretIInv' /\ BoundBy(r) /\ \E x : SecretMoved(r, x) /\ Step(r, x)

LEMMA SecretStepIInv ==
    ASSUME SecretIInv, NEW r \in SecretReq, NEW x, Step(r, x), SecretMoved(r, x), RestTyped,
           BoundBy(r), Fits(secReq[r])', Holds(secReq[r])'
    PROVE  SecretDone(r)
<1>1. raced' \in BOOLEAN
    BY DEF Step
<1>2. SecretTypeOK'
    BY <1>1 DEF SecretTypeOK, RestTyped, SecretMoved, SecretIInv
<1> QED
    BY <1>2, SecretMovedIInv DEF SecretDone

LEMMA NoSecretReqType == NoSecretReq \in SecretReqState
    BY DEF NoSecretReq, SecretReqState, Mode, ConnId

(* A request that returns leaves nothing behind that could stand out.       *)
LEMMA SecretReturned ==
    ASSUME SecretIInv, NEW r \in SecretReq, Return(r), drawn' = drawn, RowsFrom(r, NoSecretReq),
           RestTyped, BoundBy(r)
    PROVE  SecretDone(r)
<1>1. ~ Inserts(NoSecretReq)
    BY DEF Inserts, NoSecretReq
<1>2. Step(r, NoSecretReq) /\ secReq' = [secReq EXCEPT ![r] = NoSecretReq]
    BY DEF Return, Step
<1>3. SecretMoved(r, NoSecretReq)
    BY <1>1, <1>2, NoSecretReqType DEF SecretMoved
<1>4. secReq'[r] = NoSecretReq
    BY <1>2 DEF SecretIInv, SecretTypeOK
<1>5. Fits(secReq[r])' /\ Holds(secReq[r])'
    BY <1>4 DEF Fits, Holds, NoSecretReq
<1> QED
    BY <1>2, <1>3, <1>5, SecretStepIInv

(* Settings keeps the invariant.                                            *)
LEMMA SecretProviderIInv ==
    ASSUME SecretIInv, NEW r \in SecretReq, ProviderStep(r)
    PROVE  SecretDone(r)
<1> USE SecretConnectionsAssumption
<1>0. /\ secReq \in [SecretReq -> SecretReqState] /\ secReq[r] \in SecretReqState
      /\ Fits(secReq[r]) /\ Holds(secReq[r]) /\ SecretTypeOK
      /\ \A c \in SecretConn : conns[c] \in ConnRow
    BY DEF SecretIInv, SecretTypeOK, RequestsStand
<1>a. \A d : Live(d) => d \in SecretConn /\ Settled(d) /\ d \in drawn
    BY DEF SecretIInv, ConnsStand, Live, Settled
<1>b. NoConnRow \in ConnRow /\ [NoConnRow EXCEPT !.live = TRUE] \in ConnRow
    BY DEF NoConnRow, ConnRow, ConnId
<1>c. RowOf(secReq[r]) \in ConnRow
    BY <1>0 DEF RowOf, ConnRow, SecretReqState
<1>1. ASSUME NEW c \in SecretConn, NEW typed \in BOOLEAN, CreateProviderStart(r, c, typed)
      PROVE  SecretDone(r)
    <2> DEFINE x == [NoSecretReq EXCEPT !.op = "create", !.pc = "row", !.conn = c]
    <2>1. /\ x \in SecretReqState
          /\ x.op = "create" /\ x.pc = "row"
          /\ x.stack = Nobody
          /\ x.conn = c
          /\ x.parent = NoConn
          /\ x.prev = NoConn
          /\ x.private = FALSE
        BY <1>0, <1>1 DEF CreateProviderStart, NoSecretReq, SecretReqState, Mode, ConnId, At, SecretTypeOK, Fits, Live
    <2>2. Step(r, x)
        BY <1>1 DEF CreateProviderStart, Goto
    <2> HIDE DEF x
    <2>3. secReq' = [secReq EXCEPT ![r] = x] /\ secReq'[r] = x
        BY <1>0, <2>2 DEF Step
    <2>a. conns' \in [SecretConn -> ConnRow]
        BY <1>0, <1>b, <1>c, <1>1 DEF CreateProviderStart, SecretTypeOK, RowOf
    <2>4. RestTyped
        BY <1>0, <1>1, <2>a DEF CreateProviderStart, RestTyped, SecretTypeOK, At, Fits, ConnId, SecretReqState
    <2>5. RowsFrom(r, x) /\ BoundBy(r)
        BY <1>0, <1>1, <2>1 DEF CreateProviderStart, RowsFrom, RowOf, Inserts, BoundBy, At, Fits, SecretTypeOK
    <2>6. SecretMoved(r, x)
        BY <1>0, <1>1, <2>1, <2>3, <2>5 DEF CreateProviderStart, SecretMoved, Inserts, At
    <2>7. \A d : Settled(d) => d \in SecretConn /\ RowKept(d)
        BY <2>6, SecretKept
    <2>8. Fits(secReq[r])'
        BY <1>0, <1>a, <1>1, <2>1, <2>3 DEF CreateProviderStart, Global, Choosable, Reusable, Fits, At, SecretReqState, SecretTypeOK, Inserts
    <2>9. Holds(secReq[r])'
        BY <1>0, <1>a, <1>1, <2>1, <2>3, <2>7 DEF CreateProviderStart, Holds, Fits, At, RowKept, SettledAfter, Settled, Inserts, Live, Global, NoConnRow, SecretReqState
    <2> QED
        BY <2>2, <2>4, <2>5, <2>6, <2>8, <2>9, SecretStepIInv
<1>2. ASSUME CreateProviderRow(r)
      PROVE  SecretDone(r)
    <2>1. Return(r) /\ drawn' = drawn
        BY <1>2 DEF CreateProviderRow
    <2>a. conns' \in [SecretConn -> ConnRow]
        BY <1>0, <1>b, <1>2 DEF CreateProviderRow, SecretTypeOK
    <2>2. RestTyped
        BY <1>0, <1>2, <2>a DEF CreateProviderRow, RestTyped, SecretTypeOK, Fits, At, ConnId, SecretReqState
    <2>3. RowsFrom(r, NoSecretReq)
        BY <1>0, <1>2 DEF CreateProviderRow, RowsFrom, RowOf, Inserts, NoSecretReq, NoConnRow, At, Fits, SecretTypeOK
    <2>4. BoundBy(r)
        BY <1>0, <1>2 DEF CreateProviderRow, BoundBy, SecretTypeOK, SecretReqState
    <2> QED
        BY <2>1, <2>2, <2>3, <2>4, SecretReturned
<1>3. ASSUME NEW c \in SecretConn, UpdateProviderStart(r, c)
      PROVE  SecretDone(r)
    <2> DEFINE x == [NoSecretReq EXCEPT !.op = "update", !.pc = "creds", !.conn = c]
    <2>1. /\ x \in SecretReqState
          /\ x.op = "update" /\ x.pc = "creds"
          /\ x.stack = Nobody
          /\ x.conn = c
          /\ x.parent = NoConn
          /\ x.prev = NoConn
          /\ x.private = FALSE
        BY <1>0, <1>3 DEF UpdateProviderStart, NoSecretReq, SecretReqState, Mode, ConnId, At, SecretTypeOK, Fits, Live
    <2>2. Step(r, x)
        BY <1>3 DEF UpdateProviderStart, Goto
    <2> HIDE DEF x
    <2>3. secReq' = [secReq EXCEPT ![r] = x] /\ secReq'[r] = x
        BY <1>0, <2>2 DEF Step
    <2>a. conns' \in [SecretConn -> ConnRow]
        BY <1>0, <1>b, <1>c, <1>3 DEF UpdateProviderStart, SecretTypeOK, RowOf
    <2>4. RestTyped
        BY <1>0, <1>3, <2>a DEF UpdateProviderStart, RestTyped, SecretTypeOK, At, Fits, ConnId, SecretReqState
    <2>5. RowsFrom(r, x) /\ BoundBy(r)
        BY <1>0, <1>3, <2>1 DEF UpdateProviderStart, RowsFrom, RowOf, Inserts, BoundBy, At, Fits, SecretTypeOK
    <2>6. SecretMoved(r, x)
        BY <1>0, <1>3, <2>1, <2>3, <2>5 DEF UpdateProviderStart, SecretMoved, Inserts, At
    <2>7. \A d : Settled(d) => d \in SecretConn /\ RowKept(d)
        BY <2>6, SecretKept
    <2>8. Fits(secReq[r])'
        BY <1>0, <1>a, <1>3, <2>1, <2>3 DEF UpdateProviderStart, Global, Choosable, Reusable, Fits, At, SecretReqState, SecretTypeOK, Inserts
    <2>9. Holds(secReq[r])'
        BY <1>0, <1>a, <1>3, <2>1, <2>3, <2>7 DEF UpdateProviderStart, Holds, Fits, At, RowKept, SettledAfter, Settled, Inserts, Live, Global, NoConnRow, SecretReqState
    <2> QED
        BY <2>2, <2>4, <2>5, <2>6, <2>8, <2>9, SecretStepIInv
<1>4. ASSUME UpdateProvider(r)
      PROVE  SecretDone(r)
    <2>1. Return(r) /\ drawn' = drawn
        BY <1>4 DEF UpdateProvider
    <2>a. conns' \in [SecretConn -> ConnRow]
        BY <1>0, <1>b, <1>4 DEF UpdateProvider, SecretTypeOK
    <2>2. RestTyped
        BY <1>0, <1>4, <2>a DEF UpdateProvider, RestTyped, SecretTypeOK, Fits, At, ConnId, SecretReqState
    <2>3. RowsFrom(r, NoSecretReq)
        BY <1>0, <1>4 DEF UpdateProvider, RowsFrom, RowOf, Inserts, NoSecretReq, NoConnRow, At, Fits, SecretTypeOK
    <2>4. BoundBy(r)
        BY <1>0, <1>4 DEF UpdateProvider, BoundBy, SecretTypeOK, SecretReqState
    <2> QED
        BY <2>1, <2>2, <2>3, <2>4, SecretReturned
<1>5. ASSUME NEW c \in SecretConn, DeleteProviderCheck(r, c)
      PROVE  SecretDone(r)
    <2> DEFINE x == [NoSecretReq EXCEPT !.op = "delete", !.pc = "creds", !.conn = c]
    <2>1. /\ x \in SecretReqState
          /\ x.op = "delete" /\ x.pc = "creds"
          /\ x.stack = Nobody
          /\ x.conn = c
          /\ x.parent = NoConn
          /\ x.prev = NoConn
          /\ x.private = FALSE
        BY <1>0, <1>5 DEF DeleteProviderCheck, NoSecretReq, SecretReqState, Mode, ConnId, At, SecretTypeOK, Fits, Live
    <2>2. Step(r, x)
        BY <1>5 DEF DeleteProviderCheck, Goto
    <2> HIDE DEF x
    <2>3. secReq' = [secReq EXCEPT ![r] = x] /\ secReq'[r] = x
        BY <1>0, <2>2 DEF Step
    <2>a. conns' \in [SecretConn -> ConnRow]
        BY <1>0, <1>b, <1>c, <1>5 DEF DeleteProviderCheck, SecretTypeOK, RowOf
    <2>4. RestTyped
        BY <1>0, <1>5, <2>a DEF DeleteProviderCheck, RestTyped, SecretTypeOK, At, Fits, ConnId, SecretReqState
    <2>5. RowsFrom(r, x) /\ BoundBy(r)
        BY <1>0, <1>5, <2>1 DEF DeleteProviderCheck, RowsFrom, RowOf, Inserts, BoundBy, At, Fits, SecretTypeOK
    <2>6. SecretMoved(r, x)
        BY <1>0, <1>5, <2>1, <2>3, <2>5 DEF DeleteProviderCheck, SecretMoved, Inserts, At
    <2>7. \A d : Settled(d) => d \in SecretConn /\ RowKept(d)
        BY <2>6, SecretKept
    <2>8. Fits(secReq[r])'
        BY <1>0, <1>a, <1>5, <2>1, <2>3 DEF DeleteProviderCheck, Global, Choosable, Reusable, Fits, At, SecretReqState, SecretTypeOK, Inserts
    <2>9. Holds(secReq[r])'
        BY <1>0, <1>a, <1>5, <2>1, <2>3, <2>7 DEF DeleteProviderCheck, Holds, Fits, At, RowKept, SettledAfter, Settled, Inserts, Live, Global, NoConnRow, SecretReqState
    <2> QED
        BY <2>2, <2>4, <2>5, <2>6, <2>8, <2>9, SecretStepIInv
<1>6. ASSUME DeleteProviderCreds(r)
      PROVE  SecretDone(r)
    <2> DEFINE x == [secReq[r] EXCEPT !.pc = "row"]
    <2>1. /\ x \in SecretReqState
          /\ x.pc = "row"
          /\ x.op = secReq[r].op
          /\ x.stack = secReq[r].stack
          /\ x.mode = secReq[r].mode
          /\ x.conn = secReq[r].conn
          /\ x.parent = secReq[r].parent
          /\ x.prev = secReq[r].prev
          /\ x.typed = secReq[r].typed
          /\ x.private = secReq[r].private
          /\ x.left = secReq[r].left
        BY <1>0, <1>6 DEF DeleteProviderCreds, NoSecretReq, SecretReqState, Mode, ConnId, At, SecretTypeOK, Fits, Live
    <2>2. Step(r, x)
        BY <1>6 DEF DeleteProviderCreds, Goto
    <2> HIDE DEF x
    <2>3. secReq' = [secReq EXCEPT ![r] = x] /\ secReq'[r] = x
        BY <1>0, <2>2 DEF Step
    <2>a. conns' \in [SecretConn -> ConnRow]
        BY <1>0, <1>b, <1>c, <1>6 DEF DeleteProviderCreds, SecretTypeOK, RowOf
    <2>4. RestTyped
        BY <1>0, <1>6, <2>a DEF DeleteProviderCreds, RestTyped, SecretTypeOK, At, Fits, ConnId, SecretReqState
    <2>5. RowsFrom(r, x) /\ BoundBy(r)
        BY <1>0, <1>6, <2>1 DEF DeleteProviderCreds, RowsFrom, RowOf, Inserts, BoundBy, At, Fits, SecretTypeOK
    <2>6. SecretMoved(r, x)
        BY <1>0, <1>6, <2>1, <2>3, <2>5 DEF DeleteProviderCreds, SecretMoved, Inserts, At
    <2>7. \A d : Settled(d) => d \in SecretConn /\ RowKept(d)
        BY <2>6, SecretKept
    <2>8. Fits(secReq[r])'
        BY <1>0, <1>a, <1>6, <2>1, <2>3 DEF DeleteProviderCreds, Global, Choosable, Reusable, Fits, At, SecretReqState, SecretTypeOK, Inserts
    <2>9. Holds(secReq[r])'
        BY <1>0, <1>a, <1>6, <2>1, <2>3, <2>7 DEF DeleteProviderCreds, Holds, Fits, At, RowKept, SettledAfter, Settled, Inserts, Live, Global, NoConnRow, SecretReqState
    <2> QED
        BY <2>2, <2>4, <2>5, <2>6, <2>8, <2>9, SecretStepIInv
<1>7. ASSUME DeleteProviderRow(r)
      PROVE  SecretDone(r)
    <2>1. Return(r) /\ drawn' = drawn
        BY <1>7 DEF DeleteProviderRow
    <2>a. conns' \in [SecretConn -> ConnRow]
        BY <1>0, <1>b, <1>7 DEF DeleteProviderRow, SecretTypeOK
    <2>2. RestTyped
        BY <1>0, <1>7, <2>a DEF DeleteProviderRow, RestTyped, SecretTypeOK, Fits, At, ConnId, SecretReqState
    <2>3. RowsFrom(r, NoSecretReq)
        BY <1>0, <1>7 DEF DeleteProviderRow, RowsFrom, RowOf, Inserts, NoSecretReq, NoConnRow, At, Fits, SecretTypeOK
    <2>4. BoundBy(r)
        BY <1>0, <1>7 DEF DeleteProviderRow, BoundBy, SecretTypeOK, SecretReqState
    <2> QED
        BY <2>1, <2>2, <2>3, <2>4, SecretReturned
<1> QED
    BY <1>1, <1>2, <1>3, <1>4, <1>5, <1>6, <1>7 DEF ProviderStep

(* What the form names is found, or the request is refused.                 *)
LEMMA SecretLoadIInv ==
    ASSUME SecretIInv, NEW r \in SecretReq, SaveLoad(r)
    PROVE  SecretDone(r)
<1> USE SecretConnectionsAssumption
<1>0. /\ secReq \in [SecretReq -> SecretReqState] /\ secReq[r] \in SecretReqState
      /\ Fits(secReq[r]) /\ Holds(secReq[r]) /\ SecretTypeOK
      /\ \A c \in SecretConn : conns[c] \in ConnRow
    BY DEF SecretIInv, SecretTypeOK, RequestsStand
<1>a. \A d : Live(d) => d \in SecretConn /\ Settled(d) /\ d \in drawn
    BY DEF SecretIInv, ConnsStand, Live, Settled
<1>b. NoConnRow \in ConnRow /\ [NoConnRow EXCEPT !.live = TRUE] \in ConnRow
    BY DEF NoConnRow, ConnRow, ConnId
<1>c. RowOf(secReq[r]) \in ConnRow
    BY <1>0 DEF RowOf, ConnRow, SecretReqState
<1>1. ASSUME Return(r), drawn' = drawn, UNCHANGED <<conns, creds, bindings, secStacks, cuts>>
      PROVE  SecretDone(r)
    <2>1. Return(r) /\ drawn' = drawn
        BY <1>1 DEF At
    <2>a. conns' \in [SecretConn -> ConnRow]
        BY <1>0, <1>b, <1>1 DEF At, SecretTypeOK
    <2>2. RestTyped
        BY <1>0, <1>1, <2>a DEF At, RestTyped, SecretTypeOK, Fits, At, ConnId, SecretReqState
    <2>3. RowsFrom(r, NoSecretReq)
        BY <1>0, <1>1 DEF At, RowsFrom, RowOf, Inserts, NoSecretReq, NoConnRow, At, Fits, SecretTypeOK
    <2>4. BoundBy(r)
        BY <1>0, <1>1 DEF At, BoundBy, SecretTypeOK, SecretReqState
    <2> QED
        BY <2>1, <2>2, <2>3, <2>4, SecretReturned
<1>2. ASSUME At(r, "save", "load"), secReq[r].mode = "shared", Choosable(secReq[r].parent), drawn' = drawn, UNCHANGED <<conns, creds, bindings, secStacks, cuts>>,
             Step(r, [[secReq[r] EXCEPT !.prev = IF Live(@) THEN @ ELSE NoConn,
                                     !.private = Live(secReq[r].prev) /\ conns[secReq[r].prev].stack # Nobody]
                        EXCEPT !.conn = secReq[r].parent, !.pc = "bind"])
      PROVE  SecretDone(r)
    <2> DEFINE x == [[secReq[r] EXCEPT !.prev = IF Live(@) THEN @ ELSE NoConn,
                                     !.private = Live(secReq[r].prev) /\ conns[secReq[r].prev].stack # Nobody]
                        EXCEPT !.conn = secReq[r].parent, !.pc = "bind"]
    <2>1. /\ x \in SecretReqState
          /\ x.pc = "bind" /\ x.conn = secReq[r].parent
          /\ x.op = secReq[r].op
          /\ x.stack = secReq[r].stack
          /\ x.mode = secReq[r].mode
          /\ x.parent = secReq[r].parent
          /\ x.typed = secReq[r].typed
          /\ x.prev = IF Live(secReq[r].prev) THEN secReq[r].prev ELSE NoConn
          /\ x.private = (Live(secReq[r].prev) /\ conns[secReq[r].prev].stack # Nobody)
        BY <1>0, <1>2 DEF Choosable, Global, NoSecretReq, SecretReqState, Mode, ConnId, At, SecretTypeOK, Fits, Live
    <2>2. Step(r, x)
        BY <1>2 DEF Choosable, Global, Goto
    <2> HIDE DEF x
    <2>3. secReq' = [secReq EXCEPT ![r] = x] /\ secReq'[r] = x
        BY <1>0, <2>2 DEF Step
    <2>a. conns' \in [SecretConn -> ConnRow]
        BY <1>0, <1>b, <1>c, <1>2 DEF Choosable, Global, SecretTypeOK, RowOf
    <2>4. RestTyped
        BY <1>0, <1>2, <2>a DEF Choosable, Global, RestTyped, SecretTypeOK, At, Fits, ConnId, SecretReqState
    <2>5. RowsFrom(r, x) /\ BoundBy(r)
        BY <1>0, <1>2, <2>1 DEF Choosable, Global, RowsFrom, RowOf, Inserts, BoundBy, At, Fits, SecretTypeOK
    <2>6. SecretMoved(r, x)
        BY <1>0, <1>2, <2>1, <2>3, <2>5 DEF Choosable, Global, SecretMoved, Inserts, At
    <2>7. \A d : Settled(d) => d \in SecretConn /\ RowKept(d)
        BY <2>6, SecretKept
    <2>8. Fits(secReq[r])'
        BY <1>0, <1>a, <1>2, <2>1, <2>3 DEF Choosable, Global, Global, Choosable, Reusable, Fits, At, SecretReqState, SecretTypeOK, Inserts
    <2>9. Holds(secReq[r])'
        BY <1>0, <1>a, <1>2, <2>1, <2>3, <2>7 DEF Choosable, Global, Holds, Fits, At, RowKept, SettledAfter, Settled, Inserts, Live, Global, NoConnRow, SecretReqState
    <2> QED
        BY <2>2, <2>4, <2>5, <2>6, <2>8, <2>9, SecretStepIInv
<1>3. ASSUME At(r, "save", "load"), (secReq[r].mode = "separate" \/ Choosable(secReq[r].parent)), Reusable(secReq[r]), drawn' = drawn, UNCHANGED <<conns, creds, bindings, secStacks, cuts>>,
             Step(r, [[secReq[r] EXCEPT !.prev = IF Live(@) THEN @ ELSE NoConn,
                                     !.private = Live(secReq[r].prev) /\ conns[secReq[r].prev].stack # Nobody]
                        EXCEPT !.conn = secReq[r].prev, !.pc = "update"])
      PROVE  SecretDone(r)
    <2> DEFINE x == [[secReq[r] EXCEPT !.prev = IF Live(@) THEN @ ELSE NoConn,
                                     !.private = Live(secReq[r].prev) /\ conns[secReq[r].prev].stack # Nobody]
                        EXCEPT !.conn = secReq[r].prev, !.pc = "update"]
    <2>1. /\ x \in SecretReqState
          /\ x.pc = "update" /\ x.conn = secReq[r].prev
          /\ x.op = secReq[r].op
          /\ x.stack = secReq[r].stack
          /\ x.mode = secReq[r].mode
          /\ x.parent = secReq[r].parent
          /\ x.typed = secReq[r].typed
          /\ x.prev = IF Live(secReq[r].prev) THEN secReq[r].prev ELSE NoConn
          /\ x.private = (Live(secReq[r].prev) /\ conns[secReq[r].prev].stack # Nobody)
        BY <1>0, <1>3 DEF Choosable, Reusable, NoSecretReq, SecretReqState, Mode, ConnId, At, SecretTypeOK, Fits, Live
    <2>2. Step(r, x)
        BY <1>3 DEF Choosable, Reusable, Goto
    <2> HIDE DEF x
    <2>3. secReq' = [secReq EXCEPT ![r] = x] /\ secReq'[r] = x
        BY <1>0, <2>2 DEF Step
    <2>a. conns' \in [SecretConn -> ConnRow]
        BY <1>0, <1>b, <1>c, <1>3 DEF Choosable, Reusable, SecretTypeOK, RowOf
    <2>4. RestTyped
        BY <1>0, <1>3, <2>a DEF Choosable, Reusable, RestTyped, SecretTypeOK, At, Fits, ConnId, SecretReqState
    <2>5. RowsFrom(r, x) /\ BoundBy(r)
        BY <1>0, <1>3, <2>1 DEF Choosable, Reusable, RowsFrom, RowOf, Inserts, BoundBy, At, Fits, SecretTypeOK
    <2>6. SecretMoved(r, x)
        BY <1>0, <1>3, <2>1, <2>3, <2>5 DEF Choosable, Reusable, SecretMoved, Inserts, At
    <2>7. \A d : Settled(d) => d \in SecretConn /\ RowKept(d)
        BY <2>6, SecretKept
    <2>8. Fits(secReq[r])'
        BY <1>0, <1>a, <1>3, <2>1, <2>3 DEF Choosable, Reusable, Global, Choosable, Reusable, Fits, At, SecretReqState, SecretTypeOK, Inserts
    <2>9. Holds(secReq[r])'
        BY <1>0, <1>a, <1>3, <2>1, <2>3, <2>7 DEF Choosable, Reusable, Holds, Fits, At, RowKept, SettledAfter, Settled, Inserts, Live, Global, NoConnRow, SecretReqState
    <2> QED
        BY <2>2, <2>4, <2>5, <2>6, <2>8, <2>9, SecretStepIInv
<1>4. ASSUME At(r, "save", "load"), (secReq[r].mode = "separate" \/ Choosable(secReq[r].parent)), UNCHANGED <<conns, creds, bindings, secStacks, cuts>>,
             NEW c \in SecretConn \ drawn, drawn' = drawn \union {c},
             Step(r, [[secReq[r] EXCEPT !.prev = IF Live(@) THEN @ ELSE NoConn,
                                     !.private = Live(secReq[r].prev) /\ conns[secReq[r].prev].stack # Nobody]
                        EXCEPT !.conn = c, !.pc = "creds"])
      PROVE  SecretDone(r)
    <2> DEFINE x == [[secReq[r] EXCEPT !.prev = IF Live(@) THEN @ ELSE NoConn,
                                     !.private = Live(secReq[r].prev) /\ conns[secReq[r].prev].stack # Nobody]
                        EXCEPT !.conn = c, !.pc = "creds"]
    <2>1. /\ x \in SecretReqState
          /\ x.pc = "creds" /\ x.conn = c
          /\ x.op = secReq[r].op
          /\ x.stack = secReq[r].stack
          /\ x.mode = secReq[r].mode
          /\ x.parent = secReq[r].parent
          /\ x.typed = secReq[r].typed
          /\ x.prev = IF Live(secReq[r].prev) THEN secReq[r].prev ELSE NoConn
          /\ x.private = (Live(secReq[r].prev) /\ conns[secReq[r].prev].stack # Nobody)
        BY <1>0, <1>4 DEF Choosable, Reusable, NoSecretReq, SecretReqState, Mode, ConnId, At, SecretTypeOK, Fits, Live
    <2>2. Step(r, x)
        BY <1>4 DEF Choosable, Reusable, Goto
    <2> HIDE DEF x
    <2>3. secReq' = [secReq EXCEPT ![r] = x] /\ secReq'[r] = x
        BY <1>0, <2>2 DEF Step
    <2>a. conns' \in [SecretConn -> ConnRow]
        BY <1>0, <1>b, <1>c, <1>4 DEF Choosable, Reusable, SecretTypeOK, RowOf
    <2>4. RestTyped
        BY <1>0, <1>4, <2>a DEF Choosable, Reusable, RestTyped, SecretTypeOK, At, Fits, ConnId, SecretReqState
    <2>5. RowsFrom(r, x) /\ BoundBy(r)
        BY <1>0, <1>4, <2>1 DEF Choosable, Reusable, RowsFrom, RowOf, Inserts, BoundBy, At, Fits, SecretTypeOK
    <2>6. SecretMoved(r, x)
        BY <1>0, <1>4, <2>1, <2>3, <2>5 DEF Choosable, Reusable, SecretMoved, Inserts, At
    <2>7. \A d : Settled(d) => d \in SecretConn /\ RowKept(d)
        BY <2>6, SecretKept
    <2>8. Fits(secReq[r])'
        BY <1>0, <1>a, <1>4, <2>1, <2>3 DEF Choosable, Reusable, Global, Choosable, Reusable, Fits, At, SecretReqState, SecretTypeOK, Inserts
    <2>9. Holds(secReq[r])'
        BY <1>0, <1>a, <1>4, <2>1, <2>3, <2>7 DEF Choosable, Reusable, Holds, Fits, At, RowKept, SettledAfter, Settled, Inserts, Live, Global, NoConnRow, SecretReqState
    <2> QED
        BY <2>2, <2>4, <2>5, <2>6, <2>8, <2>9, SecretStepIInv
<1> QED
    BY <1>1, <1>2, <1>3, <1>4 DEF SaveLoad, Goto

(* The handlers of a binding keep the invariant.                            *)
LEMMA SecretBindingIInv ==
    ASSUME SecretIInv, NEW r \in SecretReq, BindingStep(r)
    PROVE  SecretDone(r)
<1> USE SecretConnectionsAssumption
<1>0. /\ secReq \in [SecretReq -> SecretReqState] /\ secReq[r] \in SecretReqState
      /\ Fits(secReq[r]) /\ Holds(secReq[r]) /\ SecretTypeOK
      /\ \A c \in SecretConn : conns[c] \in ConnRow
    BY DEF SecretIInv, SecretTypeOK, RequestsStand
<1>a. \A d : Live(d) => d \in SecretConn /\ Settled(d) /\ d \in drawn
    BY DEF SecretIInv, ConnsStand, Live, Settled
<1>b. NoConnRow \in ConnRow /\ [NoConnRow EXCEPT !.live = TRUE] \in ConnRow
    BY DEF NoConnRow, ConnRow, ConnId
<1>c. RowOf(secReq[r]) \in ConnRow
    BY <1>0 DEF RowOf, ConnRow, SecretReqState
<1>1. ASSUME NEW s \in SecretStack, NEW mode \in Mode, NEW c \in ConnId, NEW typed \in BOOLEAN,
             SaveStart(r, s, mode, c, typed)
      PROVE  SecretDone(r)
    <2> DEFINE x == [NoSecretReq EXCEPT !.op = "save", !.pc = "load", !.stack = s, !.mode = mode,
                                   !.parent = c, !.prev = bindings[s], !.typed = typed]
    <2>1. /\ x \in SecretReqState
          /\ x.op = "save" /\ x.pc = "load"
          /\ x.stack = s
          /\ x.conn = NoConn
          /\ x.parent = c
          /\ x.prev = bindings[s]
          /\ x.private = FALSE
          /\ x.mode = mode
        BY <1>0, <1>1 DEF SaveStart, NoSecretReq, SecretReqState, Mode, ConnId, SecretTypeOK
    <2>2. Step(r, x)
        BY <1>1 DEF SaveStart, Goto
    <2> HIDE DEF x
    <2>3. secReq' = [secReq EXCEPT ![r] = x] /\ secReq'[r] = x
        BY <1>0, <2>2 DEF Step
    <2>a. conns' \in [SecretConn -> ConnRow]
        BY <1>0, <1>b, <1>c, <1>1 DEF SaveStart, SecretTypeOK, RowOf
    <2>4. RestTyped
        BY <1>0, <1>1, <2>a DEF SaveStart, RestTyped, SecretTypeOK, At, Fits, ConnId, SecretReqState
    <2>5. RowsFrom(r, x) /\ BoundBy(r)
        BY <1>0, <1>1, <2>1 DEF SaveStart, RowsFrom, RowOf, Inserts, BoundBy, At, Fits, SecretTypeOK
    <2>6. SecretMoved(r, x)
        BY <1>0, <1>1, <2>1, <2>3, <2>5 DEF SaveStart, SecretMoved, Inserts, At
    <2>7. \A d : Settled(d) => d \in SecretConn /\ RowKept(d)
        BY <2>6, SecretKept
    <2>8. Fits(secReq[r])'
        BY <1>0, <1>a, <1>1, <2>1, <2>3 DEF SaveStart, Global, Choosable, Reusable, Fits, At, SecretReqState, SecretTypeOK, Inserts
    <2>9. Holds(secReq[r])'
        BY <1>0, <1>a, <1>1, <2>1, <2>3, <2>7 DEF SaveStart, Holds, Fits, At, RowKept, SettledAfter, Settled, Inserts, Live, Global, NoConnRow, SecretReqState, SecretIInv, BindingsStand
    <2> QED
        BY <2>2, <2>4, <2>5, <2>6, <2>8, <2>9, SecretStepIInv
<1>2. ASSUME SaveLoad(r) PROVE SecretDone(r)
    BY <1>2, SecretLoadIInv
<1>3. ASSUME SaveUpdate(r), Live(secReq[r].conn), secReq[r].typed
      PROVE  SecretDone(r)
    <2> DEFINE x == [secReq[r] EXCEPT !.pc = "creds"]
    <2>1. /\ x \in SecretReqState
          /\ x.pc = "creds"
          /\ x.op = secReq[r].op
          /\ x.stack = secReq[r].stack
          /\ x.mode = secReq[r].mode
          /\ x.conn = secReq[r].conn
          /\ x.parent = secReq[r].parent
          /\ x.prev = secReq[r].prev
          /\ x.typed = secReq[r].typed
          /\ x.private = secReq[r].private
          /\ x.left = secReq[r].left
        BY <1>0, <1>3 DEF SaveUpdate, NoSecretReq, SecretReqState, Mode, ConnId, At, SecretTypeOK, Fits, Live
    <2>2. Step(r, x)
        BY <1>3 DEF SaveUpdate, Goto
    <2> HIDE DEF x
    <2>3. secReq' = [secReq EXCEPT ![r] = x] /\ secReq'[r] = x
        BY <1>0, <2>2 DEF Step
    <2>a. conns' \in [SecretConn -> ConnRow]
        BY <1>0, <1>b, <1>c, <1>3 DEF SaveUpdate, SecretTypeOK, RowOf
    <2>4. RestTyped
        BY <1>0, <1>3, <2>a DEF SaveUpdate, RestTyped, SecretTypeOK, At, Fits, ConnId, SecretReqState
    <2>5. RowsFrom(r, x) /\ BoundBy(r)
        BY <1>0, <1>3, <2>1 DEF SaveUpdate, RowsFrom, RowOf, Inserts, BoundBy, At, Fits, SecretTypeOK
    <2>6. SecretMoved(r, x)
        BY <1>0, <1>3, <2>1, <2>3, <2>5 DEF SaveUpdate, SecretMoved, Inserts, At, Fits
    <2>7. \A d : Settled(d) => d \in SecretConn /\ RowKept(d)
        BY <2>6, SecretKept
    <2>8. Fits(secReq[r])'
        BY <1>0, <1>a, <1>3, <2>1, <2>3 DEF SaveUpdate, Global, Choosable, Reusable, Fits, At, SecretReqState, SecretTypeOK, Inserts
    <2>9. Holds(secReq[r])'
        BY <1>0, <1>a, <1>3, <2>1, <2>3, <2>7 DEF SaveUpdate, Holds, Fits, At, RowKept, SettledAfter, Settled, Inserts, Live, Global, NoConnRow, SecretReqState
    <2> QED
        BY <2>2, <2>4, <2>5, <2>6, <2>8, <2>9, SecretStepIInv
<1>4. ASSUME SaveUpdate(r), Live(secReq[r].conn), ~ secReq[r].typed
      PROVE  SecretDone(r)
    <2> DEFINE x == [secReq[r] EXCEPT !.pc = "bind"]
    <2>1. /\ x \in SecretReqState
          /\ x.pc = "bind"
          /\ x.op = secReq[r].op
          /\ x.stack = secReq[r].stack
          /\ x.mode = secReq[r].mode
          /\ x.conn = secReq[r].conn
          /\ x.parent = secReq[r].parent
          /\ x.prev = secReq[r].prev
          /\ x.typed = secReq[r].typed
          /\ x.private = secReq[r].private
          /\ x.left = secReq[r].left
        BY <1>0, <1>4 DEF SaveUpdate, NoSecretReq, SecretReqState, Mode, ConnId, At, SecretTypeOK, Fits, Live
    <2>2. Step(r, x)
        BY <1>4 DEF SaveUpdate, Goto
    <2> HIDE DEF x
    <2>3. secReq' = [secReq EXCEPT ![r] = x] /\ secReq'[r] = x
        BY <1>0, <2>2 DEF Step
    <2>a. conns' \in [SecretConn -> ConnRow]
        BY <1>0, <1>b, <1>c, <1>4 DEF SaveUpdate, SecretTypeOK, RowOf
    <2>4. RestTyped
        BY <1>0, <1>4, <2>a DEF SaveUpdate, RestTyped, SecretTypeOK, At, Fits, ConnId, SecretReqState
    <2>5. RowsFrom(r, x) /\ BoundBy(r)
        BY <1>0, <1>4, <2>1 DEF SaveUpdate, RowsFrom, RowOf, Inserts, BoundBy, At, Fits, SecretTypeOK
    <2>6. SecretMoved(r, x)
        BY <1>0, <1>4, <2>1, <2>3, <2>5 DEF SaveUpdate, SecretMoved, Inserts, At
    <2>7. \A d : Settled(d) => d \in SecretConn /\ RowKept(d)
        BY <2>6, SecretKept
    <2>8. Fits(secReq[r])'
        BY <1>0, <1>a, <1>4, <2>1, <2>3 DEF SaveUpdate, Global, Choosable, Reusable, Fits, At, SecretReqState, SecretTypeOK, Inserts
    <2>9. Holds(secReq[r])'
        BY <1>0, <1>a, <1>4, <2>1, <2>3, <2>7 DEF SaveUpdate, Holds, Fits, At, RowKept, SettledAfter, Settled, Inserts, Live, Global, NoConnRow, SecretReqState
    <2> QED
        BY <2>2, <2>4, <2>5, <2>6, <2>8, <2>9, SecretStepIInv
<1>5. ASSUME SaveUpdate(r), ~ Live(secReq[r].conn)
      PROVE  SecretDone(r)
    <2>1. Return(r) /\ drawn' = drawn
        BY <1>5 DEF SaveUpdate
    <2>a. conns' \in [SecretConn -> ConnRow]
        BY <1>0, <1>b, <1>5 DEF SaveUpdate, SecretTypeOK
    <2>2. RestTyped
        BY <1>0, <1>5, <2>a DEF SaveUpdate, RestTyped, SecretTypeOK, Fits, At, ConnId, SecretReqState
    <2>3. RowsFrom(r, NoSecretReq)
        BY <1>0, <1>5 DEF SaveUpdate, RowsFrom, RowOf, Inserts, NoSecretReq, NoConnRow, At, Fits, SecretTypeOK
    <2>4. BoundBy(r)
        BY <1>0, <1>5 DEF SaveUpdate, BoundBy, SecretTypeOK, SecretReqState
    <2> QED
        BY <2>1, <2>2, <2>3, <2>4, SecretReturned
<1>6. ASSUME SaveCreds(r), secReq[r].conn = secReq[r].prev
      PROVE  SecretDone(r)
    <2> DEFINE x == [secReq[r] EXCEPT !.pc = "bind"]
    <2>1. /\ x \in SecretReqState
          /\ x.pc = "bind"
          /\ x.op = secReq[r].op
          /\ x.stack = secReq[r].stack
          /\ x.mode = secReq[r].mode
          /\ x.conn = secReq[r].conn
          /\ x.parent = secReq[r].parent
          /\ x.prev = secReq[r].prev
          /\ x.typed = secReq[r].typed
          /\ x.private = secReq[r].private
          /\ x.left = secReq[r].left
        BY <1>0, <1>6 DEF SaveCreds, NoSecretReq, SecretReqState, Mode, ConnId, At, SecretTypeOK, Fits, Live
    <2>2. Step(r, x)
        BY <1>6 DEF SaveCreds, Goto
    <2> HIDE DEF x
    <2>3. secReq' = [secReq EXCEPT ![r] = x] /\ secReq'[r] = x
        BY <1>0, <2>2 DEF Step
    <2>a. conns' \in [SecretConn -> ConnRow]
        BY <1>0, <1>b, <1>c, <1>6 DEF SaveCreds, SecretTypeOK, RowOf
    <2>4. RestTyped
        BY <1>0, <1>6, <2>a DEF SaveCreds, RestTyped, SecretTypeOK, At, Fits, ConnId, SecretReqState
    <2>5. RowsFrom(r, x) /\ BoundBy(r)
        BY <1>0, <1>6, <2>1 DEF SaveCreds, RowsFrom, RowOf, Inserts, BoundBy, At, Fits, SecretTypeOK
    <2>6. SecretMoved(r, x)
        BY <1>0, <1>6, <2>1, <2>3, <2>5 DEF SaveCreds, SecretMoved, Inserts, At
    <2>7. \A d : Settled(d) => d \in SecretConn /\ RowKept(d)
        BY <2>6, SecretKept
    <2>8. Fits(secReq[r])'
        BY <1>0, <1>a, <1>6, <2>1, <2>3 DEF SaveCreds, Global, Choosable, Reusable, Fits, At, SecretReqState, SecretTypeOK, Inserts
    <2>9. Holds(secReq[r])'
        BY <1>0, <1>a, <1>6, <2>1, <2>3, <2>7 DEF SaveCreds, Holds, Fits, At, RowKept, SettledAfter, Settled, Inserts, Live, Global, NoConnRow, SecretReqState
    <2> QED
        BY <2>2, <2>4, <2>5, <2>6, <2>8, <2>9, SecretStepIInv
<1>7. ASSUME SaveCreds(r), secReq[r].conn # secReq[r].prev
      PROVE  SecretDone(r)
    <2> DEFINE x == [secReq[r] EXCEPT !.pc = "row"]
    <2>1. /\ x \in SecretReqState
          /\ x.pc = "row"
          /\ x.op = secReq[r].op
          /\ x.stack = secReq[r].stack
          /\ x.mode = secReq[r].mode
          /\ x.conn = secReq[r].conn
          /\ x.parent = secReq[r].parent
          /\ x.prev = secReq[r].prev
          /\ x.typed = secReq[r].typed
          /\ x.private = secReq[r].private
          /\ x.left = secReq[r].left
        BY <1>0, <1>7 DEF SaveCreds, NoSecretReq, SecretReqState, Mode, ConnId, At, SecretTypeOK, Fits, Live
    <2>2. Step(r, x)
        BY <1>7 DEF SaveCreds, Goto
    <2> HIDE DEF x
    <2>3. secReq' = [secReq EXCEPT ![r] = x] /\ secReq'[r] = x
        BY <1>0, <2>2 DEF Step
    <2>a. conns' \in [SecretConn -> ConnRow]
        BY <1>0, <1>b, <1>c, <1>7 DEF SaveCreds, SecretTypeOK, RowOf
    <2>4. RestTyped
        BY <1>0, <1>7, <2>a DEF SaveCreds, RestTyped, SecretTypeOK, At, Fits, ConnId, SecretReqState
    <2>5. RowsFrom(r, x) /\ BoundBy(r)
        BY <1>0, <1>7, <2>1 DEF SaveCreds, RowsFrom, RowOf, Inserts, BoundBy, At, Fits, SecretTypeOK
    <2>6. SecretMoved(r, x)
        BY <1>0, <1>7, <2>1, <2>3, <2>5 DEF SaveCreds, SecretMoved, Inserts, At
    <2>7. \A d : Settled(d) => d \in SecretConn /\ RowKept(d)
        BY <2>6, SecretKept
    <2>8. Fits(secReq[r])'
        BY <1>0, <1>a, <1>7, <2>1, <2>3 DEF SaveCreds, Global, Choosable, Reusable, Fits, At, SecretReqState, SecretTypeOK, Inserts
    <2>9. Holds(secReq[r])'
        BY <1>0, <1>a, <1>7, <2>1, <2>3, <2>7 DEF SaveCreds, Holds, Fits, At, RowKept, SettledAfter, Settled, Inserts, Live, Global, NoConnRow, SecretReqState
    <2> QED
        BY <2>2, <2>4, <2>5, <2>6, <2>8, <2>9, SecretStepIInv
<1>8. ASSUME SaveRow(r)
      PROVE  SecretDone(r)
    <2> DEFINE x == [secReq[r] EXCEPT !.pc = "bind"]
    <2>1. /\ x \in SecretReqState
          /\ x.pc = "bind"
          /\ x.op = secReq[r].op
          /\ x.stack = secReq[r].stack
          /\ x.mode = secReq[r].mode
          /\ x.conn = secReq[r].conn
          /\ x.parent = secReq[r].parent
          /\ x.prev = secReq[r].prev
          /\ x.typed = secReq[r].typed
          /\ x.private = secReq[r].private
          /\ x.left = secReq[r].left
        BY <1>0, <1>8 DEF SaveRow, NoSecretReq, SecretReqState, Mode, ConnId, At, SecretTypeOK, Fits, Live
    <2>2. Step(r, x)
        BY <1>8 DEF SaveRow, Goto
    <2> HIDE DEF x
    <2>3. secReq' = [secReq EXCEPT ![r] = x] /\ secReq'[r] = x
        BY <1>0, <2>2 DEF Step
    <2>a. conns' \in [SecretConn -> ConnRow]
        BY <1>0, <1>b, <1>c, <1>8 DEF SaveRow, SecretTypeOK, RowOf
    <2>4. RestTyped
        BY <1>0, <1>8, <2>a DEF SaveRow, RestTyped, SecretTypeOK, At, Fits, ConnId, SecretReqState
    <2>5. RowsFrom(r, x) /\ BoundBy(r)
        BY <1>0, <1>8, <2>1 DEF SaveRow, RowsFrom, RowOf, Inserts, BoundBy, At, Fits, SecretTypeOK
    <2>6. SecretMoved(r, x)
        BY <1>0, <1>8, <2>1, <2>3, <2>5 DEF SaveRow, SecretMoved, Inserts, At
    <2>7. \A d : Settled(d) => d \in SecretConn /\ RowKept(d)
        BY <2>6, SecretKept
    <2>8. Fits(secReq[r])'
        BY <1>0, <1>a, <1>8, <2>1, <2>3 DEF SaveRow, Global, Choosable, Reusable, Fits, At, SecretReqState, SecretTypeOK, Inserts
    <2>9. Holds(secReq[r])'
        BY <1>0, <1>a, <1>8, <2>1, <2>3, <2>7 DEF SaveRow, Holds, Fits, At, RowKept, SettledAfter, Settled, Inserts, Live, Global, NoConnRow, SecretReqState, SecretIInv, InsertsApart, SecretTypeOK
    <2> QED
        BY <2>2, <2>4, <2>5, <2>6, <2>8, <2>9, SecretStepIInv
<1>9. ASSUME SaveBind(r), Superseded(secReq[r])
      PROVE  SecretDone(r)
    <2> DEFINE x == [secReq[r] EXCEPT !.pc = "dropCreds"]
    <2>1. /\ x \in SecretReqState
          /\ x.pc = "dropCreds"
          /\ x.op = secReq[r].op
          /\ x.stack = secReq[r].stack
          /\ x.mode = secReq[r].mode
          /\ x.conn = secReq[r].conn
          /\ x.parent = secReq[r].parent
          /\ x.prev = secReq[r].prev
          /\ x.typed = secReq[r].typed
          /\ x.private = secReq[r].private
          /\ x.left = secReq[r].left
        BY <1>0, <1>9 DEF SaveBind, Superseded, NoSecretReq, SecretReqState, Mode, ConnId, At, SecretTypeOK, Fits, Live
    <2>2. Step(r, x)
        BY <1>9 DEF SaveBind, Superseded, Goto
    <2> HIDE DEF x
    <2>3. secReq' = [secReq EXCEPT ![r] = x] /\ secReq'[r] = x
        BY <1>0, <2>2 DEF Step
    <2>a. conns' \in [SecretConn -> ConnRow]
        BY <1>0, <1>b, <1>c, <1>9 DEF SaveBind, Superseded, SecretTypeOK, RowOf
    <2>4. RestTyped
        BY <1>0, <1>9, <2>a DEF SaveBind, Superseded, RestTyped, SecretTypeOK, At, Fits, ConnId, SecretReqState
    <2>5. RowsFrom(r, x) /\ BoundBy(r)
        BY <1>0, <1>9, <2>1 DEF SaveBind, Superseded, RowsFrom, RowOf, Inserts, BoundBy, At, Fits, SecretTypeOK
    <2>6. SecretMoved(r, x)
        BY <1>0, <1>9, <2>1, <2>3, <2>5 DEF SaveBind, Superseded, SecretMoved, Inserts, At
    <2>7. \A d : Settled(d) => d \in SecretConn /\ RowKept(d)
        BY <2>6, SecretKept
    <2>8. Fits(secReq[r])'
        BY <1>0, <1>a, <1>9, <2>1, <2>3 DEF SaveBind, Superseded, Global, Choosable, Reusable, Fits, At, SecretReqState, SecretTypeOK, Inserts, Holds
    <2>9. Holds(secReq[r])'
        BY <1>0, <1>a, <1>9, <2>1, <2>3, <2>7 DEF SaveBind, Superseded, Holds, Fits, At, RowKept, SettledAfter, Settled, Inserts, Live, Global, NoConnRow, SecretReqState
    <2> QED
        BY <2>2, <2>4, <2>5, <2>6, <2>8, <2>9, SecretStepIInv
<1>10. ASSUME SaveBind(r), ~ Superseded(secReq[r])
      PROVE  SecretDone(r)
    <2>1. Return(r) /\ drawn' = drawn
        BY <1>10 DEF SaveBind
    <2>a. conns' \in [SecretConn -> ConnRow]
        BY <1>0, <1>b, <1>10 DEF SaveBind, SecretTypeOK
    <2>2. RestTyped
        BY <1>0, <1>10, <2>a DEF SaveBind, RestTyped, SecretTypeOK, Fits, At, ConnId, SecretReqState
    <2>3. RowsFrom(r, NoSecretReq)
        BY <1>0, <1>10 DEF SaveBind, RowsFrom, RowOf, Inserts, NoSecretReq, NoConnRow, At, Fits, SecretTypeOK
    <2>4. BoundBy(r)
        BY <1>0, <1>10 DEF SaveBind, BoundBy, SecretTypeOK, SecretReqState
    <2> QED
        BY <2>1, <2>2, <2>3, <2>4, SecretReturned
<1>11. ASSUME DropCreds(r)
      PROVE  SecretDone(r)
    <2> DEFINE x == [secReq[r] EXCEPT !.pc = "dropRow"]
    <2>1. /\ x \in SecretReqState
          /\ x.pc = "dropRow"
          /\ x.op = secReq[r].op
          /\ x.stack = secReq[r].stack
          /\ x.mode = secReq[r].mode
          /\ x.conn = secReq[r].conn
          /\ x.parent = secReq[r].parent
          /\ x.prev = secReq[r].prev
          /\ x.typed = secReq[r].typed
          /\ x.private = secReq[r].private
          /\ x.left = secReq[r].left
        BY <1>0, <1>11 DEF DropCreds, NoSecretReq, SecretReqState, Mode, ConnId, At, SecretTypeOK, Fits, Live
    <2>2. Step(r, x)
        BY <1>11 DEF DropCreds, Goto
    <2> HIDE DEF x
    <2>3. secReq' = [secReq EXCEPT ![r] = x] /\ secReq'[r] = x
        BY <1>0, <2>2 DEF Step
    <2>a. conns' \in [SecretConn -> ConnRow]
        BY <1>0, <1>b, <1>c, <1>11 DEF DropCreds, SecretTypeOK, RowOf
    <2>4. RestTyped
        BY <1>0, <1>11, <2>a DEF DropCreds, RestTyped, SecretTypeOK, At, Fits, ConnId, SecretReqState
    <2>5. RowsFrom(r, x) /\ BoundBy(r)
        BY <1>0, <1>11, <2>1 DEF DropCreds, RowsFrom, RowOf, Inserts, BoundBy, At, Fits, SecretTypeOK
    <2>6. SecretMoved(r, x)
        BY <1>0, <1>11, <2>1, <2>3, <2>5 DEF DropCreds, SecretMoved, Inserts, At
    <2>7. \A d : Settled(d) => d \in SecretConn /\ RowKept(d)
        BY <2>6, SecretKept
    <2>8. Fits(secReq[r])'
        BY <1>0, <1>a, <1>11, <2>1, <2>3 DEF DropCreds, Global, Choosable, Reusable, Fits, At, SecretReqState, SecretTypeOK, Inserts
    <2>9. Holds(secReq[r])'
        BY <1>0, <1>a, <1>11, <2>1, <2>3, <2>7 DEF DropCreds, Holds, Fits, At, RowKept, SettledAfter, Settled, Inserts, Live, Global, NoConnRow, SecretReqState
    <2> QED
        BY <2>2, <2>4, <2>5, <2>6, <2>8, <2>9, SecretStepIInv
<1>12. ASSUME DropRow(r)
      PROVE  SecretDone(r)
    <2>1. Return(r) /\ drawn' = drawn
        BY <1>12 DEF DropRow
    <2>a. conns' \in [SecretConn -> ConnRow]
        BY <1>0, <1>b, <1>12 DEF DropRow, SecretTypeOK
    <2>2. RestTyped
        BY <1>0, <1>12, <2>a DEF DropRow, RestTyped, SecretTypeOK, Fits, At, ConnId, SecretReqState
    <2>3. RowsFrom(r, NoSecretReq)
        BY <1>0, <1>12 DEF DropRow, RowsFrom, RowOf, Inserts, NoSecretReq, NoConnRow, At, Fits, SecretTypeOK
    <2>4. BoundBy(r)
        BY <1>0, <1>12 DEF DropRow, BoundBy, SecretTypeOK, SecretReqState
    <2> QED
        BY <2>1, <2>2, <2>3, <2>4, SecretReturned
<1>13. ASSUME NEW s \in SecretStack, UnbindStart(r, s)
      PROVE  SecretDone(r)
    <2> DEFINE x == [NoSecretReq EXCEPT !.op = "unbind", !.pc = "bind", !.stack = s, !.prev = bindings[s]]
    <2>1. /\ x \in SecretReqState
          /\ x.op = "unbind" /\ x.pc = "bind"
          /\ x.stack = s
          /\ x.conn = NoConn
          /\ x.parent = NoConn
          /\ x.prev = bindings[s]
          /\ x.private = FALSE
        BY <1>0, <1>13 DEF UnbindStart, NoSecretReq, SecretReqState, Mode, ConnId, At, SecretTypeOK, Fits, Live
    <2>2. Step(r, x)
        BY <1>13 DEF UnbindStart, Goto
    <2> HIDE DEF x
    <2>3. secReq' = [secReq EXCEPT ![r] = x] /\ secReq'[r] = x
        BY <1>0, <2>2 DEF Step
    <2>a. conns' \in [SecretConn -> ConnRow]
        BY <1>0, <1>b, <1>c, <1>13 DEF UnbindStart, SecretTypeOK, RowOf
    <2>4. RestTyped
        BY <1>0, <1>13, <2>a DEF UnbindStart, RestTyped, SecretTypeOK, At, Fits, ConnId, SecretReqState
    <2>5. RowsFrom(r, x) /\ BoundBy(r)
        BY <1>0, <1>13, <2>1 DEF UnbindStart, RowsFrom, RowOf, Inserts, BoundBy, At, Fits, SecretTypeOK
    <2>6. SecretMoved(r, x)
        BY <1>0, <1>13, <2>1, <2>3, <2>5 DEF UnbindStart, SecretMoved, Inserts, At
    <2>7. \A d : Settled(d) => d \in SecretConn /\ RowKept(d)
        BY <2>6, SecretKept
    <2>8. Fits(secReq[r])'
        BY <1>0, <1>a, <1>13, <2>1, <2>3 DEF UnbindStart, Global, Choosable, Reusable, Fits, At, SecretReqState, SecretTypeOK, Inserts
    <2>9. Holds(secReq[r])'
        BY <1>0, <1>a, <1>13, <2>1, <2>3, <2>7 DEF UnbindStart, Holds, Fits, At, RowKept, SettledAfter, Settled, Inserts, Live, Global, NoConnRow, SecretReqState, SecretIInv, BindingsStand
    <2> QED
        BY <2>2, <2>4, <2>5, <2>6, <2>8, <2>9, SecretStepIInv
<1>14. ASSUME Unbind(r)
      PROVE  SecretDone(r)
    <2> DEFINE x == [secReq[r] EXCEPT !.pc = "look"]
    <2>1. /\ x \in SecretReqState
          /\ x.pc = "look"
          /\ x.op = secReq[r].op
          /\ x.stack = secReq[r].stack
          /\ x.mode = secReq[r].mode
          /\ x.conn = secReq[r].conn
          /\ x.parent = secReq[r].parent
          /\ x.prev = secReq[r].prev
          /\ x.typed = secReq[r].typed
          /\ x.private = secReq[r].private
          /\ x.left = secReq[r].left
        BY <1>0, <1>14 DEF Unbind, NoSecretReq, SecretReqState, Mode, ConnId, At, SecretTypeOK, Fits, Live
    <2>2. Step(r, x)
        BY <1>14 DEF Unbind, Goto
    <2> HIDE DEF x
    <2>3. secReq' = [secReq EXCEPT ![r] = x] /\ secReq'[r] = x
        BY <1>0, <2>2 DEF Step
    <2>a. conns' \in [SecretConn -> ConnRow]
        BY <1>0, <1>b, <1>c, <1>14 DEF Unbind, SecretTypeOK, RowOf
    <2>4. RestTyped
        BY <1>0, <1>14, <2>a DEF Unbind, RestTyped, SecretTypeOK, At, Fits, ConnId, SecretReqState
    <2>5. RowsFrom(r, x) /\ BoundBy(r)
        BY <1>0, <1>14, <2>1 DEF Unbind, RowsFrom, RowOf, Inserts, BoundBy, At, Fits, SecretTypeOK
    <2>6. SecretMoved(r, x)
        BY <1>0, <1>14, <2>1, <2>3, <2>5 DEF Unbind, SecretMoved, Inserts, At
    <2>7. \A d : Settled(d) => d \in SecretConn /\ RowKept(d)
        BY <2>6, SecretKept
    <2>8. Fits(secReq[r])'
        BY <1>0, <1>a, <1>14, <2>1, <2>3 DEF Unbind, Global, Choosable, Reusable, Fits, At, SecretReqState, SecretTypeOK, Inserts
    <2>9. Holds(secReq[r])'
        BY <1>0, <1>a, <1>14, <2>1, <2>3, <2>7 DEF Unbind, Holds, Fits, At, RowKept, SettledAfter, Settled, Inserts, Live, Global, NoConnRow, SecretReqState
    <2> QED
        BY <2>2, <2>4, <2>5, <2>6, <2>8, <2>9, SecretStepIInv
<1>15. ASSUME UnbindLook(r), Live(secReq[r].prev), conns[secReq[r].prev].stack # Nobody
      PROVE  SecretDone(r)
    <2> DEFINE x == [secReq[r] EXCEPT !.pc = "dropCreds"]
    <2>1. /\ x \in SecretReqState
          /\ x.pc = "dropCreds"
          /\ x.op = secReq[r].op
          /\ x.stack = secReq[r].stack
          /\ x.mode = secReq[r].mode
          /\ x.conn = secReq[r].conn
          /\ x.parent = secReq[r].parent
          /\ x.prev = secReq[r].prev
          /\ x.typed = secReq[r].typed
          /\ x.private = secReq[r].private
          /\ x.left = secReq[r].left
        BY <1>0, <1>15 DEF UnbindLook, NoSecretReq, SecretReqState, Mode, ConnId, At, SecretTypeOK, Fits, Live
    <2>2. Step(r, x)
        BY <1>15 DEF UnbindLook, Goto
    <2> HIDE DEF x
    <2>3. secReq' = [secReq EXCEPT ![r] = x] /\ secReq'[r] = x
        BY <1>0, <2>2 DEF Step
    <2>a. conns' \in [SecretConn -> ConnRow]
        BY <1>0, <1>b, <1>c, <1>15 DEF UnbindLook, SecretTypeOK, RowOf
    <2>4. RestTyped
        BY <1>0, <1>15, <2>a DEF UnbindLook, RestTyped, SecretTypeOK, At, Fits, ConnId, SecretReqState
    <2>5. RowsFrom(r, x) /\ BoundBy(r)
        BY <1>0, <1>15, <2>1 DEF UnbindLook, RowsFrom, RowOf, Inserts, BoundBy, At, Fits, SecretTypeOK
    <2>6. SecretMoved(r, x)
        BY <1>0, <1>15, <2>1, <2>3, <2>5 DEF UnbindLook, SecretMoved, Inserts, At
    <2>7. \A d : Settled(d) => d \in SecretConn /\ RowKept(d)
        BY <2>6, SecretKept
    <2>8. Fits(secReq[r])'
        BY <1>0, <1>a, <1>15, <2>1, <2>3 DEF UnbindLook, Global, Choosable, Reusable, Fits, At, SecretReqState, SecretTypeOK, Inserts
    <2>9. Holds(secReq[r])'
        BY <1>0, <1>a, <1>15, <2>1, <2>3, <2>7 DEF UnbindLook, Holds, Fits, At, RowKept, SettledAfter, Settled, Inserts, Live, Global, NoConnRow, SecretReqState
    <2> QED
        BY <2>2, <2>4, <2>5, <2>6, <2>8, <2>9, SecretStepIInv
<1>16. ASSUME UnbindLook(r), ~ (Live(secReq[r].prev) /\ conns[secReq[r].prev].stack # Nobody)
      PROVE  SecretDone(r)
    <2>1. Return(r) /\ drawn' = drawn
        BY <1>16 DEF UnbindLook
    <2>a. conns' \in [SecretConn -> ConnRow]
        BY <1>0, <1>b, <1>16 DEF UnbindLook, SecretTypeOK
    <2>2. RestTyped
        BY <1>0, <1>16, <2>a DEF UnbindLook, RestTyped, SecretTypeOK, Fits, At, ConnId, SecretReqState
    <2>3. RowsFrom(r, NoSecretReq)
        BY <1>0, <1>16 DEF UnbindLook, RowsFrom, RowOf, Inserts, NoSecretReq, NoConnRow, At, Fits, SecretTypeOK
    <2>4. BoundBy(r)
        BY <1>0, <1>16 DEF UnbindLook, BoundBy, SecretTypeOK, SecretReqState
    <2> QED
        BY <2>1, <2>2, <2>3, <2>4, SecretReturned
<1> QED
    BY <1>1, <1>2, <1>3, <1>4, <1>5, <1>6, <1>7, <1>8, <1>9, <1>10, <1>11, <1>12, <1>13, <1>14, <1>15, <1>16 DEF BindingStep, SaveUpdate

(* The deletion of a stack keeps the invariant.                             *)
LEMMA SecretStackIInv ==
    ASSUME SecretIInv, NEW r \in SecretReq, StackStep(r)
    PROVE  SecretDone(r)
<1> USE SecretConnectionsAssumption
<1>0. /\ secReq \in [SecretReq -> SecretReqState] /\ secReq[r] \in SecretReqState
      /\ Fits(secReq[r]) /\ Holds(secReq[r]) /\ SecretTypeOK
      /\ \A c \in SecretConn : conns[c] \in ConnRow
    BY DEF SecretIInv, SecretTypeOK, RequestsStand
<1>a. \A d : Live(d) => d \in SecretConn /\ Settled(d) /\ d \in drawn
    BY DEF SecretIInv, ConnsStand, Live, Settled
<1>b. NoConnRow \in ConnRow /\ [NoConnRow EXCEPT !.live = TRUE] \in ConnRow
    BY DEF NoConnRow, ConnRow, ConnId
<1>c. RowOf(secReq[r]) \in ConnRow
    BY <1>0 DEF RowOf, ConnRow, SecretReqState
<1>1. ASSUME NEW s \in SecretStack, DropStackStart(r, s)
      PROVE  SecretDone(r)
    <2> DEFINE x == [NoSecretReq EXCEPT !.op = "drop", !.pc = "list", !.stack = s]
    <2>1. /\ x \in SecretReqState
          /\ x.op = "drop" /\ x.pc = "list"
          /\ x.stack = s
          /\ x.conn = NoConn
          /\ x.parent = NoConn
          /\ x.prev = NoConn
          /\ x.private = FALSE
        BY <1>0, <1>1 DEF DropStackStart, NoSecretReq, SecretReqState, Mode, ConnId, At, SecretTypeOK, Fits, Live
    <2>2. Step(r, x)
        BY <1>1 DEF DropStackStart, Goto
    <2> HIDE DEF x
    <2>3. secReq' = [secReq EXCEPT ![r] = x] /\ secReq'[r] = x
        BY <1>0, <2>2 DEF Step
    <2>a. conns' \in [SecretConn -> ConnRow]
        BY <1>0, <1>b, <1>c, <1>1 DEF DropStackStart, SecretTypeOK, RowOf
    <2>4. RestTyped
        BY <1>0, <1>1, <2>a DEF DropStackStart, RestTyped, SecretTypeOK, At, Fits, ConnId, SecretReqState
    <2>5. RowsFrom(r, x) /\ BoundBy(r)
        BY <1>0, <1>1, <2>1 DEF DropStackStart, RowsFrom, RowOf, Inserts, BoundBy, At, Fits, SecretTypeOK
    <2>6. SecretMoved(r, x)
        BY <1>0, <1>1, <2>1, <2>3, <2>5 DEF DropStackStart, SecretMoved, Inserts, At
    <2>7. \A d : Settled(d) => d \in SecretConn /\ RowKept(d)
        BY <2>6, SecretKept
    <2>8. Fits(secReq[r])'
        BY <1>0, <1>a, <1>1, <2>1, <2>3 DEF DropStackStart, Global, Choosable, Reusable, Fits, At, SecretReqState, SecretTypeOK, Inserts
    <2>9. Holds(secReq[r])'
        BY <1>0, <1>a, <1>1, <2>1, <2>3, <2>7 DEF DropStackStart, Holds, Fits, At, RowKept, SettledAfter, Settled, Inserts, Live, Global, NoConnRow, SecretReqState
    <2> QED
        BY <2>2, <2>4, <2>5, <2>6, <2>8, <2>9, SecretStepIInv
<1>2. ASSUME DropStackList(r)
      PROVE  SecretDone(r)
    <2> DEFINE x == [secReq[r] EXCEPT !.pc = "creds",
                                 !.left = {c \in SecretConn : Live(c) /\ conns[c].stack = secReq[r].stack}]
    <2>1. /\ x \in SecretReqState
          /\ x.pc = "creds"
          /\ x.op = secReq[r].op
          /\ x.stack = secReq[r].stack
          /\ x.mode = secReq[r].mode
          /\ x.conn = secReq[r].conn
          /\ x.parent = secReq[r].parent
          /\ x.prev = secReq[r].prev
          /\ x.typed = secReq[r].typed
          /\ x.private = secReq[r].private
        BY <1>0, <1>2 DEF DropStackList, NoSecretReq, SecretReqState, Mode, ConnId, At, SecretTypeOK, Fits, Live
    <2>2. Step(r, x)
        BY <1>2 DEF DropStackList, Goto
    <2> HIDE DEF x
    <2>3. secReq' = [secReq EXCEPT ![r] = x] /\ secReq'[r] = x
        BY <1>0, <2>2 DEF Step
    <2>a. conns' \in [SecretConn -> ConnRow]
        BY <1>0, <1>b, <1>c, <1>2 DEF DropStackList, SecretTypeOK, RowOf
    <2>4. RestTyped
        BY <1>0, <1>2, <2>a DEF DropStackList, RestTyped, SecretTypeOK, At, Fits, ConnId, SecretReqState
    <2>5. RowsFrom(r, x) /\ BoundBy(r)
        BY <1>0, <1>2, <2>1 DEF DropStackList, RowsFrom, RowOf, Inserts, BoundBy, At, Fits, SecretTypeOK
    <2>6. SecretMoved(r, x)
        BY <1>0, <1>2, <2>1, <2>3, <2>5 DEF DropStackList, SecretMoved, Inserts, At
    <2>7. \A d : Settled(d) => d \in SecretConn /\ RowKept(d)
        BY <2>6, SecretKept
    <2>8. Fits(secReq[r])'
        BY <1>0, <1>a, <1>2, <2>1, <2>3 DEF DropStackList, Global, Choosable, Reusable, Fits, At, SecretReqState, SecretTypeOK, Inserts
    <2>9. Holds(secReq[r])'
        BY <1>0, <1>a, <1>2, <2>1, <2>3, <2>7 DEF DropStackList, Holds, Fits, At, RowKept, SettledAfter, Settled, Inserts, Live, Global, NoConnRow, SecretReqState
    <2> QED
        BY <2>2, <2>4, <2>5, <2>6, <2>8, <2>9, SecretStepIInv
<1>3. ASSUME DropStackCreds(r), secReq[r].left = {}
      PROVE  SecretDone(r)
    <2> DEFINE x == [secReq[r] EXCEPT !.pc = "stack"]
    <2>1. /\ x \in SecretReqState
          /\ x.pc = "stack"
          /\ x.op = secReq[r].op
          /\ x.stack = secReq[r].stack
          /\ x.mode = secReq[r].mode
          /\ x.conn = secReq[r].conn
          /\ x.parent = secReq[r].parent
          /\ x.prev = secReq[r].prev
          /\ x.typed = secReq[r].typed
          /\ x.private = secReq[r].private
          /\ x.left = secReq[r].left
        BY <1>0, <1>3 DEF DropStackCreds, NoSecretReq, SecretReqState, Mode, ConnId, At, SecretTypeOK, Fits, Live
    <2>2. Step(r, x)
        BY <1>3 DEF DropStackCreds, Goto
    <2> HIDE DEF x
    <2>3. secReq' = [secReq EXCEPT ![r] = x] /\ secReq'[r] = x
        BY <1>0, <2>2 DEF Step
    <2>a. conns' \in [SecretConn -> ConnRow]
        BY <1>0, <1>b, <1>c, <1>3 DEF DropStackCreds, SecretTypeOK, RowOf
    <2>4. RestTyped
        BY <1>0, <1>3, <2>a DEF DropStackCreds, RestTyped, SecretTypeOK, At, Fits, ConnId, SecretReqState
    <2>5. RowsFrom(r, x) /\ BoundBy(r)
        BY <1>0, <1>3, <2>1 DEF DropStackCreds, RowsFrom, RowOf, Inserts, BoundBy, At, Fits, SecretTypeOK
    <2>6. SecretMoved(r, x)
        BY <1>0, <1>3, <2>1, <2>3, <2>5 DEF DropStackCreds, SecretMoved, Inserts, At
    <2>7. \A d : Settled(d) => d \in SecretConn /\ RowKept(d)
        BY <2>6, SecretKept
    <2>8. Fits(secReq[r])'
        BY <1>0, <1>a, <1>3, <2>1, <2>3 DEF DropStackCreds, Global, Choosable, Reusable, Fits, At, SecretReqState, SecretTypeOK, Inserts
    <2>9. Holds(secReq[r])'
        BY <1>0, <1>a, <1>3, <2>1, <2>3, <2>7 DEF DropStackCreds, Holds, Fits, At, RowKept, SettledAfter, Settled, Inserts, Live, Global, NoConnRow, SecretReqState
    <2> QED
        BY <2>2, <2>4, <2>5, <2>6, <2>8, <2>9, SecretStepIInv
<1>4. ASSUME At(r, "drop", "creds"), NEW c \in secReq[r].left, creds' = creds \ {c},
             Step(r, [secReq[r] EXCEPT !.left = @ \ {c}]), UNCHANGED <<conns, drawn, bindings, secStacks, cuts>>
      PROVE  SecretDone(r)
    <2> DEFINE x == [secReq[r] EXCEPT !.left = @ \ {c}]
    <2>1. /\ x \in SecretReqState
          /\ x.pc = "creds"
          /\ x.op = secReq[r].op
          /\ x.stack = secReq[r].stack
          /\ x.mode = secReq[r].mode
          /\ x.conn = secReq[r].conn
          /\ x.parent = secReq[r].parent
          /\ x.prev = secReq[r].prev
          /\ x.typed = secReq[r].typed
          /\ x.private = secReq[r].private
        BY <1>0, <1>4 DEF At, NoSecretReq, SecretReqState, Mode, ConnId, At, SecretTypeOK, Fits, Live
    <2>2. Step(r, x)
        BY <1>4 DEF At, Goto
    <2> HIDE DEF x
    <2>3. secReq' = [secReq EXCEPT ![r] = x] /\ secReq'[r] = x
        BY <1>0, <2>2 DEF Step
    <2>a. conns' \in [SecretConn -> ConnRow]
        BY <1>0, <1>b, <1>c, <1>4 DEF At, SecretTypeOK, RowOf
    <2>4. RestTyped
        BY <1>0, <1>4, <2>a DEF At, RestTyped, SecretTypeOK, At, Fits, ConnId, SecretReqState
    <2>5. RowsFrom(r, x) /\ BoundBy(r)
        BY <1>0, <1>4, <2>1 DEF At, RowsFrom, RowOf, Inserts, BoundBy, At, Fits, SecretTypeOK
    <2>6. SecretMoved(r, x)
        BY <1>0, <1>4, <2>1, <2>3, <2>5 DEF At, SecretMoved, Inserts, At
    <2>7. \A d : Settled(d) => d \in SecretConn /\ RowKept(d)
        BY <2>6, SecretKept
    <2>8. Fits(secReq[r])'
        BY <1>0, <1>a, <1>4, <2>1, <2>3 DEF At, Global, Choosable, Reusable, Fits, At, SecretReqState, SecretTypeOK, Inserts
    <2>9. Holds(secReq[r])'
        BY <1>0, <1>a, <1>4, <2>1, <2>3, <2>7 DEF At, Holds, Fits, At, RowKept, SettledAfter, Settled, Inserts, Live, Global, NoConnRow, SecretReqState
    <2> QED
        BY <2>2, <2>4, <2>5, <2>6, <2>8, <2>9, SecretStepIInv
<1>5. ASSUME DropStackRows(r)
      PROVE  SecretDone(r)
    <2>1. Return(r) /\ drawn' = drawn
        BY <1>5 DEF DropStackRows
    <2>a. conns' \in [SecretConn -> ConnRow]
        BY <1>0, <1>b, <1>5 DEF DropStackRows, SecretTypeOK
    <2>2. RestTyped
        BY <1>0, <1>5, <2>a DEF DropStackRows, RestTyped, SecretTypeOK, Fits, At, ConnId, SecretReqState
    <2>3. RowsFrom(r, NoSecretReq)
        BY <1>0, <1>5 DEF DropStackRows, RowsFrom, RowOf, Inserts, NoSecretReq, NoConnRow, At, Fits, SecretTypeOK
    <2>4. BoundBy(r)
        BY <1>0, <1>5 DEF DropStackRows, BoundBy, SecretTypeOK, SecretReqState
    <2> QED
        BY <2>1, <2>2, <2>3, <2>4, SecretReturned
<1> QED
    BY <1>1, <1>2, <1>3, <1>4, <1>5 DEF StackStep, DropStackCreds

LEMMA SecretNextIInv == SecretIInv /\ [SecretNext]_secretVars => SecretIInv'
<1> SUFFICES ASSUME SecretIInv, [SecretNext]_secretVars PROVE SecretIInv'
    OBVIOUS
<1>1. ASSUME NEW s \in SecretStack, CreateGitStack(s) PROVE SecretIInv'
    <2>1. UNCHANGED <<conns, drawn, creds, bindings, secReq, raced, cuts>>
        BY <1>1 DEF CreateGitStack
    <2>2. SecretTypeOK'
        BY <1>1 DEF CreateGitStack, SecretIInv, SecretTypeOK
    <2>3. \A c : Settled(c)' <=> Settled(c)
        BY <2>1 DEF Settled
    <2>4. InsertsApart' /\ ConnsStand' /\ BindingsStand'
        BY <2>1, <2>3 DEF SecretIInv, InsertsApart, ConnsStand, BindingsStand, Inserts, Live, Global, Settled
    <2>5. RequestsStand'
        BY <2>1, <2>3 DEF SecretIInv, RequestsStand, Fits, Holds, Inserts, Live, Global, Settled
    <2> QED
        BY <2>2, <2>4, <2>5 DEF SecretIInv
<1>2. ASSUME NEW r \in SecretReq, CutShort(r) PROVE SecretIInv'
    <2>1. Return(r) /\ drawn' = drawn
        BY <1>2 DEF CutShort
    <2>2. RestTyped
        BY <1>2, SecretConnectionsAssumption DEF CutShort, RestTyped, SecretIInv, SecretTypeOK
    <2>3. RowsFrom(r, NoSecretReq) /\ BoundBy(r)
        BY <1>2 DEF CutShort, RowsFrom, BoundBy
    <2> QED
        BY <2>1, <2>2, <2>3, SecretReturned DEF SecretDone
<1>3. CASE UNCHANGED secretVars
    <2>1. UNCHANGED <<conns, drawn, creds, bindings, secStacks, secReq, raced, cuts>>
        BY <1>3 DEF secretVars
    <2> QED
        BY <2>1 DEF SecretIInv, SecretTypeOK, InsertsApart, ConnsStand, BindingsStand, RequestsStand,
                    Fits, Holds, Inserts, Live, Global, Settled
<1> QED
    BY <1>1, <1>2, <1>3, SecretProviderIInv, SecretBindingIInv, SecretStackIInv DEF SecretNext, SecretDone

LEMMA SecretHolds == SecretSpec => []SecretIInv
    BY SecretInitIInv, SecretNextIInv, PTL DEF SecretSpec

(* OwnOrShared: whatever saveStackBindingHandler and the other handlers do, *)
(* in any order and broken off anywhere, a stack is bound to its own or a   *)
(* shared connection, which inherits from a shared one only.                *)
THEOREM OnlyOwnOrShared == SecretSpec => []OwnOrShared
<1>1. SecretIInv => OwnOrShared
    BY SecretConnectionsAssumption
    DEF SecretIInv, SecretTypeOK, BindingsStand, ConnsStand, OwnOrShared, Live
<1> QED
    BY <1>1, SecretHolds, PTL

(* SharedOutlivesStacks: of all the statements that remove rows of          *)
(* secret_connections, only the one of deleteSecretProviderHandler removes  *)
(* a shared one.                                                            *)
LEMMA SecretStepKeepsShared ==
    ASSUME SecretIInv, SecretNext, NEW c \in SecretConn, Global(c), ~ Global(c)'
    PROVE  \E r \in SecretReq : secReq[r].op = "delete" /\ secReq[r].conn = c
<1>1. conns'[c] # conns[c]
    BY DEF Global, Live
<1>2. PICK r \in SecretReq : ProviderStep(r) \/ BindingStep(r) \/ StackStep(r)
    BY <1>1 DEF SecretNext, CreateGitStack, CutShort
<1>3. secReq[r] \in SecretReqState /\ Fits(secReq[r]) /\ Holds(secReq[r]) /\ conns \in [SecretConn -> ConnRow]
    BY DEF SecretIInv, SecretTypeOK, RequestsStand
<1>4. Inserts(secReq[r]) => secReq[r].conn # c
    BY DEF SecretIInv, InsertsApart, Global
<1>5. CASE ProviderStep(r)
    <2>1. CreateProviderRow(r) \/ DeleteProviderRow(r)
        BY <1>1, <1>5 DEF ProviderStep, CreateProviderStart, UpdateProviderStart, UpdateProvider,
                          DeleteProviderCheck, DeleteProviderCreds
    <2>2. ~ CreateProviderRow(r)
        BY <1>1, <1>3, <1>4 DEF CreateProviderRow, At, Inserts
    <2> QED
        BY <1>1, <1>3, <2>1, <2>2 DEF DeleteProviderRow, At
<1>6. CASE BindingStep(r)
    <2>1. SaveRow(r) \/ DropRow(r)
        BY <1>1, <1>6 DEF BindingStep, SaveStart, SaveLoad, SaveUpdate, SaveCreds, SaveBind, DropCreds,
                          UnbindStart, Unbind, UnbindLook
    <2>2. ~ SaveRow(r)
        BY <1>1, <1>3, <1>4 DEF SaveRow, At, Inserts, Fits
    <2>3. ~ DropRow(r)
        BY <1>1, <1>3 DEF DropRow, Holds, Global, Live
    <2> QED
        BY <2>1, <2>2, <2>3
<1>7. CASE StackStep(r)
    <2>1. DropStackRows(r)
        BY <1>1, <1>7 DEF StackStep, DropStackStart, DropStackList, DropStackCreds
    <2>2. secReq[r].stack # Nobody
        BY <1>3, <2>1, SecretConnectionsAssumption DEF DropStackRows, At, Fits
    <2> QED
        BY <1>1, <2>1, <2>2 DEF DropStackRows, Global
<1> QED
    BY <1>2, <1>5, <1>6, <1>7

THEOREM OnlySettingsRemovesShared == SecretSpec => SharedOutlivesStacks
<1>1. SecretIInv /\ [SecretNext]_secretVars =>
      [\A c \in SecretConn : Global(c) /\ ~ Global(c)' =>
           \E r \in SecretReq : secReq[r].op = "delete" /\ secReq[r].conn = c]_secretVars
    BY SecretStepKeepsShared
<1> QED
    BY <1>1, SecretHolds, PTL DEF SecretSpec, SharedOutlivesStacks

-----------------------------------------------------------------------------
(* Secret connections that nothing raced and nothing cut short: what each   *)
(* handler found still holds when it acts on it.                            *)

Calm == ~ raced /\ cuts = 0
RacesNoticed == \A q, r \in SecretReq : q # r /\ Conflict(secReq[q], secReq[r]) => raced

Writing(q) == q.op = "save" /\ q.pc \in {"update", "creds", "row", "bind"}

InOrder(q) ==
    /\ q.op \in {"update", "delete"} => Global(q.conn)
    /\ q.op = "delete" => Users(q.conn) = {} /\ q.pc \in {"creds", "row"}
    /\ q.op = "delete" /\ q.pc = "row" => q.conn \notin creds
    /\ q.op \in {"save", "unbind", "drop"} => q.stack \in secStacks
    /\ (q.op = "save" /\ q.pc = "load") \/ Writing(q) => q.prev = bindings[q.stack]
    /\ Writing(q) => /\ q.private <=> (q.prev # NoConn /\ ~ Global(q.prev))
                     /\ q.parent # NoConn => Global(q.parent)
                     /\ q.mode = "shared" => q.pc = "bind" /\ q.conn = q.parent
                     /\ q.mode # "shared" /\ (q.conn = q.prev \/ q.pc = "bind") => conns[q.conn] = RowOf(q)
                     /\ q.pc = "update" => q.typed \/ q.conn \in creds
                     /\ q.pc = "row" \/ (q.mode # "shared" /\ q.pc = "bind") => q.conn \in creds
    /\ q.pc \in {"dropCreds", "dropRow"} =>
           /\ Live(q.prev) /\ conns[q.prev].stack = q.stack
           /\ q.op = "save" => bindings[q.stack] = q.conn /\ q.conn # q.prev
           /\ q.op = "unbind" => bindings[q.stack] = NoConn
    /\ q.pc = "dropRow" => q.prev \notin creds
    /\ q.op = "unbind" /\ q.pc = "bind" => q.prev = bindings[q.stack]
    /\ q.op = "unbind" /\ q.pc = "look" =>
           bindings[q.stack] = NoConn /\ (Live(q.prev) => conns[q.prev].stack \in {q.stack, Nobody})
    /\ q.op = "drop" /\ q.pc = "creds" =>
           /\ \A c \in q.left : Live(c) /\ conns[c].stack = q.stack
           /\ \A c \in creds : Live(c) /\ conns[c].stack = q.stack => c \in q.left
    /\ q.op = "drop" /\ q.pc = "stack" => \A c \in creds : Live(c) => conns[c].stack # q.stack

(* A binding resolves, a shared connection without credentials and a stack  *)
(* that is going excepted.                                                  *)
Usable(s) ==
    bindings[s] # NoConn =>
        /\ s \in secStacks
        /\ Live(bindings[s]) /\ Live(EffectiveConfig(bindings[s]))
        /\ \/ Global(bindings[s]) \/ bindings[s] \in creds
           \/ \E r \in SecretReq : secReq[r].op = "drop" /\ secReq[r].stack = s

(* Credentials are a connection's, or of one about to be inserted.          *)
CredsOwned ==
    \A c \in creds : Live(c) \/ \E r \in SecretReq : Inserts(secReq[r]) /\ secReq[r].conn = c

(* A private connection is bound, about to be, or about to go.              *)
Handles(q, c) == (q.op = "save" /\ q.pc = "bind" /\ q.conn = c)
                 \/ (q.pc \in {"look", "dropCreds", "dropRow"} /\ q.prev = c)
PrivateBound ==
    \A c \in SecretConn : Live(c) /\ conns[c].stack # Nobody =>
        \/ bindings[conns[c].stack] = c
        \/ \E r \in SecretReq : secReq[r].stack = conns[c].stack /\ Handles(secReq[r], c)

CalmInv == Calm => /\ \A r \in SecretReq : InOrder(secReq[r])
                   /\ \A s \in SecretStack : Usable(s)
                   /\ CredsOwned /\ PrivateBound

WholeInv == SecretIInv /\ RacesNoticed /\ CalmInv

(* What a step of request r to x does to the tables, told by where r was.   *)
Gone(r, c) ==
    \/ At(r, "delete", "row") /\ c = secReq[r].conn
    \/ secReq[r].pc = "dropRow" /\ c = secReq[r].prev
    \/ At(r, "drop", "stack") /\ conns[c].stack = secReq[r].stack
Freed(r, c) ==
    \/ secReq[r].op \in {"create", "update", "delete"} /\ c = secReq[r].conn
    \/ secReq[r].pc = "dropCreds" /\ c = secReq[r].prev
    \/ At(r, "drop", "creds") /\ c \in secReq[r].left
Given(r, x, c) ==
    \/ (secReq[r].op = "update" \/ At(r, "save", "creds")) /\ c = secReq[r].conn
    \/ Inserts(x) /\ x.conn = c /\ c \notin drawn
Effects(r, x) ==
    /\ cuts' = cuts
    /\ \A c \in SecretConn :
           \/ conns'[c] = conns[c]
           \/ Inserts(secReq[r]) /\ c = secReq[r].conn /\ conns'[c] = RowOf(secReq[r])
           \/ conns'[c] = NoConnRow /\ Gone(r, c)
    /\ \A c \in creds' \ creds : Given(r, x, c)
    /\ \A c \in creds \ creds' : Freed(r, c)
    /\ \A s \in SecretStack : bindings'[s] = bindings[s] \/ s = secReq[r].stack
    /\ \A s \in secStacks : s \in secStacks' \/ (At(r, "drop", "stack") /\ s = secReq[r].stack)
    /\ Inserts(secReq[r]) => \/ conns'[secReq[r].conn].live \/ secReq[r].conn \notin creds'
                             \/ Inserts(x) /\ x.conn = secReq[r].conn

LEMMA SecretEffects ==
    ASSUME SecretIInv, NEW r \in SecretReq, NEW x, Step(r, x),
           ProviderStep(r) \/ BindingStep(r) \/ StackStep(r)
    PROVE  Effects(r, x)
<1> USE SecretConnectionsAssumption
<1>0. /\ secReq \in [SecretReq -> SecretReqState] /\ secReq[r] \in SecretReqState
      /\ Fits(secReq[r]) /\ Holds(secReq[r]) /\ SecretTypeOK
    BY DEF SecretIInv, SecretTypeOK, RequestsStand
<1>x. x = secReq'[r]
    BY <1>0 DEF Step
<1> USE DEF Effects, Gone, Freed, Given, At
<1>1. ASSUME NEW c \in SecretConn, NEW typed \in BOOLEAN, CreateProviderStart(r, c, typed) PROVE Effects(r, x)
    <2>1. x.op = "create" /\ x.conn = c
        <3>1. x = [NoSecretReq EXCEPT !.op = "create", !.pc = "row", !.conn = c]
            BY <1>0, <1>x, <1>1 DEF CreateProviderStart, Step
        <3> QED
            BY <3>1 DEF NoSecretReq
    <2>2. Inserts(x) /\ ~ Inserts(secReq[r])
        BY <1>1, <2>1 DEF Inserts, CreateProviderStart, Arrives
    <2>3. c \notin drawn /\ c \notin creds /\ creds \subseteq creds' /\ creds' \subseteq creds \union {c}
        BY <1>0, <1>1 DEF CreateProviderStart, SecretTypeOK
    <2> QED
        BY <1>0, <1>1, <2>1, <2>2, <2>3 DEF CreateProviderStart
<1>2. ASSUME CreateProviderRow(r) PROVE Effects(r, x)
    BY <1>0, <1>x, <1>2 DEF CreateProviderRow, Inserts, Arrives, Fits, NoSecretReq, NoConnRow, RowOf, SecretTypeOK
<1>3. ASSUME NEW c \in SecretConn, UpdateProviderStart(r, c) PROVE Effects(r, x)
    BY <1>0, <1>x, <1>3 DEF UpdateProviderStart, Inserts, Arrives, Fits, NoSecretReq
<1>4. ASSUME UpdateProvider(r) PROVE Effects(r, x)
    BY <1>0, <1>x, <1>4 DEF UpdateProvider, Inserts, Arrives, Fits, NoSecretReq
<1>5. ASSUME NEW c \in SecretConn, DeleteProviderCheck(r, c) PROVE Effects(r, x)
    BY <1>0, <1>x, <1>5 DEF DeleteProviderCheck, Inserts, Arrives, Fits, NoSecretReq
<1>6. ASSUME DeleteProviderCreds(r) PROVE Effects(r, x)
    BY <1>0, <1>x, <1>6 DEF DeleteProviderCreds, Inserts, Arrives, Fits, NoSecretReq
<1>7. ASSUME DeleteProviderRow(r) PROVE Effects(r, x)
    BY <1>0, <1>x, <1>7 DEF DeleteProviderRow, Inserts, Arrives, Fits, NoSecretReq, SecretTypeOK
<1>8. ASSUME NEW s \in SecretStack, NEW mode \in Mode, NEW c \in ConnId, NEW typed \in BOOLEAN,
             SaveStart(r, s, mode, c, typed) PROVE Effects(r, x)
    BY <1>0, <1>x, <1>8 DEF SaveStart, Inserts, Arrives, Fits, NoSecretReq
<1>9. ASSUME SaveLoad(r) PROVE Effects(r, x)
    BY <1>0, <1>x, <1>9 DEF SaveLoad, Inserts, Arrives, Fits, NoSecretReq
<1>10. ASSUME SaveUpdate(r) PROVE Effects(r, x)
    BY <1>0, <1>x, <1>10 DEF SaveUpdate, Inserts, Arrives, Fits, NoSecretReq
<1>11. ASSUME SaveCreds(r) PROVE Effects(r, x)
    <2>1. /\ x.op = secReq[r].op /\ x.conn = secReq[r].conn /\ x.prev = secReq[r].prev
          /\ x.pc = IF secReq[r].conn = secReq[r].prev THEN "bind" ELSE "row"
        BY <1>0, <1>x, <1>11 DEF SaveCreds, Goto, Step, SecretReqState
    <2> QED
        BY <1>0, <1>11, <2>1 DEF SaveCreds, Inserts
<1>12. ASSUME SaveRow(r) PROVE Effects(r, x)
    BY <1>0, <1>x, <1>12 DEF SaveRow, Inserts, Arrives, Fits, NoSecretReq, RowOf, SecretTypeOK
<1>13. ASSUME SaveBind(r) PROVE Effects(r, x)
    BY <1>0, <1>x, <1>13 DEF SaveBind, Inserts, Arrives, Fits, NoSecretReq, SecretTypeOK
<1>14. ASSUME DropCreds(r) PROVE Effects(r, x)
    BY <1>0, <1>x, <1>14 DEF DropCreds, Inserts, Arrives, Fits, NoSecretReq
<1>15. ASSUME DropRow(r) PROVE Effects(r, x)
    BY <1>0, <1>x, <1>15 DEF DropRow, Inserts, Arrives, Fits, NoSecretReq, SecretTypeOK
<1>16. ASSUME NEW s \in SecretStack, UnbindStart(r, s) PROVE Effects(r, x)
    BY <1>0, <1>x, <1>16 DEF UnbindStart, Inserts, Arrives, Fits, NoSecretReq
<1>17. ASSUME Unbind(r) PROVE Effects(r, x)
    BY <1>0, <1>x, <1>17 DEF Unbind, Inserts, Arrives, Fits, NoSecretReq, SecretTypeOK
<1>18. ASSUME UnbindLook(r) PROVE Effects(r, x)
    BY <1>0, <1>x, <1>18 DEF UnbindLook, Inserts, Arrives, Fits, NoSecretReq
<1>19. ASSUME NEW s \in SecretStack, DropStackStart(r, s) PROVE Effects(r, x)
    BY <1>0, <1>x, <1>19 DEF DropStackStart, Inserts, Arrives, Fits, NoSecretReq
<1>20. ASSUME DropStackList(r) PROVE Effects(r, x)
    BY <1>0, <1>x, <1>20 DEF DropStackList, Inserts, Arrives, Fits, NoSecretReq
<1>21. ASSUME DropStackCreds(r) PROVE Effects(r, x)
    BY <1>0, <1>x, <1>21 DEF DropStackCreds, Inserts, Arrives, Fits, NoSecretReq
<1>22. ASSUME DropStackRows(r) PROVE Effects(r, x)
    BY <1>0, <1>x, <1>22 DEF DropStackRows, Inserts, Arrives, Fits, NoSecretReq, SecretTypeOK
<1> QED
    BY <1>1, <1>2, <1>3, <1>4, <1>5, <1>6, <1>7, <1>8, <1>9, <1>10, <1>11, <1>12, <1>13, <1>14, <1>15, <1>16, <1>17, <1>18, <1>19, <1>20, <1>21, <1>22 DEF ProviderStep, BindingStep, StackStep

(* A step after which nothing has raced or been cut short.                  *)
CalmStep(r, x) ==
    /\ WholeInv /\ SecretIInv' /\ Calm'
    /\ Step(r, x) /\ SecretMoved(r, x) /\ BoundBy(r) /\ Effects(r, x)

Apart(a, b) == ~ Conflict(a, b) /\ ~ Conflict(b, a)

LEMMA CalmFacts ==
    ASSUME NEW r \in SecretReq, NEW x, CalmStep(r, x)
    PROVE  /\ Calm /\ (\A q \in SecretReq : InOrder(secReq[q]))
           /\ (\A s \in SecretStack : Usable(s)) /\ CredsOwned /\ PrivateBound
           /\ \A q \in SecretReq \ {r} : Apart(secReq[q], secReq[r]) /\ Apart(secReq[q], x)
           /\ secReq'[r] = x /\ \A q \in SecretReq \ {r} : secReq'[q] = secReq[q]
<1>1. Calm
    <2>1. raced' = (raced \/ \E q \in SecretReq \ {r} : Conflict(x, secReq[q]) \/ Conflict(secReq[q], x))
        BY DEF CalmStep, Step
    <2>2. ~ raced
        BY <2>1 DEF CalmStep, Calm
    <2> QED
        BY <2>2 DEF CalmStep, Calm, Effects
<1>2. \A q \in SecretReq \ {r} : Apart(secReq[q], secReq[r])
    BY <1>1 DEF CalmStep, WholeInv, RacesNoticed, Calm, Apart
<1>3. ASSUME NEW q \in SecretReq \ {r} PROVE Apart(secReq[q], x)
    <2>1. raced' = (raced \/ \E p \in SecretReq \ {r} : Conflict(x, secReq[p]) \/ Conflict(secReq[p], x))
        BY DEF CalmStep, Step
    <2> QED
        BY <2>1, <1>3 DEF CalmStep, Calm, Apart
<1>4. secReq'[r] = x /\ \A q \in SecretReq \ {r} : secReq'[q] = secReq[q]
    BY DEF CalmStep, SecretMoved, WholeInv, SecretIInv, SecretTypeOK
<1> QED
    BY <1>1, <1>2, <1>3, <1>4 DEF CalmStep, WholeInv, CalmInv

(* A private connection of a stack r is not working on is left alone, and a *)
(* shared one that r is not deleting, and one another request inserts.      *)
Untouched(c) == conns'[c] = conns[c] /\ (c \in creds' <=> c \in creds)

LEMMA FarPrivate ==
    ASSUME NEW r \in SecretReq, NEW x, CalmStep(r, x),
           NEW c, Live(c), conns[c].stack # Nobody, conns[c].stack # secReq[r].stack
    PROVE  Untouched(c)
<1>0. /\ c \in SecretConn /\ c \in drawn /\ Fits(secReq[r]) /\ InOrder(secReq[r]) /\ secReq[r] \in SecretReqState
      /\ Effects(r, x)
    BY CalmFacts DEF CalmStep, WholeInv, SecretIInv, SecretTypeOK, RequestsStand, ConnsStand, Settled, Live
<1>1. ~ (Inserts(secReq[r]) /\ c = secReq[r].conn)
    BY DEF CalmStep, WholeInv, SecretIInv, InsertsApart
<1>2. ~ Gone(r, c)
    BY <1>0 DEF Gone, At, InOrder, Global
<1>3. conns'[c] = conns[c]
    BY <1>0, <1>1, <1>2 DEF Effects
<1>4. ~ Freed(r, c)
    BY <1>0, <1>1 DEF Freed, At, InOrder, Global, Inserts
<1>5. ~ Given(r, x, c)
    <2>1. secReq[r].op # "update" \/ c # secReq[r].conn
        BY <1>0 DEF InOrder, Global
    <2>2. ASSUME At(r, "save", "creds"), c = secReq[r].conn PROVE FALSE
        <3>1. secReq[r].conn = secReq[r].prev
            BY <1>1, <2>2 DEF At, Inserts
        <3>2. conns[c] = RowOf(secReq[r])
            BY <1>0, <2>2, <3>1 DEF At, InOrder, Writing
        <3> QED
            BY <3>2 DEF RowOf
    <2> QED
        BY <1>0, <2>1, <2>2 DEF Given
<1> QED
    BY <1>0, <1>3, <1>4, <1>5 DEF Effects, Untouched

LEMMA SharedStays ==
    ASSUME NEW r \in SecretReq, NEW x, CalmStep(r, x),
           NEW c, Global(c), ~ (secReq[r].op = "delete" /\ secReq[r].conn = c)
    PROVE  conns'[c] = conns[c]
<1>0. c \in SecretConn /\ Fits(secReq[r]) /\ InOrder(secReq[r]) /\ Effects(r, x)
    BY CalmFacts DEF CalmStep, WholeInv, SecretIInv, RequestsStand, Live, Global
<1>1. ~ (Inserts(secReq[r]) /\ c = secReq[r].conn)
    BY DEF CalmStep, WholeInv, SecretIInv, InsertsApart, Global
<1>2. ~ Gone(r, c)
    BY <1>0, SecretConnectionsAssumption DEF Gone, At, InOrder, Fits, Global
<1> QED
    BY <1>0, <1>1, <1>2 DEF Effects

LEMMA InsertStays ==
    ASSUME NEW r \in SecretReq, NEW x, CalmStep(r, x), NEW q \in SecretReq \ {r}, Inserts(secReq[q])
    PROVE  Untouched(secReq[q].conn)
<1> DEFINE c == secReq[q].conn
<1>0. /\ c \in SecretConn /\ c \in drawn /\ Fits(secReq[r]) /\ InOrder(secReq[r]) /\ Effects(r, x) /\ ~ Live(c)
      /\ Inserts(secReq[r]) => c # secReq[r].conn
    BY CalmFacts DEF CalmStep, WholeInv, SecretIInv, SecretTypeOK, RequestsStand, InsertsApart
<1> HIDE DEF c
<1>1. ~ Gone(r, c) \/ conns[c] = NoConnRow
    BY <1>0 DEF CalmStep, WholeInv, SecretIInv, ConnsStand, Live
<1>2. conns'[c] = conns[c]
    BY <1>0, <1>1 DEF Effects
<1>3. ~ Freed(r, c)
    BY <1>0 DEF Freed, At, InOrder, Global, Inserts
<1>4. ~ Given(r, x, c)
    <2>1. secReq[r].op # "update" \/ c # secReq[r].conn
        BY <1>0 DEF InOrder, Global
    <2>2. ASSUME At(r, "save", "creds"), c = secReq[r].conn PROVE FALSE
        <3>1. secReq[r].conn = secReq[r].prev
            BY <1>0, <2>2 DEF At, Inserts
        <3>2. conns[c] = RowOf(secReq[r])
            BY <1>0, <2>2, <3>1 DEF At, InOrder, Writing
        <3> QED
            BY <1>0, <3>2 DEF RowOf, Live
    <2> QED
        BY <1>0, <2>1, <2>2 DEF Given
<1>5. Untouched(c)
    BY <1>0, <1>2, <1>3, <1>4 DEF Effects, Untouched
<1> QED
    BY <1>5 DEF c

(* So what another handler found still holds.                               *)
LEMMA CalmOthers ==
    ASSUME NEW r \in SecretReq, NEW x, CalmStep(r, x), NEW q \in SecretReq \ {r}
    PROVE  InOrder(secReq[q])'
<1> USE SecretConnectionsAssumption
<1> DEFINE z == secReq[q]
<1>0. /\ z \in SecretReqState /\ Fits(z) /\ Holds(z) /\ InOrder(z)
      /\ InOrder(secReq[r]) /\ Fits(secReq[r]) /\ secReq[r] \in SecretReqState
      /\ Effects(r, x) /\ SecretTypeOK /\ SecretTypeOK' /\ SecretIInv
    BY CalmFacts DEF CalmStep, WholeInv, SecretIInv, SecretTypeOK, RequestsStand
<1>1. secReq'[q] = z /\ Apart(z, secReq[r])
    BY CalmFacts
<1>2. \A s \in SecretStack : Usable(s)
    BY CalmFacts
<1>3. \A c : Live(c) /\ conns[c].stack # Nobody /\ conns[c].stack # secReq[r].stack => Untouched(c)
    BY FarPrivate
<1>4. \A c : Global(c) /\ ~ (secReq[r].op = "delete" /\ secReq[r].conn = c) => conns'[c] = conns[c]
    BY SharedStays
<1>5. Inserts(z) => Untouched(z.conn)
    BY InsertStays
<1>6. \A c : Settled(c) => c \in SecretConn /\ RowKept(c)
    BY SecretKept DEF CalmStep, WholeInv
<1> HIDE DEF z
<1>7. ASSUME z.stack \in SecretStack
      PROVE  /\ z.stack # secReq[r].stack /\ bindings'[z.stack] = bindings[z.stack]
             /\ z.stack \in secStacks => z.stack \in secStacks'
             /\ \A c : Live(c) /\ conns[c].stack = z.stack => Untouched(c)
    <2>1. z.stack # secReq[r].stack /\ z.stack # Nobody
        BY <1>1, <1>7 DEF Apart, Conflict
    <2> QED
        BY <1>0, <1>3, <1>7, <2>1 DEF Effects
<1>8. \A c \in {z.conn, z.parent} : Global(c) => conns'[c] = conns[c]
    BY <1>1, <1>4 DEF Apart, Conflict, Global, Live
<1>9. z.op \in {"update", "delete"} => Global(z.conn) /\ conns'[z.conn] = conns[z.conn]
    BY <1>0, <1>8 DEF InOrder
<1>10. ASSUME z.op = "delete" PROVE \A s \in SecretStack :
           bindings'[s] # z.conn /\ ~ (bindings'[s] \in SecretConn /\ conns'[bindings'[s]].live /\ conns'[bindings'[s]].parent = z.conn)
    <2> SUFFICES ASSUME NEW s \in SecretStack
                 PROVE  bindings'[s] # z.conn /\ ~ (bindings'[s] \in SecretConn /\ conns'[bindings'[s]].live /\ conns'[bindings'[s]].parent = z.conn)
        OBVIOUS
    <2>1. z.conn # NoConn /\ Users(z.conn) = {}
        BY <1>0, <1>9, <1>10 DEF InOrder, Global, Live
    <2>2. z.conn # secReq[r].conn /\ z.conn # secReq[r].parent
        BY <1>1, <1>10, <2>1 DEF Apart, Conflict
    <2>3. CASE bindings'[s] = bindings[s]
        <3>1. bindings[s] # z.conn /\ ~ (Live(bindings[s]) /\ conns[bindings[s]].parent = z.conn)
            BY <2>1 DEF Users
        <3>2. bindings[s] # NoConn => RowKept(bindings[s])
            BY <1>0, <1>6 DEF SecretIInv, BindingsStand
        <3> QED
            BY <2>1, <2>3, <3>1, <3>2 DEF RowKept, Live, NoConnRow
    <2>4. CASE At(r, "save", "bind") /\ s = secReq[r].stack /\ bindings'[s] = secReq[r].conn
        <3> DEFINE c == secReq[r].conn
        <3>1. Settled(c)
            BY <1>0, <2>4 DEF At, SecretIInv, RequestsStand, Holds, Inserts
        <3>2. conns[c].parent \in {NoConn, secReq[r].parent}
            <4>1. c \in SecretConn /\ Writing(secReq[r]) /\ secReq[r].pc = "bind"
                BY <1>0, <2>4 DEF At, Writing, Fits, SecretTypeOK
            <4>2. CASE secReq[r].mode = "shared"
                <5>1. Global(c)
                    BY <1>0, <4>1, <4>2 DEF InOrder
                <5> QED
                    BY <1>0, <4>1, <5>1 DEF Global, SecretIInv, ConnsStand
            <4>3. CASE secReq[r].mode # "shared"
                <5>1. conns[c] = RowOf(secReq[r])
                    BY <1>0, <4>1, <4>3 DEF InOrder
                <5> QED
                    BY <5>1 DEF RowOf
            <4> QED
                BY <4>2, <4>3
        <3>3. conns'[c] \in {conns[c], NoConnRow}
            BY <1>6, <3>1 DEF RowKept
        <3> QED
            BY <2>1, <2>2, <2>4, <3>2, <3>3 DEF NoConnRow
    <2> QED
        BY <2>1, <2>3, <2>4 DEF CalmStep, BoundBy
<1>11. z.op = "delete" => Users(z.conn)' = {}
    BY <1>0, <1>1, <1>10 DEF Users, Live, z
<1>12. z.op = "delete" /\ z.pc = "row" => z.conn \notin creds'
    BY <1>0, <1>1, <1>9 DEF InOrder, Effects, Given, At, Apart, Conflict, Global, Live, SecretIInv, ConnsStand, Settled
<1>13. z.op \in {"save", "unbind", "drop"} => z.stack \in SecretStack
    BY <1>0 DEF Fits
<1>14. Writing(z) => (z.private <=> (z.prev # NoConn /\ ~ (z.prev \in SecretConn /\ conns'[z.prev].live /\ conns'[z.prev].stack = Nobody)))
    <2> SUFFICES ASSUME Writing(z), z.prev # NoConn
                 PROVE  Global(z.prev) <=> (z.prev \in SecretConn /\ conns'[z.prev].live /\ conns'[z.prev].stack = Nobody)
        BY <1>0 DEF InOrder, Holds, Writing
    <2>1. z.stack \in SecretStack /\ z.prev = bindings[z.stack]
        BY <1>0, <1>13 DEF Writing, InOrder
    <2>2. Live(z.prev) /\ conns[z.prev].stack \in {z.stack, Nobody}
        BY <1>0, <1>2, <2>1 DEF Usable, SecretIInv, BindingsStand
    <2>3. CASE conns[z.prev].stack = z.stack
        BY <1>7, <2>1, <2>2, <2>3 DEF Global, Untouched, Live
    <2>4. CASE Global(z.prev)
        <3>1. secReq[r].op = "delete" => Users(secReq[r].conn) = {}
            BY <1>0 DEF InOrder
        <3>2. ~ (secReq[r].op = "delete" /\ secReq[r].conn = z.prev)
            BY <2>1, <3>1 DEF Users
        <3> QED
            BY <1>4, <2>4, <3>2 DEF Global, Live
    <2> QED
        BY <2>2, <2>3, <2>4 DEF Global
<1>15. Writing(z) => /\ z.parent # NoConn => z.parent \in SecretConn /\ conns'[z.parent].live /\ conns'[z.parent].stack = Nobody
                     /\ z.mode # "shared" /\ (z.conn = z.prev \/ z.pc = "bind") => conns'[z.conn] = RowOf(z)
                     /\ z.pc = "update" => z.typed \/ z.conn \in creds'
                     /\ z.pc = "row" \/ (z.mode # "shared" /\ z.pc = "bind") => z.conn \in creds'
    <2> SUFFICES ASSUME Writing(z)
                 PROVE  /\ z.parent # NoConn => z.parent \in SecretConn /\ conns'[z.parent].live /\ conns'[z.parent].stack = Nobody
                        /\ z.mode # "shared" /\ (z.conn = z.prev \/ z.pc = "bind") => conns'[z.conn] = RowOf(z)
                        /\ z.pc = "update" => z.typed \/ z.conn \in creds'
                        /\ z.pc = "row" \/ (z.mode # "shared" /\ z.pc = "bind") => z.conn \in creds'
        OBVIOUS
    <2>1. z.stack \in SecretStack /\ z.conn \in SecretConn
        BY <1>0, <1>13 DEF Writing, Fits, SecretTypeOK
    <2>2. z.parent # NoConn => z.parent \in SecretConn /\ conns'[z.parent].live /\ conns'[z.parent].stack = Nobody
        BY <1>0, <1>8 DEF InOrder, Global, Live
    <2>3. conns[z.conn] = RowOf(z) => Untouched(z.conn)
        BY <1>7, <2>1 DEF RowOf, Live
    <2>4. z.mode # "shared" /\ (z.conn = z.prev \/ z.pc = "bind") => conns[z.conn] = RowOf(z)
        BY <1>0 DEF InOrder
    <2>5. z.pc = "update" => z.mode # "shared" /\ z.conn = z.prev
        BY <1>0 DEF InOrder, Fits, Writing
    <2>6. z.pc = "row" => Inserts(z)
        BY <1>0 DEF Fits, Writing, Inserts
    <2>7. /\ z.pc = "update" => z.typed \/ z.conn \in creds
          /\ z.pc = "row" \/ (z.mode # "shared" /\ z.pc = "bind") => z.conn \in creds
        BY <1>0 DEF InOrder
    <2> QED
        BY <1>5, <2>2, <2>3, <2>4, <2>5, <2>6, <2>7 DEF Untouched
<1>16. z.pc \in {"dropCreds", "dropRow"} =>
           /\ z.stack \in SecretStack /\ Live(z.prev) /\ conns[z.prev].stack = z.stack /\ Untouched(z.prev)
    BY <1>0, <1>7, <1>13 DEF Fits, InOrder
<1>17. z.op = "unbind" /\ z.pc = "look" =>
           (z.prev \in SecretConn /\ conns'[z.prev].live => conns'[z.prev].stack \in {z.stack, Nobody})
    BY <1>0, <1>6 DEF InOrder, Holds, RowKept, NoConnRow, Live
<1>18. ASSUME z.op = "drop", NEW c \in creds', c \in SecretConn, conns'[c].live, conns'[c].stack = z.stack
       PROVE  c \in creds /\ Live(c) /\ conns[c].stack = z.stack
    <2>1. z.stack \in SecretStack /\ z.stack # secReq[r].stack
        BY <1>7, <1>13, <1>18
    <2>2. conns'[c] = conns[c]
        BY <1>0, <1>18, <2>1 DEF Effects, RowOf, NoConnRow
    <2> QED
        BY <1>7, <1>18, <2>1, <2>2 DEF Live, Untouched
<1>19. ASSUME z.op = "drop", z.pc = "creds", NEW c \in z.left
       PROVE  c \in SecretConn /\ conns'[c].live /\ conns'[c].stack = z.stack
    BY <1>0, <1>7, <1>13, <1>19 DEF InOrder, Untouched, Live
<1>20. creds' \subseteq SecretConn
    BY <1>0 DEF SecretTypeOK
<1>a. secReq'[q] = z
    BY <1>1
<1>21. /\ z.op \in {"update", "delete"} => Global(secReq[q].conn)'
       /\ z.op = "delete" => Users(secReq[q].conn)' = {} /\ z.pc \in {"creds", "row"}
       /\ z.op = "delete" /\ z.pc = "row" => z.conn \notin creds'
    BY <1>0, <1>a, <1>9, <1>11, <1>12 DEF InOrder, Global, Live, z
<1>22. /\ z.op \in {"save", "unbind", "drop"} => z.stack \in secStacks'
       /\ (z.op = "save" /\ z.pc = "load") \/ Writing(z) => z.prev = bindings'[z.stack]
       /\ z.op = "unbind" /\ z.pc = "bind" => z.prev = bindings'[z.stack]
    BY <1>0, <1>7, <1>13 DEF InOrder, Writing
<1>23. Writing(z) =>
           /\ z.private <=> (z.prev # NoConn /\ ~ Global(secReq[q].prev)')
           /\ z.parent # NoConn => Global(secReq[q].parent)'
           /\ z.mode = "shared" => z.pc = "bind" /\ z.conn = z.parent
    BY <1>0, <1>a, <1>14, <1>15 DEF InOrder, Global, Live
<1>24. z.pc \in {"dropCreds", "dropRow"} =>
           /\ Live(secReq[q].prev)' /\ conns'[z.prev].stack = z.stack
           /\ z.op = "save" => bindings'[z.stack] = z.conn /\ z.conn # z.prev
           /\ z.op = "unbind" => bindings'[z.stack] = NoConn
    BY <1>0, <1>a, <1>7, <1>16 DEF InOrder, Live, Untouched
<1>25. z.pc = "dropRow" => z.prev \notin creds'
    BY <1>0, <1>16 DEF InOrder, Untouched
<1>26. z.op = "unbind" /\ z.pc = "look" =>
           bindings'[z.stack] = NoConn /\ (Live(secReq[q].prev)' => conns'[z.prev].stack \in {z.stack, Nobody})
    BY <1>0, <1>a, <1>7, <1>13, <1>17 DEF InOrder, Live
<1>27. z.op = "drop" /\ z.pc = "creds" =>
           /\ \A c \in z.left : c \in SecretConn /\ conns'[c].live /\ conns'[c].stack = z.stack
           /\ \A c \in creds' : c \in SecretConn /\ conns'[c].live /\ conns'[c].stack = z.stack => c \in z.left
    BY <1>0, <1>18, <1>19 DEF InOrder
<1>28. z.op = "drop" /\ z.pc = "stack" =>
           \A c \in creds' : c \in SecretConn /\ conns'[c].live => conns'[c].stack # z.stack
    BY <1>0, <1>18 DEF InOrder
<1> QED
    BY <1>a, <1>15, <1>21, <1>22, <1>23, <1>24, <1>25, <1>26, <1>27, <1>28 DEF InOrder, Writing, Live, RowOf

(* Credentials do not lose their connection ...                             *)
LEMMA CalmCreds ==
    ASSUME NEW r \in SecretReq, NEW x, CalmStep(r, x)
    PROVE  CredsOwned'
<1> SUFFICES ASSUME NEW c \in creds'
             PROVE  Live(c)' \/ \E q \in SecretReq : Inserts(secReq[q])' /\ secReq'[q].conn = c
    BY DEF CredsOwned
<1>0. /\ Fits(secReq[r]) /\ InOrder(secReq[r]) /\ secReq[r] \in SecretReqState
      /\ Effects(r, x) /\ SecretIInv /\ c \in SecretConn
    BY CalmFacts DEF CalmStep, WholeInv, SecretIInv, SecretTypeOK, RequestsStand
<1>1. CredsOwned /\ secReq'[r] = x /\ \A q \in SecretReq \ {r} : secReq'[q] = secReq[q]
    BY CalmFacts
<1>2. CASE c \in creds /\ Live(c)
    <2>1. ~ Gone(r, c)
        BY <1>0, <1>2 DEF Gone, At, InOrder
    <2> QED
        BY <1>0, <1>2, <2>1 DEF Effects, Live, RowOf
<1>3. ASSUME NEW q \in SecretReq, Inserts(secReq[q]), secReq[q].conn = c
      PROVE  Live(c)' \/ \E p \in SecretReq : Inserts(secReq[p])' /\ secReq'[p].conn = c
    <2>1. CASE q = r
        BY <1>0, <1>1, <1>3, <2>1 DEF Effects, Live, Inserts
    <2>2. CASE q # r
        BY <1>1, <1>3, <2>2 DEF Inserts
    <2> QED
        BY <2>1, <2>2
<1>4. ASSUME Given(r, x, c)
      PROVE  Live(c)' \/ \E p \in SecretReq : Inserts(secReq[p])' /\ secReq'[p].conn = c
    <2>1. CASE Inserts(x) /\ x.conn = c
        BY <1>1, <2>1 DEF Inserts
    <2>2. CASE secReq[r].op = "update" /\ c = secReq[r].conn
        <3>1. Global(c) /\ ~ (secReq[r].op = "delete" /\ secReq[r].conn = c)
            BY <1>0, <2>2 DEF InOrder
        <3>2. conns'[c] = conns[c]
            BY <3>1, SharedStays
        <3> QED
            BY <3>1, <3>2 DEF Global, Live
    <2>3. CASE At(r, "save", "creds") /\ c = secReq[r].conn
        <3>1. CASE Inserts(secReq[r])
            BY <1>3, <2>3, <3>1
        <3>2. CASE ~ Inserts(secReq[r])
            <4>1. secReq[r].conn = secReq[r].prev
                BY <2>3, <3>2 DEF At, Inserts
            <4>2. conns[c] = RowOf(secReq[r])
                BY <1>0, <2>3, <4>1 DEF At, InOrder, Writing
            <4>3. ~ Gone(r, c)
                BY <2>3, <1>0 DEF Gone, At
            <4>4. conns'[c] = conns[c]
                BY <1>0, <3>2, <4>3 DEF Effects
            <4> QED
                BY <1>0, <4>2, <4>4 DEF RowOf, Live
        <3> QED
            BY <3>1, <3>2
    <2> QED
        BY <1>4, <2>1, <2>2, <2>3 DEF Given
<1> QED
    BY <1>0, <1>1, <1>2, <1>3, <1>4 DEF CredsOwned, Effects

(* ... and the stacks r is not working on keep what they have.              *)
LEMMA CalmElsewhere ==
    ASSUME NEW r \in SecretReq, NEW x, CalmStep(r, x)
    PROVE  /\ \A s \in SecretStack : s # secReq[r].stack => Usable(s)'
           /\ \A c \in SecretConn :
                  Live(c)' /\ conns'[c].stack # Nobody /\ conns'[c].stack # secReq[r].stack =>
                      \/ bindings'[conns'[c].stack] = c
                      \/ \E q \in SecretReq : secReq'[q].stack = conns'[c].stack /\ Handles(secReq[q], c)'
<1>0. /\ Fits(secReq[r]) /\ InOrder(secReq[r]) /\ secReq[r] \in SecretReqState
      /\ Effects(r, x) /\ SecretIInv /\ SecretTypeOK
    BY CalmFacts DEF CalmStep, WholeInv, SecretIInv, SecretTypeOK, RequestsStand
<1>1. /\ \A q \in SecretReq \ {r} : secReq'[q] = secReq[q]
      /\ \A s \in SecretStack : Usable(s)
      /\ PrivateBound
    BY CalmFacts
<1>2. \A c : Live(c) /\ conns[c].stack # Nobody /\ conns[c].stack # secReq[r].stack => Untouched(c)
    BY FarPrivate
<1>3. \A c : Global(c) /\ ~ (secReq[r].op = "delete" /\ secReq[r].conn = c) => conns'[c] = conns[c]
    BY SharedStays
<1>4. ASSUME NEW s \in SecretStack, s # secReq[r].stack PROVE Usable(s)'
    <2> SUFFICES ASSUME bindings'[s] # NoConn PROVE Usable(s)'
        BY DEF Usable
    <2>1. PICK b : b = bindings[s]
        OBVIOUS
    <2>2. b = bindings'[s] /\ b # NoConn
        BY <1>0, <1>4, <2>1 DEF Effects
    <2>3. /\ s \in secStacks /\ Live(b) /\ Live(EffectiveConfig(b)) /\ conns[b].stack \in {s, Nobody}
          /\ Global(b) \/ b \in creds \/ \E q \in SecretReq : secReq[q].op = "drop" /\ secReq[q].stack = s
        BY <1>0, <1>1, <2>1, <2>2 DEF Usable, SecretIInv, BindingsStand
    <2>4. secReq[r].op = "delete" => secReq[r].conn # b /\ conns[b].parent # secReq[r].conn
        BY <1>0, <2>1, <2>3 DEF InOrder, Users
    <2>5. conns'[b] = conns[b] /\ ((b \in creds' <=> b \in creds) \/ Global(b))
        BY <1>2, <1>3, <1>4, <2>3, <2>4, SecretConnectionsAssumption DEF Global, Untouched
    <2>6. conns[b].parent # NoConn => Global(conns[b].parent) /\ conns'[conns[b].parent] = conns[conns[b].parent]
        BY <1>0, <1>3, <2>3, <2>4 DEF EffectiveConfig, SecretIInv, ConnsStand, Live
    <2>7. Live(b)' /\ (Global(b) => Global(b)')
        BY <2>3, <2>5 DEF Live, Global
    <2>8. Live(EffectiveConfig(b))'
        BY <2>3, <2>5, <2>6, <2>7 DEF EffectiveConfig, Live, Global
    <2>9. s \in secStacks'
        BY <1>0, <1>4, <2>3 DEF Effects
    <2>10. \/ Global(b)' \/ b \in creds'
           \/ \E q \in SecretReq : secReq'[q].op = "drop" /\ secReq'[q].stack = s
        BY <1>1, <1>4, <2>3, <2>5, <2>7
    <2> QED
        BY <2>2, <2>7, <2>8, <2>9, <2>10 DEF Usable, Global, Live, EffectiveConfig
<1>5. ASSUME NEW c \in SecretConn, Live(c)', conns'[c].stack # Nobody, conns'[c].stack # secReq[r].stack
      PROVE  \/ bindings'[conns'[c].stack] = c
             \/ \E q \in SecretReq : secReq'[q].stack = conns'[c].stack /\ Handles(secReq[q], c)'
    <2>1. conns'[c] = conns[c]
        BY <1>0, <1>5 DEF Effects, RowOf, NoConnRow
    <2>2. \/ bindings[conns[c].stack] = c
          \/ \E q \in SecretReq : secReq[q].stack = conns[c].stack /\ Handles(secReq[q], c)
        BY <1>1, <1>5, <2>1 DEF PrivateBound, Live
    <2>3. conns[c].stack \in SecretStack
        BY <1>0, <1>5, <2>1 DEF SecretTypeOK, ConnRow
    <2>4. bindings'[conns[c].stack] = bindings[conns[c].stack]
        BY <1>0, <1>5, <2>1, <2>3 DEF Effects
    <2> QED
        BY <1>1, <1>5, <2>1, <2>2, <2>4 DEF Handles
<1> QED
    BY <1>4, <1>5

(* What is left to show of a step: its own new state, and its own stack.    *)
OwnStack(r, x) ==
    /\ \A s \in SecretStack : s = secReq[r].stack => Usable(s)'
    /\ \A c \in SecretConn :
           Live(c)' /\ conns'[c].stack # Nobody /\ conns'[c].stack = secReq[r].stack =>
               bindings'[conns'[c].stack] = c \/ (x.stack = conns'[c].stack /\ Handles(x, c))

LEMMA CalmWhole ==
    ASSUME NEW r \in SecretReq, NEW x, CalmStep(r, x), InOrder(secReq[r])', OwnStack(r, x)
    PROVE  CalmInv'
<1>1. \A q \in SecretReq : InOrder(secReq[q])'
    BY CalmOthers
<1>2. \A s \in SecretStack : Usable(s)'
    BY CalmElsewhere DEF OwnStack
<1>3. secReq'[r] = x
    BY CalmFacts
<1>4. PrivateBound'
    BY <1>3, CalmElsewhere DEF OwnStack, PrivateBound, Handles
<1> QED
    BY <1>1, <1>2, <1>4, CalmCreds DEF CalmInv

(* Nobody else works on r's stack: its private connections are bound or in  *)
(* r's hands.                                                               *)
LEMMA OwnPrivate ==
    ASSUME NEW r \in SecretReq, NEW x, CalmStep(r, x),
           NEW c \in SecretConn, Live(c), conns[c].stack # Nobody, conns[c].stack = secReq[r].stack
    PROVE  bindings[conns[c].stack] = c \/ Handles(secReq[r], c)
<1>1. \A q \in SecretReq \ {r} : secReq[q].stack # conns[c].stack
    BY CalmFacts DEF Apart, Conflict
<1> QED
    BY <1>1, CalmFacts DEF PrivateBound

(* A request without a stack has none to disturb.                           *)
LEMMA NoOwnStack ==
    ASSUME NEW r, NEW x, secReq[r].stack = Nobody
    PROVE  OwnStack(r, x)
    BY SecretConnectionsAssumption DEF OwnStack

(* Where no row, binding or stack changes, the stack stays usable as long   *)
(* as the credentials stay, or r deletes it.                                *)
LEMMA OwnStackStill ==
    ASSUME NEW r \in SecretReq, NEW x, CalmStep(r, x), UNCHANGED <<conns, bindings, secStacks>>,
           secReq[r].op \in {"save", "unbind", "drop"},
           secReq[r].op = "drop" => x.op = "drop" /\ x.stack = secReq[r].stack,
           secReq[r].op # "drop" => \A c \in creds : bindings[secReq[r].stack] = c => c \in creds',
           \A c \in SecretConn : Handles(secReq[r], c) /\ Live(c) /\ conns[c].stack = secReq[r].stack
                                     => x.stack = secReq[r].stack /\ Handles(x, c)
    PROVE  OwnStack(r, x)
<1>1. ASSUME NEW s \in SecretStack, s = secReq[r].stack PROVE Usable(s)'
    <2>1. Usable(s) /\ secReq'[r] = x /\ \A q \in SecretReq \ {r} : secReq[q].stack # s
        BY <1>1, CalmFacts, SecretConnectionsAssumption DEF Apart, Conflict
    <2> QED
        BY <1>1, <2>1 DEF Usable, Live, Global, EffectiveConfig
<1>2. ASSUME NEW c \in SecretConn, Live(c)', conns'[c].stack # Nobody, conns'[c].stack = secReq[r].stack
      PROVE  bindings'[conns'[c].stack] = c \/ (x.stack = conns'[c].stack /\ Handles(x, c))
    <2>1. Live(c) /\ conns'[c] = conns[c]
        BY <1>2 DEF Live
    <2>2. bindings[conns[c].stack] = c \/ Handles(secReq[r], c)
        BY <1>2, <2>1, OwnPrivate
    <2> QED
        BY <1>2, <2>1, <2>2
<1> QED
    BY <1>1, <1>2 DEF OwnStack

LEMMA ReturnedInOrder ==
    ASSUME NEW r \in SecretReq, secReq'[r] = NoSecretReq
    PROVE  InOrder(secReq[r])'
    BY DEF InOrder, Writing, NoSecretReq

(* Settings has no stack of its own; what it looked up it acts on at once.  *)
LEMMA CalmProvider ==
    ASSUME NEW r \in SecretReq, NEW x, CalmStep(r, x), ProviderStep(r)
    PROVE  InOrder(secReq[r])' /\ OwnStack(r, x)
<1> USE SecretConnectionsAssumption
<1>0. /\ secReq[r] \in SecretReqState /\ Fits(secReq[r]) /\ Holds(secReq[r]) /\ InOrder(secReq[r])
      /\ SecretIInv /\ SecretTypeOK /\ secReq'[r] = x /\ Effects(r, x)
    BY CalmFacts DEF CalmStep, WholeInv, SecretIInv, SecretTypeOK, RequestsStand
<1>1. secReq[r].stack \in SecretStack => Usable(secReq[r].stack)
    BY CalmFacts
<1>2. \A y : Step(r, y) => y = x
    BY CalmFacts DEF CalmStep, WholeInv, SecretIInv, SecretTypeOK, Step
<1>3. ASSUME NEW c \in SecretConn, NEW typed \in BOOLEAN, CreateProviderStart(r, c, typed)
      PROVE  InOrder(secReq[r])' /\ OwnStack(r, x)
    <2>1. x = [NoSecretReq EXCEPT !.op = "create", !.pc = "row", !.conn = c]
        BY <1>2, <1>3 DEF CreateProviderStart, Goto
    <2>2. /\ x.op = "create" /\ x.pc = "row"
          /\ x.stack = Nobody
          /\ x.conn = c
          /\ x.parent = NoConn
          /\ x.prev = NoConn
          /\ x.private = FALSE
        BY <1>0, <2>1 DEF NoSecretReq, SecretReqState
    <2>3. InOrder(secReq[r])'
        BY <1>0, <1>1, <1>3, <2>2 DEF CreateProviderStart, InOrder, Writing, Live, Global, At
    <2>9. OwnStack(r, x)
        BY <1>0, <1>3, NoOwnStack DEF CreateProviderStart, At, Fits, NoSecretReq, Arrives
    <2> QED
        BY <2>3, <2>9
<1>4. ASSUME CreateProviderRow(r)
      PROVE  InOrder(secReq[r])' /\ OwnStack(r, x)
    <2>1. x = NoSecretReq
        BY <1>2, <1>4 DEF CreateProviderRow, Return
    <2>2. InOrder(secReq[r])'
        BY <1>0, <2>1, ReturnedInOrder
    <2>9. OwnStack(r, x)
        BY <1>0, <1>4, NoOwnStack DEF CreateProviderRow, At, Fits, NoSecretReq, Arrives
    <2> QED
        BY <2>2, <2>9
<1>5. ASSUME NEW c \in SecretConn, UpdateProviderStart(r, c)
      PROVE  InOrder(secReq[r])' /\ OwnStack(r, x)
    <2>1. x = [NoSecretReq EXCEPT !.op = "update", !.pc = "creds", !.conn = c]
        BY <1>2, <1>5 DEF UpdateProviderStart, Goto
    <2>2. /\ x.op = "update" /\ x.pc = "creds"
          /\ x.stack = Nobody
          /\ x.conn = c
          /\ x.parent = NoConn
          /\ x.prev = NoConn
          /\ x.private = FALSE
        BY <1>0, <2>1 DEF NoSecretReq, SecretReqState
    <2>3. InOrder(secReq[r])'
        BY <1>0, <1>1, <1>5, <2>2 DEF UpdateProviderStart, InOrder, Writing, Live, Global, At
    <2>9. OwnStack(r, x)
        BY <1>0, <1>5, NoOwnStack DEF UpdateProviderStart, At, Fits, NoSecretReq, Arrives
    <2> QED
        BY <2>3, <2>9
<1>6. ASSUME UpdateProvider(r)
      PROVE  InOrder(secReq[r])' /\ OwnStack(r, x)
    <2>1. x = NoSecretReq
        BY <1>2, <1>6 DEF UpdateProvider, Return
    <2>2. InOrder(secReq[r])'
        BY <1>0, <2>1, ReturnedInOrder
    <2>9. OwnStack(r, x)
        BY <1>0, <1>6, NoOwnStack DEF UpdateProvider, At, Fits, NoSecretReq, Arrives
    <2> QED
        BY <2>2, <2>9
<1>7. ASSUME NEW c \in SecretConn, DeleteProviderCheck(r, c)
      PROVE  InOrder(secReq[r])' /\ OwnStack(r, x)
    <2>1. x = [NoSecretReq EXCEPT !.op = "delete", !.pc = "creds", !.conn = c]
        BY <1>2, <1>7 DEF DeleteProviderCheck, Goto
    <2>2. /\ x.op = "delete" /\ x.pc = "creds"
          /\ x.stack = Nobody
          /\ x.conn = c
          /\ x.parent = NoConn
          /\ x.prev = NoConn
          /\ x.private = FALSE
        BY <1>0, <2>1 DEF NoSecretReq, SecretReqState
    <2>3. InOrder(secReq[r])'
        BY <1>0, <1>1, <1>7, <2>2 DEF DeleteProviderCheck, Users, InOrder, Writing, Live, Global, At
    <2>9. OwnStack(r, x)
        BY <1>0, <1>7, NoOwnStack DEF DeleteProviderCheck, At, Fits, NoSecretReq, Arrives
    <2> QED
        BY <2>3, <2>9
<1>8. ASSUME DeleteProviderCreds(r)
      PROVE  InOrder(secReq[r])' /\ OwnStack(r, x)
    <2>1. x = [secReq[r] EXCEPT !.pc = "row"]
        BY <1>2, <1>8 DEF DeleteProviderCreds, Goto
    <2>2. /\ x.pc = "row"
          /\ x.op = secReq[r].op
          /\ x.stack = secReq[r].stack
          /\ x.mode = secReq[r].mode
          /\ x.conn = secReq[r].conn
          /\ x.parent = secReq[r].parent
          /\ x.prev = secReq[r].prev
          /\ x.typed = secReq[r].typed
          /\ x.private = secReq[r].private
          /\ x.left = secReq[r].left
        BY <1>0, <2>1 DEF NoSecretReq, SecretReqState
    <2>3. InOrder(secReq[r])'
        BY <1>0, <1>1, <1>8, <2>2 DEF DeleteProviderCreds, Users, InOrder, Writing, Live, Global, At
    <2>9. OwnStack(r, x)
        BY <1>0, <1>8, NoOwnStack DEF DeleteProviderCreds, At, Fits, NoSecretReq, Arrives
    <2> QED
        BY <2>3, <2>9
<1>9. ASSUME DeleteProviderRow(r)
      PROVE  InOrder(secReq[r])' /\ OwnStack(r, x)
    <2>1. x = NoSecretReq
        BY <1>2, <1>9 DEF DeleteProviderRow, Return
    <2>2. InOrder(secReq[r])'
        BY <1>0, <2>1, ReturnedInOrder
    <2>9. OwnStack(r, x)
        BY <1>0, <1>9, NoOwnStack DEF DeleteProviderRow, At, Fits, NoSecretReq, Arrives
    <2> QED
        BY <2>2, <2>9
<1> QED
    BY <1>3, <1>4, <1>5, <1>6, <1>7, <1>8, <1>9 DEF ProviderStep

(* What saveStackBindingHandler loaded is what is bound and can be chosen.  *)
LEMMA CalmLoad ==
    ASSUME NEW r \in SecretReq, NEW x, CalmStep(r, x), SaveLoad(r)
    PROVE  InOrder(secReq[r])' /\ OwnStack(r, x)
<1> USE SecretConnectionsAssumption
<1>0. /\ secReq[r] \in SecretReqState /\ Fits(secReq[r]) /\ Holds(secReq[r]) /\ InOrder(secReq[r])
      /\ SecretIInv /\ SecretTypeOK /\ secReq'[r] = x /\ Effects(r, x)
    BY CalmFacts DEF CalmStep, WholeInv, SecretIInv, SecretTypeOK, RequestsStand
<1>1. secReq[r].stack \in SecretStack => Usable(secReq[r].stack)
    BY CalmFacts
<1>2. \A y : Step(r, y) => y = x
    BY CalmFacts DEF CalmStep, WholeInv, SecretIInv, SecretTypeOK, Step
<1>3. ASSUME At(r, "save", "load"), Return(r), UNCHANGED <<conns, creds, bindings, secStacks, cuts>>
      PROVE  InOrder(secReq[r])' /\ OwnStack(r, x)
    <2>1. x = NoSecretReq
        BY <1>2, <1>3 DEF At, Return
    <2>2. InOrder(secReq[r])'
        BY <1>0, <2>1, ReturnedInOrder
    <2>9. OwnStack(r, x)
        BY <1>0, <1>3, <2>1, OwnStackStill DEF At, At, Handles, Fits, InOrder, NoSecretReq
    <2> QED
        BY <2>2, <2>9
<1>4. ASSUME At(r, "save", "load"), secReq[r].mode = "shared", Choosable(secReq[r].parent), UNCHANGED <<conns, creds, bindings, secStacks, cuts>>,
             Step(r, [[secReq[r] EXCEPT !.prev = IF Live(@) THEN @ ELSE NoConn,
                                     !.private = Live(secReq[r].prev) /\ conns[secReq[r].prev].stack # Nobody]
                        EXCEPT !.conn = secReq[r].parent, !.pc = "bind"])
      PROVE  InOrder(secReq[r])' /\ OwnStack(r, x)
    <2>1. x = [[secReq[r] EXCEPT !.prev = IF Live(@) THEN @ ELSE NoConn,
                                     !.private = Live(secReq[r].prev) /\ conns[secReq[r].prev].stack # Nobody]
                        EXCEPT !.conn = secReq[r].parent, !.pc = "bind"]
        BY <1>2, <1>4 DEF Choosable, Goto
    <2>2. /\ x.pc = "bind" /\ x.conn = secReq[r].parent
          /\ x.op = secReq[r].op
          /\ x.stack = secReq[r].stack
          /\ x.mode = secReq[r].mode
          /\ x.parent = secReq[r].parent
          /\ x.typed = secReq[r].typed
          /\ x.prev = IF Live(secReq[r].prev) THEN secReq[r].prev ELSE NoConn
          /\ x.private = (Live(secReq[r].prev) /\ conns[secReq[r].prev].stack # Nobody)
        BY <1>0, <2>1 DEF NoSecretReq, SecretReqState
    <2>3. InOrder(secReq[r])'
        <3>1. x.prev = secReq[r].prev /\ secReq[r].stack \in SecretStack
            BY <1>0, <1>1, <1>4, <2>2 DEF At, Fits, InOrder, Usable
        <3>2. x.private <=> (x.prev # NoConn /\ ~ Global(x.prev))
            BY <1>0, <1>1, <1>4, <2>2, <3>1 DEF At, InOrder, Usable, Live, Global
        <3>3. x.parent # NoConn => Global(x.parent)
            BY <1>0, <1>4, <2>2 DEF At, Fits, Choosable
        <3> QED
            BY <1>0, <1>4, <2>2, <3>1, <3>2, <3>3 DEF InOrder, Writing, At, Live, Global, RowOf
    <2>9. OwnStack(r, x)
        BY <1>0, <1>4, <2>1, <2>2, OwnStackStill DEF At, At, Handles, Fits, InOrder, NoSecretReq
    <2> QED
        BY <2>3, <2>9
<1>5. ASSUME At(r, "save", "load"), secReq[r].mode = "separate" \/ (secReq[r].mode = "own" /\ Choosable(secReq[r].parent)), Reusable(secReq[r]),
             secReq[r].typed \/ secReq[r].prev \in creds, UNCHANGED <<conns, creds, bindings, secStacks, cuts>>,
             Step(r, [[secReq[r] EXCEPT !.prev = IF Live(@) THEN @ ELSE NoConn,
                                     !.private = Live(secReq[r].prev) /\ conns[secReq[r].prev].stack # Nobody]
                        EXCEPT !.conn = secReq[r].prev, !.pc = "update"])
      PROVE  InOrder(secReq[r])' /\ OwnStack(r, x)
    <2>1. x = [[secReq[r] EXCEPT !.prev = IF Live(@) THEN @ ELSE NoConn,
                                     !.private = Live(secReq[r].prev) /\ conns[secReq[r].prev].stack # Nobody]
                        EXCEPT !.conn = secReq[r].prev, !.pc = "update"]
        BY <1>2, <1>5 DEF Choosable, Reusable, Goto
    <2>2. /\ x.pc = "update" /\ x.conn = secReq[r].prev
          /\ x.op = secReq[r].op
          /\ x.stack = secReq[r].stack
          /\ x.mode = secReq[r].mode
          /\ x.parent = secReq[r].parent
          /\ x.typed = secReq[r].typed
          /\ x.prev = IF Live(secReq[r].prev) THEN secReq[r].prev ELSE NoConn
          /\ x.private = (Live(secReq[r].prev) /\ conns[secReq[r].prev].stack # Nobody)
        BY <1>0, <2>1 DEF NoSecretReq, SecretReqState
    <2>3. InOrder(secReq[r])'
        <3>1. x.prev = secReq[r].prev /\ secReq[r].stack \in SecretStack
            BY <1>0, <1>1, <1>5, <2>2 DEF At, Fits, InOrder, Usable
        <3>2. x.private <=> (x.prev # NoConn /\ ~ Global(x.prev))
            BY <1>0, <1>1, <1>5, <2>2, <3>1 DEF At, InOrder, Usable, Live, Global
        <3>3. x.parent # NoConn => Global(x.parent)
            BY <1>0, <1>5, <2>2 DEF At, Fits, Choosable
        <3>4. x.mode # "shared" /\ conns[x.conn] = RowOf(x)
            BY <1>0, <1>5, <2>2, <3>1 DEF Reusable, RowOf, Live, SecretTypeOK, ConnRow
        <3> QED
            BY <1>0, <1>5, <2>2, <3>1, <3>2, <3>3, <3>4 DEF InOrder, Writing, At, Live, Global, RowOf
    <2>9. OwnStack(r, x)
        BY <1>0, <1>5, <2>1, <2>2, OwnStackStill DEF At, At, Handles, Fits, InOrder, NoSecretReq
    <2> QED
        BY <2>3, <2>9
<1>6. ASSUME At(r, "save", "load"), secReq[r].mode = "separate" \/ (secReq[r].mode = "own" /\ Choosable(secReq[r].parent)), UNCHANGED <<conns, creds, bindings, secStacks, cuts>>,
             NEW c \in SecretConn \ drawn, Step(r, [[secReq[r] EXCEPT !.prev = IF Live(@) THEN @ ELSE NoConn,
                                     !.private = Live(secReq[r].prev) /\ conns[secReq[r].prev].stack # Nobody]
                        EXCEPT !.conn = c, !.pc = "creds"])
      PROVE  InOrder(secReq[r])' /\ OwnStack(r, x)
    <2>1. x = [[secReq[r] EXCEPT !.prev = IF Live(@) THEN @ ELSE NoConn,
                                     !.private = Live(secReq[r].prev) /\ conns[secReq[r].prev].stack # Nobody]
                        EXCEPT !.conn = c, !.pc = "creds"]
        BY <1>2, <1>6 DEF Choosable, Reusable, Goto
    <2>2. /\ x.pc = "creds" /\ x.conn = c
          /\ x.op = secReq[r].op
          /\ x.stack = secReq[r].stack
          /\ x.mode = secReq[r].mode
          /\ x.parent = secReq[r].parent
          /\ x.typed = secReq[r].typed
          /\ x.prev = IF Live(secReq[r].prev) THEN secReq[r].prev ELSE NoConn
          /\ x.private = (Live(secReq[r].prev) /\ conns[secReq[r].prev].stack # Nobody)
        BY <1>0, <2>1 DEF NoSecretReq, SecretReqState
    <2>3. InOrder(secReq[r])'
        <3>1. x.prev = secReq[r].prev /\ secReq[r].stack \in SecretStack
            BY <1>0, <1>1, <1>6, <2>2 DEF At, Fits, InOrder, Usable
        <3>2. x.private <=> (x.prev # NoConn /\ ~ Global(x.prev))
            BY <1>0, <1>1, <1>6, <2>2, <3>1 DEF At, InOrder, Usable, Live, Global
        <3>3. x.parent # NoConn => Global(x.parent)
            BY <1>0, <1>6, <2>2 DEF At, Fits, Choosable
        <3>4. x.mode # "shared" /\ x.conn # x.prev
            BY <1>0, <1>6, <2>2, <3>1 DEF Holds, Settled
        <3> QED
            BY <1>0, <1>6, <2>2, <3>1, <3>2, <3>3, <3>4 DEF InOrder, Writing, At, Live, Global, RowOf
    <2>9. OwnStack(r, x)
        BY <1>0, <1>6, <2>1, <2>2, OwnStackStill DEF At, At, Handles, Fits, InOrder, NoSecretReq
    <2> QED
        BY <2>3, <2>9
<1> QED
    BY <1>3, <1>4, <1>5, <1>6 DEF SaveLoad, Goto

(* The handlers of a binding leave their stack in order.                    *)
LEMMA CalmBinding ==
    ASSUME NEW r \in SecretReq, NEW x, CalmStep(r, x), BindingStep(r)
    PROVE  InOrder(secReq[r])' /\ OwnStack(r, x)
<1> USE SecretConnectionsAssumption
<1>0. /\ secReq[r] \in SecretReqState /\ Fits(secReq[r]) /\ Holds(secReq[r]) /\ InOrder(secReq[r])
      /\ SecretIInv /\ SecretTypeOK /\ secReq'[r] = x /\ Effects(r, x)
    BY CalmFacts DEF CalmStep, WholeInv, SecretIInv, SecretTypeOK, RequestsStand
<1>1. secReq[r].stack \in SecretStack => Usable(secReq[r].stack)
    BY CalmFacts
<1>2. \A y : Step(r, y) => y = x
    BY CalmFacts DEF CalmStep, WholeInv, SecretIInv, SecretTypeOK, Step
<1>3. ASSUME NEW s \in SecretStack, NEW mode \in Mode, NEW c \in ConnId, NEW typed \in BOOLEAN,
             SaveStart(r, s, mode, c, typed)
      PROVE  InOrder(secReq[r])' /\ OwnStack(r, x)
    <2>1. x = [NoSecretReq EXCEPT !.op = "save", !.pc = "load", !.stack = s, !.mode = mode,
                                   !.parent = c, !.prev = bindings[s], !.typed = typed]
        BY <1>2, <1>3 DEF SaveStart, Goto
    <2>2. /\ x.op = "save" /\ x.pc = "load"
          /\ x.stack = s
          /\ x.conn = NoConn
          /\ x.parent = c
          /\ x.prev = bindings[s]
          /\ x.private = FALSE
        BY <1>0, <2>1 DEF NoSecretReq, SecretReqState
    <2>3. InOrder(secReq[r])'
        BY <1>0, <1>1, <1>3, <2>2 DEF SaveStart, InOrder, Writing, Live, Global, At
    <2>9. OwnStack(r, x)
        BY <1>0, <1>3, NoOwnStack DEF SaveStart, At, Fits, NoSecretReq, Arrives
    <2> QED
        BY <2>3, <2>9
<1>4. ASSUME SaveLoad(r) PROVE InOrder(secReq[r])' /\ OwnStack(r, x)
    BY <1>4, CalmLoad
<1>5. ASSUME SaveUpdate(r), Live(secReq[r].conn), secReq[r].typed
      PROVE  InOrder(secReq[r])' /\ OwnStack(r, x)
    <2>1. x = [secReq[r] EXCEPT !.pc = "creds"]
        BY <1>2, <1>5 DEF SaveUpdate, Goto
    <2>2. /\ x.pc = "creds"
          /\ x.op = secReq[r].op
          /\ x.stack = secReq[r].stack
          /\ x.mode = secReq[r].mode
          /\ x.conn = secReq[r].conn
          /\ x.parent = secReq[r].parent
          /\ x.prev = secReq[r].prev
          /\ x.typed = secReq[r].typed
          /\ x.private = secReq[r].private
          /\ x.left = secReq[r].left
        BY <1>0, <2>1 DEF NoSecretReq, SecretReqState
    <2>3. InOrder(secReq[r])'
        BY <1>0, <1>1, <1>5, <2>2 DEF SaveUpdate, Fits, RowOf, InOrder, Writing, Live, Global, At
    <2>9. OwnStack(r, x)
        BY <1>0, <1>5, <2>1, <2>2, OwnStackStill DEF SaveUpdate, At, Handles, Fits, InOrder, NoSecretReq
    <2> QED
        BY <2>3, <2>9
<1>6. ASSUME SaveUpdate(r), Live(secReq[r].conn), ~ secReq[r].typed
      PROVE  InOrder(secReq[r])' /\ OwnStack(r, x)
    <2>1. x = [secReq[r] EXCEPT !.pc = "bind"]
        BY <1>2, <1>6 DEF SaveUpdate, Goto
    <2>2. /\ x.pc = "bind"
          /\ x.op = secReq[r].op
          /\ x.stack = secReq[r].stack
          /\ x.mode = secReq[r].mode
          /\ x.conn = secReq[r].conn
          /\ x.parent = secReq[r].parent
          /\ x.prev = secReq[r].prev
          /\ x.typed = secReq[r].typed
          /\ x.private = secReq[r].private
          /\ x.left = secReq[r].left
        BY <1>0, <2>1 DEF NoSecretReq, SecretReqState
    <2>3. InOrder(secReq[r])'
        BY <1>0, <1>1, <1>6, <2>2 DEF SaveUpdate, Fits, RowOf, InOrder, Writing, Live, Global, At
    <2>9. OwnStack(r, x)
        BY <1>0, <1>6, <2>1, <2>2, OwnStackStill DEF SaveUpdate, At, Handles, Fits, InOrder, NoSecretReq
    <2> QED
        BY <2>3, <2>9
<1>7. ASSUME SaveUpdate(r), ~ Live(secReq[r].conn)
      PROVE  InOrder(secReq[r])' /\ OwnStack(r, x)
    <2>1. x = NoSecretReq
        BY <1>2, <1>7 DEF SaveUpdate, Return
    <2>2. InOrder(secReq[r])'
        BY <1>0, <2>1, ReturnedInOrder
    <2>9. OwnStack(r, x)
        BY <1>0, <1>7, <2>1, OwnStackStill DEF SaveUpdate, At, Handles, Fits, InOrder, NoSecretReq
    <2> QED
        BY <2>2, <2>9
<1>8. ASSUME SaveCreds(r), secReq[r].conn = secReq[r].prev
      PROVE  InOrder(secReq[r])' /\ OwnStack(r, x)
    <2>1. x = [secReq[r] EXCEPT !.pc = "bind"]
        BY <1>2, <1>8 DEF SaveCreds, Goto
    <2>2. /\ x.pc = "bind"
          /\ x.op = secReq[r].op
          /\ x.stack = secReq[r].stack
          /\ x.mode = secReq[r].mode
          /\ x.conn = secReq[r].conn
          /\ x.parent = secReq[r].parent
          /\ x.prev = secReq[r].prev
          /\ x.typed = secReq[r].typed
          /\ x.private = secReq[r].private
          /\ x.left = secReq[r].left
        BY <1>0, <2>1 DEF NoSecretReq, SecretReqState
    <2>3. InOrder(secReq[r])'
        BY <1>0, <1>1, <1>8, <2>2 DEF SaveCreds, Fits, RowOf, InOrder, Writing, Live, Global, At
    <2>9. OwnStack(r, x)
        BY <1>0, <1>8, <2>1, <2>2, OwnStackStill DEF SaveCreds, At, Handles, Fits, InOrder, NoSecretReq
    <2> QED
        BY <2>3, <2>9
<1>9. ASSUME SaveCreds(r), secReq[r].conn # secReq[r].prev
      PROVE  InOrder(secReq[r])' /\ OwnStack(r, x)
    <2>1. x = [secReq[r] EXCEPT !.pc = "row"]
        BY <1>2, <1>9 DEF SaveCreds, Goto
    <2>2. /\ x.pc = "row"
          /\ x.op = secReq[r].op
          /\ x.stack = secReq[r].stack
          /\ x.mode = secReq[r].mode
          /\ x.conn = secReq[r].conn
          /\ x.parent = secReq[r].parent
          /\ x.prev = secReq[r].prev
          /\ x.typed = secReq[r].typed
          /\ x.private = secReq[r].private
          /\ x.left = secReq[r].left
        BY <1>0, <2>1 DEF NoSecretReq, SecretReqState
    <2>3. InOrder(secReq[r])'
        BY <1>0, <1>1, <1>9, <2>2 DEF SaveCreds, Fits, RowOf, InOrder, Writing, Live, Global, At
    <2>9. OwnStack(r, x)
        BY <1>0, <1>9, <2>1, <2>2, OwnStackStill DEF SaveCreds, At, Handles, Fits, InOrder, NoSecretReq
    <2> QED
        BY <2>3, <2>9
<1>10. ASSUME SaveRow(r)
      PROVE  InOrder(secReq[r])' /\ OwnStack(r, x)
    <2>1. x = [secReq[r] EXCEPT !.pc = "bind"]
        BY <1>2, <1>10 DEF SaveRow, Goto
    <2>2. /\ x.pc = "bind"
          /\ x.op = secReq[r].op
          /\ x.stack = secReq[r].stack
          /\ x.mode = secReq[r].mode
          /\ x.conn = secReq[r].conn
          /\ x.parent = secReq[r].parent
          /\ x.prev = secReq[r].prev
          /\ x.typed = secReq[r].typed
          /\ x.private = secReq[r].private
          /\ x.left = secReq[r].left
        BY <1>0, <2>1 DEF NoSecretReq, SecretReqState
    <2>3. InOrder(secReq[r])'
        <3>4. Inserts(secReq[r]) /\ secReq[r].conn \in SecretConn /\ secReq[r].stack \in SecretStack
            BY <1>0, <1>10 DEF SaveRow, At, Inserts, Fits, SecretReqState, SecretTypeOK
        <3>5. \A c : Settled(c) => c # secReq[r].conn
            BY <3>4 DEF Settled
        <3>6. conns' = [conns EXCEPT ![secReq[r].conn] = RowOf(secReq[r])]
              /\ UNCHANGED <<creds, bindings, secStacks>>
            BY <1>10 DEF SaveRow, RowOf
        <3>7. \A c : c # secReq[r].conn => conns'[c] = conns[c]
            BY <1>0, <3>4, <3>6 DEF SecretTypeOK
        <3>8. conns'[secReq[r].conn] = RowOf(secReq[r])
            BY <1>0, <3>4, <3>6 DEF SecretTypeOK
        <3>9. secReq[r].prev # secReq[r].conn /\ secReq[r].parent # secReq[r].conn
            BY <1>0, <1>10, <3>4, <3>5 DEF Holds, SaveRow, At, Fits
        <3>10. /\ Global(secReq[r].prev) <=> (secReq[r].prev \in SecretConn /\ conns'[secReq[r].prev].live /\ conns'[secReq[r].prev].stack = Nobody)
               /\ Global(secReq[r].parent) <=> (secReq[r].parent \in SecretConn /\ conns'[secReq[r].parent].live /\ conns'[secReq[r].parent].stack = Nobody)
            BY <3>7, <3>9 DEF Global, Live
        <3>11. RowOf(x) = RowOf(secReq[r])
            BY <2>2 DEF RowOf
        <3> QED
            BY <1>0, <1>10, <2>2, <3>4, <3>6, <3>8, <3>10, <3>11 DEF SaveRow, At, InOrder, Writing, Live, Global
    <2>4. Inserts(secReq[r]) /\ secReq[r].conn \in SecretConn /\ secReq[r].stack \in SecretStack
        BY <1>0, <1>10 DEF SaveRow, At, Inserts, Fits, SecretReqState, SecretTypeOK
    <2>5. \A c : Settled(c) => c # secReq[r].conn
        BY <2>4 DEF Settled
    <2>6. conns' = [conns EXCEPT ![secReq[r].conn] = RowOf(secReq[r])]
          /\ UNCHANGED <<creds, bindings, secStacks>>
        BY <1>10 DEF SaveRow, RowOf
    <2>7. \A c : c # secReq[r].conn => conns'[c] = conns[c]
        BY <1>0, <2>4, <2>6 DEF SecretTypeOK
    <2>8. conns'[secReq[r].conn] = RowOf(secReq[r])
        BY <1>0, <2>4, <2>6 DEF SecretTypeOK
    <2>a. ASSUME NEW s \in SecretStack, s = secReq[r].stack PROVE Usable(s)'
        <3> SUFFICES ASSUME bindings'[s] # NoConn PROVE Usable(s)'
            BY DEF Usable
        <3>1. PICK b : b = bindings[s]
            OBVIOUS
        <3>2. Settled(b) /\ Usable(s) /\ b # NoConn
            BY <1>0, <1>1, <2>6, <2>a, <3>1 DEF SecretIInv, BindingsStand
        <3>3. b \in SecretConn /\ (conns[b].parent # NoConn => Settled(conns[b].parent))
            BY <1>0, <3>2 DEF SecretIInv, ConnsStand, SecretTypeOK, Settled
        <3>4. conns'[b] = conns[b] /\ (conns[b].parent # NoConn => conns'[conns[b].parent] = conns[conns[b].parent])
            BY <2>5, <2>7, <3>2, <3>3
        <3>5. \A q \in SecretReq : q # r => secReq[q].stack # s
            BY <2>a, CalmFacts DEF Apart, Conflict
        <3> QED
            BY <1>0, <1>10, <2>6, <2>a, <3>1, <3>2, <3>4, <3>5 DEF Usable, Live, Global, EffectiveConfig, SaveRow, At
    <2>b. ASSUME NEW c \in SecretConn, Live(c)', conns'[c].stack # Nobody, conns'[c].stack = secReq[r].stack
          PROVE  bindings'[conns'[c].stack] = c \/ (x.stack = conns'[c].stack /\ Handles(x, c))
        <3>1. CASE c = secReq[r].conn
            BY <1>10, <2>2, <2>b, <3>1 DEF SaveRow, At, Handles
        <3>2. CASE c # secReq[r].conn
            <4>1. conns'[c] = conns[c] /\ Live(c)
                BY <2>7, <2>b, <3>2 DEF Live
            <4>2. bindings[conns[c].stack] = c \/ Handles(secReq[r], c)
                BY <2>b, <4>1, OwnPrivate
            <4> QED
                BY <1>10, <2>6, <4>1, <4>2 DEF SaveRow, At, Handles
        <3> QED
            BY <3>1, <3>2
    <2>9. OwnStack(r, x)
        BY <2>a, <2>b DEF OwnStack
    <2> QED
        BY <2>3, <2>9
<1>11. ASSUME SaveBind(r), Superseded(secReq[r])
      PROVE  InOrder(secReq[r])' /\ OwnStack(r, x)
    <2>1. x = [secReq[r] EXCEPT !.pc = "dropCreds"]
        BY <1>2, <1>11 DEF SaveBind, Goto
    <2>2. /\ x.pc = "dropCreds"
          /\ x.op = secReq[r].op
          /\ x.stack = secReq[r].stack
          /\ x.mode = secReq[r].mode
          /\ x.conn = secReq[r].conn
          /\ x.parent = secReq[r].parent
          /\ x.prev = secReq[r].prev
          /\ x.typed = secReq[r].typed
          /\ x.private = secReq[r].private
          /\ x.left = secReq[r].left
        BY <1>0, <2>1 DEF NoSecretReq, SecretReqState
    <2>3. InOrder(secReq[r])'
        <3>1. /\ secReq[r].stack \in SecretStack /\ secReq[r].prev = bindings[secReq[r].stack] /\ secReq[r].prev # NoConn
              /\ bindings'[secReq[r].stack] = secReq[r].conn /\ UNCHANGED <<conns, creds, secStacks>>
              /\ ~ Global(secReq[r].prev) /\ secReq[r].conn # secReq[r].prev /\ secReq[r].op = "save"
            BY <1>0, <1>11 DEF SaveBind, Superseded, At, InOrder, Writing, Fits, SecretTypeOK
        <3>2. Live(secReq[r].prev) /\ conns[secReq[r].prev].stack = secReq[r].stack
            BY <1>0, <1>1, <3>1 DEF Usable, SecretIInv, BindingsStand, Global
        <3> QED
            BY <1>0, <2>2, <3>1, <3>2 DEF InOrder, Writing, Live
    <2>4. /\ secReq[r].stack \in SecretStack /\ secReq[r].conn \in SecretConn /\ At(r, "save", "bind") /\ Writing(secReq[r])
          /\ bindings' = [bindings EXCEPT ![secReq[r].stack] = secReq[r].conn]
          /\ bindings'[secReq[r].stack] = secReq[r].conn /\ UNCHANGED <<conns, creds, secStacks>>
        BY <1>0, <1>11 DEF SaveBind, At, Writing, Fits, SecretTypeOK
    <2>6. secReq[r].mode # "shared" => conns[secReq[r].conn] = RowOf(secReq[r]) /\ secReq[r].conn \in creds
        BY <1>0, <2>4 DEF InOrder, At
    <2>a. ASSUME NEW s \in SecretStack, s = secReq[r].stack PROVE Usable(s)'
        <3>1. s \in secStacks' /\ bindings'[s] = secReq[r].conn
            BY <1>0, <2>4, <2>a DEF InOrder, At
        <3>2. CASE secReq[r].mode = "shared"
            <4>1. Global(secReq[r].conn)
                BY <1>0, <2>4, <3>2 DEF InOrder
            <4>2. conns[secReq[r].conn].parent = NoConn
                BY <1>0, <2>4, <4>1 DEF Global, SecretIInv, ConnsStand
            <4> QED
                BY <2>4, <3>1, <4>1, <4>2 DEF Usable, Global, Live, EffectiveConfig
        <3>3. CASE secReq[r].mode # "shared"
            <4>1. secReq[r].parent # NoConn => Global(secReq[r].parent)
                BY <1>0, <2>4 DEF InOrder
            <4>2. conns[secReq[r].conn].live /\ conns[secReq[r].conn].parent = secReq[r].parent
                BY <2>6, <3>3 DEF RowOf
            <4>3. Live(secReq[r].conn) /\ Live(EffectiveConfig(secReq[r].conn))
                BY <2>4, <4>1, <4>2 DEF Live, Global, EffectiveConfig
            <4>4. bindings'[s] \in creds' /\ Live(bindings[s])'
                BY <2>4, <2>6, <3>1, <3>3, <4>3 DEF Live
            <4>5. Live(EffectiveConfig(bindings[s]))'
                BY <2>4, <3>1, <4>3 DEF Live, EffectiveConfig
            <4> QED
                BY <3>1, <4>4, <4>5 DEF Usable
        <3> QED
            BY <3>2, <3>3
    <2>b. ASSUME NEW c \in SecretConn, Live(c)', conns'[c].stack # Nobody, conns'[c].stack = secReq[r].stack
          PROVE  bindings'[conns'[c].stack] = c \/ (x.stack = conns'[c].stack /\ Handles(x, c))
        <3>1. conns'[c] = conns[c] /\ Live(c)
            BY <2>4, <2>b DEF Live
        <3>2. bindings[conns[c].stack] = c \/ Handles(secReq[r], c)
            BY <2>b, <3>1, OwnPrivate
        <3>3. Handles(secReq[r], c) => c = secReq[r].conn
            BY <2>4 DEF Handles, At
        <3>4. bindings[conns[c].stack] = c => c = secReq[r].conn \/ (Superseded(secReq[r]) /\ secReq[r].prev = c)
            BY <1>0, <2>4, <2>b, <3>1 DEF InOrder, Superseded, Global, At
        <3> QED
            BY <1>11, <2>2, <2>4, <2>b, <3>2, <3>3, <3>4 DEF Handles
    <2>9. OwnStack(r, x)
        BY <2>a, <2>b DEF OwnStack
    <2> QED
        BY <2>3, <2>9
<1>12. ASSUME SaveBind(r), ~ Superseded(secReq[r])
      PROVE  InOrder(secReq[r])' /\ OwnStack(r, x)
    <2>1. x = NoSecretReq
        BY <1>2, <1>12 DEF SaveBind, Return
    <2>2. InOrder(secReq[r])'
        BY <1>0, <2>1, ReturnedInOrder
    <2>4. /\ secReq[r].stack \in SecretStack /\ secReq[r].conn \in SecretConn /\ At(r, "save", "bind") /\ Writing(secReq[r])
          /\ bindings' = [bindings EXCEPT ![secReq[r].stack] = secReq[r].conn]
          /\ bindings'[secReq[r].stack] = secReq[r].conn /\ UNCHANGED <<conns, creds, secStacks>>
        BY <1>0, <1>12 DEF SaveBind, At, Writing, Fits, SecretTypeOK
    <2>6. secReq[r].mode # "shared" => conns[secReq[r].conn] = RowOf(secReq[r]) /\ secReq[r].conn \in creds
        BY <1>0, <2>4 DEF InOrder, At
    <2>a. ASSUME NEW s \in SecretStack, s = secReq[r].stack PROVE Usable(s)'
        <3>1. s \in secStacks' /\ bindings'[s] = secReq[r].conn
            BY <1>0, <2>4, <2>a DEF InOrder, At
        <3>2. CASE secReq[r].mode = "shared"
            <4>1. Global(secReq[r].conn)
                BY <1>0, <2>4, <3>2 DEF InOrder
            <4>2. conns[secReq[r].conn].parent = NoConn
                BY <1>0, <2>4, <4>1 DEF Global, SecretIInv, ConnsStand
            <4> QED
                BY <2>4, <3>1, <4>1, <4>2 DEF Usable, Global, Live, EffectiveConfig
        <3>3. CASE secReq[r].mode # "shared"
            <4>1. secReq[r].parent # NoConn => Global(secReq[r].parent)
                BY <1>0, <2>4 DEF InOrder
            <4>2. conns[secReq[r].conn].live /\ conns[secReq[r].conn].parent = secReq[r].parent
                BY <2>6, <3>3 DEF RowOf
            <4>3. Live(secReq[r].conn) /\ Live(EffectiveConfig(secReq[r].conn))
                BY <2>4, <4>1, <4>2 DEF Live, Global, EffectiveConfig
            <4>4. bindings'[s] \in creds' /\ Live(bindings[s])'
                BY <2>4, <2>6, <3>1, <3>3, <4>3 DEF Live
            <4>5. Live(EffectiveConfig(bindings[s]))'
                BY <2>4, <3>1, <4>3 DEF Live, EffectiveConfig
            <4> QED
                BY <3>1, <4>4, <4>5 DEF Usable
        <3> QED
            BY <3>2, <3>3
    <2>b. ASSUME NEW c \in SecretConn, Live(c)', conns'[c].stack # Nobody, conns'[c].stack = secReq[r].stack
          PROVE  bindings'[conns'[c].stack] = c \/ (x.stack = conns'[c].stack /\ Handles(x, c))
        <3>1. conns'[c] = conns[c] /\ Live(c)
            BY <2>4, <2>b DEF Live
        <3>2. bindings[conns[c].stack] = c \/ Handles(secReq[r], c)
            BY <2>b, <3>1, OwnPrivate
        <3>3. Handles(secReq[r], c) => c = secReq[r].conn
            BY <2>4 DEF Handles, At
        <3>4. bindings[conns[c].stack] = c => c = secReq[r].conn \/ (Superseded(secReq[r]) /\ secReq[r].prev = c)
            BY <1>0, <2>4, <2>b, <3>1 DEF InOrder, Superseded, Global, At
        <3> QED
            BY <1>12, <2>4, <2>b, <3>2, <3>3, <3>4 DEF Handles
    <2>9. OwnStack(r, x)
        BY <2>a, <2>b DEF OwnStack
    <2> QED
        BY <2>2, <2>9
<1>13. ASSUME DropCreds(r)
      PROVE  InOrder(secReq[r])' /\ OwnStack(r, x)
    <2>1. x = [secReq[r] EXCEPT !.pc = "dropRow"]
        BY <1>2, <1>13 DEF DropCreds, Goto
    <2>2. /\ x.pc = "dropRow"
          /\ x.op = secReq[r].op
          /\ x.stack = secReq[r].stack
          /\ x.mode = secReq[r].mode
          /\ x.conn = secReq[r].conn
          /\ x.parent = secReq[r].parent
          /\ x.prev = secReq[r].prev
          /\ x.typed = secReq[r].typed
          /\ x.private = secReq[r].private
          /\ x.left = secReq[r].left
        BY <1>0, <2>1 DEF NoSecretReq, SecretReqState
    <2>3. InOrder(secReq[r])'
        BY <1>0, <1>1, <1>13, <2>2 DEF DropCreds, Fits, InOrder, Writing, Live, Global, At
    <2>4. /\ UNCHANGED <<conns, bindings, secStacks>> /\ secReq[r].op \in {"save", "unbind"}
          /\ \A c \in creds : bindings[secReq[r].stack] = c => c \in creds'
        BY <1>0, <1>13 DEF DropCreds, Live, At, Fits, InOrder, SecretTypeOK
    <2>5. \A c : Handles(secReq[r], c) => x.stack = secReq[r].stack /\ Handles(x, c)
        BY <1>0, <1>13, <2>2 DEF DropCreds, At, Handles
    <2>9. OwnStack(r, x)
        BY <2>4, <2>5, OwnStackStill
    <2> QED
        BY <2>3, <2>9
<1>14. ASSUME DropRow(r)
      PROVE  InOrder(secReq[r])' /\ OwnStack(r, x)
    <2>1. x = NoSecretReq
        BY <1>2, <1>14 DEF DropRow, Return
    <2>2. InOrder(secReq[r])'
        BY <1>0, <2>1, ReturnedInOrder
    <2>4. /\ secReq[r].op \in {"save", "unbind"} /\ secReq[r].pc = "dropRow" /\ secReq[r].stack \in SecretStack
          /\ secReq[r].prev \in SecretConn /\ Live(secReq[r].prev) /\ conns[secReq[r].prev].stack = secReq[r].stack
          /\ bindings[secReq[r].stack] # secReq[r].prev /\ UNCHANGED <<creds, bindings, secStacks>>
        BY <1>0, <1>14 DEF DropRow, InOrder, Fits, Live
    <2>5. conns'[secReq[r].prev] = NoConnRow /\ \A c : c # secReq[r].prev => conns'[c] = conns[c]
        BY <1>0, <1>14, <2>4 DEF DropRow, SecretTypeOK
    <2>a. ASSUME NEW s \in SecretStack, s = secReq[r].stack PROVE Usable(s)'
        <3> SUFFICES ASSUME bindings'[s] # NoConn PROVE Usable(s)'
            BY DEF Usable
        <3>1. PICK b : b = bindings[s]
            OBVIOUS
        <3>2. Usable(s) /\ b # NoConn /\ b # secReq[r].prev /\ Live(b)
            BY <1>1, <2>4, <2>a, <3>1 DEF Usable
        <3>3. conns[b].parent # NoConn => conns[b].parent # secReq[r].prev
            BY <1>0, <2>4, <3>2 DEF SecretIInv, ConnsStand, Global, Live
        <3>4. conns'[b] = conns[b] /\ (conns[b].parent # NoConn => conns'[conns[b].parent] = conns[conns[b].parent])
            BY <2>5, <3>2, <3>3
        <3>5. \A q \in SecretReq : q # r => secReq[q].stack # s
            BY <2>a, CalmFacts DEF Apart, Conflict
        <3> QED
            BY <1>0, <2>4, <2>a, <3>1, <3>2, <3>4, <3>5 DEF Usable, Live, Global, EffectiveConfig
    <2>b. ASSUME NEW c \in SecretConn, Live(c)', conns'[c].stack # Nobody, conns'[c].stack = secReq[r].stack
          PROVE  bindings'[conns'[c].stack] = c \/ (x.stack = conns'[c].stack /\ Handles(x, c))
        <3>1. c # secReq[r].prev /\ conns'[c] = conns[c] /\ Live(c)
            BY <2>5, <2>b DEF Live, NoConnRow
        <3>2. bindings[conns[c].stack] = c \/ Handles(secReq[r], c)
            BY <2>b, <3>1, OwnPrivate
        <3> QED
            BY <2>4, <3>1, <3>2 DEF Handles
    <2>9. OwnStack(r, x)
        BY <2>a, <2>b DEF OwnStack
    <2> QED
        BY <2>2, <2>9
<1>15. ASSUME NEW s \in SecretStack, UnbindStart(r, s)
      PROVE  InOrder(secReq[r])' /\ OwnStack(r, x)
    <2>1. x = [NoSecretReq EXCEPT !.op = "unbind", !.pc = "bind", !.stack = s, !.prev = bindings[s]]
        BY <1>2, <1>15 DEF UnbindStart, Goto
    <2>2. /\ x.op = "unbind" /\ x.pc = "bind"
          /\ x.stack = s
          /\ x.conn = NoConn
          /\ x.parent = NoConn
          /\ x.prev = bindings[s]
          /\ x.private = FALSE
        BY <1>0, <2>1 DEF NoSecretReq, SecretReqState
    <2>3. InOrder(secReq[r])'
        BY <1>0, <1>1, <1>15, <2>2 DEF UnbindStart, InOrder, Writing, Live, Global, At
    <2>9. OwnStack(r, x)
        BY <1>0, <1>15, NoOwnStack DEF UnbindStart, At, Fits, NoSecretReq, Arrives
    <2> QED
        BY <2>3, <2>9
<1>16. ASSUME Unbind(r)
      PROVE  InOrder(secReq[r])' /\ OwnStack(r, x)
    <2>1. x = [secReq[r] EXCEPT !.pc = "look"]
        BY <1>2, <1>16 DEF Unbind, Goto
    <2>2. /\ x.pc = "look"
          /\ x.op = secReq[r].op
          /\ x.stack = secReq[r].stack
          /\ x.mode = secReq[r].mode
          /\ x.conn = secReq[r].conn
          /\ x.parent = secReq[r].parent
          /\ x.prev = secReq[r].prev
          /\ x.typed = secReq[r].typed
          /\ x.private = secReq[r].private
          /\ x.left = secReq[r].left
        BY <1>0, <2>1 DEF NoSecretReq, SecretReqState
    <2>3. InOrder(secReq[r])'
        <3>1. /\ secReq[r].stack \in SecretStack /\ secReq[r].prev = bindings[secReq[r].stack]
              /\ bindings'[secReq[r].stack] = NoConn /\ UNCHANGED <<conns, creds, secStacks>> /\ secReq[r].op = "unbind"
            BY <1>0, <1>16 DEF Unbind, At, InOrder, Fits, SecretTypeOK
        <3>2. Live(secReq[r].prev) => conns[secReq[r].prev].stack \in {secReq[r].stack, Nobody}
            BY <1>0, <3>1 DEF SecretIInv, BindingsStand, Live
        <3> QED
            BY <1>0, <2>2, <3>1, <3>2 DEF InOrder, Writing, Live
    <2>4. /\ secReq[r].stack \in SecretStack /\ bindings'[secReq[r].stack] = NoConn /\ UNCHANGED conns
          /\ secReq[r].prev = bindings[secReq[r].stack] /\ At(r, "unbind", "bind")
        BY <1>0, <1>16 DEF Unbind, At, Fits, SecretTypeOK, InOrder
    <2>a. \A s \in SecretStack : s = secReq[r].stack => Usable(s)'
        BY <2>4 DEF Usable
    <2>b. ASSUME NEW c \in SecretConn, Live(c)', conns'[c].stack # Nobody, conns'[c].stack = secReq[r].stack
          PROVE  bindings'[conns'[c].stack] = c \/ (x.stack = conns'[c].stack /\ Handles(x, c))
        <3>1. Live(c) /\ conns'[c] = conns[c]
            BY <2>4, <2>b DEF Live
        <3>2. bindings[conns[c].stack] = c \/ Handles(secReq[r], c)
            BY <2>b, <3>1, OwnPrivate
        <3> QED
            BY <2>2, <2>4, <2>b, <3>1, <3>2 DEF Handles, At
    <2>9. OwnStack(r, x)
        BY <2>a, <2>b DEF OwnStack
    <2> QED
        BY <2>3, <2>9
<1>17. ASSUME UnbindLook(r), Live(secReq[r].prev), conns[secReq[r].prev].stack # Nobody
      PROVE  InOrder(secReq[r])' /\ OwnStack(r, x)
    <2>1. x = [secReq[r] EXCEPT !.pc = "dropCreds"]
        BY <1>2, <1>17 DEF UnbindLook, Goto
    <2>2. /\ x.pc = "dropCreds"
          /\ x.op = secReq[r].op
          /\ x.stack = secReq[r].stack
          /\ x.mode = secReq[r].mode
          /\ x.conn = secReq[r].conn
          /\ x.parent = secReq[r].parent
          /\ x.prev = secReq[r].prev
          /\ x.typed = secReq[r].typed
          /\ x.private = secReq[r].private
          /\ x.left = secReq[r].left
        BY <1>0, <2>1 DEF NoSecretReq, SecretReqState
    <2>3. InOrder(secReq[r])'
        BY <1>0, <1>1, <1>17, <2>2 DEF UnbindLook, Fits, InOrder, Writing, Live, Global, At
    <2>4. /\ UNCHANGED <<conns, bindings, secStacks>> /\ secReq[r].op \in {"save", "unbind"}
          /\ \A c \in creds : bindings[secReq[r].stack] = c => c \in creds'
        BY <1>0, <1>17 DEF UnbindLook, At, Fits, InOrder, SecretTypeOK
    <2>5. \A c : Handles(secReq[r], c) => x.stack = secReq[r].stack /\ Handles(x, c)
        BY <1>0, <1>17, <2>2 DEF UnbindLook, At, Handles
    <2>9. OwnStack(r, x)
        BY <2>4, <2>5, OwnStackStill
    <2> QED
        BY <2>3, <2>9
<1>18. ASSUME UnbindLook(r), ~ (Live(secReq[r].prev) /\ conns[secReq[r].prev].stack # Nobody)
      PROVE  InOrder(secReq[r])' /\ OwnStack(r, x)
    <2>1. x = NoSecretReq
        BY <1>2, <1>18 DEF UnbindLook, Return
    <2>2. InOrder(secReq[r])'
        BY <1>0, <2>1, ReturnedInOrder
    <2>9. OwnStack(r, x)
        BY <1>0, <1>18, <2>1, OwnStackStill DEF UnbindLook, At, Handles, Fits, InOrder, NoSecretReq
    <2> QED
        BY <2>2, <2>9
<1> QED
    BY <1>3, <1>4, <1>5, <1>6, <1>7, <1>8, <1>9, <1>10, <1>11, <1>12, <1>13, <1>14, <1>15, <1>16, <1>17, <1>18 DEF BindingStep, SaveUpdate

(* The deletion of a stack leaves no private connection and no credential.  *)
LEMMA CalmStack ==
    ASSUME NEW r \in SecretReq, NEW x, CalmStep(r, x), StackStep(r)
    PROVE  InOrder(secReq[r])' /\ OwnStack(r, x)
<1> USE SecretConnectionsAssumption
<1>0. /\ secReq[r] \in SecretReqState /\ Fits(secReq[r]) /\ Holds(secReq[r]) /\ InOrder(secReq[r])
      /\ SecretIInv /\ SecretTypeOK /\ secReq'[r] = x /\ Effects(r, x)
    BY CalmFacts DEF CalmStep, WholeInv, SecretIInv, SecretTypeOK, RequestsStand
<1>1. secReq[r].stack \in SecretStack => Usable(secReq[r].stack)
    BY CalmFacts
<1>2. \A y : Step(r, y) => y = x
    BY CalmFacts DEF CalmStep, WholeInv, SecretIInv, SecretTypeOK, Step
<1>3. ASSUME NEW s \in SecretStack, DropStackStart(r, s)
      PROVE  InOrder(secReq[r])' /\ OwnStack(r, x)
    <2>1. x = [NoSecretReq EXCEPT !.op = "drop", !.pc = "list", !.stack = s]
        BY <1>2, <1>3 DEF DropStackStart, Goto
    <2>2. /\ x.op = "drop" /\ x.pc = "list"
          /\ x.stack = s
          /\ x.conn = NoConn
          /\ x.parent = NoConn
          /\ x.prev = NoConn
          /\ x.private = FALSE
        BY <1>0, <2>1 DEF NoSecretReq, SecretReqState
    <2>3. InOrder(secReq[r])'
        BY <1>0, <1>1, <1>3, <2>2 DEF DropStackStart, InOrder, Writing, Live, Global, At
    <2>9. OwnStack(r, x)
        BY <1>0, <1>3, NoOwnStack DEF DropStackStart, At, Fits, NoSecretReq, Arrives
    <2> QED
        BY <2>3, <2>9
<1>4. ASSUME DropStackList(r)
      PROVE  InOrder(secReq[r])' /\ OwnStack(r, x)
    <2>1. x = [secReq[r] EXCEPT !.pc = "creds",
                                 !.left = {c \in SecretConn : Live(c) /\ conns[c].stack = secReq[r].stack}]
        BY <1>2, <1>4 DEF DropStackList, Goto
    <2>2. /\ x.pc = "creds"
          /\ x.left = {c \in SecretConn : Live(c) /\ conns[c].stack = secReq[r].stack}
          /\ x.op = secReq[r].op
          /\ x.stack = secReq[r].stack
          /\ x.mode = secReq[r].mode
          /\ x.conn = secReq[r].conn
          /\ x.parent = secReq[r].parent
          /\ x.prev = secReq[r].prev
          /\ x.typed = secReq[r].typed
          /\ x.private = secReq[r].private
        BY <1>0, <2>1 DEF NoSecretReq, SecretReqState
    <2>3. InOrder(secReq[r])'
        BY <1>0, <1>1, <1>4, <2>2 DEF DropStackList, SecretTypeOK, InOrder, Writing, Live, Global, At
    <2>9. OwnStack(r, x)
        BY <1>0, <1>4, <2>1, <2>2, OwnStackStill DEF DropStackList, At, Handles, Fits, InOrder, NoSecretReq
    <2> QED
        BY <2>3, <2>9
<1>5. ASSUME DropStackCreds(r), secReq[r].left = {}
      PROVE  InOrder(secReq[r])' /\ OwnStack(r, x)
    <2>1. x = [secReq[r] EXCEPT !.pc = "stack"]
        BY <1>2, <1>5 DEF DropStackCreds, Goto
    <2>2. /\ x.pc = "stack"
          /\ x.op = secReq[r].op
          /\ x.stack = secReq[r].stack
          /\ x.mode = secReq[r].mode
          /\ x.conn = secReq[r].conn
          /\ x.parent = secReq[r].parent
          /\ x.prev = secReq[r].prev
          /\ x.typed = secReq[r].typed
          /\ x.private = secReq[r].private
          /\ x.left = secReq[r].left
        BY <1>0, <2>1 DEF NoSecretReq, SecretReqState
    <2>3. InOrder(secReq[r])'
        BY <1>0, <1>1, <1>5, <2>2 DEF DropStackCreds, InOrder, Writing, Live, Global, At
    <2>9. OwnStack(r, x)
        BY <1>0, <1>5, <2>1, <2>2, OwnStackStill DEF DropStackCreds, At, Handles, Fits, InOrder, NoSecretReq
    <2> QED
        BY <2>3, <2>9
<1>6. ASSUME At(r, "drop", "creds"), NEW c \in secReq[r].left, creds' = creds \ {c},
             Step(r, [secReq[r] EXCEPT !.left = @ \ {c}]), UNCHANGED <<conns, drawn, bindings, secStacks, cuts>>
      PROVE  InOrder(secReq[r])' /\ OwnStack(r, x)
    <2>1. x = [secReq[r] EXCEPT !.left = @ \ {c}]
        BY <1>2, <1>6 DEF At, Goto
    <2>2. /\ x.pc = secReq[r].pc
          /\ x.left = secReq[r].left \ {c}
          /\ x.op = secReq[r].op
          /\ x.stack = secReq[r].stack
          /\ x.mode = secReq[r].mode
          /\ x.conn = secReq[r].conn
          /\ x.parent = secReq[r].parent
          /\ x.prev = secReq[r].prev
          /\ x.typed = secReq[r].typed
          /\ x.private = secReq[r].private
        BY <1>0, <2>1 DEF NoSecretReq, SecretReqState
    <2>3. InOrder(secReq[r])'
        BY <1>0, <1>1, <1>6, <2>2 DEF At, InOrder, Writing, Live, Global, At
    <2>9. OwnStack(r, x)
        BY <1>0, <1>6, <2>1, <2>2, OwnStackStill DEF At, At, Handles, Fits, InOrder, NoSecretReq
    <2> QED
        BY <2>3, <2>9
<1>7. ASSUME DropStackRows(r)
      PROVE  InOrder(secReq[r])' /\ OwnStack(r, x)
    <2>1. x = NoSecretReq
        BY <1>2, <1>7 DEF DropStackRows, Return
    <2>2. InOrder(secReq[r])'
        BY <1>0, <2>1, ReturnedInOrder
    <2>4. /\ secReq[r].stack \in secStacks /\ secReq[r].stack \in SecretStack
        BY <1>0, <1>7 DEF DropStackRows, At, InOrder, Fits
    <2>5. /\ bindings'[secReq[r].stack] = NoConn
          /\ \A c \in SecretConn : conns'[c] = IF conns[c].stack = secReq[r].stack THEN NoConnRow ELSE conns[c]
        BY <1>0, <1>7, <2>4 DEF DropStackRows, SecretTypeOK
    <2>6. \A c \in SecretConn : Live(c)' => conns'[c].stack # secReq[r].stack
        BY <2>5 DEF Live, NoConnRow
    <2>9. OwnStack(r, x)
        BY <2>5, <2>6 DEF OwnStack, Usable
    <2> QED
        BY <2>2, <2>9
<1> QED
    BY <1>3, <1>4, <1>5, <1>6, <1>7 DEF StackStep, DropStackCreds

LEMMA WholeInit == SecretInit => WholeInv
<1> SUFFICES ASSUME SecretInit PROVE WholeInv
    OBVIOUS
<1>1. RacesNoticed
    BY SecretConnectionsAssumption DEF SecretInit, RacesNoticed, Conflict, NoSecretReq
<1>2. CalmInv
    BY DEF SecretInit, CalmInv, InOrder, Writing, Usable, CredsOwned, PrivateBound, Live, NoSecretReq, NoConnRow
<1> QED
    BY <1>1, <1>2, SecretInitIInv DEF WholeInv

(* A race of the request that moves is noticed, and no other can begin.     *)
LEMMA RacesStayNoticed ==
    ASSUME SecretTypeOK, RacesNoticed, NEW r \in SecretReq, NEW x, Step(r, x)
    PROVE  RacesNoticed'
<1> SUFFICES ASSUME NEW p \in SecretReq, NEW q \in SecretReq, p # q, Conflict(secReq'[p], secReq'[q])
             PROVE  raced'
    BY DEF RacesNoticed, Conflict
<1>1. secReq'[r] = x /\ \A t \in SecretReq : t # r => secReq'[t] = secReq[t]
    BY DEF SecretTypeOK, Step
<1>2. CASE p # r /\ q # r
    BY <1>1, <1>2 DEF RacesNoticed, Step
<1>3. CASE p = r
    BY <1>1, <1>3 DEF Step
<1>4. CASE q = r
    BY <1>1, <1>4 DEF Step
<1> QED
    BY <1>2, <1>3, <1>4

LEMMA WholeNext == WholeInv /\ [SecretNext]_secretVars => WholeInv'
<1> SUFFICES ASSUME WholeInv, [SecretNext]_secretVars PROVE WholeInv'
    OBVIOUS
<1>0. SecretIInv' /\ SecretIInv
    BY SecretNextIInv DEF WholeInv
<1>1. ASSUME NEW s \in SecretStack, CreateGitStack(s) PROVE WholeInv'
    <2>1. UNCHANGED <<conns, drawn, creds, bindings, secReq, raced, cuts>> /\ secStacks \subseteq secStacks'
        BY <1>1 DEF CreateGitStack
    <2>2. RacesNoticed'
        BY <2>1 DEF WholeInv, RacesNoticed, Conflict
    <2>3. ASSUME Calm' PROVE CalmInv'
        <3>1. Calm
            BY <2>1, <2>3 DEF Calm
        <3>2. \A r \in SecretReq : InOrder(secReq[r])'
            <4> SUFFICES ASSUME NEW r \in SecretReq PROVE InOrder(secReq[r])'
                OBVIOUS
            <4>1. InOrder(secReq[r]) /\ secReq'[r] = secReq[r]
                BY <2>1, <3>1 DEF WholeInv, CalmInv
            <4> QED
                BY <2>1, <4>1 DEF InOrder, Writing, Live, Global, Users, RowOf
        <3>3. \A t \in SecretStack : Usable(t)'
            BY <2>1, <3>1 DEF WholeInv, CalmInv, Usable, Live, Global, EffectiveConfig
        <3>4. CredsOwned' /\ PrivateBound'
            BY <2>1, <3>1 DEF WholeInv, CalmInv, CredsOwned, PrivateBound, Live, Inserts, Handles
        <3> QED
            BY <3>2, <3>3, <3>4 DEF CalmInv
    <2> QED
        BY <1>0, <2>2, <2>3 DEF WholeInv, CalmInv
<1>2. ASSUME NEW r \in SecretReq, CutShort(r) PROVE WholeInv'
    <2>1. RacesNoticed'
        BY <1>0, <1>2, RacesStayNoticed DEF WholeInv, SecretIInv, CutShort, Return
    <2>2. ~ Calm'
        BY <1>0, <1>2 DEF CutShort, Calm, SecretIInv, SecretTypeOK
    <2> QED
        BY <1>0, <2>1, <2>2 DEF WholeInv, CalmInv
<1>3. ASSUME NEW r \in SecretReq, ProviderStep(r) \/ BindingStep(r) \/ StackStep(r) PROVE WholeInv'
    <2>1. SecretDone(r)
        BY <1>0, <1>3, SecretProviderIInv, SecretBindingIInv, SecretStackIInv
    <2>2. PICK x : SecretMoved(r, x) /\ Step(r, x)
        BY <2>1 DEF SecretDone
    <2>3. Effects(r, x)
        BY <1>0, <1>3, <2>2, SecretEffects
    <2>4. RacesNoticed'
        BY <1>0, <2>2, RacesStayNoticed DEF WholeInv, SecretIInv
    <2>5. ASSUME Calm' PROVE CalmInv'
        <3>1. CalmStep(r, x)
            BY <1>0, <2>1, <2>2, <2>3, <2>5 DEF CalmStep, SecretDone
        <3>2. InOrder(secReq[r])' /\ OwnStack(r, x)
            BY <1>3, <3>1, CalmProvider, CalmBinding, CalmStack
        <3> QED
            BY <3>1, <3>2, CalmWhole
    <2> QED
        BY <1>0, <2>4, <2>5 DEF WholeInv, CalmInv
<1>4. CASE UNCHANGED secretVars
    <2>1. UNCHANGED <<conns, drawn, creds, bindings, secStacks, secReq, raced, cuts>>
        BY <1>4 DEF secretVars
    <2>2. RacesNoticed'
        BY <2>1 DEF WholeInv, RacesNoticed, Conflict
    <2>3. ASSUME NEW r \in SecretReq, InOrder(secReq[r]) PROVE InOrder(secReq[r])'
        BY <2>1, <2>3 DEF InOrder, Writing, Live, Global, Users, RowOf
    <2>4. CalmInv'
        BY <2>1, <2>3 DEF WholeInv, CalmInv, Calm, Usable, CredsOwned, PrivateBound, Live, Global, EffectiveConfig,
                          Inserts, Handles
    <2> QED
        BY <1>0, <2>2, <2>4 DEF WholeInv
<1> QED
    BY <1>1, <1>2, <1>3, <1>4 DEF SecretNext

(* BindingsAreWhole: the checks of the handlers in stack_secrets.go suffice *)
(* as long as no two of them overlap on the same stack or shared            *)
(* connection and none is cut short: what a stack is bound to resolves, and *)
(* no private connection and no credential is left behind.                  *)
THEOREM SecretWhole == SecretSpec => []BindingsAreWhole
<1>1. WholeInv => BindingsAreWhole
    <2> SUFFICES ASSUME WholeInv, ~ raced, cuts = 0 PROVE BindingsAreWhole
        BY DEF BindingsAreWhole
    <2>1. /\ \A s \in SecretStack : Usable(s)
          /\ CredsOwned /\ PrivateBound /\ SecretIInv
        BY DEF WholeInv, CalmInv, Calm
    <2>2. ASSUME NEW s \in SecretStack, ~ Working(s), bindings[s] # NoConn
          PROVE  s \in secStacks /\ (Resolves(s) \/ (Global(bindings[s]) /\ bindings[s] \notin creds))
        BY <2>1, <2>2 DEF Usable, Working, Resolves
    <2>3. ASSUME NEW c \in SecretConn, ~ Dropping(c)
          PROVE  /\ c \in creds => Live(c)
                 /\ Live(c) /\ ~ Global(c) /\ ~ Working(conns[c].stack) => bindings[conns[c].stack] = c
        BY <2>1, <2>3 DEF CredsOwned, PrivateBound, Dropping, Working, Global
    <2> QED
        BY <2>2, <2>3 DEF BindingsAreWhole
<1> QED
    BY <1>1, WholeInit, WholeNext, PTL DEF SecretSpec
=============================================================================
