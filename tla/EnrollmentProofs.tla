-------------------------- MODULE EnrollmentProofs --------------------------
(* One token, one host; one certificate, one host; and no agent locked out  *)
(* by a rotation: proved for any number of agents, ids, tokens and handlers. *)
EXTENDS Enrollment, FiniteSetTheorems, TLAPS

(* The certificates agents hold: whose, and which one of theirs.            *)
RealCerts == {Cert(a, n) : a \in Agent, n \in 0 .. MaxRotations}
Served(c) == c \in RealCerts /\ c[2] <= agent[c[1]].cur
Turning(r) == req[r].pc \in {"check", "setnext"}

(* n is the certificate after c, and one its agent has not left behind.     *)
InOrder(c, n) == n[1] = c[1] /\ n[2] = c[2] + 1 /\ n[2] >= agent[c[1]].cur

(* A row is pinned to a certificate its agent has used, and announces the   *)
(* one after it at most, unless its agents' were announced out of turn.     *)
HostStands(i) ==
    Exists(i) =>
        /\ Served(hosts[i].cert)
        /\ hosts[i].next # NoCert =>
               /\ hosts[i].status = "connected" /\ hosts[i].next \in RealCerts
               /\ \/ hosts[i].cert[1] \in astray /\ hosts[i].next[1] \in astray
                  \/ InOrder(hosts[i].cert, hosts[i].next)

HostsStand == \A i \in Id : HostStands(i)

(* No two rows are pinned to one certificate, and none announces what       *)
(* another is pinned to, unless somebody announced it out of turn.          *)
PinnedApart ==
    \A i, j \in Id : Exists(i) /\ Exists(j) /\ i # j =>
        hosts[i].cert # hosts[j].cert /\ (hosts[i].next = hosts[j].cert => hosts[j].cert[1] \in astray)

(* A handler serves a certificate its agent has used.  One about to insert  *)
(* a row has an agent that moved on since, or that never changed its first. *)
RequestStands(r) ==
    req[r].pc # "idle" =>
        /\ Served(req[r].cert)
        /\ At(r, "insert") /\ req[r].cert[1] \notin astray /\ req[r].cert[2] = agent[req[r].cert[1]].cur
              => req[r].cert[2] = 0

RequestsStand == \A r \in Req : RequestStands(r)

(* A rotation in turn is of a host pinned to the old certificate or already *)
(* to the new one, and nobody else is to the new.                           *)
TurnStands(r) ==
    /\ InOrder(req[r].cert, req[r].next)
    /\ \/ hosts[req[r].id].cert = req[r].cert
       \/ hosts[req[r].id].cert = req[r].next /\ hosts[req[r].id].next = NoCert
    /\ \A j \in Id : Exists(j) /\ j # req[r].id => hosts[j].cert # req[r].next

(* A rotation being served is of a connected host, and in turn unless both  *)
(* that host's agent and the owner of the new certificate are astray.       *)
RotationStands(r) ==
    Turning(r) =>
        /\ req[r].id \in Id /\ hosts[req[r].id].status = "connected" /\ req[r].next \in RealCerts
        /\ \/ /\ req[r].cert[1] \in astray /\ req[r].next[1] \in astray
              /\ hosts[req[r].id].cert[1] \in astray
           \/ TurnStands(r)

RotationsStand == \A r \in Req : RotationStands(r)

(* An agent asks for one certificate at a time.                             *)
OneTurn ==
    \A q, r \in Req : Turning(q) /\ Turning(r) /\ req[q].cert[1] = req[r].cert[1] /\ req[r].cert[1] \notin astray
        => req[q].next = req[r].next

(* An agent that was told yes has its next certificate announced; one that  *)
(* has switched is known by the certificate it uses.                        *)
ToldStand ==
    \A a \in Agent : agent[a].acked =>
        /\ agent[a].cur < MaxRotations
        /\ a \notin astray =>
              /\ \E j \in Id : hosts[j].status = "connected" /\ hosts[j].next = Cert(a, agent[a].cur + 1)
              /\ \A r \in Req : Turning(r) /\ req[r].cert[1] = a => req[r].next = Cert(a, agent[a].cur + 1)
SwitchedStand ==
    \A a \in Agent \ astray : agent[a].cur > 0 =>
        \E j \in Id : hosts[j].status = "connected" /\ Current(a) \in {hosts[j].cert, hosts[j].next}

CertsStand ==
    /\ HostsStand /\ PinnedApart /\ RequestsStand /\ RotationsStand /\ OneTurn /\ ToldStand /\ SwitchedStand

(* A certificate nobody else was about to store: what a handler has found   *)
(* free, to announce or to enroll it, is still free of other hosts.         *)
AnnouncesFree(r) ==
    At(r, "setnext") /\ req[r].next \notin crossed =>
        /\ \A j \in Id : Matches(j, req[r].next) => j = req[r].id
        /\ \A q \in Req : Storing(q, req[r].next) => req[q].id = req[r].id
        /\ \A q \in Req : ~ (At(q, "insert") /\ req[q].cert = req[r].next)
EnrollsFree(r) ==
    At(r, "insert") /\ req[r].cert \notin crossed =>
        \A j \in Id : Exists(j) => hosts[j].next # req[r].cert
MatchedOnce ==
    \A i, j \in Id, c \in RealCerts : Matches(i, c) /\ Matches(j, c) /\ c \notin crossed => i = j
FreeStand ==
    MatchedOnce /\ \A r \in Req : AnnouncesFree(r) /\ EnrollsFree(r)

(* A token is with one enrollment or one host, and only once it is used.    *)
ApprovedBy(t) == {i \in Id : Exists(i) /\ hosts[i].by = t}
OnTheWay(t) == {r \in Req : req[r].token = t /\ req[r].used}
HandlerStands(r) ==
    /\ req[r].used => req[r].token \in Token
    /\ At(r, "approve") => req[r].used /\ req[r].id \in Id
    /\ At(r, "consume") => req[r].token \in Token /\ ~ req[r].used
TokenStands(t) ==
    /\ ApprovedBy(t) = {} \/ OnTheWay(t) = {}
    /\ \A i, j \in ApprovedBy(t) : i = j
    /\ \A q, r \in OnTheWay(t) : q = r
    /\ tokens[t] # "used" => ApprovedBy(t) = {} /\ OnTheWay(t) = {}
TokensStand == (\A r \in Req : HandlerStands(r)) /\ \A t \in Token : TokenStands(t)

IInv == TypeOK /\ CertsStand /\ FreeStand /\ TokensStand

LEMMA CertFacts ==
    /\ \A a \in Agent, n \in 0 .. MaxRotations :
          Cert(a, n) \in RealCerts /\ Cert(a, n)[1] = a /\ Cert(a, n)[2] = n
    /\ NoCert \notin RealCerts /\ Certs = RealCerts \union {NoCert}
    /\ \A c \in RealCerts : c[1] \in Agent /\ c[2] \in 0 .. MaxRotations /\ c = Cert(c[1], c[2])
    /\ \A c, d \in RealCerts : c[1] = d[1] /\ c[2] = d[2] => c = d
<1>1. \A a \in Agent, n \in 0 .. MaxRotations :
          Cert(a, n) \in RealCerts /\ Cert(a, n)[1] = a /\ Cert(a, n)[2] = n
    BY DEF Cert, RealCerts
<1>2. NoCert \notin RealCerts
    BY DEF Cert, RealCerts, NoCert
<1>3. Certs = RealCerts \union {NoCert}
    BY DEF Certs, RealCerts
<1>4. \A c \in RealCerts : c[1] \in Agent /\ c[2] \in 0 .. MaxRotations /\ c = Cert(c[1], c[2])
    BY DEF RealCerts, Cert
<1>5. \A c, d \in RealCerts : c[1] = d[1] /\ c[2] = d[2] => c = d
    BY <1>4
<1> QED
    BY <1>1, <1>2, <1>3, <1>4, <1>5

LEMMA RowTypes ==
    /\ NoHost \in HostRow /\ NoHost.status = "none" /\ NoHost.by = NoToken
    /\ NoReq \in ReqState /\ NoReq.pc = "idle" /\ ~ NoReq.used /\ NoReq.token = NoToken
BY CertFacts DEF NoHost, HostRow, NoReq, ReqState, Pc

LEMMA HostEdits ==
    ASSUME NEW h \in HostRow
    PROVE  /\ \A b \in Token \union {NoToken, "admin"} : [h EXCEPT !.status = "connected", !.by = b] \in HostRow
           /\ \A c \in Certs : [h EXCEPT !.next = c] \in HostRow
           /\ \A c \in Certs : [h EXCEPT !.cert = c, !.next = NoCert] \in HostRow
BY CertFacts DEF HostRow

-----------------------------------------------------------------------------
(* Types.                                                                   *)

LEMMA InitTypeOK == Init => TypeOK
BY EnrollmentAssumption, RowTypes DEF Init, TypeOK

LEMMA EnrollTypeOK ==
    ASSUME TypeOK, NEW r \in Req, Enroll(r)
    PROVE  TypeOK'
<1> USE EnrollmentAssumption
<1>0. /\ req \in [Req -> ReqState] /\ req[r] \in ReqState /\ hosts \in [Id -> HostRow]
      /\ tokens \in [Token -> {"none", "valid", "used", "expired"}]
    BY DEF TypeOK
<1>1. ASSUME Done(r) PROVE req' \in [Req -> ReqState]
    BY <1>0, <1>1, RowTypes DEF Done
<1>2. ASSUME NEW pc \in Pc, Goto(r, pc) PROVE req' \in [Req -> ReqState]
    BY <1>0, <1>2 DEF Goto, ReqState
<1>3. ASSUME NEW a \in Agent, NEW t \in Token \union {NoToken}, EnrollLookup(r, a, t) PROVE TypeOK'
    <2>1. Current(a) \in Certs
        BY CertFacts DEF TypeOK, Current
    <2> DEFINE pc == CASE Known(Current(a)) -> "lookup"
                       [] ~Known(Current(a)) /\ t # NoToken -> "consume"
                       [] OTHER -> IF MaxPending > 0 THEN "count" ELSE "lookup"
               x == [NoReq EXCEPT !.cert = Current(a), !.token = t, !.pc = pc]
    <2>2. pc \in Pc
        BY DEF Pc
    <2> HIDE DEF pc
    <2>3. x \in ReqState
        BY <2>1, <2>2, CertFacts DEF NoReq, ReqState
    <2>4. req' = [req EXCEPT ![r] = x]
        BY <1>3 DEF EnrollLookup, pc
    <2> HIDE DEF x
    <2> QED
        BY <1>0, <1>3, <2>3, <2>4 DEF TypeOK, EnrollLookup, history
<1>4. CASE ConsumeEnrollmentToken(r)
    <2>1. CASE tokens[req[r].token] = "valid"
        <3>1. [req[r] EXCEPT !.pc = "lookup", !.used = TRUE] \in ReqState
            BY <1>0 DEF ReqState, Pc
        <3>2. req' = [req EXCEPT ![r] = [req[r] EXCEPT !.pc = "lookup", !.used = TRUE]]
            BY <1>0, <1>4, <2>1 DEF ConsumeEnrollmentToken
        <3>3. req' \in [Req -> ReqState]
            BY <1>0, <3>1, <3>2
        <3>4. tokens' \in [Token -> {"none", "valid", "used", "expired"}]
            BY <1>0, <1>4, <2>1 DEF ConsumeEnrollmentToken
        <3> QED
            BY <1>4, <3>3, <3>4 DEF TypeOK, ConsumeEnrollmentToken, history
    <2>2. CASE tokens[req[r].token] # "valid"
        BY <1>1, <1>4, <2>2 DEF TypeOK, ConsumeEnrollmentToken, history
    <2> QED
        BY <2>1, <2>2
<1>5. CASE CountPendingHosts(r) \/ UpsertLookup(r) \/ RequestDies(r)
    <2>1. req' \in [Req -> ReqState]
        BY <1>1, <1>2, <1>5 DEF CountPendingHosts, UpsertLookup, RequestDies, Pc
    <2>2. crossed' \subseteq Certs
        BY <1>0, <1>5 DEF TypeOK, CountPendingHosts, UpsertLookup, RequestDies, history, ReqState
    <2> QED
        BY <1>5, <2>1, <2>2 DEF TypeOK, CountPendingHosts, UpsertLookup, RequestDies, history
<1>6. ASSUME NEW i \in Id, InsertHost(r, i) PROVE TypeOK'
    <2>1. [NoHost EXCEPT !.status = "pending", !.cert = req[r].cert] \in HostRow
        BY <1>0, CertFacts DEF NoHost, HostRow, ReqState
    <2>2. hosts' \in [Id -> HostRow]
        BY <1>0, <1>6, <2>1 DEF InsertHost
    <2>3. [req[r] EXCEPT !.pc = "approve", !.id = i] \in ReqState
        BY <1>0 DEF ReqState, Pc
    <2>4. req[r].used => req' = [req EXCEPT ![r] = [req[r] EXCEPT !.pc = "approve", !.id = i]]
        BY <1>0, <1>6 DEF InsertHost
    <2>5. req' \in [Req -> ReqState]
        BY <1>0, <1>1, <1>6, <2>3, <2>4 DEF InsertHost
    <2> QED
        BY <1>6, <2>2, <2>5 DEF TypeOK, InsertHost, history
<1>7. CASE ApproveByToken(r)
    <2>1. hosts' \in [Id -> HostRow]
        <3> DEFINE i == req[r].id
                   x == [hosts[i] EXCEPT !.status = "connected", !.by = req[r].token]
        <3>1. hosts' = IF Exists(i) THEN [hosts EXCEPT ![i] = x] ELSE hosts
            BY <1>7 DEF ApproveByToken, ApproveHost
        <3>2. i \in Id => x \in HostRow
            <4>1. req[r].token \in Token \union {NoToken, "admin"}
                BY <1>0 DEF ReqState
            <4> QED
                BY <1>0, <4>1, HostEdits
        <3> HIDE DEF i, x
        <3> QED
            BY <1>0, <3>1, <3>2
    <2> QED
        BY <1>1, <1>7, <2>1 DEF TypeOK, ApproveByToken, history
<1> QED
    BY <1>3, <1>4, <1>5, <1>6, <1>7 DEF Enroll

LEMMA ServeTypeOK ==
    ASSUME TypeOK, NEW r \in Req, Serve(r)
    PROVE  TypeOK'
<1> USE EnrollmentAssumption
<1>0. /\ req \in [Req -> ReqState] /\ req[r] \in ReqState /\ hosts \in [Id -> HostRow]
      /\ agent \in [Agent -> [cur : 0 .. MaxRotations, acked : BOOLEAN]]
    BY DEF TypeOK
<1>1. ASSUME Done(r) PROVE req' \in [Req -> ReqState]
    BY <1>0, <1>1, RowTypes DEF Done
<1>2. ASSUME NEW a \in Agent, Present(r, a) PROVE TypeOK'
    <2>1. Current(a) \in Certs
        BY CertFacts DEF TypeOK, Current
    <2>2. \A i \in Id : [NoReq EXCEPT !.pc = "promote", !.cert = Current(a), !.id = i] \in ReqState
        BY <2>1, CertFacts DEF NoReq, ReqState, Pc
    <2>3. req' \in [Req -> ReqState]
        BY <1>0, <1>2, <2>2 DEF Present
    <2> QED
        BY <1>2, <2>3 DEF TypeOK, Present, history
<1>3. ASSUME NEW a \in Agent, NEW n \in Certs \ {NoCert}, Rotate(r, a, n) PROVE TypeOK'
    <2>1. Current(a) \in Certs
        BY <1>0, CertFacts DEF Current
    <2>2. \A i \in Id : [NoReq EXCEPT !.pc = "check", !.cert = Current(a), !.next = n, !.id = i] \in ReqState
        BY <2>1 DEF NoReq, ReqState, Pc
    <2>3. req' \in [Req -> ReqState]
        BY <1>0, <1>3, <2>2 DEF Rotate
    <2>4. n[1] \in Agent
        BY CertFacts
    <2> QED
        BY <1>3, <2>3, <2>4 DEF TypeOK, Rotate
<1>4. CASE PromoteFingerprint(r)
    <2>1. hosts' \in [Id -> HostRow]
        <3> DEFINE i == req[r].id
                   x == [hosts[i] EXCEPT !.cert = req[r].cert, !.next = NoCert]
        <3>1. hosts' = [hosts EXCEPT ![i] = x] \/ hosts' = hosts
            BY <1>4 DEF PromoteFingerprint
        <3>2. i \in Id => x \in HostRow
            <4>1. req[r].cert \in Certs
                BY <1>0 DEF ReqState
            <4> QED
                BY <1>0, <4>1, HostEdits
        <3> HIDE DEF i, x
        <3> QED
            BY <1>0, <3>1, <3>2
    <2> QED
        BY <1>1, <1>4, <2>1 DEF TypeOK, PromoteFingerprint, history
<1>5. CASE CheckFingerprint(r)
    <2>1. Goto(r, "setnext") => req' \in [Req -> ReqState]
        BY <1>0 DEF Goto, ReqState, Pc
    <2>2. crossed' \subseteq Certs
        BY <1>0, <1>5 DEF TypeOK, CheckFingerprint, ReqState
    <2> QED
        BY <1>1, <1>5, <2>1, <2>2 DEF TypeOK, CheckFingerprint
<1>6. ASSUME NEW heard \in BOOLEAN, SetNextFingerprint(r, heard) PROVE TypeOK'
    <2>1. hosts' \in [Id -> HostRow]
        BY <1>0, <1>6 DEF SetNextFingerprint, HostRow, ReqState
    <2>2. agent' \in [Agent -> [cur : 0 .. MaxRotations, acked : BOOLEAN]]
        <3>1. \A a \in Agent : [agent[a] EXCEPT !.acked = TRUE] \in [cur : 0 .. MaxRotations, acked : BOOLEAN]
            BY <1>0
        <3>2. \A a \in Agent : agent'[a] \in {agent[a], [agent[a] EXCEPT !.acked = TRUE]}
            BY <1>6 DEF SetNextFingerprint
        <3>3. agent' = [a \in Agent |-> agent'[a]]
            BY <1>6 DEF SetNextFingerprint
        <3> QED
            BY <1>0, <3>1, <3>2, <3>3
    <2> QED
        BY <1>1, <1>6, <2>1, <2>2 DEF TypeOK, SetNextFingerprint, history
<1> QED
    BY <1>2, <1>3, <1>4, <1>5, <1>6 DEF Serve

LEMMA OtherTypeOK ==
    ASSUME TypeOK, Admin \/ \E a \in Agent : AgentCommits(a) \/ AgentRestarts(a),
           \A a \in Agent : agent[a].acked => agent[a].cur < MaxRotations
    PROVE  TypeOK'
<1> USE EnrollmentAssumption
<1>0. /\ hosts \in [Id -> HostRow] /\ tokens \in [Token -> {"none", "valid", "used", "expired"}]
      /\ agent \in [Agent -> [cur : 0 .. MaxRotations, acked : BOOLEAN]]
    BY DEF TypeOK
<1>1. ASSUME NEW t \in Token, CreateEnrollmentToken(t) \/ TokenExpires(t) PROVE TypeOK'
    BY <1>0, <1>1 DEF TypeOK, CreateEnrollmentToken, TokenExpires, history
<1>2. ASSUME NEW i \in Id, ApproveHostHandler(i) PROVE TypeOK'
    <2>1. hosts' \in [Id -> HostRow]
        BY <1>0, <1>2 DEF ApproveHostHandler, ApproveHost, HostRow
    <2> QED
        BY <1>2, <2>1 DEF TypeOK, ApproveHostHandler, history
<1>3. ASSUME NEW i \in Id, RejectPendingHost(i) PROVE TypeOK'
    BY <1>0, <1>3, RowTypes DEF TypeOK, RejectPendingHost, history
<1>4. ASSUME NEW S \in SUBSET Pending, PurgeStalePending(S) PROVE TypeOK'
    BY <1>0, <1>4, RowTypes DEF TypeOK, PurgeStalePending, history
<1>5. ASSUME NEW a \in Agent, AgentCommits(a) PROVE TypeOK'
    <2>1. [cur |-> agent[a].cur + 1, acked |-> FALSE] \in [cur : 0 .. MaxRotations, acked : BOOLEAN]
        BY <1>0, <1>5 DEF AgentCommits
    <2> QED
        BY <1>0, <1>5, <2>1 DEF TypeOK, AgentCommits, history
<1>6. ASSUME NEW a \in Agent, AgentRestarts(a) PROVE TypeOK'
    <2>1. [agent[a] EXCEPT !.acked = FALSE] \in [cur : 0 .. MaxRotations, acked : BOOLEAN]
        BY <1>0
    <2>2. agent' = [agent EXCEPT ![a] = [agent[a] EXCEPT !.acked = FALSE]]
        BY <1>6 DEF AgentRestarts
    <2> QED
        BY <1>0, <1>6, <2>1, <2>2 DEF TypeOK, AgentRestarts, history
<1> QED
    BY <1>1, <1>2, <1>3, <1>4, <1>5, <1>6 DEF Admin

-----------------------------------------------------------------------------
(* Tokens.                                                                  *)

LEMMA InitTokensStand == Init => TokensStand
<1> SUFFICES ASSUME Init PROVE TokensStand
    OBVIOUS
<1>1. \A i \in Id : ~ Exists(i)
    BY RowTypes DEF Init, Exists
<1>2. \A r \in Req : ~ req[r].used /\ req[r].pc = "idle"
    BY RowTypes DEF Init
<1> QED
    BY <1>1, <1>2 DEF TokensStand, TokenStands, HandlerStands, ApprovedBy, OnTheWay, At

(* A step that lets hosts and enrollments of a token go, and takes on none. *)
LEMMA TokensShrink ==
    ASSUME TokensStand, \A r \in Req : HandlerStands(r)',
           \A t \in Token : /\ ApprovedBy(t)' \subseteq ApprovedBy(t)
                            /\ OnTheWay(t)' \subseteq OnTheWay(t)
                            /\ tokens'[t] # "used" => tokens[t] # "used"
    PROVE  TokensStand'
<1>1. ASSUME NEW t \in Token PROVE TokenStands(t)'
    <2>1. TokenStands(t)
        BY DEF TokensStand
    <2> QED
        BY <1>1, <2>1 DEF TokenStands
<1> QED
    BY <1>1 DEF TokensStand

(* A handler goes on without having used a token up in this step.           *)
LEMMA HandlerGoesOn ==
    ASSUME TypeOK, TokensStand, NEW r \in Req, NEW x \in ReqState, req' = [req EXCEPT ![r] = x], tokens' = tokens,
           \A t \in Token : ApprovedBy(t)' \subseteq ApprovedBy(t),
           x.used => req[r].used /\ x.token = req[r].token,
           x.pc = "approve" => x.used /\ x.id \in Id,
           x.pc = "consume" => x.token \in Token /\ ~ x.used
    PROVE  TokensStand'
<1>1. req'[r] = x /\ \A q \in Req : q # r => req'[q] = req[q]
    BY DEF TypeOK
<1>2. \A q \in Req : HandlerStands(q)'
    BY <1>1 DEF TokensStand, HandlerStands, At
<1>3. \A t \in Token : OnTheWay(t)' \subseteq OnTheWay(t)
    BY <1>1 DEF OnTheWay
<1> QED
    BY <1>2, <1>3, TokensShrink

LEMMA HandlerEnds ==
    ASSUME TypeOK, TokensStand, NEW r \in Req, Done(r), tokens' = tokens,
           \A t \in Token : ApprovedBy(t)' \subseteq ApprovedBy(t)
    PROVE  TokensStand'
BY RowTypes, HandlerGoesOn DEF Done

LEMMA EnrollTokensStand ==
    ASSUME TypeOK, TypeOK', TokensStand, NEW r \in Req, Enroll(r)
    PROVE  TokensStand'
<1> USE EnrollmentAssumption
<1>0. /\ req \in [Req -> ReqState] /\ req[r] \in ReqState /\ hosts \in [Id -> HostRow]
      /\ tokens \in [Token -> {"none", "valid", "used", "expired"}]
      /\ req' \in [Req -> ReqState] /\ req'[r] \in ReqState
    BY DEF TypeOK
<1>1. ASSUME hosts' = hosts PROVE \A t \in Token : ApprovedBy(t)' \subseteq ApprovedBy(t)
    BY <1>1 DEF ApprovedBy, Exists
<1>2. HandlerStands(r) /\ \A t \in Token : TokenStands(t)
    BY DEF TokensStand
<1>3. ASSUME NEW a \in Agent, NEW t \in Token \union {NoToken}, EnrollLookup(r, a, t) PROVE TokensStand'
    <2> DEFINE x == req'[r]
    <2>1. /\ x = [NoReq EXCEPT !.cert = Current(a), !.token = t,
                    !.pc = CASE Known(Current(a)) -> "lookup"
                             [] ~Known(Current(a)) /\ t # NoToken -> "consume"
                             [] OTHER -> IF MaxPending > 0 THEN "count" ELSE "lookup"]
          /\ req' = [req EXCEPT ![r] = x]
        BY <1>0, <1>3 DEF EnrollLookup
    <2>2. ~ x.used /\ x.token = t
        BY <2>1 DEF NoReq
    <2>3. x.pc = CASE Known(Current(a)) -> "lookup"
                   [] ~Known(Current(a)) /\ t # NoToken -> "consume"
                   [] OTHER -> IF MaxPending > 0 THEN "count" ELSE "lookup"
        BY <2>1 DEF NoReq
    <2>4. x.pc # "approve" /\ (x.pc = "consume" => t \in Token)
        BY <2>3
    <2> HIDE DEF x
    <2>5. x \in ReqState /\ hosts' = hosts /\ tokens' = tokens
        BY <1>0, <1>3 DEF x, EnrollLookup
    <2> QED
        BY <1>1, <2>1, <2>2, <2>4, <2>5, HandlerGoesOn
<1>4. CASE ConsumeEnrollmentToken(r)
    <2> DEFINE k == req[r].token
    <2>1. k \in Token /\ ~ req[r].used /\ hosts' = hosts
        BY <1>2, <1>4 DEF HandlerStands, ConsumeEnrollmentToken
    <2>2. CASE tokens[k] # "valid"
        BY <1>1, <1>4, <2>1, <2>2, HandlerEnds DEF ConsumeEnrollmentToken
    <2>3. CASE tokens[k] = "valid"
        <3>1. /\ req'[r].pc = "lookup" /\ req'[r].used /\ req'[r].token = k
              /\ \A q \in Req : q # r => req'[q] = req[q]
            BY <1>0, <1>4, <2>3 DEF ConsumeEnrollmentToken, ReqState
        <3>2. tokens' = [tokens EXCEPT ![k] = "used"]
            BY <1>4, <2>3 DEF ConsumeEnrollmentToken
        <3>3. \A t \in Token : ApprovedBy(t)' = ApprovedBy(t)
            BY <2>1 DEF ApprovedBy, Exists
        <3>4. ASSUME NEW t \in Token PROVE OnTheWay(t)' = IF t = k THEN OnTheWay(t) \union {r} ELSE OnTheWay(t)
            BY <2>1, <3>1 DEF OnTheWay
        <3>5. ASSUME NEW t \in Token PROVE TokenStands(t)'
            <4>1. TokenStands(t)
                BY <1>2
            <4>2. CASE t = k
                <5>1. ApprovedBy(t) = {} /\ OnTheWay(t) = {}
                    BY <2>3, <4>1, <4>2 DEF TokenStands
                <5>2. ApprovedBy(t)' = {} /\ OnTheWay(t)' = {r} /\ tokens'[t] = "used"
                    BY <1>0, <3>2, <3>3, <3>4, <4>2, <5>1
                <5> QED
                    BY <5>2 DEF TokenStands
            <4>3. CASE t # k
                <5>1. ApprovedBy(t)' = ApprovedBy(t) /\ OnTheWay(t)' = OnTheWay(t) /\ tokens'[t] = tokens[t]
                    BY <1>0, <3>2, <3>3, <3>4, <4>3
                <5> QED
                    BY <4>1, <5>1 DEF TokenStands
            <4> QED
                BY <4>2, <4>3
        <3>6. \A q \in Req : HandlerStands(q)'
            BY <2>1, <3>1 DEF TokensStand, HandlerStands, At
        <3> QED
            BY <3>5, <3>6 DEF TokensStand
    <2> QED
        BY <2>2, <2>3
<1>5. CASE CountPendingHosts(r) \/ UpsertLookup(r) \/ RequestDies(r)
    <2>1. hosts' = hosts /\ tokens' = tokens /\ (Done(r) \/ Goto(r, "lookup") \/ Goto(r, "insert"))
        BY <1>5 DEF CountPendingHosts, UpsertLookup, RequestDies
    <2>2. CASE Done(r)
        BY <1>1, <2>1, <2>2, HandlerEnds
    <2>3. CASE Goto(r, "lookup") \/ Goto(r, "insert")
        <3> DEFINE x == req'[r]
        <3>1. /\ x.pc \in {"lookup", "insert"} /\ x.used = req[r].used /\ x.token = req[r].token
              /\ req' = [req EXCEPT ![r] = x]
            BY <1>0, <2>3 DEF Goto, ReqState
        <3> HIDE DEF x
        <3>2. x \in ReqState
            BY <1>0 DEF x
        <3> QED
            BY <1>1, <2>1, <3>1, <3>2, HandlerGoesOn
    <2> QED
        BY <2>1, <2>2, <2>3
<1>6. ASSUME NEW i \in Id, InsertHost(r, i) PROVE TokensStand'
    <2>1. /\ hosts'[i].by = NoToken /\ tokens' = tokens /\ ~ Exists(i)
          /\ \A j \in Id : j # i => hosts'[j] = hosts[j]
        BY <1>0, <1>6 DEF InsertHost, NoHost
    <2>2. \A t \in Token : ApprovedBy(t)' \subseteq ApprovedBy(t)
        BY <2>1 DEF ApprovedBy, Exists
    <2>3. CASE ~ req[r].used
        BY <1>6, <2>1, <2>2, <2>3, HandlerEnds DEF InsertHost
    <2>4. CASE req[r].used
        <3> DEFINE x == [req[r] EXCEPT !.pc = "approve", !.id = i]
        <3>1. req' = [req EXCEPT ![r] = x]
            BY <1>0, <1>6, <2>4 DEF InsertHost
        <3>2. /\ x.pc = "approve" /\ x.used = req[r].used /\ x.token = req[r].token /\ x.id = i
              /\ x \in ReqState
            BY <1>0 DEF ReqState, Pc
        <3> HIDE DEF x
        <3> QED
            BY <2>1, <2>2, <2>4, <3>1, <3>2, HandlerGoesOn
    <2> QED
        BY <2>3, <2>4
<1>7. CASE ApproveByToken(r)
    <2> DEFINE k == req[r].token
               i == req[r].id
    <2>1. k \in Token /\ req[r].used /\ i \in Id
        BY <1>2, <1>7 DEF HandlerStands, ApproveByToken
    <2>2. req'[r] = NoReq /\ (\A q \in Req : q # r => req'[q] = req[q]) /\ tokens' = tokens
        BY <1>0, <1>7 DEF ApproveByToken, Done
    <2>3. \A j \in Id : /\ Exists(j)' <=> Exists(j)
                        /\ j # i \/ ~ Exists(i) => hosts'[j].by = hosts[j].by
                        /\ j = i /\ Exists(i) => hosts'[j].by = k
        BY <1>0, <1>7, <2>1 DEF ApproveByToken, ApproveHost, Exists, HostRow
    <2> HIDE DEF k, i
    <2>a. r \in OnTheWay(k)
        BY <2>1 DEF OnTheWay, k
    <2>4. ApprovedBy(k) = {} /\ OnTheWay(k) = {r}
        BY <1>2, <2>1, <2>a DEF TokenStands
    <2>5. tokens[k] = "used"
        BY <1>2, <2>1, <2>a DEF TokenStands
    <2>6. ASSUME NEW t \in Token PROVE TokenStands(t)'
        <3>1. TokenStands(t)
            BY <1>2
        <3>2. OnTheWay(t)' \subseteq OnTheWay(t) \ {r}
            BY <2>2, RowTypes DEF OnTheWay
        <3>3. CASE t = k
            <4>1. ApprovedBy(t)' \subseteq {i} /\ OnTheWay(t)' = {}
                BY <2>3, <2>4, <3>2, <3>3 DEF ApprovedBy
            <4> QED
                BY <2>2, <2>5, <3>3, <4>1 DEF TokenStands
        <3>4. CASE t # k
            <4>1. ApprovedBy(t)' \subseteq ApprovedBy(t)
                BY <2>3, <3>4 DEF ApprovedBy
            <4> QED
                BY <2>2, <3>1, <3>2, <4>1 DEF TokenStands
        <3> QED
            BY <3>3, <3>4
    <2>7. \A q \in Req : HandlerStands(q)'
        BY <2>2, RowTypes DEF TokensStand, HandlerStands, At
    <2> QED
        BY <2>6, <2>7 DEF TokensStand
<1> QED
    BY <1>3, <1>4, <1>5, <1>6, <1>7 DEF Enroll

LEMMA ServeTokensStand ==
    ASSUME TypeOK, TypeOK', TokensStand, NEW r \in Req, Serve(r)
    PROVE  TokensStand'
<1> USE EnrollmentAssumption
<1>0. /\ req \in [Req -> ReqState] /\ req[r] \in ReqState /\ hosts \in [Id -> HostRow]
      /\ req' \in [Req -> ReqState] /\ req'[r] \in ReqState /\ tokens' = tokens
    BY DEF TypeOK, Serve, Present, Rotate, PromoteFingerprint, CheckFingerprint, SetNextFingerprint
<1>1. ASSUME hosts' = hosts PROVE \A t \in Token : ApprovedBy(t)' \subseteq ApprovedBy(t)
    BY <1>1 DEF ApprovedBy, Exists
<1>2. ASSUME NEW a \in Agent, Present(r, a) \/ \E n \in Certs \ {NoCert} : Rotate(r, a, n) PROVE TokensStand'
    <2> DEFINE x == req'[r]
    <2>1. ~ x.used /\ x.pc \in {"promote", "check"} /\ req' = [req EXCEPT ![r] = x] /\ hosts' = hosts
        BY <1>0, <1>2 DEF Present, Rotate, NoReq
    <2> HIDE DEF x
    <2>2. x \in ReqState
        BY <1>0 DEF x
    <2> QED
        BY <1>0, <1>1, <2>1, <2>2, HandlerGoesOn
<1>3. CASE CheckFingerprint(r)
    <2>1. CASE Done(r)
        BY <1>0, <1>1, <1>3, <2>1, HandlerEnds DEF CheckFingerprint
    <2>2. CASE Goto(r, "setnext")
        <3> DEFINE x == req'[r]
        <3>1. /\ x.pc = "setnext" /\ x.used = req[r].used /\ x.token = req[r].token
              /\ req' = [req EXCEPT ![r] = x] /\ hosts' = hosts
            BY <1>0, <1>3, <2>2 DEF CheckFingerprint, Goto, ReqState
        <3> HIDE DEF x
        <3>2. x \in ReqState
            BY <1>0 DEF x
        <3> QED
            BY <1>0, <1>1, <3>1, <3>2, HandlerGoesOn
    <2> QED
        BY <1>3, <2>1, <2>2 DEF CheckFingerprint
<1>4. ASSUME PromoteFingerprint(r) \/ \E heard \in BOOLEAN : SetNextFingerprint(r, heard) PROVE TokensStand'
    <2>1. \A j \in Id : (Exists(j)' <=> Exists(j)) /\ hosts'[j].by = hosts[j].by
        <3>1. CASE hosts' = hosts
            BY <3>1 DEF Exists
        <3>2. CASE hosts' # hosts
            <4>1. \/ hosts' = [hosts EXCEPT ![req[r].id].cert = req[r].cert, ![req[r].id].next = NoCert]
                  \/ hosts' = [hosts EXCEPT ![req[r].id].next = req[r].next]
                BY <1>4, <3>2 DEF PromoteFingerprint, SetNextFingerprint
            <4> QED
                BY <1>0, <4>1 DEF Exists, HostRow
        <3> QED
            BY <3>1, <3>2
    <2>2. \A t \in Token : ApprovedBy(t)' \subseteq ApprovedBy(t)
        BY <2>1 DEF ApprovedBy
    <2>3. Done(r)
        BY <1>4 DEF PromoteFingerprint, SetNextFingerprint
    <2> QED
        BY <1>0, <2>2, <2>3, HandlerEnds
<1> QED
    BY <1>2, <1>3, <1>4 DEF Serve

LEMMA OtherTokensStand ==
    ASSUME TypeOK, TypeOK', TokensStand,
           Admin \/ (\E a \in Agent : AgentCommits(a) \/ AgentRestarts(a)) \/ UNCHANGED vars
    PROVE  TokensStand'
<1> USE EnrollmentAssumption
<1>0. /\ hosts \in [Id -> HostRow] /\ tokens \in [Token -> {"none", "valid", "used", "expired"}] /\ req' = req
    BY DEF TypeOK, Admin, CreateEnrollmentToken, TokenExpires, ApproveHostHandler, RejectPendingHost,
           PurgeStalePending, AgentCommits, AgentRestarts, vars
<1>1. (\A r \in Req : HandlerStands(r)') /\ \A t \in Token : OnTheWay(t)' \subseteq OnTheWay(t)
    BY <1>0 DEF TokensStand, HandlerStands, OnTheWay, At
<1>2. \A t \in Token : ApprovedBy(t)' \subseteq ApprovedBy(t)
    <2>1. \A j \in Id : Exists(j)' => Exists(j) /\ hosts'[j].by \in {hosts[j].by, "admin"}
        <3>1. CASE hosts' = hosts
            BY <3>1 DEF Exists
        <3>2. ASSUME NEW i \in Id, ApproveHostHandler(i)
              PROVE  \A j \in Id : Exists(j)' => Exists(j) /\ hosts'[j].by \in {hosts[j].by, "admin"}
            BY <1>0, <3>2 DEF ApproveHostHandler, ApproveHost, Exists, HostRow
        <3>3. ASSUME NEW i \in Id, RejectPendingHost(i)
              PROVE  \A j \in Id : Exists(j)' => Exists(j) /\ hosts'[j].by \in {hosts[j].by, "admin"}
            BY <1>0, <3>3, RowTypes DEF RejectPendingHost, Exists
        <3>4. ASSUME NEW S \in SUBSET Pending, PurgeStalePending(S)
              PROVE  \A j \in Id : Exists(j)' => Exists(j) /\ hosts'[j].by \in {hosts[j].by, "admin"}
            BY <1>0, <3>4, RowTypes DEF PurgeStalePending, Exists
        <3> QED
            BY <3>1, <3>2, <3>3, <3>4 DEF Admin, CreateEnrollmentToken, TokenExpires, AgentCommits, AgentRestarts, vars
    <2> QED
        BY <2>1 DEF ApprovedBy
<1>3. \A t \in Token : tokens'[t] # "used" => tokens[t] # "used"
    <2>1. tokens' = tokens \/ \E t \in Token : tokens[t] \in {"none", "valid"} /\ (CreateEnrollmentToken(t) \/ TokenExpires(t))
        BY DEF Admin, CreateEnrollmentToken, TokenExpires, ApproveHostHandler, RejectPendingHost,
           PurgeStalePending, AgentCommits, AgentRestarts, vars
    <2> QED
        BY <1>0, <2>1 DEF CreateEnrollmentToken, TokenExpires
<1> QED
    BY <1>1, <1>2, <1>3, TokensShrink

-----------------------------------------------------------------------------
(* Certificates.                                                            *)

LEMMA InitCertsStand == Init => CertsStand
<1> SUFFICES ASSUME Init PROVE CertsStand
    OBVIOUS
<1>1. \A i \in Id : ~ Exists(i)
    BY RowTypes DEF Init, Exists
<1>2. \A r \in Req : req[r].pc = "idle"
    BY RowTypes DEF Init
<1>3. \A a \in Agent : agent[a].cur = 0 /\ ~ agent[a].acked
    BY DEF Init
<1> QED
    BY <1>1, <1>2, <1>3 DEF CertsStand, HostsStand, HostStands, PinnedApart, RequestsStand, RequestStands,
       RotationsStand, RotationStands, OneTurn, ToldStand, SwitchedStand, Turning

(* A handler goes on, or takes up a request; no row and no agent changes.   *)
LEMMA HandlerStepsCerts ==
    ASSUME TypeOK, CertsStand, NEW r \in Req, hosts' = hosts, agent' = agent, astray \subseteq astray',
           \A q \in Req : q # r => req'[q] = req[q],
           RequestStands(r)', RotationStands(r)',
           Turning(r)' /\ req'[r].cert[1] \notin astray' =>
               /\ \A q \in Req : q # r /\ Turning(q) /\ req[q].cert[1] = req'[r].cert[1] => req[q].next = req'[r].next
               /\ \A a \in Agent : req'[r].cert[1] = a => req'[r].next = Cert(a, agent[a].cur + 1) \/ ~ agent[a].acked
    PROVE  CertsStand'
<1>1. HostsStand' /\ PinnedApart' /\ SwitchedStand'
    BY DEF CertsStand, HostsStand, HostStands, InOrder, PinnedApart, SwitchedStand, Served, Exists, Current
<1>2. RequestsStand'
    BY DEF CertsStand, RequestsStand, RequestStands, Served, At
<1>3. RotationsStand'
    BY DEF CertsStand, RotationsStand, RotationStands, TurnStands, InOrder, Turning, Exists
<1>4. OneTurn'
    BY DEF CertsStand, OneTurn, Turning
<1>5. ToldStand'
    BY DEF CertsStand, ToldStand, Turning
<1> QED
    BY <1>1, <1>2, <1>3, <1>4, <1>5 DEF CertsStand

(* Rows are approved, or pending ones go; handlers may end.                 *)
LEMMA RowsKeepCerts ==
    ASSUME TypeOK, CertsStand, agent' = agent, astray' = astray,
           \A q \in Req : req'[q] = req[q] \/ req'[q].pc = "idle",
           \A j \in Id : /\ hosts[j].status = "connected" => hosts'[j].status = "connected"
                         /\ Exists(j)' => Exists(j) /\ hosts'[j].cert = hosts[j].cert /\ hosts'[j].next = hosts[j].next
    PROVE  CertsStand'
<1>1. \A j \in Id : hosts[j].status = "connected" => Exists(j)'
    BY DEF Exists
<1>2. HostsStand'
    BY DEF CertsStand, HostsStand, HostStands, InOrder, Served, Exists
<1>3. PinnedApart'
    BY DEF CertsStand, PinnedApart
<1>4. RequestsStand'
    BY DEF CertsStand, RequestsStand, RequestStands, Served, At
<1>5. RotationsStand'
    BY <1>1 DEF CertsStand, RotationsStand, RotationStands, TurnStands, InOrder, Turning
<1>6. OneTurn'
    BY DEF CertsStand, OneTurn, Turning
<1>7. ToldStand'
    BY <1>1 DEF CertsStand, ToldStand, Turning
<1>8. SwitchedStand'
    BY <1>1 DEF CertsStand, SwitchedStand, Current
<1> QED
    BY <1>2, <1>3, <1>4, <1>5, <1>6, <1>7, <1>8 DEF CertsStand

LEMMA EndKeepsCerts ==
    ASSUME TypeOK, CertsStand, NEW r \in Req, Done(r), hosts' = hosts, agent' = agent, astray' = astray
    PROVE  CertsStand'
<1>1. \A q \in Req : req'[q] = req[q] \/ req'[q].pc = "idle"
    BY RowTypes DEF TypeOK, Done
<1>2. \A j \in Id : /\ hosts[j].status = "connected" => hosts'[j].status = "connected"
                    /\ Exists(j)' => Exists(j) /\ hosts'[j].cert = hosts[j].cert /\ hosts'[j].next = hosts[j].next
    BY DEF Exists
<1> QED
    BY <1>1, <1>2, RowsKeepCerts

LEMMA CurrentIsServed ==
    ASSUME TypeOK, NEW a \in Agent
    PROVE  Served(Current(a)) /\ Current(a)[1] = a /\ Current(a)[2] = agent[a].cur
BY CertFacts, EnrollmentAssumption DEF TypeOK, Served, Current

(* The insert: what is announced is never what a handler is about to pin.   *)
LEMMA InsertCerts ==
    ASSUME TypeOK, CertsStand, NEW r \in Req, NEW i \in Id, InsertHost(r, i)
    PROVE  CertsStand'
<1> DEFINE c == req[r].cert
<1>0. /\ req \in [Req -> ReqState] /\ req[r] \in ReqState /\ hosts \in [Id -> HostRow]
      /\ agent \in [Agent -> [cur : 0 .. MaxRotations, acked : BOOLEAN]]
    BY DEF TypeOK
<1>1. /\ hosts'[i].status = "pending" /\ hosts'[i].cert = c /\ hosts'[i].next = NoCert
      /\ (\A j \in Id : j # i => hosts'[j] = hosts[j]) /\ ~ Exists(i) /\ agent' = agent /\ astray' = astray
      /\ \A j \in Id : Exists(j) => hosts[j].cert # c
    BY <1>0 DEF InsertHost, NoHost, history
<1>2. /\ req'[r].pc \in {"idle", "approve"} /\ (req'[r].pc # "idle" => req'[r].cert = c)
      /\ \A q \in Req : q # r => req'[q] = req[q]
    BY <1>0, RowTypes DEF InsertHost, Done, ReqState
<1>3. Served(c) /\ (c[1] \notin astray /\ c[2] = agent[c[1]].cur => c[2] = 0) /\ c[2] <= agent[c[1]].cur /\ c \in RealCerts
    BY DEF CertsStand, RequestsStand, RequestStands, InsertHost, At, Served
<1>4. c[1] \in Agent /\ c[2] \in Nat /\ agent[c[1]].cur \in Nat /\ NoCert \notin RealCerts
    BY <1>0, <1>3, CertFacts, EnrollmentAssumption
<1> HIDE DEF c
<1>5. \A d : c[1] \notin astray /\ d[1] = c[1] /\ d[2] >= agent[c[1]].cur /\ d[2] >= 1 => d # c
    BY <1>3, <1>4
<1>6. \A j \in Id : Exists(j) => /\ hosts[j].next = c => c[1] \in astray
                                 /\ hosts[j].cert \in RealCerts /\ hosts[j].cert[2] \in Nat
    <2>1. ASSUME NEW j \in Id, Exists(j), hosts[j].next = c PROVE c[1] \in astray
        <3>1. HostStands(j)
            BY DEF CertsStand, HostsStand
        <3>2. hosts[j].cert \in RealCerts /\ hosts[j].cert[2] \in Nat
            BY <2>1, <3>1, CertFacts, EnrollmentAssumption DEF HostStands, Served
        <3> QED
            BY <1>3, <1>4, <1>5, <2>1, <3>1, <3>2 DEF HostStands, InOrder
    <2>2. ASSUME NEW j \in Id, Exists(j) PROVE hosts[j].cert \in RealCerts /\ hosts[j].cert[2] \in Nat
        BY <2>2, CertFacts, EnrollmentAssumption DEF CertsStand, HostsStand, HostStands, Served
    <2> QED
        BY <2>1, <2>2
<1>7. \A j \in Id : (Exists(j)' <=> (Exists(j) \/ j = i)) /\ (hosts[j].status = "connected" => j # i)
    BY <1>1 DEF Exists
<1>8. HostsStand'
    <2>1. HostStands(i)'
        BY <1>1, <1>3 DEF HostStands, Served
    <2>2. \A j \in Id : j # i => HostStands(j)'
        BY <1>1 DEF CertsStand, HostsStand, HostStands, InOrder, Served, Exists
    <2> QED
        BY <2>1, <2>2 DEF HostsStand
<1>9. PinnedApart'
    BY <1>1, <1>3, <1>4, <1>6, <1>7 DEF CertsStand, PinnedApart
<1>10. RequestsStand'
    <2>1. RequestStands(r)'
        BY <1>1, <1>2, <1>3 DEF RequestStands, Served, At
    <2>2. \A q \in Req : q # r => RequestStands(q)'
        BY <1>1, <1>2 DEF CertsStand, RequestsStand, RequestStands, Served, At
    <2> QED
        BY <2>1, <2>2 DEF RequestsStand
<1>11. RotationsStand'
    <2>1. ASSUME NEW q \in Req, Turning(q)' PROVE RotationStands(q)'
        <3>1. q # r /\ req'[q] = req[q] /\ Turning(q) /\ RotationStands(q)
            BY <1>2, <2>1 DEF Turning, CertsStand, RotationsStand
        <3>2. req[q].id \in Id /\ req[q].id # i /\ hosts'[req[q].id] = hosts[req[q].id]
            BY <1>1, <1>7, <3>1 DEF RotationStands
        <3>3. req[q].cert \in RealCerts /\ req[q].cert[2] \in Nat
            BY <3>1, CertFacts, EnrollmentAssumption DEF CertsStand, RequestsStand, RequestStands, Turning, Served
        <3>4. CASE ~ TurnStands(q)
            BY <1>1, <3>1, <3>2, <3>4 DEF RotationStands
        <3>5. CASE TurnStands(q)
            <4>1. c = req[q].next => c[1] \in astray
                BY <1>3, <1>4, <1>5, <3>3, <3>5 DEF TurnStands, InOrder
            <4>2. CASE c # req[q].next
                <5>1. \A j \in Id : Exists(j)' /\ j # req[q].id => hosts'[j].cert # req[q].next
                    BY <1>1, <1>7, <3>5, <4>2 DEF TurnStands
                <5> QED
                    BY <1>1, <3>1, <3>2, <3>5, <5>1 DEF RotationStands, TurnStands, InOrder
            <4>3. CASE c = req[q].next
                <5>1. hosts[req[q].id].cert[1] \in astray /\ req[q].cert[1] \in astray
                    BY <3>5, <4>1, <4>3 DEF TurnStands, InOrder
                <5> QED
                    BY <1>1, <3>1, <3>2, <4>1, <4>3, <5>1 DEF RotationStands
            <4> QED
                BY <4>2, <4>3
        <3> QED
            BY <3>4, <3>5
    <2> QED
        BY <2>1 DEF RotationsStand, RotationStands
<1>12. OneTurn'
    BY <1>1, <1>2 DEF CertsStand, OneTurn, Turning
<1>13. ToldStand'
    BY <1>1, <1>2, <1>7 DEF CertsStand, ToldStand, Turning
<1>14. SwitchedStand'
    BY <1>1, <1>7 DEF CertsStand, SwitchedStand, Current
<1> QED
    BY <1>8, <1>9, <1>10, <1>11, <1>12, <1>13, <1>14 DEF CertsStand

LEMMA EnrollCertsStand ==
    ASSUME TypeOK, TypeOK', CertsStand, NEW r \in Req, Enroll(r)
    PROVE  CertsStand'
<1> USE EnrollmentAssumption
<1>0. /\ req \in [Req -> ReqState] /\ req[r] \in ReqState /\ hosts \in [Id -> HostRow]
      /\ agent \in [Agent -> [cur : 0 .. MaxRotations, acked : BOOLEAN]]
    BY DEF TypeOK
<1>1. RequestStands(r)
    BY DEF CertsStand, RequestsStand
<1>2. ASSUME NEW a \in Agent, NEW t \in Token \union {NoToken}, EnrollLookup(r, a, t) PROVE CertsStand'
    <2> DEFINE pc == CASE Known(Current(a)) -> "lookup"
                       [] ~Known(Current(a)) /\ t # NoToken -> "consume"
                       [] OTHER -> IF MaxPending > 0 THEN "count" ELSE "lookup"
    <2>1. /\ req'[r] = [NoReq EXCEPT !.cert = Current(a), !.token = t, !.pc = pc]
          /\ \A q \in Req : q # r => req'[q] = req[q]
        BY <1>0, <1>2 DEF EnrollLookup
    <2>2. pc \in {"lookup", "consume", "count"}
        OBVIOUS
    <2> HIDE DEF pc
    <2>3. req'[r].cert = Current(a) /\ req'[r].pc \in {"lookup", "consume", "count"}
        BY <2>1, <2>2 DEF NoReq
    <2>4. hosts' = hosts /\ agent' = agent /\ astray' = astray
        BY <1>2 DEF EnrollLookup, history
    <2>5. RequestStands(r)' /\ ~ Turning(r)' /\ RotationStands(r)'
        BY <2>3, <2>4, CurrentIsServed DEF RequestStands, Turning, RotationStands, At, Served
    <2> QED
        BY <2>1, <2>4, <2>5, HandlerStepsCerts
<1>3. ASSUME Done(r), hosts' = hosts, agent' = agent, astray' = astray PROVE CertsStand'
    BY <1>3, EndKeepsCerts
<1>4. ASSUME hosts' = hosts, agent' = agent, astray' = astray, req'[r].cert = req[r].cert, req[r].pc # "idle",
             req'[r].pc \in {"lookup", "insert"}, \A q \in Req : q # r => req'[q] = req[q],
             req'[r].pc = "insert" /\ req[r].cert[1] \notin astray /\ req[r].cert[2] = agent[req[r].cert[1]].cur => req[r].cert[2] = 0
      PROVE  CertsStand'
    <2>1. RequestStands(r)' /\ ~ Turning(r)' /\ RotationStands(r)'
        BY <1>1, <1>4 DEF RequestStands, Turning, RotationStands, At, Served
    <2> QED
        BY <1>4, <2>1, HandlerStepsCerts
<1>5. CASE ConsumeEnrollmentToken(r)
    <2>1. CASE tokens[req[r].token] = "valid"
        <3>1. /\ req'[r].cert = req[r].cert /\ req'[r].pc = "lookup" /\ req[r].pc # "idle"
              /\ \A q \in Req : q # r => req'[q] = req[q]
            BY <1>0, <1>5, <2>1 DEF ConsumeEnrollmentToken, ReqState, At
        <3> QED
            BY <1>4, <1>5, <3>1 DEF ConsumeEnrollmentToken, history
    <2>2. CASE tokens[req[r].token] # "valid"
        BY <1>3, <1>5, <2>2 DEF ConsumeEnrollmentToken, history
    <2> QED
        BY <2>1, <2>2
<1>6. CASE CountPendingHosts(r)
    <2>1. Goto(r, "lookup") => /\ req'[r].cert = req[r].cert /\ req'[r].pc = "lookup"
                               /\ \A q \in Req : q # r => req'[q] = req[q]
        BY <1>0 DEF Goto, ReqState
    <2> QED
        BY <1>3, <1>4, <1>6, <2>1 DEF CountPendingHosts, At, history
<1>7. CASE UpsertLookup(r)
    <2>1. CASE Done(r)
        BY <1>3, <1>7, <2>1 DEF UpsertLookup
    <2>2. CASE ~ Known(req[r].cert) /\ Goto(r, "insert")
        <3>1. /\ req'[r].cert = req[r].cert /\ req'[r].pc = "insert" /\ \A q \in Req : q # r => req'[q] = req[q]
            BY <1>0, <2>2 DEF Goto, ReqState
        <3>2. Served(req[r].cert) /\ req[r].pc # "idle"
            BY <1>1, <1>7 DEF RequestStands, UpsertLookup, At
        <3>3. ASSUME req[r].cert[1] \notin astray, req[r].cert[2] = agent[req[r].cert[1]].cur PROVE req[r].cert[2] = 0
            <4> DEFINE a == req[r].cert[1]
            <4>1. a \in Agent /\ req[r].cert = Current(a) /\ agent[a].cur \in Nat
                BY <1>0, <3>2, <3>3, CertFacts DEF Served, Current
            <4>2. agent[a].cur > 0 => Known(Current(a))
                BY <3>3, <4>1 DEF CertsStand, SwitchedStand, Known, Matches, Exists
            <4> QED
                BY <2>2, <3>3, <4>1, <4>2
        <3> QED
            BY <1>4, <1>7, <3>1, <3>2, <3>3 DEF UpsertLookup
    <2> QED
        BY <1>7, <2>1, <2>2 DEF UpsertLookup
<1>8. CASE RequestDies(r)
    BY <1>3, <1>8 DEF RequestDies, history
<1>9. ASSUME NEW i \in Id, InsertHost(r, i) PROVE CertsStand'
    BY <1>9, InsertCerts
<1>10. CASE ApproveByToken(r)
    <2>1. \A q \in Req : req'[q] = req[q] \/ req'[q].pc = "idle"
        BY <1>0, <1>10, RowTypes DEF ApproveByToken, Done
    <2>2. \A j \in Id : /\ hosts[j].status = "connected" => hosts'[j].status = "connected"
                        /\ Exists(j)' => Exists(j) /\ hosts'[j].cert = hosts[j].cert /\ hosts'[j].next = hosts[j].next
        BY <1>0, <1>10 DEF ApproveByToken, ApproveHost, Exists, HostRow
    <2> QED
        BY <1>10, <2>1, <2>2, RowsKeepCerts DEF ApproveByToken, history
<1> QED
    BY <1>2, <1>5, <1>6, <1>7, <1>8, <1>9, <1>10 DEF Enroll

(* The promotion of the announced certificate to the pinned one.            *)
LEMMA PromoteCerts ==
    ASSUME TypeOK, CertsStand, NEW r \in Req, PromoteFingerprint(r)
    PROVE  CertsStand'
<1> USE EnrollmentAssumption
<1> DEFINE i == req[r].id
           c == req[r].cert
           o == hosts[i].cert
<1>0. /\ req \in [Req -> ReqState] /\ req[r] \in ReqState /\ hosts \in [Id -> HostRow]
      /\ agent \in [Agent -> [cur : 0 .. MaxRotations, acked : BOOLEAN]]
    BY DEF TypeOK
<1>1. CASE hosts' = hosts
    BY <1>1, EndKeepsCerts DEF PromoteFingerprint, history
<1>2. CASE /\ i \in Id /\ Exists(i) /\ hosts[i].next = c /\ \A j \in Id \ {i} : Exists(j) => hosts[j].cert # c
           /\ hosts' = [hosts EXCEPT ![i].cert = c, ![i].next = NoCert]
    <2>1. /\ hosts'[i].cert = c /\ hosts'[i].next = NoCert /\ hosts'[i].status = hosts[i].status
          /\ (\A j \in Id : j # i => hosts'[j] = hosts[j]) /\ agent' = agent /\ astray' = astray
        BY <1>0, <1>2 DEF PromoteFingerprint, HostRow, history
    <2>2. req'[r].pc = "idle" /\ \A q \in Req : q # r => req'[q] = req[q]
        BY <1>0, RowTypes DEF PromoteFingerprint, Done
    <2>3. Served(c)
        BY DEF CertsStand, RequestsStand, RequestStands, PromoteFingerprint, At
    <2>4. /\ c \in RealCerts /\ c[1] \in Agent /\ c[2] \in Nat /\ agent[c[1]].cur \in Nat /\ c[2] <= agent[c[1]].cur
          /\ NoCert \notin RealCerts
        BY <1>0, <2>3, CertFacts DEF Served
    <2>5. /\ o \in RealCerts /\ o[2] \in Nat /\ hosts[i].status = "connected"
          /\ \/ c[1] \in astray /\ o[1] \in astray
             \/ c[1] = o[1] /\ c[2] = o[2] + 1 /\ c[2] >= agent[c[1]].cur
        BY <1>2, <2>4, CertFacts DEF CertsStand, HostsStand, HostStands, InOrder, Served
    <2> HIDE DEF i, c, o
    <2>6. c[1] \notin astray => \A d \in RealCerts : d[1] = c[1] /\ c[2] = d[2] + 1 => d = o
        BY <2>4, <2>5, CertFacts
    <2>7. \A j \in Id : Exists(j)' <=> Exists(j)
        BY <2>1 DEF Exists
    <2>8. \A j \in Id : Exists(j) /\ j # i => /\ hosts[j].next = c => c[1] \in astray
                                              /\ hosts[j].cert # o /\ hosts[j].cert # c
        <3>1. ASSUME NEW j \in Id, Exists(j), j # i PROVE hosts[j].cert # o /\ hosts[j].cert # c
            BY <1>2, <3>1 DEF CertsStand, PinnedApart, o
        <3>2. ASSUME NEW j \in Id, Exists(j), j # i, hosts[j].next = c PROVE c[1] \in astray
            <4>1. HostStands(j)
                BY DEF CertsStand, HostsStand
            <4> QED
                BY <2>4, <2>6, <3>1, <3>2, <4>1, CertFacts DEF HostStands, InOrder, Served
        <3> QED
            BY <3>1, <3>2
    <2>9. HostsStand'
        <3>1. ASSUME NEW k \in Id, k = i PROVE HostStands(k)'
            BY <2>1, <2>3, <3>1 DEF HostStands, Served
        <3>2. \A j \in Id : j # i => HostStands(j)'
            BY <2>1 DEF CertsStand, HostsStand, HostStands, InOrder, Served, Exists
        <3> QED
            BY <3>1, <3>2 DEF HostsStand
    <2>a. \A j \in Id : Exists(j) => hosts[j].cert # NoCert
        BY CertFacts DEF CertsStand, HostsStand, HostStands, Served
    <2>10. PinnedApart'
        BY <2>1, <2>7, <2>8, <2>a DEF CertsStand, PinnedApart
    <2>11. RequestsStand'
        BY <2>1, <2>2 DEF CertsStand, RequestsStand, RequestStands, Served, At
    <2>12. RotationsStand'
        <3>1. ASSUME NEW q \in Req, Turning(q)' PROVE RotationStands(q)'
            <4> DEFINE h == req[q].id
            <4>1. q # r /\ req'[q] = req[q] /\ Turning(q) /\ RotationStands(q)
                BY <2>2, <3>1 DEF Turning, CertsStand, RotationsStand
            <4>2. req[q].cert \in RealCerts
                BY <4>1 DEF CertsStand, RequestsStand, RequestStands, Turning, Served
            <4>3. h \in Id /\ Exists(h) /\ hosts[h].status = "connected" /\ hosts'[h].status = "connected"
                BY <2>1, <4>1 DEF RotationStands, Exists
            <4>4. CASE ~ TurnStands(q)
                <5>1. /\ req[q].cert[1] \in astray /\ req[q].next[1] \in astray /\ hosts[h].cert[1] \in astray
                      /\ req[q].next \in RealCerts
                    BY <4>1, <4>4 DEF RotationStands
                <5>2. hosts'[h].cert[1] \in astray
                    BY <2>1, <2>5, <4>3, <5>1 DEF o
                <5> QED
                    BY <2>1, <4>1, <4>3, <5>1, <5>2 DEF RotationStands
            <4>5. CASE TurnStands(q) /\ c[1] \in astray /\ o[1] \in astray /\ hosts[h].cert[1] \in astray
                <5>1. req[q].cert[1] \in astray /\ req[q].next[1] \in astray
                    BY <4>5 DEF TurnStands, InOrder
                <5>2. hosts'[h].cert[1] \in astray
                    BY <2>1, <4>3, <4>5
                <5> QED
                    BY <2>1, <4>1, <4>3, <5>1, <5>2 DEF RotationStands
            <4>6. CASE TurnStands(q) /\ h = i /\ ~ (c[1] \in astray /\ o[1] \in astray)
                <5>1. o = req[q].cert
                    BY <1>2, <2>4, <4>6 DEF TurnStands, o
                <5>2. c = req[q].next
                    BY <2>4, <2>5, <4>1, <4>6, <5>1, CertFacts DEF RotationStands, TurnStands, InOrder
                <5>3. \A j \in Id : Exists(j)' /\ j # h => hosts'[j].cert # req[q].next
                    BY <2>1, <2>7, <4>6 DEF TurnStands
                <5> QED
                    BY <2>1, <4>1, <4>3, <4>6, <5>2, <5>3 DEF RotationStands, TurnStands, InOrder
            <4>7. CASE TurnStands(q) /\ h # i /\ hosts[h].cert[1] \notin astray
                <5>1. c # req[q].next
                    <6>1. SUFFICES ASSUME c = req[q].next PROVE FALSE
                        OBVIOUS
                    <6>2. c[1] \notin astray
                        BY <4>7, <6>1 DEF TurnStands, InOrder
                    <6>3. req[q].cert = o
                        BY <2>6, <4>2, <4>7, <6>1, <6>2 DEF TurnStands, InOrder
                    <6>4. hosts[h].cert = o \/ hosts[h].cert = c
                        BY <4>7, <6>1, <6>3 DEF TurnStands
                    <6> QED
                        BY <2>8, <4>3, <4>7, <6>4
                <5>2. \A j \in Id : Exists(j)' /\ j # h => hosts'[j].cert # req[q].next
                    BY <2>1, <2>7, <4>7, <5>1 DEF TurnStands
                <5>3. hosts'[h] = hosts[h]
                    BY <2>1, <4>3, <4>7
                <5> QED
                    BY <2>1, <4>1, <4>3, <4>7, <5>2, <5>3 DEF RotationStands, TurnStands, InOrder
            <4>8. CASE TurnStands(q) /\ h # i /\ hosts[h].cert[1] \in astray
                <5>1. req[q].cert[1] \in astray /\ req[q].next[1] \in astray
                    BY <4>8 DEF TurnStands, InOrder
                <5>2. hosts'[h] = hosts[h]
                    BY <2>1, <4>3, <4>8
                <5> QED
                    BY <2>1, <4>1, <4>3, <4>8, <5>1, <5>2 DEF RotationStands
            <4>9. h = i => hosts[h].cert = o
                BY DEF o
            <4> QED
                BY <4>4, <4>5, <4>6, <4>7, <4>8, <4>9
        <3> QED
            BY <3>1 DEF RotationsStand, RotationStands
    <2>13. OneTurn'
        BY <2>1, <2>2 DEF CertsStand, OneTurn, Turning
    <2>14. ToldStand'
        <3>1. ASSUME NEW a \in Agent, agent[a].acked, NEW j \in Id, hosts[j].next = Cert(a, agent[a].cur + 1)
              PROVE  j # i
            <4>1. agent[a].cur + 1 \in 0 .. MaxRotations
                BY <1>0, <3>1 DEF CertsStand, ToldStand
            <4>2. hosts[j].next[1] = a /\ hosts[j].next[2] = agent[a].cur + 1
                BY <3>1, <4>1, CertFacts
            <4> QED
                BY <1>2, <2>4, <4>2
        <3> QED
            BY <2>1, <2>2, <3>1 DEF CertsStand, ToldStand, Turning
    <2>15. SwitchedStand'
        <3>1. ASSUME NEW a \in Agent \ astray, agent[a].cur > 0
              PROVE  \E j \in Id : hosts'[j].status = "connected" /\ Current(a) \in {hosts'[j].cert, hosts'[j].next}
            <4>1. PICK j \in Id : hosts[j].status = "connected" /\ Current(a) \in {hosts[j].cert, hosts[j].next}
                BY <3>1 DEF CertsStand, SwitchedStand
            <4>2. CASE j # i
                BY <2>1, <4>1, <4>2
            <4>3. CASE j = i
                <5>1. Current(a) = o \/ Current(a) = c
                    BY <1>2, <4>1, <4>3 DEF o
                <5>2. Current(a) # o
                    <6>1. Current(a)[1] = a /\ Current(a)[2] = agent[a].cur /\ agent[a].cur \in Nat
                        BY <1>0, CurrentIsServed
                    <6> QED
                        BY <2>4, <2>5, <6>1
                <5> QED
                    BY <2>1, <4>1, <4>3, <5>1, <5>2
            <4> QED
                BY <4>2, <4>3
        <3> QED
            BY <2>1, <3>1 DEF SwitchedStand, Current
    <2> QED
        BY <2>9, <2>10, <2>11, <2>12, <2>13, <2>14, <2>15 DEF CertsStand
<1> QED
    <2>1. i \notin Id => [hosts EXCEPT ![i].cert = c, ![i].next = NoCert] = hosts
        BY <1>0
    <2> QED
        BY <1>1, <1>2, <2>1 DEF PromoteFingerprint

(* The announcement of the next certificate: what was announced before is   *)
(* the same one, so that nothing is lost.                                   *)
LEMMA SetNextInTurn ==
    ASSUME TypeOK, CertsStand, NEW r \in Req, NEW heard \in BOOLEAN, SetNextFingerprint(r, heard),
           TurnStands(r), req[r].cert[1] \notin astray
    PROVE  CertsStand'
<1> USE EnrollmentAssumption
<1> DEFINE i == req[r].id
           n == req[r].next
           o == req[r].cert
<1>0. /\ req \in [Req -> ReqState] /\ req[r] \in ReqState /\ hosts \in [Id -> HostRow]
      /\ agent \in [Agent -> [cur : 0 .. MaxRotations, acked : BOOLEAN]]
    BY DEF TypeOK
<1>1. Turning(r) /\ RotationStands(r) /\ Served(o)
    BY DEF SetNextFingerprint, At, Turning, CertsStand, RotationsStand, RequestsStand, RequestStands
<1>2. /\ i \in Id /\ Exists(i) /\ hosts[i].status = "connected" /\ n \in RealCerts /\ o \in RealCerts
      /\ n[1] = o[1] /\ n[2] = o[2] + 1 /\ n[2] >= agent[o[1]].cur
      /\ \A j \in Id : Exists(j) /\ j # i => hosts[j].cert # n
    BY <1>1 DEF RotationStands, TurnStands, InOrder, Exists, Served
<1>3. o[1] \in Agent /\ o[2] \in Nat /\ n[2] \in 0 .. MaxRotations /\ agent[o[1]].cur \in Nat /\ NoCert \notin RealCerts /\ astray' = astray
    BY <1>0, <1>2, CertFacts DEF SetNextFingerprint, history
<1>4. req'[r].pc = "idle" /\ \A q \in Req : q # r => req'[q] = req[q]
    BY <1>0, RowTypes DEF SetNextFingerprint, Done
<1>5. CASE hosts[i].cert = n
    <2>1. hosts' = hosts /\ agent' = [a \in Agent |-> agent[a]]
        BY <1>5 DEF SetNextFingerprint
    <2>2. agent' = agent
        BY <1>0, <2>1
    <2> QED
        BY <1>3, <2>1, <2>2, EndKeepsCerts DEF SetNextFingerprint
<1>6. CASE hosts[i].cert # n
    <2>1. hosts[i].cert = o
        BY <1>6 DEF TurnStands
    <2>2. hosts[i].next \in {NoCert, n}
        <3>1. HostStands(i)
            BY <1>2 DEF CertsStand, HostsStand
        <3> QED
            BY <1>2, <2>1, <3>1, CertFacts DEF HostStands, InOrder
    <2>3. /\ hosts'[i].next = n /\ hosts'[i].cert = o /\ hosts'[i].status = "connected"
          /\ \A j \in Id : j # i => hosts'[j] = hosts[j]
        BY <1>0, <1>2, <1>6, <2>1 DEF SetNextFingerprint, HostRow
    <2>4. \A a \in Agent : /\ agent'[a].cur = agent[a].cur
                           /\ agent'[a].acked => agent[a].acked \/ n = Cert(a, agent[a].cur + 1)
        BY <1>0, <1>2, <1>6 DEF SetNextFingerprint
    <2> HIDE DEF i, n, o
    <2>5. \A j \in Id : Exists(j)' <=> Exists(j)
        BY <1>2, <2>3 DEF Exists
    <2>6. \A c : Served(c)' <=> Served(c)
        BY <2>4, CertFacts DEF Served
    <2>7. HostsStand'
        <3>1. ASSUME NEW k \in Id, k = i PROVE HostStands(k)'
            <4>1. hosts'[k].cert = o /\ hosts'[k].next = n /\ hosts'[k].status = "connected"
                BY <2>3, <3>1
            <4>2. Served(hosts'[k].cert) /\ \A a \in Agent : agent'[a].cur = agent[a].cur
                BY <1>1, <2>4, <4>1 DEF o
            <4> QED
                BY <1>2, <1>3, <4>1, <4>2 DEF HostStands, InOrder, Served
        <3>2. ASSUME NEW j \in Id, j # i PROVE HostStands(j)'
            <4>1. HostStands(j) /\ (Exists(j) => hosts[j].cert[1] \in Agent)
                BY CertFacts DEF CertsStand, HostsStand, HostStands, Served
            <4> QED
                BY <1>3, <2>3, <2>4, <2>5, <2>6, <3>2, <4>1 DEF HostStands, InOrder
        <3> QED
            BY <3>1, <3>2 DEF HostsStand
    <2>8. PinnedApart'
        BY <1>2, <1>3, <2>1, <2>3, <2>5 DEF CertsStand, PinnedApart
    <2>9. RequestsStand'
        <3>1. ASSUME NEW q \in Req PROVE RequestStands(q)'
            <4>1. RequestStands(q) /\ (req[q].pc # "idle" => req[q].cert[1] \in Agent)
                BY CertFacts DEF CertsStand, RequestsStand, RequestStands, Served
            <4> QED
                BY <1>3, <1>4, <2>4, <2>6, <4>1 DEF RequestStands, At
        <3> QED
            BY <3>1 DEF RequestsStand
    <2>10. RotationsStand'
        <3>1. ASSUME NEW q \in Req, Turning(q)' PROVE RotationStands(q)'
            <4> DEFINE h == req[q].id
            <4>1. q # r /\ req'[q] = req[q] /\ Turning(q) /\ RotationStands(q)
                BY <1>4, <3>1 DEF Turning, CertsStand, RotationsStand
            <4>2. h \in Id /\ hosts'[h].status = "connected" /\ hosts'[h].cert = hosts[h].cert
                BY <2>1, <2>3, <4>1 DEF RotationStands
            <4>3. req[q].cert[1] \in Agent
                BY <4>1, CertFacts DEF CertsStand, RequestsStand, RequestStands, Turning, Served
            <4>4. CASE ~ TurnStands(q)
                BY <1>3, <4>1, <4>2, <4>4 DEF RotationStands
            <4>5. CASE TurnStands(q)
                <5>1. hosts[h].cert = req[q].cert \/ (hosts[h].cert = req[q].next /\ h # i /\ hosts[h].next = NoCert)
                    <6>1. SUFFICES ASSUME h = i, o = req[q].next PROVE FALSE
                        BY <2>1, <4>5 DEF TurnStands
                    <6>2. req[q].cert[1] = req[r].cert[1]
                        BY <4>5, <6>1 DEF TurnStands, InOrder, o
                    <6>3. req[q].next = n
                        BY <1>1, <4>1, <6>2 DEF CertsStand, OneTurn, n
                    <6> QED
                        BY <1>6, <2>1, <6>1, <6>3
                <5>2. \A j \in Id : Exists(j)' /\ j # h => hosts'[j].cert # req[q].next
                    BY <2>1, <2>3, <2>5, <4>5 DEF TurnStands
                <5>3. req[q].next[2] >= agent'[req[q].cert[1]].cur
                    BY <2>4, <4>3, <4>5 DEF TurnStands, InOrder
                <5>4. h # i => hosts'[h].next = hosts[h].next
                    BY <2>3, <4>2
                <5> QED
                    BY <4>1, <4>2, <4>5, <5>1, <5>2, <5>3, <5>4 DEF RotationStands, TurnStands, InOrder
            <4> QED
                BY <4>4, <4>5
        <3> QED
            BY <3>1 DEF RotationsStand, RotationStands
    <2>11. OneTurn'
        BY <1>3, <1>4 DEF CertsStand, OneTurn, Turning
    <2>12. ToldStand'
        <3>0. ASSUME NEW a \in Agent, agent'[a].acked PROVE agent[a].cur < MaxRotations
            <4>1. agent[a].cur \in 0 .. MaxRotations
                BY <1>0
            <4>2. n = Cert(a, agent[a].cur + 1) => n[2] = agent[a].cur + 1
                BY DEF Cert
            <4> QED
                BY <1>3, <2>4, <3>0, <4>1, <4>2 DEF CertsStand, ToldStand
        <3>1. ASSUME NEW a \in Agent, agent'[a].acked, a \notin astray
              PROVE  /\ agent[a].cur < MaxRotations
                     /\ \E j \in Id : hosts'[j].status = "connected" /\ hosts'[j].next = Cert(a, agent[a].cur + 1)
                     /\ \A q \in Req : Turning(q)' /\ req'[q].cert[1] = a => req'[q].next = Cert(a, agent[a].cur + 1)
            <4>0. agent[a].cur \in 0 .. MaxRotations
                BY <1>0
            <4>1. CASE agent[a].acked
                <5>1. /\ agent[a].cur < MaxRotations
                      /\ \A q \in Req : Turning(q) /\ req[q].cert[1] = a => req[q].next = Cert(a, agent[a].cur + 1)
                    BY <3>1, <4>1 DEF CertsStand, ToldStand
                <5>2. PICK j \in Id : hosts[j].status = "connected" /\ hosts[j].next = Cert(a, agent[a].cur + 1)
                    BY <3>1, <4>1 DEF CertsStand, ToldStand
                <5>3. hosts[j].next # NoCert
                    BY <4>0, <5>1, <5>2, <1>3, CertFacts
                <5>4. hosts'[j].status = "connected" /\ hosts'[j].next = hosts[j].next
                    BY <2>2, <2>3, <5>2, <5>3
                <5> QED
                    BY <1>4, <5>1, <5>2, <5>4 DEF Turning
            <4>2. CASE n = Cert(a, agent[a].cur + 1)
                <5>1. n[1] = a /\ n[2] = agent[a].cur + 1
                    BY <4>2 DEF Cert
                <5>2. agent[a].cur < MaxRotations
                    BY <1>3, <4>0, <5>1
                <5>3. \A q \in Req : Turning(q) /\ req[q].cert[1] = a => req[q].next = n
                    BY <1>1, <1>2, <3>1, <5>1 DEF CertsStand, OneTurn, n, o
                <5> QED
                    BY <1>2, <1>4, <2>3, <4>2, <5>2, <5>3 DEF Turning
            <4> QED
                BY <2>4, <3>1, <4>1, <4>2
        <3> QED
            BY <1>3, <2>4, <3>0, <3>1 DEF ToldStand
    <2>13. SwitchedStand'
        <3>1. ASSUME NEW a \in Agent \ astray, agent[a].cur > 0
              PROVE  \E j \in Id : hosts'[j].status = "connected" /\ Current(a) \in {hosts'[j].cert, hosts'[j].next}
            <4>1. PICK j \in Id : hosts[j].status = "connected" /\ Current(a) \in {hosts[j].cert, hosts[j].next}
                BY <3>1 DEF CertsStand, SwitchedStand
            <4>2. Current(a) # NoCert
                BY <1>3, CurrentIsServed DEF Served
            <4> QED
                BY <2>1, <2>2, <2>3, <4>1, <4>2
        <3>2. \A a \in Agent : Current(a)' = Current(a)
            BY <2>4 DEF Current
        <3> QED
            BY <1>3, <2>4, <3>1, <3>2 DEF SwitchedStand
    <2> QED
        BY <2>7, <2>8, <2>9, <2>10, <2>11, <2>12, <2>13 DEF CertsStand
<1> QED
    BY <1>5, <1>6

(* The announcement of any certificate, on a row whose agent is astray: no  *)
(* row that a certificate of another agent leads to is touched.             *)
LEMMA SetNextAstray ==
    ASSUME TypeOK, CertsStand, NEW r \in Req, NEW heard \in BOOLEAN, SetNextFingerprint(r, heard),
           req[r].cert[1] \in astray, req[r].next[1] \in astray, hosts[req[r].id].cert[1] \in astray
    PROVE  CertsStand'
<1> USE EnrollmentAssumption
<1> DEFINE i == req[r].id
           n == req[r].next
<1>0. /\ req \in [Req -> ReqState] /\ req[r] \in ReqState /\ hosts \in [Id -> HostRow]
      /\ agent \in [Agent -> [cur : 0 .. MaxRotations, acked : BOOLEAN]]
    BY DEF TypeOK
<1>1. Turning(r) /\ RotationStands(r)
    BY DEF SetNextFingerprint, At, Turning, CertsStand, RotationsStand
<1>2. /\ i \in Id /\ Exists(i) /\ hosts[i].status = "connected" /\ n \in RealCerts
      /\ hosts[i].cert[1] \in astray /\ n[1] \in astray /\ astray' = astray
    BY <1>1 DEF RotationStands, Exists, SetNextFingerprint, history
<1>3. n[2] \in 0 .. MaxRotations /\ NoCert \notin RealCerts
    BY <1>2, CertFacts
<1>4. req'[r].pc = "idle" /\ \A q \in Req : q # r => req'[q] = req[q]
    BY <1>0, RowTypes DEF SetNextFingerprint, Done
<1>5. /\ \A j \in Id : hosts'[j].cert = hosts[j].cert /\ hosts'[j].status = hosts[j].status
      /\ \A j \in Id : j # i => hosts'[j] = hosts[j]
      /\ hosts'[i].next = hosts[i].next \/ hosts'[i].next = n
    BY <1>0 DEF SetNextFingerprint, HostRow
<1>6. \A a \in Agent : /\ agent'[a].cur = agent[a].cur
                       /\ agent'[a].acked => agent[a].acked \/ (n = Cert(a, agent[a].cur + 1) /\ a \in astray)
    BY <1>0 DEF SetNextFingerprint
<1> HIDE DEF i, n
<1>7. \A j \in Id : Exists(j)' <=> Exists(j)
    BY <1>5 DEF Exists
<1>8. \A c : Served(c)' <=> Served(c)
    BY <1>6, CertFacts DEF Served
<1>9. HostsStand'
    <2>1. ASSUME NEW j \in Id PROVE HostStands(j)'
        <3>1. HostStands(j) /\ (Exists(j) => hosts[j].cert[1] \in Agent)
            BY CertFacts DEF CertsStand, HostsStand, HostStands, Served
        <3>2. hosts'[j].next = hosts[j].next \/ (j = i /\ hosts'[j].next = n)
            BY <1>5
        <3>3. Served(hosts[j].cert) => Served(hosts[j].cert)'
            BY <1>5, <1>6, CertFacts DEF Served
        <3> QED
            BY <1>2, <1>5, <1>6, <1>7, <3>1, <3>2, <3>3 DEF HostStands, InOrder
    <2> QED
        BY <2>1 DEF HostsStand
<1>10. PinnedApart'
    BY <1>2, <1>5, <1>7 DEF CertsStand, PinnedApart
<1>11. RequestsStand'
    <2>1. ASSUME NEW q \in Req PROVE RequestStands(q)'
        <3>1. RequestStands(q) /\ (req[q].pc # "idle" => req[q].cert[1] \in Agent)
            BY CertFacts DEF CertsStand, RequestsStand, RequestStands, Served
        <3> QED
            BY <1>2, <1>4, <1>6, <1>8, <3>1 DEF RequestStands, At
    <2> QED
        BY <2>1 DEF RequestsStand
<1>12. RotationsStand'
    <2>1. ASSUME NEW q \in Req, Turning(q)' PROVE RotationStands(q)'
        <3> DEFINE h == req[q].id
        <3>1. q # r /\ req'[q] = req[q] /\ Turning(q) /\ RotationStands(q)
            BY <1>4, <2>1 DEF Turning, CertsStand, RotationsStand
        <3>2. h \in Id /\ hosts'[h].status = "connected" /\ hosts'[h].cert = hosts[h].cert
            BY <1>5, <3>1 DEF RotationStands
        <3>3. req[q].cert[1] \in Agent
            BY <3>1, CertFacts DEF CertsStand, RequestsStand, RequestStands, Turning, Served
        <3>4. CASE hosts[h].cert[1] \in astray
            <4>1. req[q].cert[1] \in astray /\ req[q].next[1] \in astray
                BY <3>1, <3>4 DEF RotationStands, TurnStands, InOrder
            <4> QED
                BY <1>2, <3>1, <3>2, <3>4, <4>1 DEF RotationStands
        <3>5. CASE hosts[h].cert[1] \notin astray
            <4>1. TurnStands(q) /\ h # i
                BY <1>2, <3>1, <3>5 DEF RotationStands
            <4>2. hosts'[h].next = hosts[h].next
                BY <1>5, <3>2, <4>1
            <4>3. \A j \in Id : Exists(j)' /\ j # h => hosts'[j].cert # req[q].next
                BY <1>5, <1>7, <4>1 DEF TurnStands
            <4>4. req[q].next[2] >= agent'[req[q].cert[1]].cur
                BY <1>6, <3>3, <4>1 DEF TurnStands, InOrder
            <4> QED
                BY <3>1, <3>2, <4>1, <4>2, <4>3, <4>4 DEF RotationStands, TurnStands, InOrder
        <3> QED
            BY <3>4, <3>5
    <2> QED
        BY <2>1 DEF RotationsStand, RotationStands
<1>13. OneTurn'
    BY <1>2, <1>4 DEF CertsStand, OneTurn, Turning
<1>14. \A j \in Id : Exists(j) /\ hosts[j].next # NoCert /\ hosts[j].next[1] \notin astray => j # i
    BY <1>2 DEF CertsStand, HostsStand, HostStands, InOrder
<1>15. ToldStand'
    <2>1. ASSUME NEW a \in Agent, agent'[a].acked PROVE agent[a].cur < MaxRotations
        <3>1. agent[a].cur \in 0 .. MaxRotations
            BY <1>0
        <3>2. n = Cert(a, agent[a].cur + 1) => n[2] = agent[a].cur + 1
            BY DEF Cert
        <3> QED
            BY <1>3, <1>6, <2>1, <3>1, <3>2 DEF CertsStand, ToldStand
    <2>2. ASSUME NEW a \in Agent, agent'[a].acked, a \notin astray
          PROVE  /\ \E j \in Id : hosts'[j].status = "connected" /\ hosts'[j].next = Cert(a, agent[a].cur + 1)
                 /\ \A q \in Req : Turning(q)' /\ req'[q].cert[1] = a => req'[q].next = Cert(a, agent[a].cur + 1)
        <3>1. agent[a].acked
            BY <1>6, <2>2
        <3>2. PICK j \in Id : hosts[j].status = "connected" /\ hosts[j].next = Cert(a, agent[a].cur + 1)
            BY <2>2, <3>1 DEF CertsStand, ToldStand
        <3>3. hosts[j].next[1] = a /\ hosts[j].next # NoCert /\ Exists(j)
            BY <3>2 DEF Cert, NoCert, Exists
        <3>4. hosts'[j] = hosts[j]
            BY <1>5, <1>14, <2>2, <3>3
        <3> QED
            BY <1>4, <2>2, <3>1, <3>2, <3>4 DEF CertsStand, ToldStand, Turning
    <2> QED
        BY <1>2, <1>6, <2>1, <2>2 DEF ToldStand
<1>16. SwitchedStand'
    <2>1. ASSUME NEW a \in Agent \ astray, agent[a].cur > 0
          PROVE  \E j \in Id : hosts'[j].status = "connected" /\ Current(a) \in {hosts'[j].cert, hosts'[j].next}
        <3>1. PICK j \in Id : hosts[j].status = "connected" /\ Current(a) \in {hosts[j].cert, hosts[j].next}
            BY <2>1 DEF CertsStand, SwitchedStand
        <3>2. Current(a) # NoCert /\ Current(a)[1] = a
            BY <1>3, CurrentIsServed DEF Served
        <3>3. j # i
            BY <1>2, <1>14, <2>1, <3>1, <3>2 DEF Exists
        <3> QED
            BY <1>5, <3>1, <3>3
    <2>2. \A a \in Agent : Current(a)' = Current(a)
        BY <1>6 DEF Current
    <2> QED
        BY <1>2, <1>6, <2>1, <2>2 DEF SwitchedStand
<1> QED
    BY <1>9, <1>10, <1>11, <1>12, <1>13, <1>15, <1>16 DEF CertsStand

LEMMA SetNextCerts ==
    ASSUME TypeOK, CertsStand, NEW r \in Req, NEW heard \in BOOLEAN, SetNextFingerprint(r, heard)
    PROVE  CertsStand'
<1>1. Turning(r) /\ RotationStands(r)
    BY DEF SetNextFingerprint, At, Turning, CertsStand, RotationsStand
<1>2. \/ TurnStands(r) /\ req[r].cert[1] \notin astray
      \/ req[r].cert[1] \in astray /\ req[r].next[1] \in astray /\ hosts[req[r].id].cert[1] \in astray
    BY <1>1 DEF RotationStands, TurnStands, InOrder
<1> QED
    BY <1>2, SetNextInTurn, SetNextAstray

LEMMA ServeCertsStand ==
    ASSUME TypeOK, TypeOK', CertsStand, NEW r \in Req, Serve(r)
    PROVE  CertsStand'
<1> USE EnrollmentAssumption
<1>0. /\ req \in [Req -> ReqState] /\ req[r] \in ReqState
      /\ agent \in [Agent -> [cur : 0 .. MaxRotations, acked : BOOLEAN]]
    BY DEF TypeOK
<1>1. ASSUME NEW a \in Agent, Present(r, a) PROVE CertsStand'
    <2>1. /\ req'[r].cert = Current(a) /\ req'[r].pc = "promote" /\ \A q \in Req : q # r => req'[q] = req[q]
        BY <1>0, <1>1 DEF Present, NoReq
    <2>2. hosts' = hosts /\ agent' = agent /\ astray' = astray
        BY <1>1 DEF Present, history
    <2>3. RequestStands(r)' /\ ~ Turning(r)' /\ RotationStands(r)'
        BY <2>1, <2>2, CurrentIsServed DEF RequestStands, Turning, RotationStands, At, Served
    <2> QED
        BY <2>1, <2>2, <2>3, HandlerStepsCerts
<1>2. ASSUME NEW a \in Agent, NEW n \in Certs \ {NoCert}, Rotate(r, a, n) PROVE CertsStand'
    <2>1. PICK i \in Id : /\ Matches(i, Current(a))
                          /\ req' = [req EXCEPT ![r] = [NoReq EXCEPT
                                       !.pc = "check", !.cert = Current(a), !.next = n, !.id = i]]
        BY <1>2 DEF Rotate
    <2>2. /\ req'[r].cert = Current(a) /\ req'[r].pc = "check" /\ req'[r].next = n /\ req'[r].id = i
          /\ \A q \in Req : q # r => req'[q] = req[q]
        BY <1>0, <2>1 DEF NoReq
    <2>3. /\ hosts' = hosts /\ agent' = agent /\ astray \subseteq astray'
          /\ ~ InTurn(a, n) => a \in astray' /\ n[1] \in astray'
          /\ InTurn(a, n) => astray' = astray
        BY <1>2 DEF Rotate
    <2>4. /\ agent[a].cur \in 0 .. MaxRotations /\ n \in RealCerts /\ Current(a) # NoCert
          /\ Current(a)[1] = a /\ Current(a)[2] = agent[a].cur /\ Current(a) \in RealCerts
        BY <1>0, CertFacts, CurrentIsServed DEF Served
    <2>5. Exists(i) /\ HostStands(i) /\ Served(hosts[i].cert) /\ Current(a) \in {hosts[i].cert, hosts[i].next}
        BY <2>1 DEF Matches, CertsStand, HostsStand, HostStands
    <2>6. hosts[i].status = "connected"
        <3>1. PICK k \in Id : hosts[k].status = "connected" /\ hosts[k].cert = Current(a)
            BY <1>2 DEF Rotate
        <3>2. CASE hosts[i].cert = Current(a)
            BY <2>5, <3>1, <3>2 DEF CertsStand, PinnedApart, Exists
        <3>3. CASE hosts[i].next = Current(a)
            BY <2>4, <2>5, <3>3 DEF HostStands
        <3> QED
            BY <2>5, <3>2, <3>3
    <2>7. RequestStands(r)'
        BY <2>2, <2>3, CurrentIsServed DEF RequestStands, At, Served
    <2>8. a \in astray => hosts[i].cert[1] \in astray
        BY <2>4, <2>5 DEF HostStands, InOrder
    <2>9. CASE a \in astray'
        <3>1. n[1] \in astray'
            BY <2>3, <2>9, CertFacts DEF InTurn, Cert
        <3>2. hosts[i].cert[1] \in astray'
            <4>1. CASE hosts[i].cert = Current(a)
                BY <2>4, <2>9, <4>1
            <4>2. CASE hosts[i].next = Current(a)
                BY <2>3, <2>4, <2>5, <2>9, <4>2 DEF HostStands, InOrder
            <4> QED
                BY <2>5, <4>1, <4>2
        <3>3. RotationStands(r)'
            BY <2>2, <2>3, <2>4, <2>6, <2>9, <3>1, <3>2 DEF RotationStands
        <3> QED
            BY <2>2, <2>3, <2>4, <2>7, <2>9, <3>3, HandlerStepsCerts
    <2>10. CASE a \notin astray'
        <3>1. InTurn(a, n) /\ a \notin astray
            BY <2>3, <2>10
        <3>2. n = Cert(a, agent[a].cur + 1) /\ n[1] = a /\ n[2] = agent[a].cur + 1
            BY <3>1 DEF InTurn, Cert
        <3>3. \A q \in Req : Turning(q) /\ req[q].cert[1] = a => req[q].next = n
            BY <3>1 DEF InTurn, Turning
        <3>4. \A j \in Id : Exists(j) => hosts[j].cert # n
            <4>1. ASSUME NEW j \in Id, Exists(j) PROVE hosts[j].cert # n
                <5>1. hosts[j].cert \in RealCerts /\ hosts[j].cert[2] <= agent[hosts[j].cert[1]].cur
                    BY <4>1 DEF CertsStand, HostsStand, HostStands, Served
                <5> QED
                    BY <2>4, <3>2, <5>1
            <4> QED
                BY <4>1
        <3>5. hosts[i].cert = Current(a)
            <4>1. PICK k \in Id : hosts[k].status = "connected" /\ hosts[k].cert = Current(a)
                BY <1>2 DEF Rotate
            <4>2. i # k => hosts[i].next # Current(a)
                BY <2>4, <2>5, <3>1, <4>1 DEF CertsStand, PinnedApart, Exists
            <4> QED
                BY <2>5, <4>1, <4>2
        <3>6. TurnStands(r)'
            <4>1. InOrder(req[r].cert, req[r].next)'
                BY <2>2, <2>3, <2>4, <3>2 DEF InOrder
            <4> QED
                BY <2>2, <2>3, <3>4, <3>5, <4>1 DEF TurnStands, Exists
        <3>7. RotationStands(r)'
            BY <2>2, <2>3, <2>4, <2>6, <3>6 DEF RotationStands
        <3> QED
            BY <2>2, <2>3, <2>4, <2>7, <3>2, <3>3, <3>7, HandlerStepsCerts
    <2> QED
        BY <2>9, <2>10
<1>3. CASE PromoteFingerprint(r)
    BY <1>3, PromoteCerts
<1>4. CASE CheckFingerprint(r)
    <2>1. CASE Done(r)
        BY <1>4, <2>1, EndKeepsCerts DEF CheckFingerprint
    <2>2. CASE Goto(r, "setnext")
        <3>1. /\ req'[r].cert = req[r].cert /\ req'[r].pc = "setnext" /\ req'[r].next = req[r].next
              /\ req'[r].id = req[r].id /\ \A q \in Req : q # r => req'[q] = req[q]
            BY <1>0, <2>2 DEF Goto, ReqState
        <3>2. hosts' = hosts /\ agent' = agent /\ astray' = astray /\ req[r].pc = "check" /\ Turning(r)
            BY <1>4 DEF CheckFingerprint, Turning, At
        <3>3. RequestStands(r)' /\ RotationStands(r)'
            BY <3>1, <3>2 DEF CertsStand, RequestsStand, RotationsStand, RequestStands, RotationStands,
                              TurnStands, InOrder, Turning, Served, At, Exists
        <3>4. req[r].cert[1] \notin astray =>
              /\ \A q \in Req : q # r /\ Turning(q) /\ req[q].cert[1] = req[r].cert[1] => req[q].next = req[r].next
              /\ \A a \in Agent : req[r].cert[1] = a => req[r].next = Cert(a, agent[a].cur + 1) \/ ~ agent[a].acked
            BY <1>0, <3>2 DEF CertsStand, OneTurn, ToldStand
        <3> QED
            BY <3>1, <3>2, <3>3, <3>4, HandlerStepsCerts
    <2> QED
        BY <1>4, <2>1, <2>2 DEF CheckFingerprint
<1>5. ASSUME NEW heard \in BOOLEAN, SetNextFingerprint(r, heard) PROVE CertsStand'
    BY <1>5, SetNextCerts
<1> QED
    BY <1>1, <1>2, <1>3, <1>4, <1>5 DEF Serve

(* The agent switches: nothing announces the certificate it leaves.         *)
LEMMA CommitCerts ==
    ASSUME TypeOK, CertsStand, NEW a \in Agent, AgentCommits(a)
    PROVE  CertsStand'
<1> USE EnrollmentAssumption
<1> DEFINE m == agent[a].cur
           n == Cert(a, m + 1)
<1>0. agent \in [Agent -> [cur : 0 .. MaxRotations, acked : BOOLEAN]] /\ m \in Nat
    BY DEF TypeOK
<1>1. /\ hosts' = hosts /\ req' = req /\ astray' = astray /\ agent'[a].cur = m + 1 /\ ~ agent'[a].acked
      /\ \A b \in Agent : b # a => agent'[b] = agent[b]
    BY <1>0 DEF AgentCommits, history
<1>2. /\ m < MaxRotations
      /\ a \notin astray => \A r \in Req : Turning(r) /\ req[r].cert[1] = a => req[r].next = n
    BY DEF AgentCommits, CertsStand, ToldStand
<1>3. n \in RealCerts /\ n[1] = a /\ n[2] = m + 1 /\ NoCert \notin RealCerts
    BY <1>0, <1>2, CertFacts
<1>4. a \notin astray => \E j \in Id : hosts[j].status = "connected" /\ hosts[j].next = n
    BY DEF AgentCommits, CertsStand, ToldStand
<1> HIDE DEF m, n
<1>5. \A j \in Id : Exists(j) => HostStands(j) /\ hosts[j].cert \in RealCerts /\ hosts[j].cert[2] \in Nat
    BY CertFacts DEF CertsStand, HostsStand, HostStands, Served
<1>6. ASSUME a \notin astray, NEW j \in Id, hosts[j].status = "connected", hosts[j].next = n
      PROVE  hosts[j].cert[1] = a /\ hosts[j].cert[2] = m
    BY <1>0, <1>3, <1>5, <1>6 DEF HostStands, InOrder, Exists
<1>7. \A c : Served(c) => /\ c[1] \in Agent /\ c[2] \in Nat /\ Served(c)'
                          /\ c[1] = a => c[2] <= m
                          /\ c[1] # a => agent'[c[1]].cur = agent[c[1]].cur
    BY <1>0, <1>1, CertFacts DEF Served, m
<1>8. HostsStand'
    <2>1. ASSUME NEW i \in Id, Exists(i) PROVE HostStands(i)'
        <3>1. HostStands(i) /\ Served(hosts[i].cert) /\ Served(hosts[i].cert)'
            BY <1>1, <1>7, <2>1 DEF CertsStand, HostsStand, HostStands, Served
        <3>2. ASSUME hosts[i].next # NoCert, InOrder(hosts[i].cert, hosts[i].next)
              PROVE  \/ hosts[i].next[2] >= agent'[hosts[i].cert[1]].cur
                     \/ hosts[i].cert[1] \in astray /\ hosts[i].next[1] \in astray
            <4>1. CASE hosts[i].cert[1] # a \/ a \in astray
                BY <1>7, <3>1, <3>2, <4>1 DEF InOrder
            <4>2. CASE hosts[i].cert[1] = a /\ a \notin astray
                <5>1. PICK j \in Id : hosts[j].status = "connected" /\ hosts[j].next = n
                    BY <1>4, <4>2
                <5>2. hosts[j].cert \in RealCerts /\ hosts[j].cert[1] = a /\ hosts[j].cert[2] = m /\ Exists(j)
                    BY <1>5, <1>6, <4>2, <5>1 DEF Exists
                <5>3. /\ hosts[i].next \in RealCerts /\ hosts[i].next[1] = a /\ hosts[i].next[2] >= m
                      /\ hosts[i].next[2] \in Nat
                    BY <2>1, <3>1, <3>2, <4>2, CertFacts DEF HostStands, InOrder, m
                <5>4. i = j => hosts[i].next[2] = m + 1
                    BY <1>3, <5>1
                <5>5. i # j => hosts[i].next # hosts[j].cert
                    BY <2>1, <4>2, <5>2 DEF CertsStand, PinnedApart
                <5>6. i # j => hosts[i].next[2] # m
                    BY <5>2, <5>3, <5>5, CertFacts
                <5> QED
                    BY <1>0, <1>1, <4>2, <5>3, <5>4, <5>6
            <4> QED
                BY <4>1, <4>2
        <3> QED
            BY <1>1, <2>1, <3>1, <3>2 DEF HostStands, InOrder
    <2>2. ASSUME NEW i \in Id, ~ Exists(i) PROVE HostStands(i)'
        BY <1>1, <2>2 DEF HostStands, Exists
    <2> QED
        BY <2>1, <2>2 DEF HostsStand
<1>9. PinnedApart'
    BY <1>1 DEF CertsStand, PinnedApart, Exists
<1>10. RequestsStand'
    <2>1. ASSUME NEW r \in Req, req[r].pc # "idle" PROVE RequestStands(r)'
        <3>1. RequestStands(r) /\ Served(req[r].cert) /\ Served(req[r].cert)'
            BY <1>1, <1>7, <2>1 DEF CertsStand, RequestsStand, RequestStands, Served
        <3> QED
            BY <1>0, <1>1, <1>7, <2>1, <3>1 DEF RequestStands, At
    <2>2. ASSUME NEW r \in Req, req[r].pc = "idle" PROVE RequestStands(r)'
        BY <1>1, <2>2 DEF RequestStands
    <2> QED
        BY <2>1, <2>2 DEF RequestsStand
<1>11. RotationsStand'
    <2>1. ASSUME NEW r \in Req, Turning(r) PROVE RotationStands(r)'
        <3>1. RotationStands(r) /\ Served(req[r].cert)
            BY <2>1 DEF CertsStand, RotationsStand, RequestsStand, RequestStands, Turning
        <3>2. CASE ~ TurnStands(r) \/ req[r].cert[1] \in astray
            <4>1. req[r].cert[1] \in astray /\ req[r].next[1] \in astray /\ hosts[req[r].id].cert[1] \in astray
                BY <2>1, <3>1, <3>2 DEF RotationStands, TurnStands, InOrder
            <4> QED
                BY <1>1, <2>1, <3>1, <4>1 DEF RotationStands
        <3>3. CASE TurnStands(r) /\ req[r].cert[1] \notin astray
            <4>1. req[r].next[2] >= agent'[req[r].cert[1]].cur
                <5>1. CASE req[r].cert[1] = a
                    BY <1>0, <1>1, <1>2, <1>3, <2>1, <3>3, <5>1
                <5>2. CASE req[r].cert[1] # a
                    BY <1>7, <3>1, <3>3, <5>2 DEF TurnStands, InOrder
                <5> QED
                    BY <5>1, <5>2
            <4> QED
                BY <1>1, <2>1, <3>1, <3>3, <4>1 DEF RotationStands, TurnStands, InOrder, Exists
        <3> QED
            BY <3>2, <3>3
    <2>2. ASSUME NEW r \in Req, ~ Turning(r) PROVE RotationStands(r)'
        BY <1>1, <2>2 DEF RotationStands, Turning
    <2> QED
        BY <2>1, <2>2 DEF RotationsStand
<1>12. OneTurn'
    BY <1>1 DEF CertsStand, OneTurn, Turning
<1>13. ToldStand'
    BY <1>1 DEF CertsStand, ToldStand, Turning
<1>14. SwitchedStand'
    <2>1. ASSUME NEW b \in Agent \ astray, agent'[b].cur > 0
          PROVE  \E i \in Id : hosts[i].status = "connected" /\ Current(b)' \in {hosts[i].cert, hosts[i].next}
        <3>1. CASE b = a
            BY <1>1, <1>4, <2>1, <3>1 DEF Current, n
        <3>2. CASE b # a
            BY <1>1, <2>1, <3>2 DEF CertsStand, SwitchedStand, Current
        <3> QED
            BY <3>1, <3>2
    <2> QED
        BY <1>1, <2>1 DEF SwitchedStand
<1> QED
    BY <1>8, <1>9, <1>10, <1>11, <1>12, <1>13, <1>14 DEF CertsStand

LEMMA OtherCertsStand ==
    ASSUME TypeOK, CertsStand,
           Admin \/ (\E a \in Agent : AgentCommits(a) \/ AgentRestarts(a)) \/ UNCHANGED vars
    PROVE  CertsStand'
<1> USE EnrollmentAssumption
<1>0. hosts \in [Id -> HostRow] /\ agent \in [Agent -> [cur : 0 .. MaxRotations, acked : BOOLEAN]]
    BY DEF TypeOK
<1>1. ASSUME agent' = agent, req' = req, astray' = astray,
             \A j \in Id : \/ hosts'[j] = hosts[j]
                           \/ hosts[j].status # "connected" /\ hosts'[j].status = "none"
                           \/ /\ hosts'[j].status = "connected" /\ hosts'[j].cert = hosts[j].cert
                              /\ hosts'[j].next = hosts[j].next /\ Exists(j)
      PROVE  CertsStand'
    BY <1>1, RowsKeepCerts DEF Exists
<1>2. CASE UNCHANGED vars \/ \E t \in Token : CreateEnrollmentToken(t) \/ TokenExpires(t)
    BY <1>1, <1>2 DEF vars, history, CreateEnrollmentToken, TokenExpires
<1>3. ASSUME NEW i \in Id, ApproveHostHandler(i) PROVE CertsStand'
    <2>1. \A j \in Id : \/ hosts'[j] = hosts[j]
                        \/ /\ hosts'[j].status = "connected" /\ hosts'[j].cert = hosts[j].cert
                           /\ hosts'[j].next = hosts[j].next /\ Exists(j)
        BY <1>0, <1>3 DEF ApproveHostHandler, ApproveHost, HostRow
    <2> QED
        BY <1>1, <1>3, <2>1 DEF ApproveHostHandler, history
<1>4. ASSUME NEW i \in Id, RejectPendingHost(i) PROVE CertsStand'
    <2>1. \A j \in Id : \/ hosts'[j] = hosts[j]
                        \/ hosts[j].status # "connected" /\ hosts'[j].status = "none"
        BY <1>0, <1>4, RowTypes DEF RejectPendingHost, Pending
    <2> QED
        BY <1>1, <1>4, <2>1 DEF RejectPendingHost, history
<1>5. ASSUME NEW S \in SUBSET Pending, PurgeStalePending(S) PROVE CertsStand'
    <2>1. \A j \in Id : \/ hosts'[j] = hosts[j]
                        \/ hosts[j].status # "connected" /\ hosts'[j].status = "none"
        BY <1>0, <1>5, RowTypes DEF PurgeStalePending, Pending
    <2> QED
        BY <1>1, <1>5, <2>1 DEF PurgeStalePending, history
<1>6. ASSUME NEW a \in Agent, AgentCommits(a) PROVE CertsStand'
    BY <1>6, CommitCerts
<1>7. ASSUME NEW a \in Agent, AgentRestarts(a) PROVE CertsStand'
    <2>1. /\ hosts' = hosts /\ req' = req /\ astray' = astray
          /\ \A b \in Agent : agent'[b].cur = agent[b].cur /\ (agent'[b].acked => agent[b].acked)
        BY <1>0, <1>7 DEF AgentRestarts, history
    <2>2. \A c : Served(c)' <=> Served(c)
        BY <2>1, CertFacts DEF Served
    <2>3. HostsStand'
        <3>1. \A i \in Id : Exists(i) => hosts[i].cert[1] \in Agent
            BY CertFacts DEF CertsStand, HostsStand, HostStands, Served
        <3>2. \A i \in Id : HostStands(i) /\ (Exists(i)' <=> Exists(i)) /\ (Served(hosts[i].cert)' <=> Served(hosts[i].cert))
            BY <2>1, <2>2 DEF CertsStand, HostsStand, Exists, Served
        <3> QED
            BY <2>1, <3>1, <3>2 DEF HostsStand, HostStands, InOrder
    <2>4. RequestsStand'
        <3>1. \A r \in Req : req[r].pc # "idle" => req[r].cert[1] \in Agent
            BY CertFacts DEF CertsStand, RequestsStand, RequestStands, Served
        <3>2. \A r \in Req : RequestStands(r) /\ (Served(req[r].cert)' <=> Served(req[r].cert))
            BY <2>1, <2>2 DEF CertsStand, RequestsStand, Served
        <3> QED
            BY <2>1, <3>1, <3>2 DEF RequestsStand, RequestStands, At
    <2>5. RotationsStand'
        <3>1. \A r \in Req : Turning(r) => req[r].cert[1] \in Agent
            BY CertFacts DEF CertsStand, RequestsStand, RequestStands, Served, Turning
        <3> QED
            BY <2>1, <3>1 DEF CertsStand, RotationsStand, RotationStands, TurnStands, InOrder, Exists, Turning
    <2>6. PinnedApart' /\ OneTurn'
        BY <2>1 DEF CertsStand, PinnedApart, OneTurn, Exists, Turning
    <2>7. ToldStand'
        BY <2>1 DEF CertsStand, ToldStand, Turning
    <2>8. SwitchedStand'
        BY <2>1 DEF CertsStand, SwitchedStand, Current
    <2> QED
        BY <2>3, <2>4, <2>5, <2>6, <2>7, <2>8 DEF CertsStand
<1> QED
    BY <1>2, <1>3, <1>4, <1>5, <1>6, <1>7 DEF Admin

-----------------------------------------------------------------------------
(* Certificates found free.                                                 *)

LEMMA InitFreeStand == Init => FreeStand
BY RowTypes DEF Init, FreeStand, MatchedOnce, AnnouncesFree, EnrollsFree, Matches, Exists, At

(* Rows take no certificate on, and no handler finds one free.              *)
LEMMA FreeKept ==
    ASSUME FreeStand, crossed \subseteq crossed',
           \A j \in Id : Exists(j)' => Exists(j),
           \A j \in Id : Exists(j)' => /\ hosts'[j].next \in {hosts[j].next, NoCert}
                                       /\ hosts'[j].cert \in {hosts[j].cert, hosts[j].next},
           \A q \in Req : req'[q] = req[q] \/ req'[q].pc \notin {"insert", "setnext"},
           \A q \in Req : (At(q, "insert") => req[q].cert \in RealCerts) /\ (At(q, "setnext") => req[q].next \in RealCerts)
    PROVE  FreeStand'
<1>1. \A j \in Id, c \in RealCerts : Matches(j, c)' => Matches(j, c)
    BY CertFacts DEF Matches
<1>2. MatchedOnce'
    BY <1>1 DEF FreeStand, MatchedOnce
<1>3. ASSUME NEW r \in Req PROVE AnnouncesFree(r)'
    <2>1. CASE ~ At(r, "setnext")'
        BY <2>1 DEF AnnouncesFree
    <2>2. CASE At(r, "setnext")' /\ req[r].next \notin crossed'
        <3>1. req'[r] = req[r] /\ At(r, "setnext") /\ req[r].next \in RealCerts /\ AnnouncesFree(r)
            BY <2>2 DEF At, FreeStand
        <3>2. \A q \in Req : Storing(q, req[r].next)' => Storing(q, req[r].next) /\ req'[q] = req[q]
            BY <3>1 DEF Storing, At
        <3>3. \A q \in Req : At(q, "insert")' => At(q, "insert") /\ req'[q] = req[q]
            BY DEF At
        <3> QED
            BY <1>1, <2>2, <3>1, <3>2, <3>3 DEF AnnouncesFree
    <2>3. CASE req[r].next \in crossed'
        BY <2>3 DEF AnnouncesFree, At
    <2> QED
        BY <2>1, <2>2, <2>3
<1>4. ASSUME NEW r \in Req PROVE EnrollsFree(r)'
    <2>1. CASE At(r, "insert")'
        <3>1. req'[r] = req[r] /\ At(r, "insert") /\ req[r].cert \in RealCerts /\ EnrollsFree(r)
            BY <2>1 DEF At, FreeStand
        <3> QED
            BY <3>1, CertFacts DEF EnrollsFree
    <2>2. CASE ~ At(r, "insert")'
        BY <2>2 DEF EnrollsFree
    <2> QED
        BY <2>1, <2>2
<1> QED
    BY <1>2, <1>3, <1>4 DEF FreeStand

LEMMA StoresRealCerts ==
    ASSUME CertsStand
    PROVE  \A q \in Req : (At(q, "insert") => req[q].cert \in RealCerts) /\ (At(q, "setnext") => req[q].next \in RealCerts)
BY DEF CertsStand, RequestsStand, RequestStands, RotationsStand, RotationStands, Turning, Served, At

(* A handler that finds a certificate free to enroll it, while none is      *)
(* about to announce it.                                                    *)
LEMMA LookupFree ==
    ASSUME TypeOK, CertsStand, FreeStand, NEW r \in Req, UpsertLookup(r)
    PROVE  FreeStand'
<1>0. req \in [Req -> ReqState] /\ req[r] \in ReqState /\ hosts' = hosts /\ crossed \subseteq crossed'
    BY DEF TypeOK, UpsertLookup
<1>1. CASE Done(r)
    BY <1>0, <1>1, FreeKept, StoresRealCerts, RowTypes DEF Done, Exists
<1>2. CASE Goto(r, "insert") /\ ~ Known(req[r].cert)
    <2> DEFINE c == req[r].cert
    <2>1. /\ req'[r].pc = "insert" /\ req'[r].cert = c /\ \A q \in Req : q # r => req'[q] = req[q]
        BY <1>0, <1>2 DEF Goto, ReqState
    <2>2. \A q \in Req : Storing(q, c) => c \in crossed'
        BY <1>2 DEF UpsertLookup, Storing, Done, Goto
    <2>3. MatchedOnce'
        BY <1>0 DEF FreeStand, MatchedOnce, Matches, Exists
    <2>4. ASSUME NEW q \in Req PROVE AnnouncesFree(q)'
        <3>1. CASE q = r
            BY <2>1, <3>1 DEF AnnouncesFree, At
        <3>2. CASE q # r
            <4>1. AnnouncesFree(q) /\ req'[q] = req[q]
                BY <2>1, <3>2 DEF FreeStand
            <4>2. At(q, "setnext") /\ req[q].next \notin crossed' => req[q].next # c
                BY <2>2 DEF Storing
            <4>3. \A p \in Req : (At(p, "insert") /\ req[p].cert = req[q].next)' =>
                                    (At(p, "insert") /\ req[p].cert = req[q].next) \/ req[q].next = c
                BY <2>1, <4>1 DEF At
            <4>4. \A p \in Req : Storing(p, req[q].next)' => Storing(p, req[q].next) /\ req'[p] = req[p]
                BY <2>1, <4>1 DEF Storing, At
            <4>5. \A j \in Id : Matches(j, req[q].next)' => Matches(j, req[q].next)
                BY <1>0, <4>1 DEF Matches, Exists
            <4> QED
                BY <1>0, <4>1, <4>2, <4>3, <4>4, <4>5 DEF AnnouncesFree, At
        <3> QED
            BY <3>1, <3>2
    <2>5. ASSUME NEW q \in Req PROVE EnrollsFree(q)'
        <3>1. CASE q = r
            BY <1>0, <1>2, <2>1, <3>1 DEF EnrollsFree, Known, Matches, Exists
        <3>2. CASE q # r
            BY <1>0, <2>1, <3>2 DEF FreeStand, EnrollsFree, At, Exists
        <3> QED
            BY <3>1, <3>2
    <2> QED
        BY <2>3, <2>4, <2>5 DEF FreeStand
<1> QED
    BY <1>1, <1>2 DEF UpsertLookup

(* One that finds it free to announce it, while no other is about to store  *)
(* it.                                                                      *)
LEMMA CheckFree ==
    ASSUME TypeOK, CertsStand, FreeStand, NEW r \in Req, CheckFingerprint(r)
    PROVE  FreeStand'
<1>0. req \in [Req -> ReqState] /\ req[r] \in ReqState /\ hosts' = hosts /\ crossed \subseteq crossed'
    BY DEF TypeOK, CheckFingerprint
<1>1. CASE Done(r)
    BY <1>0, <1>1, FreeKept, StoresRealCerts, RowTypes DEF Done, Exists
<1>2. CASE Goto(r, "setnext") /\ ~ \E j \in Id \ {req[r].id} : Matches(j, req[r].next)
    <2> DEFINE n == req[r].next
    <2>1. /\ req'[r].pc = "setnext" /\ req'[r].next = n /\ req'[r].id = req[r].id
          /\ \A q \in Req : q # r => req'[q] = req[q]
        BY <1>0, <1>2 DEF Goto, ReqState
    <2>2. n \notin crossed' => ~ Contended(r)
        BY <1>2 DEF CheckFingerprint
    <2>3. MatchedOnce'
        BY <1>0 DEF FreeStand, MatchedOnce, Matches, Exists
    <2>4. \A q \in Req : (q # r => ~ At(q, "setnext")' \/ At(q, "setnext")) /\ (At(q, "insert")' => At(q, "insert") /\ q # r)
        BY <2>1 DEF At
    <2>5. ASSUME NEW q \in Req, At(q, "setnext")', req'[q].next \notin crossed' PROVE AnnouncesFree(q)'
        <3>1. CASE q = r
            <4>1. ~ Contended(r)
                BY <2>1, <2>2, <2>5, <3>1
            <4>2. \A j \in Id : Matches(j, n)' => j = req[r].id
                BY <1>0, <1>2, <2>1 DEF Matches, Exists
            <4>3. \A p \in Req : Storing(p, n)' => req'[p].id = req[r].id
                BY <2>1, <4>1 DEF Storing, Contended, At
            <4>4. \A p \in Req : ~ (At(p, "insert") /\ req[p].cert = n)'
                BY <2>1, <4>1 DEF Contended, At
            <4> QED
                BY <2>1, <3>1, <4>2, <4>3, <4>4 DEF AnnouncesFree, Matches, Storing, At
        <3>2. CASE q # r
            <4>1. AnnouncesFree(q) /\ req'[q] = req[q] /\ At(q, "setnext") /\ req[q].next \notin crossed
                BY <1>0, <2>1, <2>5, <3>2 DEF FreeStand, At
            <4>2. \A p \in Req : Storing(p, req[q].next)' => req'[p].id = req[q].id
                <5>1. ASSUME NEW p \in Req, p # r, Storing(p, req[q].next)' PROVE req'[p].id = req[q].id
                    BY <2>1, <4>1, <5>1 DEF AnnouncesFree, Storing, At
                <5>2. ASSUME Storing(r, req[q].next)' PROVE req'[r].id = req[q].id
                    <6>1. n = req[q].next /\ ~ Contended(r)
                        BY <2>1, <2>2, <2>5, <3>2, <5>2 DEF Storing
                    <6> QED
                        BY <2>1, <4>1, <6>1 DEF Contended, Storing
                <5> QED
                    BY <5>1, <5>2
            <4>3. \A p \in Req : ~ (At(p, "insert") /\ req[p].cert = req[q].next)'
                BY <2>1, <4>1 DEF AnnouncesFree, At
            <4>4. \A j \in Id : Matches(j, req[q].next)' => j = req[q].id
                BY <1>0, <4>1 DEF AnnouncesFree, Matches, Exists
            <4> QED
                BY <4>1, <4>2, <4>3, <4>4 DEF AnnouncesFree, Matches, Storing, At
        <3> QED
            BY <3>1, <3>2
    <2>6. ASSUME NEW q \in Req PROVE EnrollsFree(q)'
        BY <1>0, <2>1 DEF FreeStand, EnrollsFree, At, Exists
    <2>7. \A q \in Req : AnnouncesFree(q)'
        BY <2>5 DEF AnnouncesFree
    <2> QED
        BY <2>3, <2>6, <2>7 DEF FreeStand
<1> QED
    BY <1>1, <1>2 DEF CheckFingerprint

(* The row enrolled has a certificate no other row has.                     *)
LEMMA InsertFree ==
    ASSUME TypeOK, CertsStand, FreeStand, NEW r \in Req, NEW i \in Id, InsertHost(r, i)
    PROVE  FreeStand'
<1> DEFINE c == req[r].cert
<1>0. req \in [Req -> ReqState] /\ req[r] \in ReqState /\ hosts \in [Id -> HostRow] /\ crossed' = crossed
    BY DEF TypeOK, InsertHost, history
<1>1. /\ hosts'[i].status = "pending" /\ hosts'[i].cert = c /\ hosts'[i].next = NoCert
      /\ (\A j \in Id : j # i => hosts'[j] = hosts[j]) /\ ~ Exists(i)
      /\ \A j \in Id : Exists(j) => hosts[j].cert # c
    BY <1>0 DEF InsertHost, NoHost
<1>2. /\ req'[r].pc \in {"idle", "approve"} /\ \A q \in Req : q # r => req'[q] = req[q]
    BY <1>0, RowTypes DEF InsertHost, Done, ReqState
<1>3. At(r, "insert") /\ c \in RealCerts /\ EnrollsFree(r)
    BY StoresRealCerts DEF InsertHost, FreeStand
<1> HIDE DEF c
<1>4. \A d \in RealCerts, j \in Id : Matches(j, d)' => Matches(j, d) \/ (j = i /\ d = c)
    BY <1>1, CertFacts DEF Matches, Exists
<1>5. c \notin crossed => \A j \in Id : ~ Matches(j, c)
    BY <1>1, <1>3 DEF EnrollsFree, Matches, c
<1>6. MatchedOnce'
    BY <1>0, <1>4, <1>5 DEF FreeStand, MatchedOnce
<1>7. ASSUME NEW q \in Req, At(q, "setnext")', req'[q].next \notin crossed' PROVE AnnouncesFree(q)'
    <2>1. /\ q # r /\ req'[q] = req[q] /\ At(q, "setnext") /\ AnnouncesFree(q) /\ req[q].next \notin crossed
          /\ req[q].next \in RealCerts
        BY <1>0, <1>2, <1>7, StoresRealCerts DEF FreeStand, At
    <2>2. req[q].next # c
        BY <1>3, <2>1 DEF AnnouncesFree, c
    <2>3. \A j \in Id : Matches(j, req[q].next)' => j = req[q].id
        BY <1>4, <2>1, <2>2 DEF AnnouncesFree
    <2>4. \A p \in Req : Storing(p, req[q].next)' => req'[p].id = req[q].id
        BY <1>2, <2>1 DEF AnnouncesFree, Storing, At
    <2>5. \A p \in Req : ~ (At(p, "insert") /\ req[p].cert = req[q].next)'
        BY <1>2, <2>1 DEF AnnouncesFree, At
    <2> QED
        BY <2>1, <2>3, <2>4, <2>5 DEF AnnouncesFree, Matches, Storing, At
<1>8. ASSUME NEW q \in Req, At(q, "insert")' PROVE EnrollsFree(q)'
    <2>1. q # r /\ req'[q] = req[q] /\ At(q, "insert") /\ EnrollsFree(q) /\ req[q].cert \in RealCerts
        BY <1>2, <1>8, StoresRealCerts DEF FreeStand, At
    <2> QED
        BY <1>0, <1>1, <2>1, CertFacts DEF EnrollsFree, Exists
<1>9. \A q \in Req : AnnouncesFree(q)' /\ EnrollsFree(q)'
    BY <1>7, <1>8 DEF AnnouncesFree, EnrollsFree
<1> QED
    BY <1>6, <1>9 DEF FreeStand

(* So has the row that announces one.                                       *)
LEMMA SetNextFree ==
    ASSUME TypeOK, CertsStand, FreeStand, NEW r \in Req, NEW heard \in BOOLEAN, SetNextFingerprint(r, heard)
    PROVE  FreeStand'
<1> DEFINE i == req[r].id
           n == req[r].next
<1>0. req \in [Req -> ReqState] /\ req[r] \in ReqState /\ hosts \in [Id -> HostRow] /\ crossed' = crossed
    BY DEF TypeOK, SetNextFingerprint, history
<1>1. At(r, "setnext") /\ i \in Id /\ n \in RealCerts /\ AnnouncesFree(r)
    BY DEF SetNextFingerprint, At, FreeStand, CertsStand, RotationsStand, RotationStands, Turning
<1>2. /\ \A j \in Id : hosts'[j].cert = hosts[j].cert /\ hosts'[j].status = hosts[j].status
      /\ \A j \in Id : hosts'[j].next = hosts[j].next \/ (j = i /\ hosts'[j].next = n)
    BY <1>0, <1>1 DEF SetNextFingerprint, HostRow
<1>3. req'[r].pc = "idle" /\ \A q \in Req : q # r => req'[q] = req[q]
    BY <1>0, RowTypes DEF SetNextFingerprint, Done
<1> HIDE DEF i, n
<1>4. \A d \in RealCerts, j \in Id : Matches(j, d)' => Matches(j, d) \/ (j = i /\ d = n)
    BY <1>2 DEF Matches, Exists
<1>5. n \notin crossed => \A j \in Id : Matches(j, n) => j = i
    BY <1>1 DEF AnnouncesFree, i, n
<1>6. MatchedOnce'
    BY <1>0, <1>4, <1>5 DEF FreeStand, MatchedOnce
<1>7. ASSUME NEW q \in Req, At(q, "setnext")', req'[q].next \notin crossed' PROVE AnnouncesFree(q)'
    <2>1. /\ q # r /\ req'[q] = req[q] /\ At(q, "setnext") /\ AnnouncesFree(q) /\ req[q].next \notin crossed
          /\ req[q].next \in RealCerts
        BY <1>0, <1>3, <1>7, StoresRealCerts DEF FreeStand, At
    <2>2. req[q].next = n => req[q].id = i
        BY <1>1, <2>1 DEF AnnouncesFree, Storing, i, n
    <2>3. \A j \in Id : Matches(j, req[q].next)' => j = req[q].id
        BY <1>4, <2>1, <2>2 DEF AnnouncesFree
    <2>4. \A p \in Req : Storing(p, req[q].next)' => req'[p].id = req[q].id
        BY <1>3, <2>1 DEF AnnouncesFree, Storing, At
    <2>5. \A p \in Req : ~ (At(p, "insert") /\ req[p].cert = req[q].next)'
        BY <1>3, <2>1 DEF AnnouncesFree, At
    <2> QED
        BY <2>1, <2>3, <2>4, <2>5 DEF AnnouncesFree, Matches, Storing, At
<1>8. ASSUME NEW q \in Req, At(q, "insert")', req'[q].cert \notin crossed' PROVE EnrollsFree(q)'
    <2>1. q # r /\ req'[q] = req[q] /\ At(q, "insert") /\ EnrollsFree(q) /\ req[q].cert \notin crossed
        BY <1>0, <1>3, <1>8 DEF FreeStand, At
    <2>2. req[q].cert # n
        BY <1>1, <2>1 DEF AnnouncesFree, n
    <2> QED
        BY <1>2, <2>1, <2>2 DEF EnrollsFree, Exists
<1>9. \A q \in Req : AnnouncesFree(q)' /\ EnrollsFree(q)'
    BY <1>7, <1>8 DEF AnnouncesFree, EnrollsFree
<1> QED
    BY <1>6, <1>9 DEF FreeStand

LEMMA EnrollFreeStand ==
    ASSUME TypeOK, CertsStand, FreeStand, NEW r \in Req, Enroll(r)
    PROVE  FreeStand'
<1>0. req \in [Req -> ReqState] /\ req[r] \in ReqState /\ hosts \in [Id -> HostRow]
    BY DEF TypeOK
<1>1. ASSUME hosts' = hosts, crossed' = crossed, req'[r].pc \notin {"insert", "setnext"},
             \A q \in Req : q # r => req'[q] = req[q]
      PROVE  FreeStand'
    BY <1>1, FreeKept, StoresRealCerts DEF Exists
<1>2. ASSUME NEW a \in Agent, NEW t \in Token \union {NoToken}, EnrollLookup(r, a, t) PROVE FreeStand'
    <2> DEFINE pc == CASE Known(Current(a)) -> "lookup"
                       [] ~Known(Current(a)) /\ t # NoToken -> "consume"
                       [] OTHER -> IF MaxPending > 0 THEN "count" ELSE "lookup"
    <2>1. /\ req'[r] = [NoReq EXCEPT !.cert = Current(a), !.token = t, !.pc = pc]
          /\ \A q \in Req : q # r => req'[q] = req[q]
        BY <1>0, <1>2 DEF EnrollLookup
    <2>2. pc \in {"lookup", "consume", "count"}
        OBVIOUS
    <2> HIDE DEF pc
    <2> QED
        BY <1>1, <1>2, <2>1, <2>2 DEF NoReq, EnrollLookup, history
<1>3. CASE ConsumeEnrollmentToken(r) \/ CountPendingHosts(r) \/ RequestDies(r)
    <2>1. hosts' = hosts /\ crossed' = crossed
        BY <1>3 DEF ConsumeEnrollmentToken, CountPendingHosts, RequestDies, history
    <2>2. /\ Done(r) \/ Goto(r, "lookup") \/ req' = [req EXCEPT ![r].pc = "lookup", ![r].used = TRUE]
        BY <1>3 DEF ConsumeEnrollmentToken, CountPendingHosts, RequestDies
    <2>3. req'[r].pc \in {"idle", "lookup"} /\ \A q \in Req : q # r => req'[q] = req[q]
        BY <1>0, <2>2, RowTypes DEF Done, Goto, ReqState
    <2> QED
        BY <1>1, <2>1, <2>3
<1>4. CASE UpsertLookup(r)
    BY <1>4, LookupFree
<1>5. ASSUME NEW i \in Id, InsertHost(r, i) PROVE FreeStand'
    BY <1>5, InsertFree
<1>6. CASE ApproveByToken(r)
    <2>1. req'[r].pc = "idle" /\ crossed' = crossed /\ \A q \in Req : q # r => req'[q] = req[q]
        BY <1>0, <1>6, RowTypes DEF ApproveByToken, Done, history
    <2>2. \A j \in Id : Exists(j)' => Exists(j) /\ hosts'[j].cert = hosts[j].cert /\ hosts'[j].next = hosts[j].next
        BY <1>0, <1>6 DEF ApproveByToken, ApproveHost, Exists, HostRow
    <2> QED
        BY <2>1, <2>2, FreeKept, StoresRealCerts
<1> QED
    BY <1>2, <1>3, <1>4, <1>5, <1>6 DEF Enroll

LEMMA ServeFreeStand ==
    ASSUME TypeOK, CertsStand, FreeStand, NEW r \in Req, Serve(r)
    PROVE  FreeStand'
<1>0. req \in [Req -> ReqState] /\ req[r] \in ReqState /\ hosts \in [Id -> HostRow]
    BY DEF TypeOK
<1>1. ASSUME NEW a \in Agent, Present(r, a) \/ \E n \in Certs \ {NoCert} : Rotate(r, a, n) PROVE FreeStand'
    <2>1. /\ req'[r].pc \in {"promote", "check"} /\ (\A q \in Req : q # r => req'[q] = req[q])
          /\ hosts' = hosts /\ crossed' = crossed
        BY <1>0, <1>1 DEF Present, Rotate, NoReq, history
    <2> QED
        BY <2>1, FreeKept, StoresRealCerts DEF Exists
<1>2. CASE PromoteFingerprint(r)
    <2>1. req'[r].pc = "idle" /\ crossed' = crossed /\ \A q \in Req : q # r => req'[q] = req[q]
        BY <1>0, <1>2, RowTypes DEF PromoteFingerprint, Done, history
    <2>2. \A j \in Id : Exists(j)' => /\ Exists(j) /\ hosts'[j].next \in {hosts[j].next, NoCert}
                                      /\ hosts'[j].cert \in {hosts[j].cert, hosts[j].next}
        BY <1>0, <1>2 DEF PromoteFingerprint, Exists, HostRow
    <2> QED
        BY <2>1, <2>2, FreeKept, StoresRealCerts
<1>3. CASE CheckFingerprint(r)
    BY <1>3, CheckFree
<1>4. ASSUME NEW heard \in BOOLEAN, SetNextFingerprint(r, heard) PROVE FreeStand'
    BY <1>4, SetNextFree
<1> QED
    BY <1>1, <1>2, <1>3, <1>4 DEF Serve

LEMMA OtherFreeStand ==
    ASSUME TypeOK, CertsStand, FreeStand,
           Admin \/ (\E a \in Agent : AgentCommits(a) \/ AgentRestarts(a)) \/ UNCHANGED vars
    PROVE  FreeStand'
<1>0. hosts \in [Id -> HostRow] /\ req' = req /\ crossed' = crossed
    BY DEF TypeOK, Admin, CreateEnrollmentToken, TokenExpires, ApproveHostHandler, RejectPendingHost,
           PurgeStalePending, AgentCommits, AgentRestarts, vars, history
<1>1. ASSUME \A j \in Id : \/ hosts'[j].status = "none"
                           \/ Exists(j) /\ hosts'[j].cert = hosts[j].cert /\ hosts'[j].next = hosts[j].next
      PROVE  FreeStand'
    BY <1>0, <1>1, FreeKept, StoresRealCerts DEF Exists
<1>2. CASE hosts' = hosts
    BY <1>0, <1>2, FreeKept, StoresRealCerts DEF Exists
<1>3. ASSUME NEW i \in Id, ApproveHostHandler(i) PROVE FreeStand'
    BY <1>0, <1>1, <1>3 DEF ApproveHostHandler, ApproveHost, HostRow, Exists
<1>4. ASSUME NEW i \in Id, RejectPendingHost(i) PROVE FreeStand'
    BY <1>0, <1>1, <1>4, RowTypes DEF RejectPendingHost, Exists
<1>5. ASSUME NEW S \in SUBSET Pending, PurgeStalePending(S) PROVE FreeStand'
    BY <1>0, <1>1, <1>5, RowTypes DEF PurgeStalePending, Exists
<1> QED
    BY <1>2, <1>3, <1>4, <1>5 DEF Admin, CreateEnrollmentToken, TokenExpires, AgentCommits, AgentRestarts, vars

-----------------------------------------------------------------------------
(* The invariant, and what follows from it.                                 *)

LEMMA NextIInv == IInv /\ [Next]_vars => IInv'
<1> SUFFICES ASSUME IInv, [Next]_vars PROVE IInv'
    OBVIOUS
<1>1. TypeOK /\ CertsStand /\ FreeStand /\ TokensStand
    BY DEF IInv
<1>2. ASSUME NEW r \in Req, Enroll(r) PROVE IInv'
    BY <1>1, <1>2, EnrollTypeOK, EnrollCertsStand, EnrollFreeStand, EnrollTokensStand DEF IInv
<1>3. ASSUME NEW r \in Req, Serve(r) PROVE IInv'
    BY <1>1, <1>3, ServeTypeOK, ServeCertsStand, ServeFreeStand, ServeTokensStand DEF IInv
<1>4. CASE Admin \/ (\E a \in Agent : AgentCommits(a) \/ AgentRestarts(a)) \/ UNCHANGED vars
    <2>1. \A a \in Agent : agent[a].acked => agent[a].cur < MaxRotations
        BY <1>1 DEF CertsStand, ToldStand
    <2>2. UNCHANGED vars => TypeOK'
        BY <1>1 DEF TypeOK, vars
    <2>3. TypeOK'
        BY <1>1, <1>4, <2>1, <2>2, OtherTypeOK
    <2> QED
        BY <1>1, <1>4, <2>3, OtherCertsStand, OtherFreeStand, OtherTokensStand DEF IInv
<1> QED
    BY <1>2, <1>3, <1>4 DEF Next

LEMMA EnrollmentStands == Spec => []IInv
<1>1. Init => IInv
    BY InitTypeOK, InitCertsStand, InitFreeStand, InitTokensStand DEF IInv
<1> QED
    BY <1>1, NextIInv, PTL DEF Spec

(* ConsumeEnrollmentToken: "two concurrent enrollments can never both win   *)
(* the same token".  A token approves one host at most, for any number of   *)
(* enrollments at once, and however they and the tokens' expiry interleave. *)
THEOREM OneHostPerToken == Spec => []TokenApprovesOnce
<1>1. IInv => TokenApprovesOnce
    <2>1. SUFFICES ASSUME IInv, NEW t \in Token
                   PROVE  Cardinality(ApprovedBy(t)) + Cardinality(OnTheWay(t)) <= 1
        BY DEF TokenApprovesOnce, ApprovedBy, OnTheWay
    <2>2. TokenStands(t)
        BY <2>1 DEF IInv, TokensStand
    <2>3. \A S : (\A x, y \in S : x = y) => Cardinality(S) = 0 \/ Cardinality(S) = 1
        <3>1. ASSUME NEW S, \A x, y \in S : x = y PROVE Cardinality(S) = 0 \/ Cardinality(S) = 1
            <4>1. CASE S = {}
                BY <4>1, FS_EmptySet
            <4>2. CASE S # {}
                <5>1. PICK x : x \in S
                    BY <4>2
                <5>2. S = {x}
                    BY <3>1, <5>1
                <5> QED
                    BY <5>2, FS_Singleton
            <4> QED
                BY <4>1, <4>2
        <3> QED
            BY <3>1
    <2>4. Cardinality({}) = 0
        BY FS_EmptySet
    <2>5. CASE ApprovedBy(t) = {}
        BY <2>2, <2>3, <2>4, <2>5 DEF TokenStands
    <2>6. CASE OnTheWay(t) = {}
        BY <2>2, <2>3, <2>4, <2>6 DEF TokenStands
    <2> QED
        BY <2>2, <2>5, <2>6 DEF TokenStands
<1> QED
    BY <1>1, EnrollmentStands, PTL

(* rotateHandler: "a crash between the two steps can't lock an agent out".  *)
(* However announcements, promotions, answers and restarts interleave, and  *)
(* whatever certificates other agents announce, an agent with an approved   *)
(* host is known by the certificate it uses, as long as its own were        *)
(* announced by itself, one after the other.                                *)
THEOREM NobodyLockedOut == Spec => []RotationNeverLocksOut
<1>1. IInv => RotationNeverLocksOut
    <2> USE EnrollmentAssumption
    <2>1. SUFFICES ASSUME IInv, NEW a \in Agent \ astray, NEW i \in Id, NEW n \in 0 .. MaxRotations,
                          hosts[i].status = "connected", Matches(i, Cert(a, n))
                   PROVE  \E j \in Id : hosts[j].status = "connected" /\ Matches(j, Current(a))
        BY DEF RotationNeverLocksOut
    <2>2. TypeOK /\ agent[a].cur \in Nat
        BY <2>1 DEF IInv, TypeOK
    <2>3. CASE agent[a].cur > 0
        BY <2>1, <2>3 DEF IInv, CertsStand, SwitchedStand, Matches, Exists
    <2>4. CASE agent[a].cur = 0
        <3>1. Exists(i) /\ HostStands(i)
            BY <2>1 DEF IInv, CertsStand, HostsStand, Exists
        <3>2. hosts[i].cert \in RealCerts /\ hosts[i].cert[2] <= agent[hosts[i].cert[1]].cur
            BY <3>1 DEF HostStands, Served
        <3>3. hosts[i].cert[1] = a
            BY <2>1, <3>1, <3>2, CertFacts DEF HostStands, InOrder, Matches
        <3>4. hosts[i].cert[2] = 0
            BY <2>4, <3>2, <3>3, CertFacts
        <3>5. hosts[i].cert = Current(a)
            BY <2>4, <3>2, <3>3, <3>4, CertFacts DEF Current
        <3> QED
            BY <2>1, <3>1, <3>5 DEF Matches
    <2> QED
        BY <2>2, <2>3, <2>4
<1> QED
    BY <1>1, EnrollmentStands, PTL

(* SetNextFingerprint, ErrFingerprintInUse: whatever certificates requests  *)
(* announce, enroll and promote, GetHostByFingerprint finds one row at most *)
(* for each, unless two requests had both found it free before either       *)
(* stored it: the check and the write are two statements.                   *)
THEOREM CertsResolve == Spec => []OneHostPerCert
<1>1. IInv => OneHostPerCert
    <2>1. SUFFICES ASSUME IInv, NEW i \in Id, NEW j \in Id, Exists(i), Exists(j), i # j,
                          NEW c \in {hosts[i].cert, hosts[i].next} \cap {hosts[j].cert, hosts[j].next}
                   PROVE  c \in crossed \union {NoCert}
        BY DEF OneHostPerCert
    <2>2. c \in RealCerts \union {NoCert}
        BY <2>1, CertFacts DEF IInv, TypeOK, HostRow
    <2>3. Matches(i, c) /\ Matches(j, c)
        BY <2>1 DEF Matches
    <2> QED
        BY <2>1, <2>2, <2>3 DEF IInv, FreeStand, MatchedOnce
<1> QED
    BY <1>1, EnrollmentStands, PTL
=============================================================================
