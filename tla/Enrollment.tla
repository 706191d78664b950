----------------------------- MODULE Enrollment -----------------------------
(***************************************************************************)
(* How an agent becomes a host: enrollment with or without a single-use     *)
(* token, approval, rejection and expiry, and the two-phase rotation of the *)
(* certificate an approved agent is known by.  Each handler of the agent    *)
(* channel is a goroutine whose database statements are separate steps.     *)
(***************************************************************************)
EXTENDS Naturals, FiniteSets

CONSTANTS Agent,         \* agents (one machine each)
          Id,            \* host ids: slugs of host names, with a suffix on conflict
          Token,         \* enrollment tokens
          NoToken,       \* a request without one; a host approved by nobody yet
          Req,           \* goroutines of the agent channel
          MaxPending,    \* WHARF_MAX_PENDING, 0 for no cap
          RequireToken,  \* WHARF_REQUIRE_ENROLLMENT_TOKEN
          MaxRotations,  \* bound: certificate rotations of one agent
          MaxAstray      \* bound: announcements out of turn end with so many agents astray

ASSUME EnrollmentAssumption ==
    /\ NoToken \notin Token /\ "admin" \notin Token
    /\ MaxPending \in Nat
    /\ RequireToken \in BOOLEAN
    /\ MaxRotations \in Nat /\ MaxAstray \in Nat

VARIABLES hosts,   \* hosts[i] : the row of host i (status "none": no row)
          tokens,  \* tokens[t]
          agent,   \* agent[a] : the certificate it uses, and whether the next
                   \*   one was acknowledged (the agent's own state)
          req,     \* req[r] : what goroutine r is doing, for which certificate
          crossed, \* history: certificates two requests were about to store at once
          astray   \* history: agents whose certificates were announced out of turn

vars == <<hosts, tokens, agent, req, crossed, astray>>
history == <<crossed, astray>>

(* The n-th certificate of agent a; <<>> is the empty fingerprint.           *)
Cert(a, n) == <<a, n>>
NoCert == <<>>
Certs == {Cert(a, n) : a \in Agent, n \in 0 .. MaxRotations} \union {NoCert}

HostRow == [status : {"none", "pending", "connected"}, cert : Certs, next : Certs,
            by : Token \union {NoToken, "admin"}]
NoHost == [status |-> "none", cert |-> NoCert, next |-> NoCert, by |-> NoToken]

Pc == {"idle", "consume", "count", "lookup", "insert", "approve",
       "promote", "check", "setnext"}
ReqState == [pc : Pc, cert : Certs, next : Certs, token : Token \union {NoToken},
             used : BOOLEAN, id : Id \union {NoToken}]
NoReq == [pc |-> "idle", cert |-> NoCert, next |-> NoCert, token |-> NoToken,
          used |-> FALSE, id |-> NoToken]

Exists(i) == hosts[i].status # "none"
Pending == {i \in Id : hosts[i].status = "pending"}

(* GetHostByFingerprint: the pinned certificate or the announced one.        *)
Matches(i, c) == Exists(i) /\ c \in {hosts[i].cert, hosts[i].next}
Known(c) == \E i \in Id : Matches(i, c)

At(r, pc) == req[r].pc = pc
Done(r) == req' = [req EXCEPT ![r] = NoReq]
Goto(r, pc) == req' = [req EXCEPT ![r].pc = pc]
Current(a) == Cert(a, agent[a].cur)

(* Goroutine q has found c free and is about to announce it.                *)
Storing(q, c) == At(q, "setnext") /\ req[q].next = c

(* So has another for another host, or one to enroll it.                    *)
Contended(r) ==
    \E q \in Req : \/ Storing(q, req[r].next) /\ req[q].id # req[r].id
                   \/ At(q, "insert") /\ req[q].cert = req[r].next

-----------------------------------------------------------------------------
(* enrollCreateHandler.                                                     *)

(* A known certificate is a reconnect; a new one needs a token, or room in  *)
(* the pending list where tokens are optional.                              *)
EnrollLookup(r, a, t) ==
    /\ At(r, "idle")
    /\ t # NoToken => tokens[t] # "none"
    /\ ~(RequireToken /\ t = NoToken /\ ~Known(Current(a)))
    /\ req' = [req EXCEPT ![r] = [NoReq EXCEPT
                 !.cert = Current(a), !.token = t,
                 !.pc = CASE Known(Current(a)) -> "lookup"
                          [] ~Known(Current(a)) /\ t # NoToken -> "consume"
                          [] OTHER -> IF MaxPending > 0 THEN "count" ELSE "lookup"]]
    /\ UNCHANGED <<hosts, tokens, agent, history>>

(* Slip: the UPDATE without "used_at IS NULL".                              *)
ConsumeAgain(r) ==
    /\ At(r, "consume")
    /\ IF tokens[req[r].token] \in {"valid", "used"}
       THEN /\ tokens' = [tokens EXCEPT ![req[r].token] = "used"]
            /\ req' = [req EXCEPT ![r].pc = "lookup", ![r].used = TRUE]
       ELSE Done(r) /\ UNCHANGED tokens
    /\ UNCHANGED <<hosts, agent, history>>

(* ConsumeEnrollmentToken: one UPDATE, or 401.                              *)
ConsumeEnrollmentToken(r) ==
    /\ At(r, "consume")
    /\ IF tokens[req[r].token] = "valid"
       THEN /\ tokens' = [tokens EXCEPT ![req[r].token] = "used"]
            /\ req' = [req EXCEPT ![r].pc = "lookup", ![r].used = TRUE]
       ELSE Done(r) /\ UNCHANGED tokens
    /\ UNCHANGED <<hosts, agent, history>>

CountPendingHosts(r) ==
    /\ At(r, "count")
    /\ IF Cardinality(Pending) >= MaxPending THEN Done(r) ELSE Goto(r, "lookup")
    /\ UNCHANGED <<hosts, tokens, agent, history>>

(* UpsertHostByFingerprint looks the certificate up once more ...           *)
UpsertLookup(r) ==
    /\ At(r, "lookup")
    /\ IF Known(req[r].cert)
       THEN Done(r) /\ UNCHANGED crossed
       ELSE /\ Goto(r, "insert")
            /\ crossed' = crossed \union {req[q].next : q \in {q \in Req : Storing(q, req[r].cert)}}
    /\ UNCHANGED <<hosts, tokens, agent, astray>>

(* ... and inserts a pending row under a free id; cert_fingerprint is       *)
(* UNIQUE.                                                                  *)
InsertHost(r, i) ==
    /\ At(r, "insert")
    /\ ~Exists(i)
    /\ \A j \in Id : Exists(j) => hosts[j].cert # req[r].cert
    /\ hosts' = [hosts EXCEPT ![i] = [NoHost EXCEPT !.status = "pending", !.cert = req[r].cert]]
    /\ IF req[r].used THEN req' = [req EXCEPT ![r].pc = "approve", ![r].id = i] ELSE Done(r)
    /\ UNCHANGED <<tokens, agent, history>>

(* The insert fails, or the controller stops under any handler.             *)
RequestDies(r) ==
    /\ ~At(r, "idle")
    /\ Done(r)
    /\ UNCHANGED <<hosts, tokens, agent, history>>

(* ApproveHost: whatever row has that id.                                   *)
ApproveHost(i, by) ==
    hosts' = IF Exists(i) THEN [hosts EXCEPT ![i].status = "connected", ![i].by = by] ELSE hosts

ApproveByToken(r) ==
    /\ At(r, "approve")
    /\ ApproveHost(req[r].id, req[r].token)
    /\ Done(r)
    /\ UNCHANGED <<tokens, agent, history>>

-----------------------------------------------------------------------------
(* The administrator and the purge loop.                                    *)

CreateEnrollmentToken(t) ==
    /\ tokens[t] = "none"
    /\ tokens' = [tokens EXCEPT ![t] = "valid"]
    /\ UNCHANGED <<hosts, agent, req, history>>

TokenExpires(t) ==
    /\ tokens[t] = "valid"
    /\ tokens' = [tokens EXCEPT ![t] = "expired"]
    /\ UNCHANGED <<hosts, agent, req, history>>

ApproveHostHandler(i) ==
    /\ Exists(i)
    /\ ApproveHost(i, "admin")
    /\ UNCHANGED <<tokens, agent, req, history>>

(* RejectPendingHost and PurgeStalePending: pending rows only.              *)
RejectPendingHost(i) ==
    /\ i \in Pending
    /\ hosts' = [hosts EXCEPT ![i] = NoHost]
    /\ UNCHANGED <<tokens, agent, req, history>>

PurgeStalePending(S) ==
    /\ S # {}
    /\ hosts' = [i \in Id |-> IF i \in S THEN NoHost ELSE hosts[i]]
    /\ UNCHANGED <<tokens, agent, req, history>>

-----------------------------------------------------------------------------
(* An approved agent calls.                                                 *)

(* agentAuth and verifyCaller: the certificate resolves to a host; one that *)
(* is only announced is promoted first.                                     *)
Present(r, a) ==
    /\ At(r, "idle")
    /\ \E i \in Id : /\ Matches(i, Current(a))
                     /\ hosts[i].cert # Current(a)
                     /\ req' = [req EXCEPT ![r] = [NoReq EXCEPT
                                  !.pc = "promote", !.cert = Current(a), !.id = i]]
    /\ UNCHANGED <<hosts, tokens, agent, history>>

(* PromoteFingerprint: only while it is still the announced one, and no     *)
(* other row is pinned to it.                                               *)
PromoteFingerprint(r) ==
    LET i == req[r].id
        c == req[r].cert IN
    /\ At(r, "promote")
    /\ IF Exists(i) /\ hosts[i].next = c /\ \A j \in Id \ {i} : Exists(j) => hosts[j].cert # c
       THEN hosts' = [hosts EXCEPT ![i].cert = c, ![i].next = NoCert]
       ELSE UNCHANGED hosts
    /\ Done(r)
    /\ UNCHANGED <<tokens, agent, history>>

(* An agent asks for the certificate after its own until it is told yes,    *)
(* and for no other while a request about an older one is served.           *)
InTurn(a, n) ==
    /\ n = Cert(a, agent[a].cur + 1)
    /\ \A q \in Req : req[q].pc \in {"check", "setnext"} /\ req[q].cert[1] = a => req[q].next = n

(* rotateHandler behind agentAuth: the caller is a connected host.  The     *)
(* certificate in the body can be any: the handler asks for no proof that   *)
(* the caller owns it.                                                      *)
Rotate(r, a, n) ==
    /\ At(r, "idle")
    /\ \E i \in Id : hosts[i].status = "connected" /\ hosts[i].cert = Current(a)
    /\ \E i \in Id : /\ Matches(i, Current(a))
                     /\ req' = [req EXCEPT ![r] = [NoReq EXCEPT
                                  !.pc = "check", !.cert = Current(a), !.next = n, !.id = i]]
    /\ InTurn(a, n) \/ Cardinality(astray) < MaxAstray
    /\ astray' = IF InTurn(a, n) THEN astray ELSE astray \union {a, n[1]}
    /\ UNCHANGED <<hosts, tokens, agent, crossed>>

(* Slip: the certificates other hosts have announced are not looked at.     *)
CheckPinnedOnly(r) ==
    /\ At(r, "check")
    /\ IF \E j \in Id \ {req[r].id} : Exists(j) /\ hosts[j].cert = req[r].next
       THEN Done(r) /\ UNCHANGED crossed
       ELSE /\ Goto(r, "setnext")
            /\ crossed' = IF Contended(r) THEN crossed \union {req[r].next} ELSE crossed
    /\ UNCHANGED <<hosts, tokens, agent, astray>>

(* SetNextFingerprint: no other host may have it ...                        *)
CheckFingerprint(r) ==
    /\ At(r, "check")
    /\ IF \E j \in Id \ {req[r].id} : Matches(j, req[r].next)
       THEN Done(r) /\ UNCHANGED crossed
       ELSE /\ Goto(r, "setnext")
            /\ crossed' = IF Contended(r) THEN crossed \union {req[r].next} ELSE crossed
    /\ UNCHANGED <<hosts, tokens, agent, astray>>

(* Slip: the new certificate replaces the pinned one at once.               *)
SetNextAtOnce(r, heard) ==
    LET i == req[r].id
        n == req[r].next
        ok == Exists(i) /\ hosts[i].cert # n IN
    /\ At(r, "setnext")
    /\ hosts' = IF ok THEN [hosts EXCEPT ![i].cert = n] ELSE hosts
    /\ agent' = [a \in Agent |->
          IF ok /\ heard /\ req[r].cert[1] = a /\ n = Cert(a, agent[a].cur + 1) THEN [agent[a] EXCEPT !.acked = TRUE]
          ELSE agent[a]]
    /\ Done(r)
    /\ UNCHANGED <<tokens, history>>

(* ... and it is announced, unless it is the pinned one already.  The agent *)
(* may or may not hear the answer.                                          *)
SetNextFingerprint(r, heard) ==
    LET i == req[r].id
        n == req[r].next
        ok == Exists(i) /\ hosts[i].cert # n IN
    /\ At(r, "setnext")
    /\ hosts' = IF ok THEN [hosts EXCEPT ![i].next = n] ELSE hosts
    /\ agent' = [a \in Agent |->
          IF ok /\ heard /\ req[r].cert[1] = a /\ n = Cert(a, agent[a].cur + 1) THEN [agent[a] EXCEPT !.acked = TRUE]
          ELSE agent[a]]
    /\ Done(r)
    /\ UNCHANGED <<tokens, history>>

-----------------------------------------------------------------------------
(* The agent's side of a rotation in turn: it switches once it was told yes, and a  *)
(* restart makes it ask again.                                              *)
AgentCommits(a) ==
    /\ agent[a].acked
    /\ agent' = [agent EXCEPT ![a] = [cur |-> @.cur + 1, acked |-> FALSE]]
    /\ UNCHANGED <<hosts, tokens, req, history>>

AgentRestarts(a) ==
    /\ agent[a].acked
    /\ agent' = [agent EXCEPT ![a].acked = FALSE]
    /\ UNCHANGED <<hosts, tokens, req, history>>

-----------------------------------------------------------------------------
Init ==
    /\ hosts = [i \in Id |-> NoHost]
    /\ tokens = [t \in Token |-> "none"]
    /\ agent = [a \in Agent |-> [cur |-> 0, acked |-> FALSE]]
    /\ req = [r \in Req |-> NoReq]
    /\ crossed = {} /\ astray = {}

Enroll(r) ==
    \/ \E a \in Agent, t \in Token \union {NoToken} : EnrollLookup(r, a, t)
    \/ ConsumeEnrollmentToken(r) \/ CountPendingHosts(r) \/ UpsertLookup(r)
    \/ \E i \in Id : InsertHost(r, i)
    \/ ApproveByToken(r) \/ RequestDies(r)

Serve(r) ==
    \/ \E a \in Agent : Present(r, a) \/ \E n \in Certs \ {NoCert} : Rotate(r, a, n)
    \/ PromoteFingerprint(r) \/ CheckFingerprint(r)
    \/ \E heard \in BOOLEAN : SetNextFingerprint(r, heard)

Admin ==
    \/ \E t \in Token : CreateEnrollmentToken(t) \/ TokenExpires(t)
    \/ \E i \in Id : ApproveHostHandler(i) \/ RejectPendingHost(i)
    \/ \E S \in SUBSET Pending : PurgeStalePending(S)

Next ==
    \/ \E r \in Req : Enroll(r) \/ Serve(r)
    \/ Admin
    \/ \E a \in Agent : AgentCommits(a) \/ AgentRestarts(a)

Spec == Init /\ [][Next]_vars

-----------------------------------------------------------------------------
(* Properties.                                                              *)

(* Rows, tokens and certificates stay well formed: a host has a status the  *)
(* agent channel knows and certificates its agents can hold.                *)
TypeOK ==
    /\ hosts \in [Id -> HostRow]
    /\ tokens \in [Token -> {"none", "valid", "used", "expired"}]
    /\ agent \in [Agent -> [cur : 0 .. MaxRotations, acked : BOOLEAN]]
    /\ req \in [Req -> ReqState]
    /\ crossed \subseteq Certs /\ astray \subseteq Agent

(* ConsumeEnrollmentToken: "two concurrent enrollments can never both win   *)
(* the same token": a token approves at most one host, and no other         *)
(* enrollment is on its way to being approved by it.                        *)
TokenApprovesOnce ==
    \A t \in Token :
        Cardinality({i \in Id : Exists(i) /\ hosts[i].by = t})
          + Cardinality({r \in Req : req[r].token = t /\ req[r].used}) <= 1

(* rotateHandler: "a crash between the two steps can't lock an agent out".  *)
(* However requests are retried, delayed or answered into the void, and     *)
(* whatever other agents announce, the certificate that an approved agent   *)
(* uses is one that a host row accepts, as long as its own certificates     *)
(* were announced by itself and one after the other.                        *)
RotationNeverLocksOut ==
    \A a \in Agent \ astray :
        (\E i \in Id, n \in 0 .. MaxRotations : hosts[i].status = "connected" /\ Matches(i, Cert(a, n)))
            => \E j \in Id : hosts[j].status = "connected" /\ Matches(j, Current(a))

(* SetNextFingerprint, ErrFingerprintInUse: whatever certificate a request  *)
(* announces, enrolls or promotes, one host has it at most, so the row a    *)
(* caller resolves to is not a matter of chance; unless two requests had    *)
(* both found it free before either stored it.                              *)
OneHostPerCert ==
    \A i, j \in Id : Exists(i) /\ Exists(j) /\ i # j
        => {hosts[i].cert, hosts[i].next} \cap {hosts[j].cert, hosts[j].next} \subseteq crossed \union {NoCert}

(* The same without the exception: enrollment.go, ErrFingerprintInUse "is   *)
(* returned when a rotation targets a certificate already pinned to some    *)
(* host".                                                                   *)
CertIsOneHosts ==
    \A i, j \in Id : Exists(i) /\ Exists(j) /\ i # j
        => {hosts[i].cert, hosts[i].next} \cap {hosts[j].cert, hosts[j].next} \subseteq {NoCert}

(* agent_protocol.go: WHARF_MAX_PENDING is a "cap on simultaneous pending   *)
(* rows, so an open :8443 can't be flooded".                                *)
PendingCapHolds ==
    MaxPending > 0 => Cardinality(Pending) <= MaxPending

(* enrollment.go: presenting a valid token "is equivalent to an admin       *)
(* approval": an enrollment that has used one up and ends well leaves its   *)
(* agent's host connected.                                                  *)
SpentTokenApproves ==
    [][\A r \in Req : At(r, "lookup") /\ req[r].used /\ UpsertLookup(r) /\ req'[r].pc = "idle"
          => \E i \in Id : Matches(i, req[r].cert) /\ hosts[i].status = "connected"]_vars
=============================================================================
