--------------------------- MODULE SecretResolve ---------------------------
(***************************************************************************)
(* POST /agent/resolve: the references of one deployment, resolved one      *)
(* after the other through the stack's OpenBao connection, while            *)
(* administrators edit connection and binding, secrets are written and      *)
(* tokens revoked on the server, and other deployments resolve too.         *)
(***************************************************************************)
EXTENDS Naturals, Sequences

CONSTANTS ResolveJob,    \* requests of running deployments
          SecretPath,    \* paths references name
          MaxEdits,      \* bound: changes of connection, credentials or binding
          MaxWrites,     \* bound: new versions of secrets
          MaxLogins      \* bound: tokens OpenBao issues

ASSUME SecretResolveAssumption ==
    /\ {"file", "refused"} \intersect SecretPath = {}
    /\ {MaxEdits, MaxWrites, MaxLogins} \subseteq Nat

VARIABLES
    bound,      \* the stack's binding: whether there is one, and what it allows
    conf, cred, \* versions of the connection's row and of its credentials
    edits,
    secret,     \* OpenBao: the version of each secret
    leases,     \* OpenBao: the identity each token was given to
    revoked,    \* OpenBao: tokens no longer accepted
    tokens,     \* vaultProvider.tokens: identity -> cached token, 0 for none
    job         \* the Job of each request, and where it is

resolveVars == <<bound, conf, cred, edits, secret, leases, revoked, tokens, job>>

Ident == (0 .. MaxEdits) \X (0 .. MaxEdits)   \* Effective.Identity: config and credentials

(* Credentials are an AppRole, or, every other version here, a static token. *)
Static(id) == id[2] % 2 = 1

(* What a secrets.refs.yaml entry is: a path of the connection's scheme, a  *)
(* key of secrets.enc.yaml, or one ExpandStack or the providers refuse.     *)
EntryKind == SecretPath \union {"file", "refused"}

Unread == [got |-> FALSE, ok |-> FALSE, ver |-> 0, tok |-> 0]
NoEffective == [got |-> FALSE, ok |-> FALSE, id |-> <<0, 0>>, allow |-> {}]
NoJob == [pc |-> "idle", refs |-> <<>>, env |-> <<>>, failed |-> FALSE, eff |-> NoEffective,
          memo |-> [p \in SecretPath |-> Unread], attempt |-> 0, tok |-> 0]

Ref(j) == job[j].refs[Len(job[j].env) + 1]

-----------------------------------------------------------------------------
(* resolveHandler, Resolver.Resolve.                                        *)

StartResolve(j, refs) ==
    /\ job[j].pc \in {"idle", "failed", "answered"}
    /\ job' = [job EXCEPT ![j] = [NoJob EXCEPT !.pc = "entry", !.refs = refs]]
    /\ UNCHANGED <<bound, conf, cred, edits, secret, leases, revoked, tokens>>

(* One more entry is settled, with a value or a failure.                    *)
Settled(q, v, ok) == [q EXCEPT !.env = Append(@, v), !.failed = @ \/ ~ ok, !.pc = "entry", !.tok = 0,
                                  !.attempt = 0]

Value(path, eff, m) == [path |-> path, id |-> eff.id, allow |-> eff.allow, ver |-> m.ver, tok |-> m.tok]
NoValue == [path |-> "file", id |-> <<0, 0>>, allow |-> {}, ver |-> 0, tok |-> 0]

(* An entry that needs no connection, or gets no further.                   *)
OtherEntry(j) ==
    /\ job[j].pc = "entry" /\ Len(job[j].env) < Len(job[j].refs)
    /\ Ref(j) \in {"file", "refused"}
    /\ job' = [job EXCEPT ![j] = Settled(@, NoValue, Ref(j) = "file")]
    /\ UNCHANGED <<bound, conf, cred, edits, secret, leases, revoked, tokens>>

(* Slip: the binding is looked up again for every reference.                *)
LookedUpNever(q) == FALSE

(* Job.Effective: the binding, or the error, is looked up once.             *)
LookedUp(q) == q.eff.got

(* stackBinding: binding and connection rows ...                            *)
ReadBinding(j) ==
    /\ job[j].pc = "entry" /\ Len(job[j].env) < Len(job[j].refs) /\ Ref(j) \in SecretPath
    /\ job' = [job EXCEPT ![j] =
          IF LookedUp(@) THEN [@ EXCEPT !.pc = "allowed"]
          ELSE [@ EXCEPT !.eff = [got |-> TRUE, ok |-> bound.is, id |-> <<conf, 0>>, allow |-> bound.allow],
                         !.pc = IF bound.is THEN "creds" ELSE "allowed"]]
    /\ UNCHANGED <<bound, conf, cred, edits, secret, leases, revoked, tokens>>

(* ... then the credentials, from the other database.                       *)
ReadCredentials(j) ==
    /\ job[j].pc = "creds"
    /\ job' = [job EXCEPT ![j].eff.id = <<@[1], cred>>, ![j].pc = "allowed"]
    /\ UNCHANGED <<bound, conf, cred, edits, secret, leases, revoked, tokens>>

(* PathAllowed, then the provider; Memo answers for a path read before.     *)
CheckAllowed(j) ==
    LET q == job[j] m == q.memo[Ref(j)] IN
    /\ q.pc = "allowed"
    /\ job' = [job EXCEPT ![j] =
          IF ~ q.eff.ok \/ Ref(j) \notin q.eff.allow THEN Settled(q, NoValue, FALSE)
          ELSE IF m.got THEN Settled(q, Value(Ref(j), q.eff, m), m.ok)
          ELSE [q EXCEPT !.pc = "token"]]
    /\ UNCHANGED <<bound, conf, cred, edits, secret, leases, revoked, tokens>>

-----------------------------------------------------------------------------
(* vaultProvider.                                                           *)

(* The read of Ref(j) ended: Memo keeps it, error or not.                   *)
ReadEnds(j, ok, ver) ==
    LET m == [got |-> TRUE, ok |-> ok, ver |-> ver, tok |-> job[j].tok] IN
    job' = [job EXCEPT ![j] = Settled([@ EXCEPT !.memo[Ref(j)] = m], Value(Ref(j), @.eff, m), ok)]

(* token: the static one, or a cached login unless it was just refused.     *)
CachedToken(j) ==
    LET id == job[j].eff.id IN
    /\ job[j].pc = "token"
    /\ \/ Static(id) /\ job' = [job EXCEPT ![j].pc = "call", ![j].tok = 0]
       \/ /\ ~ Static(id) /\ job[j].attempt = 0 /\ tokens[id] # 0
          /\ job' = [job EXCEPT ![j].pc = "call", ![j].tok = tokens[id]]
    /\ UNCHANGED <<bound, conf, cred, edits, secret, leases, revoked, tokens>>

(* login, when none is cached, it has expired, or it was refused.           *)
Login(j) ==
    LET id == job[j].eff.id IN
    /\ job[j].pc = "token" /\ ~ Static(id)
    /\ \/ /\ Len(leases) < MaxLogins
          /\ leases' = Append(leases, id)
          /\ tokens' = [tokens EXCEPT ![id] = Len(leases')]
          /\ job' = [job EXCEPT ![j].pc = "call", ![j].tok = Len(leases')]
       \/ ReadEnds(j, FALSE, 0) /\ UNCHANGED <<leases, tokens>>
    /\ UNCHANGED <<bound, conf, cred, edits, secret, revoked>>

(* "logging in again once if a cached token was refused"                    *)
LogsInAgain(j) == ~ Static(job[j].eff.id) /\ job[j].attempt = 0

(* The GET: the secret's current version, a refusal, or another failure.    *)
Read(j) ==
    LET refused == job[j].tok \in revoked IN
    /\ job[j].pc = "call"
    /\ \/ ~ refused /\ ReadEnds(j, TRUE, secret[Ref(j)])
       \/ refused /\ LogsInAgain(j) /\ job' = [job EXCEPT ![j].attempt = 1, ![j].pc = "token"]
       \/ refused /\ ~ LogsInAgain(j) /\ ReadEnds(j, FALSE, 0)
       \/ ~ refused /\ ReadEnds(j, FALSE, 0)
    /\ UNCHANGED <<bound, conf, cred, edits, secret, leases, revoked, tokens>>

(* All entries settled: the environment, or nothing when one failed.        *)
Answer(j) ==
    /\ job[j].pc = "entry" /\ Len(job[j].env) = Len(job[j].refs)
    /\ job' = [job EXCEPT ![j] = IF @.failed THEN [NoJob EXCEPT !.pc = "failed"]
                                 ELSE [NoJob EXCEPT !.pc = "answered", !.env = job[j].env]]
    /\ UNCHANGED <<bound, conf, cred, edits, secret, leases, revoked, tokens>>

-----------------------------------------------------------------------------
(* What happens meanwhile.                                                  *)

(* The binding, the connection's row or its credentials are saved.          *)
Edit ==
    /\ edits < MaxEdits
    /\ edits' = edits + 1
    /\ \/ \E is \in BOOLEAN, allow \in SUBSET SecretPath :
             bound' = [is |-> is, allow |-> IF is THEN allow ELSE {}] /\ UNCHANGED <<conf, cred>>
       \/ conf' = edits' /\ UNCHANGED <<bound, cred>>
       \/ cred' = edits' /\ UNCHANGED <<bound, conf>>
    /\ UNCHANGED <<secret, leases, revoked, tokens, job>>

WriteSecret(p) ==
    /\ secret[p] < MaxWrites
    /\ secret' = [secret EXCEPT ![p] = @ + 1]
    /\ UNCHANGED <<bound, conf, cred, edits, leases, revoked, tokens, job>>

RevokeToken(t) ==
    /\ t \notin revoked
    /\ revoked' = revoked \union {t}
    /\ UNCHANGED <<bound, conf, cred, edits, secret, leases, tokens, job>>

(* A cached login is past its expiry, and dropped by the next login.        *)
TokenExpires(id) ==
    /\ tokens[id] # 0
    /\ tokens' = [tokens EXCEPT ![id] = 0]
    /\ UNCHANGED <<bound, conf, cred, edits, secret, leases, revoked, job>>

(* A resolution of another stack on the connection logs in.                 *)
OtherLogin ==
    /\ ~ Static(<<conf, cred>>)
    /\ Len(leases) < MaxLogins
    /\ leases' = Append(leases, <<conf, cred>>)
    /\ tokens' = [tokens EXCEPT ![<<conf, cred>>] = Len(leases')]
    /\ UNCHANGED <<bound, conf, cred, edits, secret, revoked, job>>

ResolveInit ==
    /\ bound = [is |-> TRUE, allow |-> SecretPath]
    /\ conf = 0 /\ cred = 0 /\ edits = 0
    /\ secret = [p \in SecretPath |-> 0]
    /\ leases = <<>> /\ revoked = {}
    /\ tokens = [id \in Ident |-> 0]
    /\ job = [j \in ResolveJob |-> NoJob]

ResolveStep(j) ==
    \/ \E refs \in EntryKind \X EntryKind : StartResolve(j, refs)
    \/ OtherEntry(j) \/ ReadBinding(j) \/ ReadCredentials(j) \/ CheckAllowed(j)
    \/ CachedToken(j) \/ Login(j) \/ Read(j) \/ Answer(j)

ResolveNext ==
    \/ \E j \in ResolveJob : ResolveStep(j)
    \/ Edit \/ OtherLogin
    \/ \E p \in SecretPath : WriteSecret(p)
    \/ \E t \in 1 .. Len(leases) : RevokeToken(t)
    \/ \E id \in Ident : TokenExpires(id)

ResolveSpec == ResolveInit /\ [][ResolveNext]_resolveVars

-----------------------------------------------------------------------------
(* Properties.                                                              *)

(* Whatever is edited, written or revoked while a deployment resolves its   *)
(* references, the environment it gets hangs together: every value came     *)
(* through one connection with one set of credentials, over a token these   *)
(* credentials were given, from a path the binding used allows; and two     *)
(* fields of one secret are of the same version of it.                      *)
OneAnswerPerJob ==
    \A j \in ResolveJob : job[j].pc = "answered" =>
        LET values == {v \in {job[j].env[k] : k \in DOMAIN job[j].env} : v.path \in SecretPath} IN
        /\ \A v \in values :
              /\ v.path \in v.allow
              /\ Static(v.id) \/ leases[v.tok] = v.id
        /\ \A v, w \in values : v.id = w.id /\ (v.path = w.path => v.ver = w.ver)
=============================================================================
