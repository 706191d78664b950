---------------------------- MODULE ImageUpdates ----------------------------
(***************************************************************************)
(* Image tracking for one stack (stacks share nothing here but the cache    *)
(* behind the "update available" badge, which decides nothing): the rows of *)
(* image_policies, the resync that follows every successful deployment, and *)
(* the registry poll that redeploys a service whose policy is "auto".       *)
(* How deployments are queued and claimed is DeployQueue's subject; here    *)
(* the stack has at most one under way.                                     *)
(***************************************************************************)
EXTENDS Naturals

CONSTANTS Service,     \* services of the stack's compose file
          Ref,         \* image references with a tag
          Pin,         \* an image named by digest (image@sha256:...)
          NoRef,       \* the compose file has no such service
          Compose,     \* compose files the stack can have: [Service -> reference]
          Sync,        \* syncImagePolicies goroutines that can overlap
          MaxPush,     \* bound: digests a reference ever has
          MaxCrashes,  \* bound: controller restarts
          MoveAnytime, \* may a reference move between a pull and the resync?
          Polled       \* bound: does the poll run?  All it ever does to the
                       \* rest is a Deploy of the same file.

Image == Ref \union {Pin, NoRef}

ASSUME ImageUpdatesAssumption ==
    /\ Pin \notin Ref /\ NoRef \notin Ref /\ Pin # NoRef
    /\ Compose \subseteq [Service -> Image]
    /\ MaxPush \in Nat \ {0} /\ MaxCrashes \in Nat
    /\ MoveAnytime \in BOOLEAN /\ Polled \in BOOLEAN

VARIABLES
    registry,  \* registry[r] : the digest reference r has now, a number
    rows,      \* rows[s] : the image_policies row of service s
    disk,      \* the compose file last deployed on the host
    running,   \* running[s] : the image service s runs
    dep,       \* the stack's definition, and its deployment under way
    sync,      \* sync[g] : what resync g is doing
    poll,      \* the image poll
    crashes,
    overlapped,  \* the last resync started while another one was under way
    outrun       \* services whose row got its reference while another resync
                 \* had the row, with the reference before, on its list

vars == <<registry, rows, disk, running, dep, sync, poll, crashes, overlapped, outrun>>
hostVars == <<disk, running>>
pastVars == <<overlapped, outrun>>

(* The n-th digest of a reference; <<>> for none known.                     *)
Digest(r, n) == <<r, n>>
NoDigest == <<>>
Digests == {Digest(r, n) : r \in Ref \union {Pin}, n \in 1 .. MaxPush} \union {NoDigest}

Policy == {"pinned", "auto", "propose"}
Row == [ref : Ref \union {NoRef}, policy : Policy, applied : Digests]
NoRow == [ref |-> NoRef, policy |-> "pinned", applied |-> NoDigest]
Exists(s) == rows[s].ref # NoRef

NoneSeen == [r \in Ref |-> NoDigest]
SyncState == [pc : {"idle", "upsert", "prune", "digest"}, compose : [Service -> Image],
              todo : SUBSET Service, list : [Service -> Ref \union {NoRef}], seen : [Ref -> Digests]]
NoSync == [pc |-> "idle", compose |-> [s \in Service |-> NoRef], todo |-> {},
           list |-> [s \in Service |-> NoRef], seen |-> NoneSeen]
PollState == [pc : {"idle", "check", "act"}, list : [Service -> Row],
              refs : SUBSET Ref, todo : SUBSET Service, seen : [Ref -> Digests]]
NoPoll == [pc |-> "idle", list |-> [s \in Service |-> NoRow], refs |-> {}, todo |-> {},
           seen |-> NoneSeen]

At(g, pc) == sync[g].pc = pc
Finish(g, s) == sync' = [sync EXCEPT ![g].todo = @ \ {s}]

-----------------------------------------------------------------------------
(* The registry and the host, from how this code uses them.                 *)

Push(r) ==
    /\ registry[r] < MaxPush
    /\ MoveAnytime \/ (dep.state # "pulled" /\ \A g \in Sync : At(g, "idle"))
    /\ registry' = [registry EXCEPT ![r] = @ + 1]
    /\ UNCHANGED <<rows, hostVars, dep, sync, poll, crashes, pastVars>>

Pulled(image) ==
    CASE image \in Ref -> Digest(image, registry[image])
      [] image = Pin   -> Digest(Pin, 1)
      [] OTHER         -> NoDigest

AgentDeploys ==
    /\ dep.state = "queued"
    /\ disk' = dep.compose
    /\ running' = [s \in Service |-> Pulled(dep.compose[s])]
    /\ dep' = [dep EXCEPT !.state = "pulled"]
    /\ UNCHANGED <<registry, rows, sync, poll, crashes, pastVars>>

AgentFails ==
    /\ dep.state = "queued"
    /\ dep' = [dep EXCEPT !.state = "idle"]
    /\ UNCHANGED <<registry, rows, hostVars, sync, poll, crashes, pastVars>>

-----------------------------------------------------------------------------
(* Deployments.                                                             *)

(* The stack's compose file, edited or not, is deployed by any trigger.     *)
Deploy(c) ==
    /\ dep.state = "idle"
    /\ dep' = [state |-> "queued", compose |-> c]
    /\ UNCHANGED <<registry, rows, hostVars, sync, poll, crashes, pastVars>>

(* deploymentResultHandler: a success starts a resync with the file the     *)
(* agent deployed, in a goroutine of its own.                               *)
Succeeded(g) ==
    /\ dep.state = "pulled"
    /\ At(g, "idle")
    /\ dep' = [dep EXCEPT !.state = "idle"]
    /\ sync' = [sync EXCEPT ![g] = [NoSync EXCEPT !.pc = "upsert", !.compose = dep.compose,
                                    !.todo = {s \in Service : dep.compose[s] \in Ref}]]
    /\ overlapped' = \E h \in Sync : ~At(h, "idle")
    /\ UNCHANGED <<registry, rows, hostVars, poll, crashes, outrun>>

-----------------------------------------------------------------------------
(* syncImagePolicies, a statement at a time; a Go map has no order.          *)

(* Slip: the digest survives a change of the reference.                     *)
UpsertedAnyway(row, ref) ==
    [ref |-> ref, applied |-> row.applied, policy |-> IF row.ref = NoRef THEN "pinned" ELSE row.policy]

(* UpsertImagePolicy: a new row is pinned; a known one keeps its policy,    *)
(* and its digest unless the reference changed.                             *)
Upserted(row, ref) ==
    [ref |-> ref,
     applied |-> IF row.ref = ref THEN row.applied ELSE NoDigest,
     policy |-> IF row.ref = NoRef THEN "pinned" ELSE row.policy]

(* The row of s gets reference ref from g: does another resync, which listed*)
(* the row as it was, still have a digest to write to it?                   *)
OutrunBy(g, s, ref) ==
    IF rows[s].ref = ref THEN outrun
    ELSE IF \E h \in Sync \ {g} : At(h, "digest") /\ s \in sync[h].todo
    THEN outrun \union {s}
    ELSE outrun \ {s}

SyncUpsert(g, s) ==
    /\ At(g, "upsert") /\ s \in sync[g].todo
    /\ rows' = [rows EXCEPT ![s] = Upserted(@, sync[g].compose[s])]
    /\ outrun' = OutrunBy(g, s, sync[g].compose[s])
    /\ Finish(g, s)
    /\ UNCHANGED <<registry, hostVars, dep, poll, crashes, overlapped>>

(* Slip: a service that is gone is not noticed.                             *)
StaleNever(g) == {}

(* PruneImagePolicies: every row whose service the file does not name.  A   *)
(* service with a pinned image is named, and keeps the row it had.          *)
Stale(g) == {s \in Service : Exists(s) /\ sync[g].compose[s] = NoRef}

SyncPruneSelect(g) ==
    /\ At(g, "upsert") /\ sync[g].todo = {}
    /\ sync' = [sync EXCEPT ![g].pc = "prune", ![g].todo = Stale(g)]
    /\ UNCHANGED <<registry, rows, hostVars, dep, poll, crashes, pastVars>>

SyncPrune(g, s) ==
    /\ At(g, "prune") /\ s \in sync[g].todo
    /\ rows' = [rows EXCEPT ![s] = NoRow]
    /\ outrun' = OutrunBy(g, s, NoRef)
    /\ Finish(g, s)
    /\ UNCHANGED <<registry, hostVars, dep, poll, crashes, overlapped>>

(* ListImagePoliciesForStack.                                               *)
SyncList(g) ==
    /\ At(g, "prune") /\ sync[g].todo = {}
    /\ sync' = [sync EXCEPT ![g].pc = "digest", ![g].todo = {s \in Service : Exists(s)},
                            ![g].list = [s \in Service |-> rows[s].ref]]
    /\ UNCHANGED <<registry, rows, hostVars, dep, poll, crashes, pastVars>>

(* One request to the registry for a reference this pass has not seen ...   *)
SyncDigest(g, s) ==
    LET r == sync[g].list[s] IN
    /\ At(g, "digest") /\ s \in sync[g].todo
    /\ sync[g].seen[r] = NoDigest
    /\ sync' = [sync EXCEPT ![g].seen[r] = Digest(r, registry[r])]
    /\ UNCHANGED <<registry, rows, hostVars, dep, poll, crashes, pastVars>>

SyncDigestFails(g, s) ==
    /\ At(g, "digest") /\ s \in sync[g].todo
    /\ sync[g].seen[sync[g].list[s]] = NoDigest
    /\ Finish(g, s)
    /\ UNCHANGED <<registry, rows, hostVars, dep, poll, crashes, pastVars>>

(* ... and SetAppliedDigest, on whatever row the service has by now.        *)
SetAppliedDigest(g, s) ==
    LET d == sync[g].seen[sync[g].list[s]] IN
    /\ At(g, "digest") /\ s \in sync[g].todo
    /\ d # NoDigest
    /\ rows' = IF Exists(s) THEN [rows EXCEPT ![s].applied = d] ELSE rows
    /\ Finish(g, s)
    /\ UNCHANGED <<registry, hostVars, dep, poll, crashes, pastVars>>

SyncDone(g) ==
    /\ At(g, "digest") /\ sync[g].todo = {}
    /\ sync' = [sync EXCEPT ![g] = NoSync]
    /\ UNCHANGED <<registry, rows, hostVars, dep, poll, crashes, pastVars>>

-----------------------------------------------------------------------------
(* setImagePolicyHandler.                                                   *)
SetImagePolicy(s, p) ==
    /\ Exists(s)
    /\ rows' = [rows EXCEPT ![s].policy = p]
    /\ UNCHANGED <<registry, hostVars, dep, sync, poll, crashes, pastVars>>

-----------------------------------------------------------------------------
(* pollImages, every fifteen minutes: the rows are read once.               *)

PollList ==
    /\ Polled
    /\ poll.pc = "idle"
    /\ poll' = [NoPoll EXCEPT !.pc = "check", !.list = rows,
                !.refs = {rows[s].ref : s \in {t \in Service : Exists(t) /\ rows[t].policy # "pinned"}}]
    /\ UNCHANGED <<registry, rows, hostVars, dep, sync, crashes, pastVars>>

(* First loop: one request per reference that is not pinned.                *)
PollDigest(r) ==
    /\ poll.pc = "check" /\ r \in poll.refs
    /\ poll' = [poll EXCEPT !.refs = @ \ {r}, !.seen[r] = Digest(r, registry[r])]
    /\ UNCHANGED <<registry, rows, hostVars, dep, sync, crashes, pastVars>>

PollDigestFails(r) ==
    /\ poll.pc = "check" /\ r \in poll.refs
    /\ poll' = [poll EXCEPT !.refs = @ \ {r}]
    /\ UNCHANGED <<registry, rows, hostVars, dep, sync, crashes, pastVars>>

(* Slip: a row whose digest is not known yet is left alone.                 *)
BehindIfKnown(s) ==
    LET row == poll.list[s] IN
    /\ row.ref # NoRef /\ row.policy = "auto"
    /\ row.applied # NoDigest
    /\ poll.seen[row.ref] \notin {NoDigest, row.applied}

(* Second loop: what was read in the first place decides.                   *)
Behind(s) ==
    LET row == poll.list[s] IN
    /\ row.ref # NoRef /\ row.policy = "auto"
    /\ poll.seen[row.ref] \notin {NoDigest, row.applied}

PollDecide ==
    /\ poll.pc = "check" /\ poll.refs = {}
    /\ poll' = [poll EXCEPT !.pc = "act", !.todo = {s \in Service : Behind(s)}]
    /\ UNCHANGED <<registry, rows, hostVars, dep, sync, crashes, pastVars>>

(* enqueueImageUpdate: the stack as it is, unless a deployment is under way.*)
EnqueueImageUpdate(s) ==
    /\ poll.pc = "act" /\ s \in poll.todo
    /\ dep' = IF dep.state = "idle" THEN [dep EXCEPT !.state = "queued"] ELSE dep
    /\ poll' = [poll EXCEPT !.todo = @ \ {s}]
    /\ UNCHANGED <<registry, rows, hostVars, sync, crashes, pastVars>>

PollDone ==
    /\ poll.pc = "act" /\ poll.todo = {}
    /\ poll' = NoPoll
    /\ UNCHANGED <<registry, rows, hostVars, dep, sync, crashes, pastVars>>

(* The controller stops: a resync under way is never done.                  *)
Restart ==
    /\ crashes < MaxCrashes
    /\ crashes' = crashes + 1
    /\ sync' = [g \in Sync |-> NoSync]
    /\ poll' = NoPoll
    /\ UNCHANGED <<registry, rows, hostVars, dep, pastVars>>

-----------------------------------------------------------------------------
Init ==
    /\ registry = [r \in Ref |-> 1]
    /\ rows = [s \in Service |-> NoRow]
    /\ disk = [s \in Service |-> NoRef]
    /\ running = [s \in Service |-> NoDigest]
    /\ \E c \in Compose : dep = [state |-> "idle", compose |-> c]
    /\ sync = [g \in Sync |-> NoSync]
    /\ poll = NoPoll
    /\ crashes = 0
    /\ overlapped = FALSE
    /\ outrun = {}

Resync(g) ==
    \/ \E s \in Service : \/ SyncUpsert(g, s) \/ SyncPrune(g, s) \/ SyncDigest(g, s)
                          \/ SyncDigestFails(g, s) \/ SetAppliedDigest(g, s)
    \/ SyncPruneSelect(g) \/ SyncList(g) \/ SyncDone(g)

PollImages ==
    \/ PollList \/ PollDecide \/ PollDone
    \/ \E r \in Ref : PollDigest(r) \/ PollDigestFails(r)
    \/ \E s \in Service : EnqueueImageUpdate(s)

Report == \E g \in Sync : Succeeded(g)

Next ==
    \/ \E r \in Ref : Push(r)
    \/ AgentDeploys \/ AgentFails
    \/ \E c \in Compose : Deploy(c)
    \/ Report
    \/ \E g \in Sync : Resync(g)
    \/ \E s \in Service, p \in Policy : SetImagePolicy(s, p)
    \/ PollImages
    \/ Restart

Spec == Init /\ [][Next]_vars

(* Cron ticks, goroutines go on, an agent takes what is queued and reports  *)
(* it, and neither deployments nor the registry's answers fail for ever.    *)
Fairness ==
    /\ WF_vars(PollImages) /\ \A r \in Ref : SF_vars(PollDigest(r))
    /\ \A g \in Sync : WF_vars(Resync(g))
    /\ WF_vars(Report) /\ SF_vars(AgentDeploys)
    /\ \A s \in Service : SF_vars(EnqueueImageUpdate(s) /\ dep.state = "idle")

FairSpec == Spec /\ Fairness

-----------------------------------------------------------------------------
(* Properties.                                                              *)

(* Rows, resyncs and polls stay well formed: a row has one of the three     *)
(* policies, and a digest of some reference.                                *)
TypeOK ==
    /\ registry \in [Ref -> 1 .. MaxPush]
    /\ rows \in [Service -> Row]
    /\ disk \in [Service -> Image]
    /\ running \in [Service -> Digests]
    /\ dep \in [state : {"idle", "queued", "pulled"}, compose : Compose]
    /\ sync \in [Sync -> SyncState]
    /\ poll \in PollState
    /\ crashes \in 0 .. MaxCrashes
    /\ overlapped \in BOOLEAN
    /\ outrun \subseteq Service

Describes(s) == rows[s].applied # NoDigest => rows[s].applied[1] = rows[s].ref

(* UpsertImagePolicy: when the reference changes, "applied_digest is reset  *)
(* since the old digest no longer describes what's tracked": a row never    *)
(* shows the digest of another reference than its own ...                   *)
NoForeignDigest == \A s \in Service : Describes(s)

(* ... unless a resync gave it its reference while another had yet to write *)
(* the digest of the one before: resyncs write what they looked up long     *)
(* after they listed the rows, in any order.                                *)
AppliedDescribesRef == \A s \in Service \ outrun : Describes(s)

Quiet == dep.state # "pulled" /\ \A g \in Sync : At(g, "idle")

(* syncImagePolicies runs "to keep image_policies in step with whatever's   *)
(* actually on disk now": once every resync is over, and none was cut short,*)
(* the rows are those of the services deployed, with the images they have   *)
(* there (a service whose image is named by digest keeps what row it had)...*)
NeverOutOfStep ==
    (crashes = 0 /\ Quiet) => \A s \in Service : disk[s] # Pin => rows[s].ref = disk[s]

(* ... unless the last resync started before the one before it was over: one*)
(* that starts alone brings the rows in step again, whatever earlier ones   *)
(* that overlapped had left.                                                *)
RowsMatchDisk == ~overlapped => NeverOutOfStep

(* stack_view.html: "Auto redeploys on its own when the registry moves": a  *)
(* service with that policy ends up running what its reference stands for,  *)
(* unless somebody changes its policy or image, or the reference moves on.  *)
AutoFollowsRegistry ==
    \A s \in Service, r \in Ref, n \in 1 .. MaxPush :
        (rows[s].ref = r /\ rows[s].policy = "auto" /\ registry[r] = n)
            ~> \/ running[s] = Digest(r, n)
               \/ rows[s].ref # r \/ disk[s] # r \/ rows[s].policy # "auto" \/ registry[r] # n

(* UpsertImagePolicy: a new row is "never polled until an operator opts in  *)
(* -- no surprise registry traffic"; stack_view.html: "Pinned is never      *)
(* checked".                                                                *)
PinnedIsNeverChecked ==
    [][\A g \in Sync, s \in Service :
          SyncDigest(g, s) \/ SyncDigestFails(g, s) => rows[s].policy # "pinned"]_vars
=============================================================================
