----------------------------- MODULE DeployQueue -----------------------------
(***************************************************************************)
(* The controller's deployment queue: the stacks and deployments tables of *)
(* wharf.db, the custodian's per-stack keys in keys.db, the handlers that   *)
(* enqueue, claim, finish and delete, and the agents that run what they are *)
(* handed.  Every handler is a goroutine, and each of its database calls is *)
(* a step of its own: only a single SQL statement or transaction is atomic. *)
(***************************************************************************)
EXTENDS Naturals

CONSTANTS Stack,       \* stack ids (the slug of a name, so ids come back)
          Host,        \* enrolled hosts
          None,        \* the empty string: no host assigned, no row
          Req,         \* goroutines serving the UI, webhooks and cron ticks
          Slot,        \* command polls of one host that can overlap
          MaxDeps,     \* bound: deployments ever queued
          MaxCrashes   \* bound: controller restarts

ASSUME DeployQueueAssumption ==
    /\ None \notin Stack \union Host
    /\ MaxDeps \in Nat
    /\ MaxCrashes \in Nat

Dep      == 1 .. MaxDeps
HostId   == Host \union {None}
Finished == {"succeeded", "failed"}
Busy     == {"queued", "running"}

VARIABLES
    stacks,     \* ids with a row in stacks
    stackHost,  \* stackHost[s] : the row's host column
    keys,       \* stack ids with key material in the custodian
    deps,       \* deps[d] : the d-th row ever inserted into deployments; the
                \*   columns of a deleted row (status "none") are what a handler
                \*   or an agent that read it before still goes by
    nextDep,    \* number of the next row
    req,        \* req[r] : what goroutine r is doing
    poll,       \* poll[h][i] : an open GET /agent/commands of host h
    handed,     \* deployments whose command reached the agent
    outcome,    \* outcome[d] : how d ended on the agent
    up,         \* up[s] : hosts on which containers of stack s run
    crashes     \* restarts so far

vars == <<stacks, stackHost, keys, deps, nextDep, req, poll, handed, outcome,
          up, crashes>>
agentVars == <<handed, outcome, up>>
stackVars == <<stacks, stackHost, keys>>
depVars   == <<deps, nextDep>>

-----------------------------------------------------------------------------
(* Rows and goroutines.                                                    *)

Row == [stack : Stack \union {None}, host : HostId,
        action : {"up", "down"}, status : {"none"} \union Busy \union Finished]
NoRow == [stack |-> None, host |-> None, action |-> "up", status |-> "none"]

(* The handlers that touch a stack: "Deploy now", "Undeploy", the webhook   *)
(* receiver, the Git poller, "Apply" on an image update, the image poller's *)
(* automatic update, "Delete" and the creation form.                        *)
Enqueuers == {"deploy", "undeploy", "webhook", "polling", "apply", "auto"}
Kind == Enqueuers \union {"delete", "create"}

ReqState == [pc : {"idle", "load", "check", "enqueue", "delkeys", "delrow", "insert"},
             kind : Kind, stack : Stack \union {None}, host : HostId]
NoReq == [pc |-> "idle", kind |-> "deploy", stack |-> None, host |-> None]

PollState == [pc : {"idle", "selected", "claimed"}, dep : Nat]
NoPoll == [pc |-> "idle", dep |-> 0]

Exists(d)  == deps[d].status # "none"
RowsOf(s)  == {d \in Dep : Exists(d) /\ deps[d].stack = s}

(* Slip: nothing is handed out while the host has a deployment running.     *)
QueueOfIdle(h) == {d \in Dep : /\ deps[d].host = h /\ deps[d].status = "queued"
                               /\ \A e \in Dep : deps[e].host = h => deps[e].status # "running"}

(* The queue of a host.                                                     *)
QueueOf(h) == {d \in Dep : deps[d].host = h /\ deps[d].status = "queued"}

(* LatestDeploymentForStack: the newest row of s, none for a stack that was  *)
(* never deployed, and then its callers do not refuse.                      *)
LatestOf(s) == {d \in RowsOf(s) : \A e \in RowsOf(s) : e <= d}

LatestBusy(s) == \E d \in LatestOf(s) : deps[d].status \in Busy
LatestUp(s)   == \E d \in LatestOf(s) : deps[d].action = "up" /\ deps[d].status = "succeeded"

Done(r) == req' = [req EXCEPT ![r] = NoReq]
Goto(r, pc) == req' = [req EXCEPT ![r].pc = pc]
PollTo(h, i, x) == poll' = [poll EXCEPT ![h][i] = x]
Deleted(row) == [row EXCEPT !.status = "none"]

-----------------------------------------------------------------------------
(* Handlers that enqueue.                                                   *)

(* Every enqueuing handler but the image poller opens with GetStack; the    *)
(* Git poller alone does not look at the host.  The host read here is the   *)
(* one that is enqueued, whatever happens to the stack meanwhile.           *)
LoadStack(r, k, s) ==
    /\ req[r].pc = "idle"
    /\ k \in Enqueuers \ {"auto"}
    /\ s \in stacks
    /\ k # "polling" => stackHost[s] # None
    /\ req' = [req EXCEPT ![r] = [pc |-> IF k = "apply" THEN "check" ELSE "enqueue",
                                  kind |-> k, stack |-> s, host |-> stackHost[s]]]
    /\ UNCHANGED <<stackVars, depVars, poll, agentVars, crashes>>

(* applyImageUpdateHandler goes on only when nothing is in progress.        *)
ApplyCheck(r) ==
    /\ req[r].kind = "apply" /\ req[r].pc = "check"
    /\ IF LatestBusy(req[r].stack) THEN Done(r) ELSE Goto(r, "enqueue")
    /\ UNCHANGED <<stackVars, depVars, poll, agentVars, crashes>>

(* enqueueImageUpdate asks the same two questions in the other order.       *)
AutoCheck(r, s) ==
    /\ req[r].pc = "idle"
    /\ ~LatestBusy(s)
    /\ req' = [req EXCEPT ![r] = [pc |-> "load", kind |-> "auto", stack |-> s, host |-> None]]
    /\ UNCHANGED <<stackVars, depVars, poll, agentVars, crashes>>

AutoLoad(r) ==
    LET s == req[r].stack IN
    /\ req[r].kind = "auto" /\ req[r].pc = "load"
    /\ IF s \in stacks /\ stackHost[s] # None
       THEN req' = [req EXCEPT ![r].pc = "enqueue", ![r].host = stackHost[s]]
       ELSE Done(r)
    /\ UNCHANGED <<stackVars, depVars, poll, agentVars, crashes>>

(* EnqueueDeployment: one INSERT, that asks nothing of the stacks table.    *)
EnqueueDeployment(r) ==
    /\ req[r].pc = "enqueue"
    /\ nextDep \in Dep
    /\ deps' = [deps EXCEPT ![nextDep] =
                  [stack |-> req[r].stack, host |-> req[r].host, status |-> "queued",
                   action |-> IF req[r].kind = "undeploy" THEN "down" ELSE "up"]]
    /\ nextDep' = nextDep + 1
    /\ Done(r)
    /\ UNCHANGED <<stackVars, poll, agentVars, crashes>>

(* The insert fails (a writer that outlasts busy_timeout): the request ends. *)
EnqueueFails(r) ==
    /\ req[r].pc = "enqueue"
    /\ Done(r)
    /\ UNCHANGED <<stackVars, depVars, poll, agentVars, crashes>>

-----------------------------------------------------------------------------
(* Creating and deleting a stack: two databases, no common transaction.     *)

(* createStackHandler: the key pair first.  GenerateKeypair is a plain      *)
(* INSERT, so an id that already has one ends the request here.             *)
CreateKeys(r, s) ==
    /\ req[r].pc = "idle"
    /\ s \notin keys
    /\ keys' = keys \union {s}
    /\ req' = [req EXCEPT ![r] = [pc |-> "insert", kind |-> "create", stack |-> s, host |-> None]]
    /\ UNCHANGED <<stacks, stackHost, depVars, poll, agentVars, crashes>>

(* Then the row.  The insert fails when the id has a row.                   *)
CreateRow(r, h) ==
    LET s == req[r].stack IN
    /\ req[r].pc = "insert"
    /\ s \notin stacks
    /\ stacks' = stacks \union {s}
    /\ stackHost' = [stackHost EXCEPT ![s] = h]
    /\ Done(r)
    /\ UNCHANGED <<keys, depVars, poll, agentVars, crashes>>

(* A create that stops half-way: an unknown Git connection, a failed        *)
(* encryption or key generation, or the insert's conflict.  The keys stay.  *)
CreateFails(r) ==
    /\ req[r].pc = "insert"
    /\ Done(r)
    /\ UNCHANGED <<stackVars, depVars, poll, agentVars, crashes>>

(* deleteStackHandler: GetStack, then the newest deployment decides.        *)
DeleteLoad(r, s) ==
    /\ req[r].pc = "idle"
    /\ s \in stacks
    /\ req' = [req EXCEPT ![r] = [pc |-> "check", kind |-> "delete", stack |-> s, host |-> None]]
    /\ UNCHANGED <<stackVars, depVars, poll, agentVars, crashes>>

DeleteCheck(r) ==
    LET s == req[r].stack IN
    /\ req[r].kind = "delete" /\ req[r].pc = "check"
    /\ IF LatestBusy(s) \/ LatestUp(s) THEN Done(r) ELSE Goto(r, "delkeys")
    /\ UNCHANGED <<stackVars, depVars, poll, agentVars, crashes>>

(* DeleteStackKeys, in the custodian's database, where the credentials of   *)
(* the stack's own secret connections go as well (they are not modelled).   *)
DeleteKeys(r) ==
    /\ req[r].pc = "delkeys"
    /\ keys' = keys \ {req[r].stack}
    /\ Goto(r, "delrow")
    /\ UNCHANGED <<stacks, stackHost, depVars, poll, agentVars, crashes>>

(* DeleteStack: one transaction, rolled back when the row is already gone.  *)
DeleteRow(r) ==
    LET s == req[r].stack IN
    /\ req[r].pc = "delrow"
    /\ IF s \in stacks
       THEN /\ stacks' = stacks \ {s}
            /\ deps' = [d \in Dep |-> IF deps[d].stack = s
                                       THEN Deleted(deps[d]) ELSE deps[d]]
       ELSE UNCHANGED <<stacks, deps>>
    /\ Done(r)
    /\ UNCHANGED <<stackHost, keys, nextDep, poll, agentVars, crashes>>

-----------------------------------------------------------------------------
(* The agent's command poll.                                                *)

(* Slip: ORDER BY rowid DESC, as in LatestDeploymentForStack.               *)
ClaimSelectNewest(h, i) ==
    /\ poll[h][i].pc = "idle"
    /\ \E d \in QueueOf(h) :
          /\ \A e \in QueueOf(h) : e <= d
          /\ PollTo(h, i, [pc |-> "selected", dep |-> d])
    /\ UNCHANGED <<stackVars, depVars, req, agentVars, crashes>>

(* ClaimNextDeployment, first statement: the oldest queued row of the host. *)
ClaimSelect(h, i) ==
    /\ poll[h][i].pc = "idle"
    /\ \E d \in QueueOf(h) :
          /\ \A e \in QueueOf(h) : d <= e
          /\ PollTo(h, i, [pc |-> "selected", dep |-> d])
    /\ UNCHANGED <<stackVars, depVars, req, agentVars, crashes>>

(* Slip: an UPDATE by id alone, without status = 'queued'.                  *)
ClaimUpdateById(h, i) ==
    LET d == poll[h][i].dep IN
    /\ poll[h][i].pc = "selected"
    /\ deps' = [deps EXCEPT ![d].status = "running"]
    /\ PollTo(h, i, [pc |-> "claimed", dep |-> d])
    /\ UNCHANGED <<stackVars, nextDep, req, agentVars, crashes>>

(* Second statement: UPDATE ... WHERE status = 'queued'.  No row changed    *)
(* means another poll, or a delete, was faster: 204, nothing to do.         *)
ClaimUpdate(h, i) ==
    LET d == poll[h][i].dep IN
    /\ poll[h][i].pc = "selected"
    /\ IF deps[d].status = "queued"
       THEN /\ deps' = [deps EXCEPT ![d].status = "running"]
            /\ PollTo(h, i, [pc |-> "claimed", dep |-> d])
       ELSE /\ PollTo(h, i, NoPoll)
            /\ UNCHANGED deps
    /\ UNCHANGED <<stackVars, nextDep, req, agentVars, crashes>>

(* Slip: a status the rest of the code does not know.                       *)
CompleteDeploymentOther(d, s) ==
    deps' = IF Exists(d) THEN [deps EXCEPT ![d].status = "done"] ELSE deps

(* CompleteDeployment: any row with that id, whatever its status.           *)
CompleteDeployment(d, s) ==
    deps' = IF Exists(d) THEN [deps EXCEPT ![d].status = s] ELSE deps

(* commandsHandler cannot build the command: the stack is gone, or, for     *)
(* anything but a teardown, a credential or secret is missing or the agent  *)
(* is too old.  The deployment is failed on the spot and nothing is sent.   *)
CommandFails(h, i) ==
    LET d == poll[h][i].dep IN
    /\ poll[h][i].pc = "claimed"
    /\ deps[d].stack \notin stacks \/ deps[d].action # "down"
    /\ CompleteDeployment(d, "failed")
    /\ PollTo(h, i, NoPoll)
    /\ UNCHANGED <<stackVars, nextDep, req, agentVars, crashes>>

(* The command is written, and reaches the agent.                           *)
CommandSent(h, i) ==
    LET d == poll[h][i].dep IN
    /\ poll[h][i].pc = "claimed"
    /\ deps[d].stack \in stacks
    /\ handed' = handed \union {d}
    /\ PollTo(h, i, NoPoll)
    /\ UNCHANGED <<stackVars, depVars, req, outcome, up, crashes>>

(* The command is written to a connection the agent has given up on, or the *)
(* claimed row was deleted before the handler read it back.                 *)
CommandLost(h, i) ==
    /\ poll[h][i].pc = "claimed"
    /\ PollTo(h, i, NoPoll)
    /\ UNCHANGED <<stackVars, depVars, req, agentVars, crashes>>

-----------------------------------------------------------------------------
(* The agent (a separate program), as far as this code sees it.             *)

(* docker compose up or down; a failed one may leave things as they were.   *)
AgentRuns(d, s) ==
    /\ d \in handed
    /\ outcome[d] = "none"
    /\ outcome' = [outcome EXCEPT ![d] = s]
    /\ UNCHANGED <<stackVars, depVars, req, poll, handed, crashes>>
    /\ IF s = "succeeded"
       THEN up' = [up EXCEPT ![deps[d].stack] =
                      IF deps[d].action = "up" THEN @ \union {deps[d].host}
                                               ELSE @ \ {deps[d].host}]
       ELSE UNCHANGED up

(* deploymentResultHandler: the agent reports, again when it saw no answer. *)
ReportResult(d) ==
    /\ outcome[d] # "none"
    /\ Exists(d)
    /\ CompleteDeployment(d, outcome[d])
    /\ UNCHANGED <<stackVars, nextDep, req, poll, agentVars, crashes>>

(* The controller stops and starts: goroutines are gone, tables stay.       *)
Restart ==
    /\ crashes < MaxCrashes
    /\ crashes' = crashes + 1
    /\ req' = [r \in Req |-> NoReq]
    /\ poll' = [h \in Host |-> [i \in Slot |-> NoPoll]]
    /\ UNCHANGED <<stackVars, depVars, agentVars>>

-----------------------------------------------------------------------------
Init ==
    /\ stacks = {}
    /\ stackHost = [s \in Stack |-> None]
    /\ keys = {}
    /\ deps = [d \in Dep |-> NoRow]
    /\ nextDep = 1
    /\ req = [r \in Req |-> NoReq]
    /\ poll = [h \in Host |-> [i \in Slot |-> NoPoll]]
    /\ handed = {}
    /\ outcome = [d \in Dep |-> "none"]
    /\ up = [s \in Stack |-> {}]
    /\ crashes = 0

Handler(r) ==
    \/ \E k \in Kind, s \in Stack : LoadStack(r, k, s)
    \/ \E s \in Stack : AutoCheck(r, s) \/ CreateKeys(r, s) \/ DeleteLoad(r, s)
    \/ ApplyCheck(r) \/ AutoLoad(r) \/ EnqueueDeployment(r) \/ EnqueueFails(r)
    \/ \E h \in HostId : CreateRow(r, h)
    \/ CreateFails(r)
    \/ DeleteCheck(r) \/ DeleteKeys(r) \/ DeleteRow(r)

Commands(h, i) ==
    \/ ClaimSelect(h, i) \/ ClaimUpdate(h, i)
    \/ CommandFails(h, i) \/ CommandSent(h, i) \/ CommandLost(h, i)

Agent == \E d \in Dep : (\E s \in Finished : AgentRuns(d, s)) \/ ReportResult(d)

Next ==
    \/ \E r \in Req : Handler(r)
    \/ \E h \in Host, i \in Slot : Commands(h, i)
    \/ Agent
    \/ Restart

Spec == Init /\ [][Next]_vars

(* An approved agent polls for commands for as long as it lives, and a      *)
(* handler that has started runs to its end.                                *)
Fairness == \A h \in Host, i \in Slot : WF_vars(Commands(h, i))

FairSpec == Spec /\ Fairness

(* And an agent that does run what it is handed and reports it.             *)
HonestAgent ==
    \A d \in Dep : /\ WF_vars(\E s \in Finished : AgentRuns(d, s))
                   /\ WF_vars(ReportResult(d))

HonestAgentSpec == FairSpec /\ HonestAgent

-----------------------------------------------------------------------------
(* The inductive invariant behind the theorems of DeployQueueProofs.         *)

(* Rows not inserted yet have left no trace. *)
FreshRows ==
    \A d \in Dep : d >= nextDep =>
        deps[d].status = "none" /\ outcome[d] = "none" /\ d \notin handed

(* A goroutine at work has a stack, and so has every row that reached an    *)
(* agent, with a host to run on.                                            *)
RequestHasStack ==
    \A r \in Req : req[r].pc # "idle" => req[r].stack \in Stack

HandedHasHost ==
    \A d \in handed : deps[d].host \in Host

(* A poll works on a row of its own host. *)
PollOwnsRow ==
    \A h \in Host, i \in Slot : poll[h][i].pc # "idle" =>
        /\ poll[h][i].dep \in Dep
        /\ poll[h][i].dep < nextDep
        /\ deps[poll[h][i].dep].host = h

(* What a poll has selected stays at the front of the queue or leaves it:   *)
(* nothing older can be queued any more.                                    *)
SelectedIsOldest ==
    \A h \in Host, i \in Slot : poll[h][i].pc = "selected" =>
        \A e \in Dep : e < poll[h][i].dep /\ deps[e].host = h => deps[e].status # "queued"

(* A claimed row is running or deleted, and the agent has not seen it.      *)
ClaimedIsRunning ==
    \A h \in Host, i \in Slot : poll[h][i].pc = "claimed" =>
        /\ deps[poll[h][i].dep].status \in {"running", "none"}
        /\ poll[h][i].dep \notin handed

ClaimedOnce ==
    \A h \in Host, i, j \in Slot :
        (poll[h][i].pc = "claimed" /\ poll[h][j].pc = "claimed"
           /\ poll[h][i].dep = poll[h][j].dep) => i = j

(* The agent's verdict is the only one a handed-out row can show.           *)
HandedVerdict ==
    \A d \in Dep :
        /\ outcome[d] # "none" => d \in handed
        /\ d \in handed => deps[d].status \in {"running", "none", outcome[d]}

-----------------------------------------------------------------------------
(* Properties.                                                              *)

(* The tables, the handlers' progress and the agent's view stay well formed;*)
(* in particular a status is one of those the UI and the claim know,        *)
(* although CompleteDeployment stores what it is given.                     *)
TypeOK ==
    /\ stacks \subseteq Stack
    /\ stackHost \in [Stack -> HostId]
    /\ keys \subseteq Stack
    /\ deps \in [Dep -> Row]
    /\ nextDep \in 1 .. MaxDeps + 1
    /\ req \in [Req -> ReqState]
    /\ poll \in [Host -> [Slot -> PollState]]
    /\ handed \subseteq Dep
    /\ outcome \in [Dep -> {"none"} \union Finished]
    /\ up \in [Stack -> SUBSET Host]
    /\ crashes \in 0 .. MaxCrashes

IInv == /\ TypeOK /\ FreshRows /\ RequestHasStack /\ HandedHasHost /\ PollOwnsRow /\ SelectedIsOldest
        /\ ClaimedIsRunning /\ ClaimedOnce /\ HandedVerdict

Holds(h, i, d) == poll[h][i].pc = "claimed" /\ poll[h][i].dep = d

(* However many command polls of a host overlap, a claimed deployment is in *)
(* the hands of at most one of them, and never one the agent already has or *)
(* that is still in the queue: commandsHandler hands a deployment out once, *)
(* although ClaimNextDeployment is a SELECT and an UPDATE.                  *)
ExclusiveClaim ==
    \A d \in Dep, h \in Host, i \in Slot : Holds(h, i, d) =>
        /\ d \notin handed
        /\ deps[d].status # "queued"
        /\ \A g \in Host, j \in Slot : Holds(g, j, d) => g = h /\ j = i

(* The tables implement the promise of DeployLedger: rows are claimed one   *)
(* at a time and in queueing order per host, finish once and keep their     *)
(* verdict (CompleteDeployment has no guard: a repeated report must change  *)
(* nothing, and a deployment commandsHandler failed is never reported on),  *)
(* and only deleting the stack removes them.                                *)
Ledger == INSTANCE DeployLedger WITH
    hostOf <- [d \in Dep |-> deps[d].host],
    status <- [d \in Dep |-> deps[d].status]

ImplementsLedger == Ledger!Spec

(* Every deployment queued for a real host leaves the queue: it is claimed, *)
(* or its stack is deleted.                                                 *)
QueuedIsClaimed ==
    \A d \in Dep : (deps[d].status = "queued" /\ deps[d].host # None)
                       ~> deps[d].status # "queued"

(* store.go, ListRecentDeployments: "DeleteStack cascades into deployments, *)
(* so a row here always has a live stack".                                  *)
DeploymentHasStack ==
    \A d \in Dep : Exists(d) => deps[d].stack \in stacks

(* store.go, DeleteStack: "a stack this is safe to delete has nothing       *)
(* running, cf. the \"already undeployed\" check callers are expected to     *)
(* make first": when a row of stacks goes, none of its containers runs.     *)
DeletedStackIsDown ==
    [][\A s \in stacks \ stacks' : up[s] = {}]_vars

(* stacks.go, deleteStackHandler: "Also refuses while a deployment is       *)
(* merely queued/running, whatever its action".                             *)
DeleteSparesPending ==
    [][\A d \in Dep : deps[d].status \in Busy => deps'[d].status # "none"]_vars

(* keys.go, DeleteStackKeys: "its keys must never outlive the stack that    *)
(* owned them": when a row of stacks goes, the only keys that may be left   *)
(* under its id are those of a create that is still going to use them.      *)
KeysGoWithStack ==
    [][\A s \in stacks \ stacks' :
          s \in keys' => \E r \in Req : req[r].pc = "insert" /\ req[r].stack = s]_vars

(* stacks.go, deleteStackHandler, to someone who wants the stack gone: "a   *)
(* deployment is in progress for this stack -- wait for it to finish before *)
(* deleting".  Waiting helps: what is in progress ends.                     *)
WaitingHelps ==
    \A d \in Dep : deps[d].status \in Busy ~> deps[d].status \notin Busy
=============================================================================
