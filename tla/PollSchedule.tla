---------------------------- MODULE PollSchedule ----------------------------
(***************************************************************************)
(* The Git polling trigger of one stack id: its row in the stacks table,    *)
(* the cron scheduler's live entries, the registry that remembers which     *)
(* entry is the stack's, and the polls that compare the branch's head with  *)
(* the last one seen.  Stack ids share nothing here, so one is followed.    *)
(* A mode other than polling is called "manual": webhooks do not matter.    *)
(***************************************************************************)
EXTENDS Naturals, FiniteSets

CONSTANTS Editor,         \* goroutines serving the UI
          Poll,           \* polls that can overlap: cron ticks and "Check now"
          Sched,          \* valid cron schedules
          Default,        \* the one a stack without a schedule is given
          NoSched,        \* the empty schedule
          MaxStackEdits,  \* bound: creations and edits of the stack
          MaxCommits,     \* bound: commits ever pushed
          MaxRestarts     \* bound: controller restarts

ASSUME PollScheduleAssumption ==
    /\ Default \in Sched
    /\ NoSched \notin Sched
    /\ MaxCommits \in Nat \ {0}
    /\ {MaxStackEdits, MaxRestarts} \subseteq Nat
    /\ IsFiniteSet(Editor)

VARIABLES
    stack,     \* the stack's row
    live,      \* cron entries that fire: [id, sched]
    lastId,    \* the last entry id cron gave out
    registry,  \* pollRegistry.entries[id], 0 for none
    edit,      \* edit[r] : what goroutine r is doing
    poll,      \* poll[p] : a pollStack under way
    branch,    \* the branch's head at the Git host; commits are numbered
    queued,    \* commits deploys were queued for
    based,     \* this row's first poll has established its baseline
    stackEdits, restarts

scheduleVars == <<stack, live, lastId, registry, edit, poll, branch, queued, based, stackEdits, restarts>>
cronVars == <<live, lastId, registry>>
pollVars == <<poll, branch, queued, based>>

StackRow == [exists : BOOLEAN, trigger : {"polling", "manual"}, sched : Sched \union {NoSched},
        sha : 0 .. MaxCommits]
NoStackRow == [exists |-> FALSE, trigger |-> "manual", sched |-> NoSched, sha |-> 0]

EntryId == 0 .. MaxStackEdits + 1
Entry == [id : EntryId, sched : Sched]

EditState == [pc : {"idle", "trigger", "schedule", "read", "remove", "add", "store", "take", "drop"},
             trigger : {"polling", "manual"}, sched : Sched \union {NoSched}, id : EntryId]
NoEdit == [pc |-> "idle", trigger |-> "manual", sched |-> NoSched, id |-> 0]

PollState == [pc : {"idle", "load", "list", "record", "queue"},
              seen : 0 .. MaxCommits, sha : 0 .. MaxCommits]
NoPoll == [pc |-> "idle", seen |-> 0, sha |-> 0]

EditAt(r, pc) == edit[r].pc = pc
EditDone(r) == edit' = [edit EXCEPT ![r] = NoEdit]
Remove(i) == {e \in live : e.id # i}

-----------------------------------------------------------------------------
(* Handlers.  An edit is counted so that entry ids stay bounded.             *)

EditBegins(r, x) ==
    /\ EditAt(r, "idle")
    /\ stackEdits < MaxStackEdits
    /\ stackEdits' = stackEdits + 1
    /\ edit' = [edit EXCEPT ![r] = x]

(* createStackHandler, from its INSERT on.                                  *)
CreateStack(r, t, s) ==
    /\ ~stack.exists
    /\ stack' = [exists |-> TRUE, trigger |-> t, sha |-> 0,
               sched |-> IF t = "polling" THEN s ELSE NoSched]
    /\ EditBegins(r, IF t = "polling"
                     THEN [pc |-> "read", trigger |-> t, sched |-> s, id |-> 0] ELSE NoEdit)
    /\ based' = FALSE
    /\ UNCHANGED <<cronVars, poll, branch, queued, restarts>>

(* setPollScheduleHandler: only for a polling stack, then the write.        *)
LoadForSchedule(r, s) ==
    /\ stack.exists /\ stack.trigger = "polling"
    /\ EditBegins(r, [pc |-> "schedule", trigger |-> "polling", sched |-> s, id |-> 0])
    /\ UNCHANGED <<stack, cronVars, pollVars, restarts>>

SetPollSchedule(r) ==
    /\ EditAt(r, "schedule")
    /\ stack' = IF stack.exists THEN [stack EXCEPT !.sched = edit[r].sched] ELSE stack
    /\ edit' = [edit EXCEPT ![r].pc = "read"]
    /\ UNCHANGED <<cronVars, pollVars, stackEdits, restarts>>

(* setStackTriggerHandler: the schedule it read is written back with the    *)
(* mode, or the default when there was none.                                *)
LoadForTrigger(r, t) ==
    /\ stack.exists
    /\ EditBegins(r, [pc |-> "trigger", trigger |-> t, id |-> 0,
                      sched |-> IF t = "polling" /\ stack.sched = NoSched THEN Default ELSE stack.sched])
    /\ UNCHANGED <<stack, cronVars, pollVars, restarts>>

UpdateStackTrigger(r) ==
    /\ EditAt(r, "trigger")
    /\ stack' = IF stack.exists
              THEN [stack EXCEPT !.trigger = edit[r].trigger, !.sched = edit[r].sched] ELSE stack
    /\ edit' = [edit EXCEPT ![r].pc = IF edit[r].trigger = "polling" THEN "read" ELSE "take"]
    /\ UNCHANGED <<cronVars, pollVars, stackEdits, restarts>>

(* deleteStackHandler, its last write.  It does not touch the scheduler.    *)
DeleteStack ==
    /\ stack.exists
    /\ stack' = NoStackRow
    /\ UNCHANGED <<cronVars, edit, pollVars, stackEdits, restarts>>

-----------------------------------------------------------------------------
(* registerPolling: look the old entry up, remove it, add the new one and    *)
(* remember it.  The registry's lock covers the lookup and the store only.  *)

RegisterRead(r) ==
    /\ EditAt(r, "read")
    /\ edit' = [edit EXCEPT ![r].pc = IF registry # 0 THEN "remove" ELSE "add", ![r].id = registry]
    /\ UNCHANGED <<stack, cronVars, pollVars, stackEdits, restarts>>

RegisterRemove(r) ==
    /\ EditAt(r, "remove")
    /\ live' = Remove(edit[r].id)
    /\ edit' = [edit EXCEPT ![r].pc = "add"]
    /\ UNCHANGED <<stack, lastId, registry, pollVars, stackEdits, restarts>>

RegisterAdd(r) ==
    /\ EditAt(r, "add")
    /\ lastId' = lastId + 1
    /\ live' = live \union {[id |-> lastId', sched |-> edit[r].sched]}
    /\ edit' = [edit EXCEPT ![r].pc = "store", ![r].id = lastId']
    /\ UNCHANGED <<stack, registry, pollVars, stackEdits, restarts>>

(* Slip: the id is remembered only the first time.                          *)
RegisterStoreOnce(r) ==
    /\ EditAt(r, "store")
    /\ registry' = IF registry = 0 THEN edit[r].id ELSE registry
    /\ EditDone(r)
    /\ UNCHANGED <<stack, live, lastId, pollVars, stackEdits, restarts>>

RegisterStore(r) ==
    /\ EditAt(r, "store")
    /\ registry' = edit[r].id
    /\ EditDone(r)
    /\ UNCHANGED <<stack, live, lastId, pollVars, stackEdits, restarts>>

(* unregisterPolling: forget the entry, then remove it.                     *)
UnregisterTake(r) ==
    /\ EditAt(r, "take")
    /\ IF registry = 0
       THEN EditDone(r) /\ UNCHANGED registry
       ELSE /\ edit' = [edit EXCEPT ![r].pc = "drop", ![r].id = registry]
            /\ registry' = 0
    /\ UNCHANGED <<stack, live, lastId, pollVars, stackEdits, restarts>>

UnregisterRemove(r) ==
    /\ EditAt(r, "drop")
    /\ live' = Remove(edit[r].id)
    /\ EditDone(r)
    /\ UNCHANGED <<stack, lastId, registry, pollVars, stackEdits, restarts>>

-----------------------------------------------------------------------------
(* pollStack.                                                               *)

PollOver(p) == poll' = [poll EXCEPT ![p] = NoPoll]

(* A live entry fires, whatever the row says.                               *)
Tick(p) ==
    /\ poll[p].pc = "idle"
    /\ live # {}
    /\ poll' = [poll EXCEPT ![p].pc = "load"]
    /\ UNCHANGED <<stack, cronVars, edit, branch, queued, based, stackEdits, restarts>>

(* forcePollHandler: "Check now", for a polling stack.                      *)
ForcePoll(p) ==
    /\ poll[p].pc = "idle"
    /\ stack.exists /\ stack.trigger = "polling"
    /\ poll' = [poll EXCEPT ![p].pc = "load"]
    /\ UNCHANGED <<stack, cronVars, edit, branch, queued, based, stackEdits, restarts>>

PollLoad(p) ==
    /\ poll[p].pc = "load"
    /\ IF stack.exists
       THEN poll' = [poll EXCEPT ![p].pc = "list", ![p].seen = stack.sha]
       ELSE PollOver(p)
    /\ UNCHANGED <<stack, cronVars, edit, branch, queued, based, stackEdits, restarts>>

(* git ls-remote answers with the branch's head.                            *)
LsRemoteSha(p) ==
    /\ poll[p].pc = "list"
    /\ poll' = [poll EXCEPT ![p].pc = "record", ![p].sha = branch]
    /\ UNCHANGED <<stack, cronVars, edit, branch, queued, based, stackEdits, restarts>>

(* ls-remote, RecordPoll or EnqueueDeployment fails: logged, and over.      *)
PollFails(p) ==
    /\ poll[p].pc \in {"list", "record", "queue"}
    /\ PollOver(p)
    /\ UNCHANGED <<stack, cronVars, edit, branch, queued, based, stackEdits, restarts>>

(* Slip: the head is recorded only when there is one to compare with.       *)
RecordPollLater(p) ==
    LET x == poll[p] IN
    /\ x.pc = "record"
    /\ stack' = IF stack.exists /\ x.seen # 0 THEN [stack EXCEPT !.sha = x.sha] ELSE stack
    /\ based' = (based \/ (stack.exists /\ x.seen = 0))
    /\ IF x.sha = x.seen \/ x.seen = 0 THEN PollOver(p) ELSE poll' = [poll EXCEPT ![p].pc = "queue"]
    /\ UNCHANGED <<cronVars, edit, branch, queued, stackEdits, restarts>>

(* The head is recorded first; then a first poll, or one that saw nothing   *)
(* new, is over.                                                            *)
RecordPoll(p) ==
    LET x == poll[p] IN
    /\ x.pc = "record"
    /\ stack' = IF stack.exists THEN [stack EXCEPT !.sha = x.sha] ELSE stack
    /\ based' = (based \/ (stack.exists /\ x.seen = 0))
    /\ IF x.sha = x.seen \/ x.seen = 0 THEN PollOver(p) ELSE poll' = [poll EXCEPT ![p].pc = "queue"]
    /\ UNCHANGED <<cronVars, edit, branch, queued, stackEdits, restarts>>

QueuePolledDeploy(p) ==
    /\ poll[p].pc = "queue"
    /\ queued' = queued \union {poll[p].sha}
    /\ PollOver(p)
    /\ UNCHANGED <<stack, cronVars, edit, branch, based, stackEdits, restarts>>

-----------------------------------------------------------------------------
(* Somebody pushes (at the Git host).                                       *)
PushCommit ==
    /\ branch < MaxCommits
    /\ branch' = branch + 1
    /\ UNCHANGED <<stack, cronVars, edit, poll, queued, based, stackEdits, restarts>>

(* A fresh scheduler and registry; main registers the stack if it polls,    *)
(* before anything is served.                                               *)
PollRestart ==
    /\ restarts < MaxRestarts
    /\ restarts' = restarts + 1
    /\ edit' = [r \in Editor |-> NoEdit]
    /\ poll' = [p \in Poll |-> NoPoll]
    /\ IF stack.exists /\ stack.trigger = "polling" /\ stack.sched # NoSched
       THEN live' = {[id |-> 1, sched |-> stack.sched]} /\ lastId' = 1 /\ registry' = 1
       ELSE live' = {} /\ lastId' = 0 /\ registry' = 0
    /\ stackEdits' = 0
    /\ UNCHANGED <<stack, branch, queued, based>>

PollInit ==
    /\ stack = NoStackRow /\ live = {} /\ lastId = 0 /\ registry = 0
    /\ edit = [r \in Editor |-> NoEdit]
    /\ poll = [p \in Poll |-> NoPoll]
    /\ branch = 1 /\ queued = {} /\ based = FALSE
    /\ stackEdits = 0 /\ restarts = 0

EditArrives(r) ==
    \/ \E t \in {"polling", "manual"}, s \in Sched : CreateStack(r, t, s)
    \/ \E s \in Sched : LoadForSchedule(r, s)
    \/ \E t \in {"polling", "manual"} : LoadForTrigger(r, t)

EditStep(r) ==
    \/ SetPollSchedule(r) \/ UpdateStackTrigger(r)
    \/ RegisterRead(r) \/ RegisterRemove(r) \/ RegisterAdd(r) \/ RegisterStore(r)
    \/ UnregisterTake(r) \/ UnregisterRemove(r)

PollStep(p) ==
    PollLoad(p) \/ LsRemoteSha(p) \/ PollFails(p) \/ RecordPoll(p) \/ QueuePolledDeploy(p)

PollNext ==
    \/ \E r \in Editor : EditArrives(r) \/ EditStep(r)
    \/ \E p \in Poll : Tick(p) \/ ForcePoll(p) \/ PollStep(p)
    \/ DeleteStack \/ PushCommit \/ PollRestart

PollSpec == PollInit /\ [][PollNext]_scheduleVars

(* A handler or poll that has started goes on, cron fires its entries again *)
(* and again, and neither the remote nor the database fails for ever.       *)
PollFairness ==
    /\ \A r \in Editor : WF_scheduleVars(EditStep(r))
    /\ \A p \in Poll : /\ WF_scheduleVars(Tick(p))
                       /\ WF_scheduleVars(PollStep(p))
                       /\ SF_scheduleVars(LsRemoteSha(p))
                       /\ SF_scheduleVars(RecordPoll(p))

PollFairSpec == PollSpec /\ PollFairness

-----------------------------------------------------------------------------
(* Properties.                                                              *)

(* The row, the cron entries and the polls stay well formed: every cron     *)
(* entry is on a schedule that cron accepts, the empty one never is.        *)
PollTypeOK ==
    /\ stack \in StackRow
    /\ live \subseteq Entry
    /\ lastId \in EntryId /\ registry \in EntryId
    /\ edit \in [Editor -> EditState]
    /\ poll \in [Poll -> PollState]
    /\ branch \in 1 .. MaxCommits
    /\ queued \subseteq 1 .. MaxCommits
    /\ based \in BOOLEAN
    /\ stackEdits \in 0 .. MaxStackEdits /\ restarts \in 0 .. MaxRestarts

Quiet == \A r \in Editor : EditAt(r, "idle")

(* When no edit is under way, a polling stack has exactly one cron entry,   *)
(* the one the registry knows, on the schedule its row shows ("Live         *)
(* immediately, no controller restart needed", createStackHandler), across  *)
(* mode changes, deletion, re-creation and restarts.                        *)
PollingIsScheduled ==
    Quiet /\ stack.exists /\ stack.trigger = "polling" =>
        live = {[id |-> registry, sched |-> stack.sched]}

(* A branch that has moved is noticed: pollStack records the head, unless   *)
(* the stack stops polling or somebody pushes again first.                  *)
MovedHeadIsNoticed ==
    \A c \in 1 .. MaxCommits :
        (stack.exists /\ stack.trigger = "polling" /\ branch = c)
            ~> (stack.sha = c \/ ~stack.exists \/ stack.trigger # "polling" \/ branch # c)

(* poller.go, unregisterPolling: "so a stale schedule can't keep firing,    *)
(* and enqueueing deploys, after the UI says the stack is no longer         *)
(* polling".                                                                *)
NoStaleSchedule ==
    Quiet /\ stack.exists /\ stack.trigger # "polling" => live = {}

(* poller.go, pollRegistry: it "lets registerPolling remove a stack's old   *)
(* schedule before adding its new one instead of accumulating a duplicate   *)
(* entry on every edit".                                                    *)
NoDuplicateEntry == Quiet => Cardinality(live) <= 1

(* stacks.go, setPollScheduleHandler: an edit takes effect by itself, "no   *)
(* controller restart needed, same as a brand new polling stack".           *)
PollingHasEntry ==
    Quiet /\ stack.exists /\ stack.trigger = "polling" => \E e \in live : e.sched = stack.sched

(* poller.go, pollStack: "The very first poll only establishes the          *)
(* baseline; only a commit seen *after* that baseline triggers a deploy".   *)
BaselineFirst ==
    [][\A c \in queued' \ queued : stack.exists => based]_scheduleVars
=============================================================================
