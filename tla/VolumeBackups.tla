---------------------------- MODULE VolumeBackups ----------------------------
(***************************************************************************)
(* Backups and restores of the named volumes of one host: the jobs, the     *)
(* runs, the decision to start a run and the agent's report of how it ended.*)
(* Jobs of different hosts never meet, so one host is followed.  Its volumes*)
(* are what the agent last reported.                                        *)
(***************************************************************************)
EXTENDS Naturals, FiniteSets

CONSTANTS Job,         \* job ids
          Volume,      \* named volumes of the host
          Group,       \* Compose projects and label rules a job may select by
          Matches,     \* Matches[v] : the groups volume v's labels put it in
          Def,         \* what a job can select: [volumes, groups, excluded]
          Starter,     \* goroutines in startVolumeAction: requests and cron ticks
          MaxRuns,     \* bound: runs ever recorded
          MaxEdits,    \* bound: edits of jobs
          MayDelete,   \* an admin deletes jobs
          MayVanish,   \* the host stops reporting a volume
          MayTimeOut   \* an agent's answer can take over 30 seconds

ASSUME VolumeBackupsAssumption ==
    /\ Matches \in [Volume -> SUBSET Group]
    /\ Def \subseteq [volumes : SUBSET Volume, groups : SUBSET Group, excluded : SUBSET Volume]
    /\ IsFiniteSet(Starter) /\ "free" \notin Starter
    /\ {MaxRuns, MaxEdits} \subseteq Nat
    /\ {MayDelete, MayVanish, MayTimeOut} \subseteq BOOLEAN

VARIABLES
    jobs,      \* backup_jobs
    runs,      \* backup_runs
    lastRun,   \* the last run id given out
    startMu,   \* who holds volumeBackups.startMu, or "free"
    start,     \* start[s] : what starter s is doing
    loaded,    \* runs whose report has been looked up and is about to be recorded
    deleting,  \* the delete handler: [pc, job]
    work,      \* what the agent does for each run
    reported,  \* host_volumes: the volumes the host last reported
    edits

vars == <<jobs, runs, lastRun, startMu, start, loaded, deleting, work, reported, edits>>

Run == 1 .. MaxRuns
Kind == {"backup", "restore"}
NoDef == [volumes |-> {}, groups |-> {}, excluded |-> {}]
JobRow == [state : {"none", "live", "gone"}, def : Def \union {NoDef}, enabled : BOOLEAN]

(* A run's row does not say which volumes it was started for.               *)
RunRow == [status : {"none", "running", "success", "error"}, job : Job \union {"none"},
           kind : Kind, code : {"", "VALIDATION", "CONCURRENCY", "REFUSED", "AGENT", "LOST", "AGENT_SAYS"},
           results : SUBSET Volume]
NoRun == [status |-> "none", job |-> "none", kind |-> "backup", code |-> "", results |-> {}]

StartState == [pc : {"idle", "lock", "decide", "create", "fail", "send", "reply", "finish"},
               job : Job \union {"none"}, def : Def \union {NoDef}, kind : Kind,
               volumes : SUBSET Volume, run : 0 .. MaxRuns,
               code : {"", "VALIDATION", "CONCURRENCY", "REFUSED", "AGENT"}]
Idle == [pc |-> "idle", job |-> "none", def |-> NoDef, kind |-> "backup",
         volumes |-> {}, run |-> 0, code |-> ""]

(* What the agent does for a run.  "lost" covers a message that never got   *)
(* there, a run it turned down and a run that died with the agent.          *)
Work == [state : {"none", "sent", "working", "ended", "refused", "lost"},
         volumes : SUBSET Volume, ok : BOOLEAN]
NoWork == [state |-> "none", volumes |-> {}, ok |-> FALSE]

At(s, pc) == start[s].pc = pc
Busy(r) == \E s \in Starter : start[s].pc # "idle" /\ start[s].run = r

-----------------------------------------------------------------------------
(* Which volumes a definition covers, given what the host reports: the       *)
(* ticked ones, reported or not, and the reported ones of its groups.        *)
ResolveSelection(def) ==
    {v \in Volume : /\ \/ v \in def.volumes
                       \/ v \in reported /\ Matches[v] \intersect def.groups # {}
                    /\ v \notin def.excluded}

(* restorableVolumes: also what the job ticked and ever backed up.          *)
RestorableVolumes(j) ==
    ResolveSelection(jobs[j].def) \union jobs[j].def.volumes
    \union UNION {runs[r].results : r \in {q \in Run : runs[q].job = j /\ runs[q].kind = "backup"}}

(* overlapsRunning.  The volumes of a run in progress are worked out again,  *)
(* from its job as it is now; a run whose job is gone is skipped.            *)
OverlapsRunning(volumes) ==
    \E r \in Run : /\ runs[r].status = "running"
                   /\ jobs[runs[r].job].state = "live"
                   /\ ResolveSelection(jobs[runs[r].job].def) \intersect volumes # {}

(* Slip: the run's status is not looked at before it is written.            *)
FinishBackupRunAlways(r, status, code, results) ==
    runs' = IF runs[r].status # "none"
            THEN [runs EXCEPT ![r].status = status, ![r].code = code, ![r].results = results]
            ELSE runs

(* FinishBackupRun: ... WHERE id = ? AND status = 'running'.                *)
FinishBackupRun(r, status, code, results) ==
    runs' = IF runs[r].status = "running"
            THEN [runs EXCEPT ![r].status = status, ![r].code = code, ![r].results = results]
            ELSE runs

-----------------------------------------------------------------------------
(* Jobs.                                                                    *)

(* saveVolumeBackupJobHandler, a new job.  Its id is new.                   *)
CreateBackupJob(j, def, e) ==
    /\ jobs[j].state = "none"
    /\ def.volumes \subseteq reported
    /\ jobs' = [jobs EXCEPT ![j] = [state |-> "live", def |-> def, enabled |-> e]]
    /\ UNCHANGED <<runs, lastRun, startMu, start, loaded, deleting, work, reported, edits>>

(* ... and an edit, which checks nothing about runs in progress.            *)
UpdateBackupJob(j, def, e) ==
    /\ edits < MaxEdits
    /\ edits' = edits + 1
    /\ jobs[j].state = "live"
    /\ def.volumes \subseteq reported \union jobs[j].def.volumes
    /\ jobs' = [jobs EXCEPT ![j].def = def, ![j].enabled = e]
    /\ UNCHANGED <<runs, lastRun, startMu, start, loaded, deleting, work, reported>>

(* deleteVolumeBackupJobHandler: refused while a run of the job is running,  *)
(* then the runs are deleted, then the job.                                 *)
DeleteCheck(j) ==
    /\ MayDelete /\ deleting.pc = "idle"
    /\ jobs[j].state = "live"
    /\ ~ \E r \in Run : runs[r].status = "running" /\ runs[r].job = j
    /\ deleting' = [pc |-> "runs", job |-> j]
    /\ UNCHANGED <<jobs, runs, lastRun, startMu, start, loaded, work, reported, edits>>

DeleteRuns ==
    /\ deleting.pc = "runs"
    /\ runs' = [r \in Run |-> IF runs[r].job = deleting.job THEN NoRun ELSE runs[r]]
    /\ deleting' = [deleting EXCEPT !.pc = "job"]
    /\ UNCHANGED <<jobs, lastRun, startMu, start, loaded, work, reported, edits>>

DeleteJob ==
    /\ deleting.pc = "job"
    /\ jobs' = [jobs EXCEPT ![deleting.job].state = "gone"]
    /\ deleting' = [pc |-> "idle", job |-> "none"]
    /\ UNCHANGED <<runs, lastRun, startMu, start, loaded, work, reported, edits>>

-----------------------------------------------------------------------------
(* Starting a run.                                                          *)

Loaded(s, j, kind, volumes) ==
    /\ At(s, "idle")
    /\ jobs[j].state = "live"
    /\ lastRun + Cardinality({t \in Starter : ~At(t, "idle") /\ start[t].run = 0}) < MaxRuns
    /\ start' = [start EXCEPT ![s] = [Idle EXCEPT !.pc = "lock", !.job = j, !.def = jobs[j].def,
                                                  !.kind = kind, !.volumes = volumes]]
    /\ UNCHANGED <<jobs, runs, lastRun, startMu, loaded, deleting, work, reported, edits>>

(* runVolumeBackupHandler: the job is loaded before the lock is taken.       *)
ManualBackup(s, j) == Loaded(s, j, "backup", {})

(* runScheduledVolumeBackup, which leaves a disabled job alone.             *)
ScheduledBackup(s, j) == jobs[j].enabled /\ Loaded(s, j, "backup", {})

(* volumeBackupRestoreHandler.                                              *)
Restore(s, j, v) == v \in RestorableVolumes(j) /\ Loaded(s, j, "restore", {v})

(* Slip: no lock, so two decisions can be under way at once.                *)
LockNothing(s) ==
    /\ At(s, "lock")
    /\ lastRun' = lastRun + 1
    /\ start' = [start EXCEPT ![s].pc = "decide", ![s].run = lastRun']
    /\ startMu' = s
    /\ UNCHANGED <<jobs, runs, loaded, deleting, work, reported, edits>>

(* startVolumeAction takes startMu, and an id for the run.                  *)
Lock(s) ==
    /\ At(s, "lock")
    /\ startMu = "free"
    /\ startMu' = s
    /\ lastRun' = lastRun + 1
    /\ start' = [start EXCEPT ![s].pc = "decide", ![s].run = lastRun']
    /\ UNCHANGED <<jobs, runs, loaded, deleting, work, reported, edits>>

(* It works out the volumes from the job it was given and compares them      *)
(* with the runs in progress.  A missing destination, password, repository   *)
(* or connection also ends it: those reasons are one here.                   *)
Decide(s) ==
    LET volumes == IF start[s].kind = "restore" THEN start[s].volumes
                   ELSE ResolveSelection(start[s].def)
        To(pc, code) == start' = [start EXCEPT ![s].pc = pc, ![s].code = code, ![s].volumes = volumes]
    IN  /\ At(s, "decide")
        /\ \/ volumes = {} /\ To("fail", "VALIDATION")
           \/ volumes # {} /\ OverlapsRunning(volumes) /\ To("fail", "CONCURRENCY")
           \/ volumes # {} /\ ~OverlapsRunning(volumes) /\ To("fail", "REFUSED")
           \/ volumes # {} /\ ~OverlapsRunning(volumes) /\ To("create", "")
        /\ UNCHANGED <<jobs, runs, lastRun, startMu, loaded, deleting, work, reported, edits>>

(* CreateBackupRun: a run that cannot start is recorded as running too, and  *)
(* then finished.                                                           *)
CreateBackupRun(s) ==
    LET x == start[s] IN
    /\ x.pc \in {"create", "fail"}
    /\ runs' = [runs EXCEPT ![x.run] = [NoRun EXCEPT !.status = "running", !.job = x.job, !.kind = x.kind]]
    /\ start' = [start EXCEPT ![s].pc = IF x.pc = "create" THEN "send" ELSE "finish"]
    /\ UNCHANGED <<jobs, lastRun, startMu, loaded, deleting, work, reported, edits>>

(* startBackupAction: the command goes out, or the tunnel breaks first.      *)
Send(s) ==
    /\ At(s, "send")
    /\ work' = [work EXCEPT ![start[s].run] = [NoWork EXCEPT !.state = "sent", !.volumes = start[s].volumes]]
    /\ start' = [start EXCEPT ![s].pc = "reply"]
    /\ UNCHANGED <<jobs, runs, lastRun, startMu, loaded, deleting, reported, edits>>

NotSent(s) ==
    /\ At(s, "send")
    /\ start' = [start EXCEPT ![s].pc = "finish", ![s].code = "AGENT"]
    /\ UNCHANGED <<jobs, runs, lastRun, startMu, loaded, deleting, work, reported, edits>>

(* The agent answered: it took the run, or it will not.  With no answer in   *)
(* thirty seconds the run is an error, whatever the agent does with it.      *)
Started(s) ==
    /\ At(s, "reply")
    /\ work[start[s].run].state \in {"working", "ended"}
    /\ start' = [start EXCEPT ![s] = Idle]
    /\ startMu' = "free"
    /\ UNCHANGED <<jobs, runs, lastRun, loaded, deleting, work, reported, edits>>

NotStarted(s) ==
    /\ At(s, "reply")
    /\ MayTimeOut \/ work[start[s].run].state \in {"refused", "lost"}
    /\ start' = [start EXCEPT ![s].pc = "finish", ![s].code = "AGENT"]
    /\ UNCHANGED <<jobs, runs, lastRun, startMu, loaded, deleting, work, reported, edits>>

FinishFailed(s) ==
    /\ At(s, "finish")
    /\ FinishBackupRun(start[s].run, "error", start[s].code, {})
    /\ start' = [start EXCEPT ![s] = Idle]
    /\ startMu' = "free"
    /\ UNCHANGED <<jobs, lastRun, loaded, deleting, work, reported, edits>>

-----------------------------------------------------------------------------
(* The agent, from how the controller uses it.                              *)

AgentWork(r, from, to) ==
    /\ work[r].state = from
    /\ work' = [work EXCEPT ![r].state = to]
    /\ UNCHANGED <<jobs, runs, lastRun, startMu, start, loaded, deleting, reported, edits>>

AgentBegins(r) == AgentWork(r, "sent", "working")
AgentRefuses(r) == AgentWork(r, "sent", "refused")
AgentIsGone(r) == AgentWork(r, "sent", "lost") \/ AgentWork(r, "working", "lost")

AgentEnds(r) ==
    /\ work[r].state = "working"
    /\ \E ok \in BOOLEAN : work' = [work EXCEPT ![r].state = "ended", ![r].ok = ok]
    /\ UNCHANGED <<jobs, runs, lastRun, startMu, start, loaded, deleting, reported, edits>>

(* The host's list of volumes is replaced by a new one.                     *)
ReportVolumes(vs) ==
    /\ vs # reported
    /\ MayVanish \/ reported \subseteq vs
    /\ reported' = vs
    /\ UNCHANGED <<jobs, runs, lastRun, startMu, start, loaded, deleting, work, edits>>

(* volumeBackupReportHandler: the run and its job are looked up, then the    *)
(* verdict is recorded.  A report can come again, and late.                  *)
LoadReport(r) ==
    /\ work[r].state = "ended" /\ r \notin loaded
    /\ runs[r].status # "none" /\ jobs[runs[r].job].state = "live"
    /\ loaded' = loaded \union {r}
    /\ UNCHANGED <<jobs, runs, lastRun, startMu, start, deleting, work, reported, edits>>

RecordReport(r) ==
    /\ r \in loaded
    /\ loaded' = loaded \ {r}
    /\ FinishBackupRun(r, IF work[r].ok THEN "success" ELSE "error", "AGENT_SAYS",
                       IF work[r].ok THEN work[r].volumes ELSE {})
    /\ UNCHANGED <<jobs, lastRun, startMu, start, deleting, work, reported, edits>>

(* Slip: a run the agent was never told of is not looked at.                *)
FailStaleToldRuns(r) ==
    /\ runs[r].status = "running" /\ ~Busy(r)
    /\ work[r].state \notin {"none", "sent", "working"}
    /\ FinishBackupRun(r, "error", "LOST", {})
    /\ UNCHANGED <<jobs, lastRun, startMu, start, loaded, deleting, work, reported, edits>>

(* giveUpOnLostRuns, hourly: a run thirteen hours old, when its start is     *)
(* long over and the agent has given up on it an hour ago.                   *)
FailStaleBackupRuns(r) ==
    /\ runs[r].status = "running" /\ ~Busy(r)
    /\ work[r].state \notin {"sent", "working"}
    /\ FinishBackupRun(r, "error", "LOST", {})
    /\ UNCHANGED <<jobs, lastRun, startMu, start, loaded, deleting, work, reported, edits>>

(* The controller restarts.  What its goroutines were doing is lost.        *)
Crash ==
    /\ \/ \E s \in Starter : ~At(s, "idle")
       \/ loaded # {} \/ deleting.pc # "idle"
    /\ startMu' = "free"
    /\ start' = [s \in Starter |-> Idle]
    /\ loaded' = {}
    /\ deleting' = [pc |-> "idle", job |-> "none"]
    /\ UNCHANGED <<jobs, runs, lastRun, work, reported, edits>>

-----------------------------------------------------------------------------
Init ==
    /\ jobs = [j \in Job |-> [state |-> "none", def |-> NoDef, enabled |-> FALSE]]
    /\ runs = [r \in Run |-> NoRun]
    /\ lastRun = 0
    /\ startMu = "free"
    /\ start = [s \in Starter |-> Idle]
    /\ loaded = {}
    /\ deleting = [pc |-> "idle", job |-> "none"]
    /\ work = [r \in Run |-> NoWork]
    /\ reported \in SUBSET Volume
    /\ edits = 0

StartStep(s) ==
    \/ Lock(s) \/ Decide(s) \/ CreateBackupRun(s) \/ Send(s) \/ NotSent(s)
    \/ Started(s) \/ NotStarted(s) \/ FinishFailed(s)

AgentStep(r) == AgentBegins(r) \/ AgentRefuses(r) \/ AgentIsGone(r) \/ AgentEnds(r)

Next ==
    \/ \E j \in Job, def \in Def, e \in BOOLEAN :
          CreateBackupJob(j, def, e) \/ UpdateBackupJob(j, def, e)
    \/ \E j \in Job : DeleteCheck(j)
    \/ DeleteRuns \/ DeleteJob
    \/ \E s \in Starter, j \in Job :
          ManualBackup(s, j) \/ ScheduledBackup(s, j) \/ \E v \in Volume : Restore(s, j, v)
    \/ \E s \in Starter : StartStep(s)
    \/ \E r \in Run : AgentStep(r) \/ LoadReport(r) \/ RecordReport(r) \/ FailStaleBackupRuns(r)
    \/ \E vs \in SUBSET Volume : ReportVolumes(vs)
    \/ Crash

Spec == Init /\ [][Next]_vars

(* The runtime runs every goroutine, the hourly tick comes, and an agent     *)
(* ends or abandons what it was sent within its twelve hours.  Nobody has to *)
(* click, and no report has to arrive.                                      *)
FairSpec ==
    /\ Spec
    /\ \A s \in Starter : WF_vars(StartStep(s))
    /\ \A r \in Run : WF_vars(AgentStep(r)) /\ WF_vars(FailStaleBackupRuns(r))

-----------------------------------------------------------------------------
(* Jobs, runs and the agent's work stay well formed: a run is running,      *)
(* or has one of the verdicts its page can show.                            *)
TypeOK ==
    /\ jobs \in [Job -> JobRow]
    /\ runs \in [Run -> RunRow]
    /\ lastRun \in 0 .. MaxRuns
    /\ startMu \in Starter \union {"free"}
    /\ start \in [Starter -> StartState]
    /\ loaded \subseteq Run
    /\ deleting \in [pc : {"idle", "runs", "job"}, job : Job \union {"none"}]
    /\ work \in [Run -> Work]
    /\ reported \subseteq Volume
    /\ edits \in 0 .. MaxEdits

(* What startMu and overlapsRunning are for: two runs that are shown as     *)
(* running never work on the same volume, however clicks, schedules, late   *)
(* reports, timeouts and restarts interleave, as long as no job was edited  *)
(* (the rows say nothing of a run's volumes, so it rests on every job       *)
(* resolving to what it resolved to when its run began).                    *)
RunningVolumesApart ==
    edits = 0 =>
        \A q, r \in Run :
            /\ q # r /\ runs[q].status = "running" /\ runs[r].status = "running"
            /\ work[q].state = "working" /\ work[r].state = "working"
            /\ jobs[runs[q].job].state = "live" /\ jobs[runs[r].job].state = "live"
            => work[q].volumes \intersect work[r].volumes = {}

(* volume_backup_runs.go, volumeBackups: "two clicks must not start the     *)
(* same volume twice", whatever the rows say of the runs.                   *)
OneRunPerVolume ==
    \A q, r \in Run :
        q # r /\ work[q].state = "working" /\ work[r].state = "working"
        => work[q].volumes \intersect work[r].volumes = {}

(* What a run's page says of how it ended never changes: a late or repeated  *)
(* report, a start that timed out after the agent had already reported, and  *)
(* the hourly give-up all meet FinishBackupRun's "status = 'running'".       *)
VerdictIsFinal ==
    [][\A r \in Run : runs[r].status \in {"success", "error"} => runs'[r] \in {runs[r], NoRun}]_vars

(* A run that is shown as running stops being shown so, also when the        *)
(* controller crashed between recording it and telling the agent.            *)
EveryRunEnds == \A r \in Run : runs[r].status = "running" ~> runs[r].status # "running"

(* "DeleteBackupJob removes a job and its history": no run is left of a job  *)
(* that is gone.                                                            *)
HistoryGoesWithJob ==
    \A r \in Run : runs[r].status # "none" => jobs[runs[r].job].state = "live"
=============================================================================
