------------------------ MODULE VolumeBackupsProofs ------------------------
(* A run's verdict stands, for any jobs, volumes and starters; runs in      *)
(* progress work on different volumes, as long as every job selects what it *)
(* selected when its run began; and a job is deleted with its history,      *)
(* unless a run of it is being started meanwhile.                           *)
EXTENDS VolumeBackups, FiniteSetTheorems, TLAPS

(* The starters that have no run id yet: the bound on runs counts them.     *)
Waiting == {s \in Starter : ~At(s, "idle") /\ start[s].run = 0}
IdsSuffice == lastRun + Cardinality(Waiting) <= MaxRuns

(* A starter past the lock holds it, and has the newest id; until it has    *)
(* created the row nothing is known of that run, and until it has sent the  *)
(* command the agent knows nothing of it.                                   *)
StarterStands(s) ==
    /\ start[s].pc = "idle" => start[s] = Idle
    /\ start[s].pc # "idle" => start[s].job \in Job
    /\ start[s].pc = "lock" => start[s].run = 0
    /\ start[s].pc \notin {"idle", "lock"} =>
           startMu = s /\ start[s].run = lastRun /\ lastRun \in Run
    /\ start[s].pc \in {"decide", "create", "fail"} => runs[start[s].run] = NoRun
    /\ start[s].pc \in {"decide", "create", "fail", "send"} => work[start[s].run] = NoWork
    /\ start[s].pc \notin {"idle", "lock"} /\ runs[start[s].run] # NoRun =>
           runs[start[s].run].job = start[s].job
StartersStand == \A s \in Starter : StarterStands(s)

(* Ids not given out have left no trace.                                    *)
FreshIds == \A r \in Run : r > lastRun => runs[r] = NoRun /\ work[r] = NoWork

(* A row that exists is of a job.                                           *)
RowsHaveJobs == \A r \in Run : runs[r] # NoRun => runs[r].status # "none" /\ runs[r].job \in Job

IInv == TypeOK /\ IdsSuffice /\ StartersStand /\ FreshIds /\ RowsHaveJobs

(* What each job resolves to now: the volumes of a run in progress are      *)
(* among those of its job, and so is what it recorded.                      *)
Reach == [j \in Job |-> ResolveSelection(jobs[j].def)]
StarterCovered(s) ==
    start[s].pc # "idle" =>
        /\ start[s].def = jobs[start[s].job].def /\ jobs[start[s].job].state # "none"
        /\ start[s].volumes \subseteq Reach[start[s].job]
RunCovered(r) ==
    runs[r].status # "none" =>
        jobs[runs[r].job].state # "none" /\ runs[r].results \union work[r].volumes \subseteq Reach[runs[r].job]

(* A run that is about to be sent meets no run in progress.                 *)
InProgress(r) == runs[r].status = "running" /\ jobs[runs[r].job].state = "live"
StarterApart(s) ==
    start[s].pc \in {"create", "send"} =>
        \A r \in Run : InProgress(r) /\ r # start[s].run => start[s].volumes \intersect work[r].volumes = {}
RunsApart ==
    \A q, r \in Run : InProgress(q) /\ InProgress(r) /\ q # r => work[q].volumes \intersect work[r].volumes = {}

Undisturbed ==
    edits = 0 =>
        /\ \A s \in Starter : StarterCovered(s) /\ StarterApart(s)
        /\ \A r \in Run : RunCovered(r)
        /\ RunsApart

(* What it takes for a job to go on resolving to at least what it resolved  *)
(* to: the host goes on reporting its volumes, and no job ticks a volume it *)
(* excludes (which the page allows: such a volume is not backed up but can  *)
(* be chosen for a restore).                                                *)
SelectionsHold == ~ MayVanish /\ \A d \in Def : d.volumes \intersect d.excluded = {}

LEMMA RowTypes ==
    /\ Idle \in StartState /\ Idle.pc = "idle" /\ Idle.run = 0
    /\ NoRun \in RunRow /\ NoRun.status = "none"
    /\ NoWork \in Work /\ NoWork.state = "none" /\ NoWork.volumes = {}
BY VolumeBackupsAssumption DEF Idle, StartState, NoRun, RunRow, NoWork, Work, Kind

LEMMA WaitingIsFinite == IsFiniteSet(Waiting) /\ Cardinality(Waiting) \in Nat
<1>1. Waiting \in SUBSET Starter
    BY DEF Waiting
<1> QED
    BY <1>1, VolumeBackupsAssumption, FS_Subset, FS_CardinalityType

-----------------------------------------------------------------------------
(* Steps that leave the starters alone.                                     *)

(* What handlers of pages, the agent and its reports may do to the tables.  *)
TablesKept ==
    /\ UNCHANGED <<start, startMu, lastRun>>
    /\ \A r \in Run :
          /\ runs[r] = NoRun => runs'[r] = NoRun
          /\ runs'[r].status # "none" => runs[r].status # "none" /\ runs'[r].job = runs[r].job
          /\ runs'[r].status = "running" => runs[r].status = "running"
          /\ runs'[r].status = "none" => runs'[r] \in {runs[r], NoRun}
          /\ runs'[r].results \subseteq runs[r].results \union work[r].volumes
          /\ work[r] = NoWork => work'[r] = NoWork
          /\ work'[r].volumes = work[r].volumes

LEMMA TablesKeptInv ==
    ASSUME IInv, TypeOK', TablesKept
    PROVE  IInv'
<1>1. IdsSuffice'
    BY DEF IInv, IdsSuffice, TablesKept, Waiting, At
<1>2. StartersStand'
    <2> SUFFICES ASSUME NEW s \in Starter PROVE StarterStands(s)'
        BY DEF StartersStand
    <2>1. StarterStands(s) /\ start'[s] = start[s] /\ startMu' = startMu /\ lastRun' = lastRun
        BY DEF IInv, StartersStand, TablesKept
    <2>2. lastRun \in Run => /\ runs[lastRun] = NoRun => runs'[lastRun] = NoRun
                             /\ work[lastRun] = NoWork => work'[lastRun] = NoWork
                             /\ runs'[lastRun] # NoRun => /\ runs[lastRun] # NoRun
                                                          /\ runs'[lastRun].job = runs[lastRun].job
        BY DEF TablesKept
    <2> QED
        BY <2>1, <2>2 DEF StarterStands
<1>3. FreshIds'
    BY DEF IInv, FreshIds, TablesKept
<1>4. RowsHaveJobs'
    BY DEF IInv, RowsHaveJobs, TablesKept
<1> QED
    BY <1>1, <1>2, <1>3, <1>4 DEF IInv

Verdict == {"success", "error"}
Code == {"", "VALIDATION", "CONCURRENCY", "REFUSED", "AGENT", "LOST", "AGENT_SAYS"}

LEMMA FinishRows ==
    ASSUME TypeOK, NEW r \in Run, NEW st \in Verdict, NEW c \in Code,
           NEW vs \in SUBSET Volume, FinishBackupRun(r, st, c, vs)
    PROVE  /\ runs' \in [Run -> RunRow]
           /\ \A q \in Run : q # r => runs'[q] = runs[q]
           /\ runs[r].status # "running" => runs'[r] = runs[r]
           /\ runs[r].status = "running" =>
                  /\ runs'[r].status = st /\ runs'[r].job = runs[r].job /\ runs'[r].kind = runs[r].kind
                  /\ runs'[r].results = vs
<1> DEFINE x == [runs[r] EXCEPT !.status = st, !.code = c, !.results = vs]
<1>1. runs \in [Run -> RunRow] /\ runs[r] \in RunRow
    BY DEF TypeOK
<1>2. x \in RunRow /\ x.status = st /\ x.job = runs[r].job /\ x.kind = runs[r].kind /\ x.results = vs
    BY <1>1 DEF RunRow, Verdict, Code
<1>3. runs' = IF runs[r].status = "running" THEN [runs EXCEPT ![r] = x] ELSE runs
    BY <1>1 DEF FinishBackupRun
<1> HIDE DEF x
<1> QED
    BY <1>1, <1>2, <1>3

LEMMA JobStepInv ==
    ASSUME IInv, NEW j \in Job, NEW def \in Def, NEW e \in BOOLEAN,
           CreateBackupJob(j, def, e) \/ UpdateBackupJob(j, def, e)
    PROVE  IInv' /\ TablesKept
<1> USE VolumeBackupsAssumption
<1>1. TablesKept
    BY DEF TablesKept, CreateBackupJob, UpdateBackupJob
<1>2. TypeOK /\ jobs \in [Job -> JobRow] /\ jobs[j] \in JobRow
    BY DEF IInv, TypeOK
<1>3. jobs' \in [Job -> JobRow]
    <2>1. CASE CreateBackupJob(j, def, e)
        <3>1. [state |-> "live", def |-> def, enabled |-> e] \in JobRow
            BY DEF JobRow
        <3> QED
            BY <1>2, <2>1, <3>1 DEF CreateBackupJob
    <2>2. CASE UpdateBackupJob(j, def, e)
        <3>1. [jobs[j] EXCEPT !.def = def, !.enabled = e] \in JobRow
            BY <1>2 DEF JobRow
        <3>2. jobs' = [jobs EXCEPT ![j] = [jobs[j] EXCEPT !.def = def, !.enabled = e]]
            BY <1>2, <2>2 DEF UpdateBackupJob
        <3> QED
            BY <1>2, <3>1, <3>2
    <2> QED
        BY <2>1, <2>2
<1>4. edits' \in 0 .. MaxEdits
    BY <1>2 DEF TypeOK, CreateBackupJob, UpdateBackupJob
<1>5. TypeOK'
    BY <1>2, <1>3, <1>4 DEF TypeOK, CreateBackupJob, UpdateBackupJob
<1> QED
    BY <1>1, <1>5, TablesKeptInv

LEMMA DeleteStepInv ==
    ASSUME IInv, (\E j \in Job : DeleteCheck(j)) \/ DeleteRuns \/ DeleteJob
    PROVE  IInv' /\ TablesKept
<1>0. TypeOK /\ runs \in [Run -> RunRow] /\ jobs \in [Job -> JobRow]
    BY DEF IInv, TypeOK
<1>1. CASE \E j \in Job : DeleteCheck(j)
    <2>1. TablesKept
        BY <1>1 DEF TablesKept, DeleteCheck
    <2>2. TypeOK'
        BY <1>0, <1>1 DEF TypeOK, DeleteCheck
    <2> QED
        BY <2>1, <2>2, TablesKeptInv
<1>2. CASE DeleteRuns
    <2>1. \A r \in Run : runs'[r] \in {runs[r], NoRun}
        BY <1>2 DEF DeleteRuns
    <2>2. TablesKept
        <3>1. \A r \in Run : runs[r].results \subseteq Volume /\ NoRun.results = {}
            BY <1>0 DEF RunRow, NoRun
        <3> QED
            BY <1>2, <2>1, <3>1, RowTypes DEF TablesKept, DeleteRuns
    <2>3. runs' \in [Run -> RunRow]
        BY <1>0, <1>2, RowTypes DEF DeleteRuns
    <2>4. TypeOK'
        BY <1>0, <1>2, <2>3 DEF TypeOK, DeleteRuns
    <2> QED
        BY <2>2, <2>4, TablesKeptInv
<1>3. CASE DeleteJob
    <2>1. TablesKept
        BY <1>3 DEF TablesKept, DeleteJob
    <2>2. jobs' \in [Job -> JobRow]
        BY <1>0, <1>3 DEF DeleteJob, JobRow
    <2>3. TypeOK'
        BY <1>0, <1>3, <2>2 DEF TypeOK, DeleteJob
    <2> QED
        BY <2>1, <2>3, TablesKeptInv
<1> QED
    BY <1>1, <1>2, <1>3

LEMMA AgentStepInv ==
    ASSUME IInv, NEW r \in Run, AgentStep(r)
    PROVE  IInv' /\ TablesKept
<1>0. TypeOK /\ work \in [Run -> Work] /\ work[r] \in Work
    BY DEF IInv, TypeOK
<1>1. \E st \in {"working", "refused", "lost", "ended"}, ok \in BOOLEAN :
          work' = [work EXCEPT ![r].state = st, ![r].ok = ok] /\ work[r].state \in {"sent", "working"}
    <2>1. \A st : [work EXCEPT ![r].state = st] = [work EXCEPT ![r].state = st, ![r].ok = work[r].ok]
        BY <1>0 DEF Work
    <2>2. work[r].ok \in BOOLEAN
        BY <1>0 DEF Work
    <2>3. CASE AgentEnds(r)
        BY <2>3 DEF AgentEnds
    <2>4. CASE AgentBegins(r)
        BY <2>1, <2>2, <2>4 DEF AgentBegins, AgentWork
    <2>5. CASE AgentRefuses(r)
        BY <2>1, <2>2, <2>5 DEF AgentRefuses, AgentWork
    <2>6. CASE AgentIsGone(r)
        BY <2>1, <2>2, <2>6 DEF AgentIsGone, AgentWork
    <2> QED
        BY <2>3, <2>4, <2>5, <2>6 DEF AgentStep
<1>2. PICK st \in {"working", "refused", "lost", "ended"}, ok \in BOOLEAN :
          work' = [work EXCEPT ![r].state = st, ![r].ok = ok] /\ work[r].state \in {"sent", "working"}
    BY <1>1
<1> DEFINE x == [work[r] EXCEPT !.state = st, !.ok = ok]
<1>3. work' = [work EXCEPT ![r] = x]
    BY <1>0, <1>2
<1>4. x \in Work /\ x.volumes = work[r].volumes
    BY <1>0 DEF Work
<1> HIDE DEF x
<1>5. UNCHANGED <<jobs, runs, lastRun, startMu, start, loaded, deleting, reported, edits>>
    BY DEF AgentStep, AgentBegins, AgentRefuses, AgentIsGone, AgentWork, AgentEnds
<1>6. TablesKept
    <2>1. \A q \in Run : work'[q].volumes = work[q].volumes /\ (q # r => work'[q] = work[q]) /\ work[r] # NoWork
        BY <1>0, <1>2, <1>3, <1>4, RowTypes
    <2> QED
        BY <1>5, <2>1 DEF TablesKept
<1>7. work' \in [Run -> Work]
    BY <1>0, <1>3, <1>4
<1>8. TypeOK'
    BY <1>0, <1>5, <1>7 DEF TypeOK
<1> QED
    BY <1>6, <1>8, TablesKeptInv

LEMMA ReportStepInv ==
    ASSUME IInv, NEW r \in Run, LoadReport(r) \/ RecordReport(r) \/ FailStaleBackupRuns(r)
    PROVE  IInv' /\ TablesKept
<1>0. /\ TypeOK /\ runs \in [Run -> RunRow] /\ work[r] \in Work
      /\ work[r].volumes \in SUBSET Volume /\ work[r].ok \in BOOLEAN
    BY DEF IInv, TypeOK, Work
<1>1. CASE LoadReport(r)
    <2>1. TablesKept
        BY <1>1 DEF TablesKept, LoadReport
    <2>2. TypeOK'
        BY <1>0, <1>1 DEF TypeOK, LoadReport
    <2> QED
        BY <2>1, <2>2, TablesKeptInv
<1>2. ASSUME RecordReport(r) \/ FailStaleBackupRuns(r) PROVE IInv' /\ TablesKept
    <2>1. PICK v \in SUBSET Volume, s \in Verdict, c \in Code :
                  FinishBackupRun(r, s, c, v) /\ v \in {work[r].volumes, {}}
        BY <1>0, <1>2 DEF RecordReport, FailStaleBackupRuns, Verdict, Code
    <2>a. TypeOK /\ FinishBackupRun(r, s, c, v)
        BY <1>0, <2>1
    <2>2. UNCHANGED <<jobs, lastRun, startMu, start, deleting, work, reported, edits>> /\ loaded' \subseteq loaded
        BY <1>2 DEF RecordReport, FailStaleBackupRuns
    <2>3. /\ runs' \in [Run -> RunRow]
          /\ \A q \in Run : q # r => runs'[q] = runs[q]
          /\ runs[r].status # "running" => runs'[r] = runs[r]
          /\ runs[r].status = "running" =>
                  /\ runs'[r].status = s /\ runs'[r].job = runs[r].job /\ runs'[r].kind = runs[r].kind
                  /\ runs'[r].results = v
        BY <2>a, FinishRows
    <2>4. TablesKept
        <3>1. \A q \in Run : runs'[q].results \subseteq runs[q].results \union work[q].volumes
            BY <2>1, <2>3
        <3> QED
            BY <2>2, <2>3, <3>1, RowTypes DEF TablesKept, Verdict
    <2>5. TypeOK'
        BY <1>0, <2>2, <2>3 DEF TypeOK
    <2> QED
        BY <2>4, <2>5, TablesKeptInv
<1> QED
    BY <1>1, <1>2

LEMMA ReportVolumesInv ==
    ASSUME IInv, NEW vs \in SUBSET Volume, ReportVolumes(vs)
    PROVE  IInv' /\ TablesKept
<1>1. TablesKept
    BY DEF TablesKept, ReportVolumes
<1>2. TypeOK'
    BY DEF IInv, TypeOK, ReportVolumes
<1> QED
    BY <1>1, <1>2, TablesKeptInv

-----------------------------------------------------------------------------
(* Starters.                                                                *)

LEMMA FewerWaiting ==
    ASSUME IInv, lastRun' = lastRun, Waiting' \subseteq Waiting
    PROVE  IdsSuffice'
<1>1. IsFiniteSet(Waiting) /\ Cardinality(Waiting) \in Nat
    BY WaitingIsFinite
<1>2. IsFiniteSet(Waiting') /\ Cardinality(Waiting') <= Cardinality(Waiting) /\ Cardinality(Waiting') \in Nat
    BY <1>1, FS_Subset, FS_CardinalityType
<1>3. lastRun \in Nat /\ MaxRuns \in Nat /\ lastRun + Cardinality(Waiting) <= MaxRuns
    BY VolumeBackupsAssumption DEF IInv, TypeOK, IdsSuffice
<1> QED
    BY <1>1, <1>2, <1>3 DEF IdsSuffice

(* The holder of the lock goes on, or lets go of it: nobody else is past    *)
(* the lock, and it touches no run but its own.                             *)
HolderStep(s, x) ==
    /\ start[s].pc \notin {"idle", "lock"}
    /\ start' = [start EXCEPT ![s] = x]
    /\ \/ x = Idle /\ startMu' = "free"
       \/ x.run = start[s].run /\ x.job = start[s].job /\ startMu' = startMu
          /\ x.pc \in {"create", "fail", "send", "reply", "finish"}
    /\ UNCHANGED <<jobs, lastRun, loaded, deleting, reported, edits>>
    /\ \A r \in Run : r # start[s].run => runs'[r] = runs[r] /\ work'[r] = work[r]

LEMMA HolderStepInv ==
    ASSUME IInv, NEW s \in Starter, NEW x \in StartState, HolderStep(s, x),
           runs' \in [Run -> RunRow], work' \in [Run -> Work],
           runs'[start[s].run] # NoRun =>
               runs'[start[s].run].status # "none" /\ runs'[start[s].run].job = start[s].job,
           x.pc \in {"create", "fail"} => runs'[start[s].run] = NoRun,
           x.pc \in {"create", "fail", "send"} => work'[start[s].run] = NoWork
    PROVE  IInv'
<1> USE VolumeBackupsAssumption
<1>0. /\ TypeOK /\ start \in [Starter -> StartState] /\ startMu = s /\ start[s].run = lastRun /\ lastRun \in Run
      /\ start[s].job \in Job /\ lastRun' = lastRun /\ start'[s] = x /\ lastRun # 0
    BY DEF IInv, TypeOK, StartersStand, StarterStands, HolderStep, Run
<1>1. \A t \in Starter : t # s => start'[t] = start[t] /\ start[t].pc \in {"idle", "lock"}
    BY <1>0 DEF IInv, StartersStand, StarterStands, HolderStep
<1>2. TypeOK'
    <2>1. start' \in [Starter -> StartState]
        BY <1>0 DEF HolderStep
    <2>2. startMu' \in Starter \union {"free"}
        BY <1>0 DEF HolderStep
    <2> QED
        BY <1>0, <2>1, <2>2 DEF TypeOK, HolderStep
<1>3. IdsSuffice'
    <2>1. Waiting' \subseteq Waiting
        BY <1>0, <1>1, RowTypes DEF Waiting, At, HolderStep
    <2> QED
        BY <1>0, <2>1, FewerWaiting
<1>4. StartersStand'
    <2> SUFFICES ASSUME NEW t \in Starter PROVE StarterStands(t)'
        BY DEF StartersStand
    <2>1. StarterStands(t)
        BY DEF IInv, StartersStand
    <2>2. CASE t # s
        BY <1>1, <2>1, <2>2 DEF StarterStands
    <2>3. CASE t = s /\ x = Idle
        BY <1>0, <2>3, RowTypes DEF StarterStands
    <2>4. CASE t = s /\ x # Idle
        <3>1. /\ x.run = lastRun /\ x.job = start[s].job /\ startMu' = s
              /\ x.pc \in {"create", "fail", "send", "reply", "finish"}
            BY <1>0, <2>4 DEF HolderStep
        <3> QED
            BY <1>0, <2>4, <3>1 DEF StarterStands
    <2> QED
        BY <2>2, <2>3, <2>4
<1>5. FreshIds'
    BY <1>0 DEF IInv, FreshIds, HolderStep, Run
<1>6. RowsHaveJobs'
    BY <1>0 DEF IInv, RowsHaveJobs, HolderStep
<1> QED
    BY <1>2, <1>3, <1>4, <1>5, <1>6 DEF IInv

LEMMA HolderFacts ==
    ASSUME IInv, NEW s \in Starter, start[s].pc \notin {"idle", "lock"}
    PROVE  /\ start[s] \in StartState /\ start[s].run \in Run /\ start[s].run = lastRun /\ startMu = s
           /\ start[s].job \in Job
           /\ start[s].pc \in {"decide", "create", "fail"} => runs[start[s].run] = NoRun
           /\ start[s].pc \in {"decide", "create", "fail", "send"} => work[start[s].run] = NoWork
           /\ runs[start[s].run] # NoRun => runs[start[s].run].job = start[s].job
           /\ runs \in [Run -> RunRow] /\ work \in [Run -> Work]
           /\ \A r \in Run : runs[r] # NoRun => runs[r].status # "none" /\ runs[r].job \in Job
BY DEF IInv, TypeOK, StartersStand, StarterStands, RowsHaveJobs

(* Decide, NotSent and NotStarted: only what the starter knows changes.     *)
LEMMA ThinkStepInv ==
    ASSUME IInv, NEW s \in Starter, Decide(s) \/ NotSent(s) \/ NotStarted(s)
    PROVE  /\ IInv' /\ UNCHANGED <<runs, work>>
           /\ \E x \in StartState : HolderStep(s, x) /\ x.def = start[s].def
<1>0. /\ start[s].pc \notin {"idle", "lock"} /\ start[s].pc \in {"decide", "send", "reply"}
    BY DEF Decide, NotSent, NotStarted, At
<1>1. start \in [Starter -> StartState] /\ start[s] \in StartState /\ UNCHANGED <<runs, work>>
    BY DEF IInv, TypeOK, Decide, NotSent, NotStarted
<1>2. PICK pc \in {"create", "fail", "finish"}, c \in {"", "VALIDATION", "CONCURRENCY", "REFUSED", "AGENT"},
           vs \in SUBSET Volume :
              /\ start' = [start EXCEPT ![s].pc = pc, ![s].code = c, ![s].volumes = vs]
              /\ start[s].pc # "decide" => pc = "finish"
    <2>1. CASE Decide(s)
        <3> DEFINE volumes == IF start[s].kind = "restore" THEN start[s].volumes ELSE ResolveSelection(start[s].def)
        <3>1. volumes \in SUBSET Volume
            BY <1>1 DEF StartState, ResolveSelection
        <3>2. \E pc \in {"create", "fail"}, c \in {"", "VALIDATION", "CONCURRENCY", "REFUSED"} :
                  start' = [start EXCEPT ![s].pc = pc, ![s].code = c, ![s].volumes = volumes]
            BY <2>1 DEF Decide
        <3>3. start[s].pc = "decide"
            BY <2>1 DEF Decide, At
        <3> HIDE DEF volumes
        <3> QED
            BY <3>1, <3>2, <3>3
    <2>2. CASE NotSent(s) \/ NotStarted(s)
        <3>1. start' = [start EXCEPT ![s].pc = "finish", ![s].code = "AGENT"]
            BY <2>2 DEF NotSent, NotStarted
        <3>2. start' = [start EXCEPT ![s].pc = "finish", ![s].code = "AGENT", ![s].volumes = start[s].volumes]
            BY <1>1, <3>1 DEF StartState
        <3>3. start[s].volumes \in SUBSET Volume
            BY <1>1 DEF StartState
        <3> QED
            BY <3>2, <3>3
    <2> QED
        BY <2>1, <2>2
<1> DEFINE x == [start[s] EXCEPT !.pc = pc, !.code = c, !.volumes = vs]
<1>3. x \in StartState /\ x.pc = pc /\ x.run = start[s].run /\ x.job = start[s].job /\ x.def = start[s].def
    BY <1>1 DEF StartState
<1>4. start' = [start EXCEPT ![s] = x]
    BY <1>1, <1>2
<1> HIDE DEF x
<1>5. HolderStep(s, x)
    BY <1>0, <1>1, <1>3, <1>4 DEF HolderStep, Decide, NotSent, NotStarted
<1>6. IInv'
    <2>1. /\ runs' \in [Run -> RunRow] /\ work' \in [Run -> Work]
          /\ runs'[start[s].run] # NoRun => runs'[start[s].run].status # "none" /\ runs'[start[s].run].job = start[s].job
          /\ x.pc \in {"create", "fail"} => runs'[start[s].run] = NoRun
          /\ x.pc \in {"create", "fail", "send"} => work'[start[s].run] = NoWork
        BY <1>0, <1>1, <1>2, <1>3, HolderFacts
    <2> QED
        BY <1>3, <1>5, <2>1, HolderStepInv
<1> QED
    BY <1>1, <1>3, <1>5, <1>6

LEMMA CreateStepInv ==
    ASSUME IInv, NEW s \in Starter, CreateBackupRun(s)
    PROVE  /\ IInv' /\ work' = work
           /\ \E x \in StartState :
                 /\ HolderStep(s, x) /\ x.def = start[s].def /\ x.volumes = start[s].volumes
                 /\ x.pc = "send" => start[s].pc = "create"
                 /\ x.pc \in {"send", "finish"}
           /\ runs[start[s].run] = NoRun
           /\ runs'[start[s].run].job = start[s].job /\ runs'[start[s].run].results = {}
           /\ work[start[s].run] = NoWork
<1> DEFINE i == start[s].run
           y == [NoRun EXCEPT !.status = "running", !.job = start[s].job, !.kind = start[s].kind]
           x == [start[s] EXCEPT !.pc = IF start[s].pc = "create" THEN "send" ELSE "finish"]
<1>0. start[s].pc \notin {"idle", "lock"} /\ start[s].pc \in {"create", "fail"} /\ work' = work
    BY DEF CreateBackupRun
<1>1. /\ start \in [Starter -> StartState] /\ start[s] \in StartState
      /\ i \in Run /\ start[s].job \in Job /\ work[i] = NoWork /\ work \in [Run -> Work] /\ runs \in [Run -> RunRow]
      /\ runs[i] = NoRun
    BY <1>0, HolderFacts DEF IInv, TypeOK
<1>2. /\ x \in StartState /\ x.run = i /\ x.job = start[s].job /\ x.def = start[s].def /\ x.volumes = start[s].volumes
      /\ x.pc \in {"send", "finish"} /\ (x.pc = "send" => start[s].pc = "create")
    BY <1>1 DEF StartState
<1>3. y \in RunRow /\ y.job = start[s].job /\ y.results = {} /\ y.status = "running"
    BY <1>1 DEF NoRun, RunRow, StartState
<1>4. runs' = [runs EXCEPT ![i] = y] /\ start' = [start EXCEPT ![s] = x]
    BY <1>1 DEF CreateBackupRun
<1> HIDE DEF x, y
<1>5. HolderStep(s, x)
    BY <1>0, <1>1, <1>2, <1>4 DEF HolderStep, CreateBackupRun
<1>6. IInv'
    <2>1. /\ runs' \in [Run -> RunRow] /\ work' \in [Run -> Work]
          /\ runs'[i] # NoRun => runs'[i].status # "none" /\ runs'[i].job = start[s].job
          /\ x.pc \notin {"create", "fail"}
          /\ x.pc \in {"create", "fail", "send"} => work'[i] = NoWork
        BY <1>0, <1>1, <1>2, <1>3, <1>4
    <2> QED
        BY <1>2, <1>5, <2>1, HolderStepInv
<1> QED
    BY <1>0, <1>1, <1>2, <1>3, <1>4, <1>5, <1>6

LEMMA SendStepInv ==
    ASSUME IInv, NEW s \in Starter, Send(s)
    PROVE  /\ IInv' /\ runs' = runs
           /\ \E x \in StartState :
                 /\ HolderStep(s, x) /\ x.def = start[s].def /\ x.volumes = start[s].volumes
                 /\ x.pc = "reply"
           /\ start[s].pc = "send"
           /\ work'[start[s].run].volumes = start[s].volumes
<1> DEFINE i == start[s].run
           y == [NoWork EXCEPT !.state = "sent", !.volumes = start[s].volumes]
           x == [start[s] EXCEPT !.pc = "reply"]
<1>0. start[s].pc \notin {"idle", "lock"} /\ start[s].pc = "send" /\ runs' = runs
    BY DEF Send, At
<1>1. /\ start \in [Starter -> StartState] /\ start[s] \in StartState
      /\ i \in Run /\ work \in [Run -> Work] /\ runs \in [Run -> RunRow]
      /\ runs[i] # NoRun => runs[i].status # "none" /\ runs[i].job = start[s].job
    BY <1>0, HolderFacts DEF IInv, TypeOK
<1>2. /\ x \in StartState /\ x.run = i /\ x.job = start[s].job /\ x.def = start[s].def /\ x.volumes = start[s].volumes
      /\ x.pc = "reply"
    BY <1>1 DEF StartState
<1>3. y \in Work /\ y.volumes = start[s].volumes
    BY <1>1 DEF NoWork, Work, StartState
<1>4. work' = [work EXCEPT ![i] = y] /\ start' = [start EXCEPT ![s] = x]
    BY <1>1 DEF Send
<1> HIDE DEF x, y
<1>5. HolderStep(s, x)
    BY <1>0, <1>1, <1>2, <1>4 DEF HolderStep, Send
<1>6. IInv'
    <2>1. /\ runs' \in [Run -> RunRow] /\ work' \in [Run -> Work]
          /\ runs'[i] # NoRun => runs'[i].status # "none" /\ runs'[i].job = start[s].job
          /\ x.pc \notin {"create", "fail", "send"}
        BY <1>0, <1>1, <1>2, <1>3, <1>4
    <2> QED
        BY <1>2, <1>5, <2>1, HolderStepInv
<1> QED
    BY <1>0, <1>1, <1>2, <1>3, <1>4, <1>5, <1>6

(* The starter is done, with the agent's answer or the row's verdict.       *)
LEMMA LeaveStepInv ==
    ASSUME IInv, NEW s \in Starter, Started(s) \/ FinishFailed(s)
    PROVE  /\ IInv' /\ work' = work
           /\ HolderStep(s, Idle)
           /\ LET i == start[s].run IN
              /\ i \in Run
              /\ runs[i].status # "running" => runs'[i] = runs[i]
              /\ runs[i].status = "running" =>
                    \/ runs'[i] = runs[i]
                    \/ runs'[i].status = "error" /\ runs'[i].job = runs[i].job /\ runs'[i].results = {}
<1> DEFINE i == start[s].run
<1>0. start[s].pc \notin {"idle", "lock"} /\ work' = work
    BY DEF Started, FinishFailed, At
<1>1. /\ TypeOK /\ start \in [Starter -> StartState] /\ start[s] \in StartState
      /\ i \in Run /\ work \in [Run -> Work] /\ runs \in [Run -> RunRow]
      /\ runs[i] # NoRun => runs[i].status # "none" /\ runs[i].job = start[s].job
    BY <1>0, HolderFacts DEF IInv, TypeOK
<1>2. /\ runs' \in [Run -> RunRow]
      /\ \A q \in Run : q # i => runs'[q] = runs[q]
      /\ runs[i].status # "running" => runs'[i] = runs[i]
      /\ runs[i].status = "running" =>
             \/ runs'[i] = runs[i]
             \/ runs'[i].status = "error" /\ runs'[i].job = runs[i].job /\ runs'[i].results = {}
    <2>1. CASE Started(s)
        BY <1>1, <2>1 DEF Started
    <2>2. CASE FinishFailed(s)
        <3>1. start[s].code \in Code /\ "error" \in Verdict /\ {} \in SUBSET Volume
            BY <1>1 DEF StartState, Code, Verdict
        <3>2. FinishBackupRun(start[s].run, "error", start[s].code, {})
            BY <2>2 DEF FinishFailed
        <3> QED
            BY <1>1, <3>1, <3>2, FinishRows
    <2> QED
        BY <2>1, <2>2
<1>3. HolderStep(s, Idle)
    BY <1>0, <1>2 DEF HolderStep, Started, FinishFailed
<1>4. IInv'
    <2>1. runs'[i] # NoRun => runs'[i].status # "none" /\ runs'[i].job = start[s].job
        BY <1>1, <1>2, RowTypes
    <2> QED
        BY <1>0, <1>1, <1>2, <1>3, <2>1, RowTypes, HolderStepInv
<1> QED
    BY <1>0, <1>1, <1>2, <1>3, <1>4

LEMMA LockStepInv ==
    ASSUME IInv, NEW s \in Starter, Lock(s)
    PROVE  /\ IInv' /\ UNCHANGED <<jobs, runs, loaded, deleting, work, reported, edits>>
           /\ \A t \in Starter : t # s => start'[t] = start[t]
           /\ \E x \in StartState :
                 /\ start'[s] = x /\ x.pc = "decide" /\ start[s].pc = "lock"
                 /\ x.def = start[s].def /\ x.volumes = start[s].volumes /\ x.job = start[s].job
<1> USE VolumeBackupsAssumption
<1> DEFINE x == [start[s] EXCEPT !.pc = "decide", !.run = lastRun + 1]
<1>0. /\ TypeOK /\ start \in [Starter -> StartState] /\ start[s] \in StartState /\ start[s].pc = "lock"
      /\ start[s].run = 0 /\ start[s].job \in Job /\ lastRun \in Nat /\ MaxRuns \in Nat
      /\ startMu = "free" /\ startMu' = s /\ lastRun' = lastRun + 1
      /\ UNCHANGED <<jobs, runs, loaded, deleting, work, reported, edits>>
    BY DEF IInv, TypeOK, StartersStand, StarterStands, Lock, At
<1>1. s \in Waiting
    BY <1>0 DEF Waiting, At
<1>2. /\ IsFiniteSet(Waiting) /\ Cardinality(Waiting) \in Nat
      /\ Cardinality(Waiting \ {s}) = Cardinality(Waiting) - 1 /\ IsFiniteSet(Waiting \ {s})
      /\ Cardinality(Waiting \ {s}) \in Nat
    BY <1>1, WaitingIsFinite, FS_RemoveElement, FS_CardinalityType
<1>3. lastRun + Cardinality(Waiting) <= MaxRuns
    BY DEF IInv, IdsSuffice
<1>4. lastRun + 1 \in Run /\ lastRun + 1 \in 0 .. MaxRuns
    BY <1>0, <1>2, <1>3 DEF Run
<1>5. /\ x \in StartState /\ x.pc = "decide" /\ x.run = lastRun + 1 /\ x.job = start[s].job
      /\ x.def = start[s].def /\ x.volumes = start[s].volumes
    <2> HIDE VolumeBackupsAssumption
    <2> DEFINE n == lastRun + 1
    <2>1. n \in 0 .. MaxRuns /\ start[s] \in StartState
        BY <1>0, <1>4
    <2> HIDE DEF n
    <2>2. [start[s] EXCEPT !.pc = "decide", !.run = n] \in StartState
        BY <2>1 DEF StartState
    <2>3. LET y == [start[s] EXCEPT !.pc = "decide", !.run = n] IN
              /\ y.pc = "decide" /\ y.run = n /\ y.job = start[s].job
              /\ y.def = start[s].def /\ y.volumes = start[s].volumes
        BY <2>1 DEF StartState
    <2> QED
        BY <2>2, <2>3 DEF n
<1>6. start' = [start EXCEPT ![s] = x]
    BY <1>0 DEF Lock
<1> HIDE DEF x
<1>7. \A t \in Starter : t # s => start'[t] = start[t] /\ start[t].pc \in {"idle", "lock"}
    BY <1>0, <1>6 DEF IInv, StartersStand, StarterStands
<1>8. TypeOK'
    <2>1. start' \in [Starter -> StartState] /\ startMu' \in Starter \union {"free"} /\ lastRun' \in 0 .. MaxRuns
        BY <1>0, <1>4, <1>5, <1>6 DEF Run
    <2> QED
        BY <1>0, <2>1 DEF TypeOK
<1>9. IdsSuffice'
    <2>1. Waiting' = Waiting \ {s}
        BY <1>0, <1>5, <1>6, <1>7 DEF Waiting, At
    <2> QED
        BY <1>0, <1>2, <1>3, <2>1 DEF IdsSuffice
<1>10. runs[lastRun + 1] = NoRun /\ work[lastRun + 1] = NoWork
    BY <1>0, <1>4 DEF IInv, FreshIds
<1>11. StartersStand'
    <2> SUFFICES ASSUME NEW t \in Starter PROVE StarterStands(t)'
        BY DEF StartersStand
    <2>1. StarterStands(t)
        BY DEF IInv, StartersStand
    <2>2. CASE t # s
        BY <1>7, <2>1, <2>2 DEF StarterStands
    <2>3. CASE t = s
        BY <1>0, <1>4, <1>5, <1>6, <1>10, <2>3 DEF StarterStands
    <2> QED
        BY <2>2, <2>3
<1>12. FreshIds' /\ RowsHaveJobs'
    BY <1>0 DEF IInv, FreshIds, RowsHaveJobs, Run
<1> QED
    BY <1>0, <1>5, <1>6, <1>7, <1>8, <1>9, <1>11, <1>12 DEF IInv

(* A page or a schedule asks for a run: the job is copied.                  *)
LEMMA LoadStepInv ==
    ASSUME IInv, NEW s \in Starter, NEW j \in Job, NEW k \in Kind, NEW vs \in SUBSET Volume, Loaded(s, j, k, vs)
    PROVE  /\ IInv' /\ UNCHANGED <<jobs, runs, loaded, deleting, work, reported, edits>>
           /\ \A t \in Starter : t # s => start'[t] = start[t]
           /\ \E x \in StartState :
                 start'[s] = x /\ x.pc = "lock" /\ x.def = jobs[j].def /\ x.volumes = vs /\ x.job = j
<1> USE VolumeBackupsAssumption
<1> DEFINE x == [Idle EXCEPT !.pc = "lock", !.job = j, !.def = jobs[j].def, !.kind = k, !.volumes = vs]
<1>0. /\ TypeOK /\ start \in [Starter -> StartState] /\ start[s].pc = "idle"
      /\ lastRun \in Nat /\ MaxRuns \in Nat /\ jobs[j] \in JobRow
      /\ UNCHANGED <<jobs, runs, lastRun, startMu, loaded, deleting, work, reported, edits>>
    BY DEF IInv, TypeOK, Loaded, At
<1>1. s \notin Waiting /\ lastRun + Cardinality(Waiting) < MaxRuns
    BY <1>0 DEF Waiting, At, Loaded
<1>2. /\ IsFiniteSet(Waiting) /\ Cardinality(Waiting) \in Nat
      /\ Cardinality(Waiting \union {s}) = Cardinality(Waiting) + 1
    BY <1>1, WaitingIsFinite, FS_AddElement
<1>3. /\ x \in StartState /\ x.pc = "lock" /\ x.run = 0 /\ x.job = j /\ x.def = jobs[j].def /\ x.volumes = vs
    <2> HIDE VolumeBackupsAssumption
    <2>1. jobs[j].def \in Def \union {NoDef}
        BY <1>0 DEF JobRow
    <2>2. Idle \in StartState /\ Idle.run = 0
        BY RowTypes
    <2> QED
        BY <2>1, <2>2 DEF StartState
<1>4. start' = [start EXCEPT ![s] = x]
    BY <1>0 DEF Loaded
<1> HIDE DEF x
<1>5. \A t \in Starter : t # s => start'[t] = start[t]
    BY <1>0, <1>4
<1>6. TypeOK'
    <2>1. start' \in [Starter -> StartState]
        BY <1>0, <1>3, <1>4
    <2> QED
        BY <1>0, <2>1 DEF TypeOK
<1>7. IdsSuffice'
    <2>1. Waiting' = Waiting \union {s}
        BY <1>0, <1>3, <1>4, <1>5 DEF Waiting, At
    <2> QED
        BY <1>0, <1>1, <1>2, <2>1 DEF IdsSuffice
<1>8. StartersStand'
    <2> SUFFICES ASSUME NEW t \in Starter PROVE StarterStands(t)'
        BY DEF StartersStand
    <2>1. StarterStands(t)
        BY DEF IInv, StartersStand
    <2>2. CASE t # s
        BY <1>0, <1>5, <2>1, <2>2 DEF StarterStands
    <2>3. CASE t = s
        BY <1>0, <1>3, <1>4, <2>3 DEF StarterStands
    <2> QED
        BY <2>2, <2>3
<1>9. FreshIds' /\ RowsHaveJobs'
    BY <1>0 DEF IInv, FreshIds, RowsHaveJobs
<1> QED
    BY <1>0, <1>3, <1>4, <1>5, <1>6, <1>7, <1>8, <1>9 DEF IInv

LEMMA CrashInv ==
    ASSUME IInv, Crash
    PROVE  IInv' /\ UNCHANGED <<jobs, runs, work, reported, edits>> /\ \A s \in Starter : start'[s] = Idle
<1>0. /\ TypeOK /\ startMu' = "free" /\ loaded' = {} /\ lastRun' = lastRun
      /\ deleting' = [pc |-> "idle", job |-> "none"]
      /\ start' = [s \in Starter |-> Idle] /\ UNCHANGED <<jobs, runs, lastRun, work, reported, edits>>
    BY DEF IInv, Crash
<1>1. \A s \in Starter : start'[s] = Idle
    BY <1>0
<1>2. TypeOK'
    <2>1. start' \in [Starter -> StartState]
        BY <1>0, RowTypes
    <2> QED
        BY <1>0, <2>1 DEF TypeOK
<1>3. IdsSuffice'
    <2>1. Waiting' \subseteq Waiting
        BY <1>1, RowTypes DEF Waiting, At
    <2> QED
        BY <1>0, <2>1, FewerWaiting
<1>4. StartersStand'
    BY <1>1, RowTypes DEF StartersStand, StarterStands
<1>5. FreshIds' /\ RowsHaveJobs'
    BY <1>0 DEF IInv, FreshIds, RowsHaveJobs
<1> QED
    BY <1>0, <1>1, <1>2, <1>3, <1>4, <1>5 DEF IInv

-----------------------------------------------------------------------------
LEMMA InitInv == Init => IInv
<1> SUFFICES ASSUME Init PROVE IInv
    OBVIOUS
<1> USE VolumeBackupsAssumption, RowTypes
<1>1. TypeOK
    BY DEF Init, TypeOK, JobRow
<1>2. IdsSuffice
    <2>1. Waiting = {}
        BY DEF Init, Waiting, At
    <2> QED
        BY <2>1, FS_EmptySet DEF Init, IdsSuffice
<1>3. StartersStand /\ FreshIds /\ RowsHaveJobs
    BY DEF Init, StartersStand, StarterStands, FreshIds, RowsHaveJobs
<1> QED
    BY <1>1, <1>2, <1>3 DEF IInv

LEMMA StartStepInv ==
    ASSUME IInv, NEW s \in Starter, StartStep(s)
    PROVE  IInv'
BY ThinkStepInv, CreateStepInv, SendStepInv, LeaveStepInv, LockStepInv DEF StartStep

LEMMA AskStepInv ==
    ASSUME IInv, NEW s \in Starter, NEW j \in Job,
           ManualBackup(s, j) \/ ScheduledBackup(s, j) \/ \E v \in Volume : Restore(s, j, v)
    PROVE  /\ IInv'
           /\ \E k \in Kind, vs \in SUBSET Volume :
                 Loaded(s, j, k, vs) /\ (vs = {} \/ \E v \in Volume : vs = {v} /\ v \in RestorableVolumes(j))
<1>1. \E k \in Kind, vs \in SUBSET Volume :
          Loaded(s, j, k, vs) /\ (vs = {} \/ \E v \in Volume : vs = {v} /\ v \in RestorableVolumes(j))
    <2>1. CASE ManualBackup(s, j) \/ ScheduledBackup(s, j)
        <3>1. Loaded(s, j, "backup", {}) /\ "backup" \in Kind /\ {} \in SUBSET Volume
            BY <2>1 DEF ManualBackup, ScheduledBackup, Kind
        <3> QED
            BY <3>1
    <2>2. ASSUME NEW v \in Volume, Restore(s, j, v)
          PROVE  \E k \in Kind, vs \in SUBSET Volume :
                     Loaded(s, j, k, vs) /\ (vs = {} \/ \E w \in Volume : vs = {w} /\ w \in RestorableVolumes(j))
        <3>1. Loaded(s, j, "restore", {v}) /\ "restore" \in Kind /\ {v} \in SUBSET Volume /\ v \in RestorableVolumes(j)
            BY <2>2 DEF Restore, Kind
        <3> QED
            BY <3>1
    <2> QED
        BY <2>1, <2>2
<1>2. PICK k \in Kind, vs \in SUBSET Volume : Loaded(s, j, k, vs)
    BY <1>1
<1> QED
    BY <1>1, <1>2, LoadStepInv

LEMMA NextInv == IInv /\ [Next]_vars => IInv'
<1> SUFFICES ASSUME IInv, [Next]_vars PROVE IInv'
    OBVIOUS
<1>1. CASE UNCHANGED vars
    <2>1. TablesKept /\ TypeOK'
        BY <1>1 DEF vars, TablesKept, IInv, TypeOK
    <2> QED
        BY <2>1, TablesKeptInv
<1>2. ASSUME NEW j \in Job, NEW def \in Def, NEW e \in BOOLEAN,
             CreateBackupJob(j, def, e) \/ UpdateBackupJob(j, def, e)
      PROVE  IInv'
    BY <1>2, JobStepInv
<1>3. CASE (\E j \in Job : DeleteCheck(j)) \/ DeleteRuns \/ DeleteJob
    BY <1>3, DeleteStepInv
<1>4. ASSUME NEW s \in Starter, NEW j \in Job,
             ManualBackup(s, j) \/ ScheduledBackup(s, j) \/ \E v \in Volume : Restore(s, j, v)
      PROVE  IInv'
    BY <1>4, AskStepInv
<1>5. ASSUME NEW s \in Starter, StartStep(s) PROVE IInv'
    BY <1>5, StartStepInv
<1>6. ASSUME NEW r \in Run, AgentStep(r) \/ LoadReport(r) \/ RecordReport(r) \/ FailStaleBackupRuns(r)
      PROVE  IInv'
    BY <1>6, AgentStepInv, ReportStepInv
<1>7. ASSUME NEW vs \in SUBSET Volume, ReportVolumes(vs) PROVE IInv'
    BY <1>7, ReportVolumesInv
<1>8. CASE Crash
    BY <1>8, CrashInv
<1> QED
    BY <1>1, <1>2, <1>3, <1>4, <1>5, <1>6, <1>7, <1>8 DEF Next

(* Ids, rows, the lock and what the agent knows stay in step, through every *)
(* overlap of clicks, schedules, reports, edits, deletions and restarts.    *)
THEOREM BackupsStand == Spec => []IInv
BY InitInv, NextInv, PTL DEF Spec

-----------------------------------------------------------------------------
(* Verdicts.                                                                *)

VerdictsKept == \A r \in Run : runs[r].status \in {"success", "error"} => runs'[r] \in {runs[r], NoRun}

LEMMA NextKeepsVerdicts == IInv /\ [Next]_vars => VerdictsKept
<1> SUFFICES ASSUME IInv, [Next]_vars PROVE VerdictsKept
    OBVIOUS
<1>a. ASSUME runs' = runs PROVE VerdictsKept
    BY <1>a DEF VerdictsKept
<1>1. CASE UNCHANGED vars
    BY <1>1, <1>a DEF vars
<1>2. ASSUME NEW j \in Job, NEW def \in Def, NEW e \in BOOLEAN,
             CreateBackupJob(j, def, e) \/ UpdateBackupJob(j, def, e)
      PROVE  VerdictsKept
    BY <1>2, <1>a DEF CreateBackupJob, UpdateBackupJob
<1>3. CASE (\E j \in Job : DeleteCheck(j)) \/ DeleteRuns \/ DeleteJob
    <2>1. CASE (\E j \in Job : DeleteCheck(j)) \/ DeleteJob
        BY <2>1, <1>a DEF DeleteCheck, DeleteJob
    <2>2. CASE DeleteRuns
        BY <2>2 DEF DeleteRuns, VerdictsKept
    <2> QED
        BY <1>3, <2>1, <2>2
<1>4. ASSUME NEW s \in Starter, NEW j \in Job,
             ManualBackup(s, j) \/ ScheduledBackup(s, j) \/ \E v \in Volume : Restore(s, j, v)
      PROVE  VerdictsKept
    BY <1>4, <1>a DEF ManualBackup, ScheduledBackup, Restore, Loaded
<1>5. ASSUME NEW s \in Starter, StartStep(s) PROVE VerdictsKept
    <2>1. CASE Lock(s) \/ Decide(s) \/ NotSent(s) \/ NotStarted(s) \/ Send(s) \/ Started(s)
        BY <2>1, <1>a DEF Lock, Decide, NotSent, NotStarted, Send, Started
    <2>2. CASE CreateBackupRun(s)
        <3>1. PICK x \in StartState : HolderStep(s, x)
            BY <2>2, CreateStepInv
        <3>2. runs[start[s].run].status = "none"
            BY <2>2, CreateStepInv, RowTypes
        <3> QED
            BY <3>1, <3>2 DEF HolderStep, VerdictsKept
    <2>3. CASE FinishFailed(s)
        <3>1. HolderStep(s, Idle) /\ (runs[start[s].run].status # "running" => runs'[start[s].run] = runs[start[s].run])
            BY <2>3, LeaveStepInv
        <3> QED
            BY <3>1 DEF HolderStep, VerdictsKept
    <2> QED
        BY <1>5, <2>1, <2>2, <2>3 DEF StartStep
<1>6. ASSUME NEW r \in Run, AgentStep(r) \/ LoadReport(r) \/ RecordReport(r) \/ FailStaleBackupRuns(r)
      PROVE  VerdictsKept
    <2>1. CASE AgentStep(r) \/ LoadReport(r)
        BY <2>1, <1>a DEF AgentStep, AgentBegins, AgentRefuses, AgentIsGone, AgentWork, AgentEnds, LoadReport
    <2>2. CASE RecordReport(r) \/ FailStaleBackupRuns(r)
        <3>1. \E st, c, vs : FinishBackupRun(r, st, c, vs)
            BY <2>2 DEF RecordReport, FailStaleBackupRuns
        <3>2. runs \in [Run -> RunRow]
            BY DEF IInv, TypeOK
        <3> QED
            BY <3>1, <3>2 DEF FinishBackupRun, VerdictsKept
    <2> QED
        BY <1>6, <2>1, <2>2
<1>7. ASSUME NEW vs \in SUBSET Volume, ReportVolumes(vs) PROVE VerdictsKept
    BY <1>7, <1>a DEF ReportVolumes
<1>8. CASE Crash
    BY <1>8, <1>a DEF Crash
<1> QED
    BY <1>1, <1>2, <1>3, <1>4, <1>5, <1>6, <1>7, <1>8 DEF Next

(* FinishBackupRun's "AND status = 'running'", and ids that are never given *)
(* out twice: what a run's page says of how it ended does not change, until *)
(* the run is deleted with its job.                                         *)
THEOREM VerdictStays == Spec => VerdictIsFinal
<1>1. IInv /\ [Next]_vars => [\A r \in Run : runs[r].status \in {"success", "error"} => runs'[r] \in {runs[r], NoRun}]_vars
    BY NextKeepsVerdicts DEF VerdictsKept
<1> QED
    BY <1>1, BackupsStand, PTL DEF Spec, VerdictIsFinal

-----------------------------------------------------------------------------
(* Runs in progress, while every job selects what it selected.              *)

(* A job that exists keeps its definition and resolves to no less; one that *)
(* is gone does not come back.                                              *)
JobsKept ==
    \A j \in Job : jobs[j].state # "none" =>
        /\ jobs'[j].state # "none" /\ jobs'[j].def = jobs[j].def
        /\ Reach[j] \subseteq Reach'[j]
        /\ jobs'[j].state = "live" => jobs[j].state = "live"

LEMMA UnchangedJobsKept ==
    ASSUME UNCHANGED <<jobs, reported>>
    PROVE  JobsKept
BY DEF JobsKept, Reach, ResolveSelection

(* The steps that leave the starters alone, and change no definition.       *)
LEMMA QuietStep ==
    ASSUME IInv, Undisturbed, JobsKept, TablesKept, edits = 0
    PROVE  Undisturbed'
<1>1. ASSUME NEW s \in Starter PROVE StarterCovered(s)'
    <2>1. start'[s] = start[s] /\ StarterCovered(s) /\ (start[s].pc # "idle" => start[s].job \in Job)
        BY DEF TablesKept, Undisturbed, IInv, StartersStand, StarterStands
    <2> QED
        BY <2>1 DEF StarterCovered, JobsKept
<1>2. ASSUME NEW r \in Run PROVE RunCovered(r)'
    <2>1. SUFFICES ASSUME runs'[r].status # "none"
                   PROVE  /\ jobs'[runs'[r].job].state # "none"
                          /\ runs'[r].results \union work'[r].volumes \subseteq Reach'[runs'[r].job]
        BY DEF RunCovered
    <2>2. /\ runs[r].status # "none" /\ runs'[r].job = runs[r].job /\ runs[r].job \in Job
          /\ runs'[r].results \union work'[r].volumes \subseteq runs[r].results \union work[r].volumes
        BY <2>1, RowTypes DEF TablesKept, IInv, RowsHaveJobs
    <2>3. jobs[runs[r].job].state # "none" /\ runs[r].results \union work[r].volumes \subseteq Reach[runs[r].job]
        BY <2>2 DEF Undisturbed, RunCovered
    <2>4. jobs'[runs[r].job].state # "none" /\ Reach[runs[r].job] \subseteq Reach'[runs[r].job]
        BY <2>2, <2>3 DEF JobsKept
    <2> QED
        BY <2>2, <2>3, <2>4
<1>3. ASSUME NEW r \in Run, InProgress(r)' PROVE InProgress(r) /\ work'[r].volumes = work[r].volumes
    <2>1. runs[r].status = "running" /\ runs'[r].job = runs[r].job /\ runs[r].job \in Job
          /\ work'[r].volumes = work[r].volumes /\ jobs'[runs[r].job].state = "live"
        BY <1>3, RowTypes DEF InProgress, TablesKept, IInv, RowsHaveJobs
    <2>2. jobs[runs[r].job].state # "none"
        BY <2>1 DEF Undisturbed, RunCovered
    <2> QED
        BY <2>1, <2>2 DEF InProgress, JobsKept
<1>4. ASSUME NEW s \in Starter PROVE StarterApart(s)'
    BY <1>3 DEF StarterApart, Undisturbed, TablesKept
<1>5. RunsApart'
    BY <1>3 DEF RunsApart, Undisturbed
<1> QED
    BY <1>1, <1>2, <1>4, <1>5 DEF Undisturbed

(* What a restore may name is among what the job resolves to.               *)
LEMMA RestorableIsReached ==
    ASSUME IInv, Undisturbed, SelectionsHold, edits = 0, NEW j \in Job, NEW v \in RestorableVolumes(j),
           jobs[j].state = "live"
    PROVE  v \in Reach[j]
<1> USE VolumeBackupsAssumption
<1>1. jobs[j].def \in Def \union {NoDef} /\ Reach[j] = ResolveSelection(jobs[j].def)
    BY DEF IInv, TypeOK, JobRow, Reach
<1>2. /\ jobs[j].def.volumes \in SUBSET Volume
      /\ jobs[j].def.volumes \intersect jobs[j].def.excluded = {}
    BY <1>1 DEF SelectionsHold, NoDef
<1>3. CASE v \in ResolveSelection(jobs[j].def)
    BY <1>1, <1>3
<1>4. CASE v \in jobs[j].def.volumes
    BY <1>1, <1>2, <1>4 DEF ResolveSelection
<1>5. ASSUME NEW r \in Run, runs[r].job = j, v \in runs[r].results PROVE v \in Reach[j]
    <2>0. NoRun.results = {}
        BY DEF NoRun
    <2>1. runs[r] # NoRun
        BY <1>5, <2>0
    <2>2. runs[r].status # "none" /\ RunCovered(r)
        BY <2>1 DEF IInv, RowsHaveJobs, Undisturbed
    <2> QED
        BY <1>5, <2>2 DEF RunCovered
<1> QED
    BY <1>3, <1>4, <1>5 DEF RestorableVolumes

(* Steps of a starter that leave rows and work alone: what it now knows     *)
(* must be covered and apart.                                               *)
LEMMA StarterMoves ==
    ASSUME IInv, Undisturbed, edits = 0, UNCHANGED <<jobs, reported, runs, work, edits>>, NEW s \in Starter,
           \A t \in Starter : t # s => start'[t] = start[t],
           StarterCovered(s)', StarterApart(s)'
    PROVE  Undisturbed'
<1>1. Reach' = Reach
    BY DEF Reach, ResolveSelection
<1>2. ASSUME NEW t \in Starter PROVE StarterCovered(t)' /\ StarterApart(t)'
    <2>1. CASE t = s
        BY <2>1
    <2>2. CASE t # s
        BY <1>1, <2>2 DEF Undisturbed, StarterCovered, StarterApart, InProgress
    <2> QED
        BY <2>1, <2>2
<1>3. (\A r \in Run : RunCovered(r)') /\ RunsApart'
    BY <1>1 DEF Undisturbed, RunCovered, RunsApart, InProgress
<1> QED
    BY <1>2, <1>3 DEF Undisturbed

LEMMA AskUndisturbed ==
    ASSUME IInv, Undisturbed, SelectionsHold, edits = 0, NEW s \in Starter, NEW j \in Job,
           ManualBackup(s, j) \/ ScheduledBackup(s, j) \/ \E v \in Volume : Restore(s, j, v)
    PROVE  Undisturbed'
<1>1. PICK k \in Kind, vs \in SUBSET Volume :
          Loaded(s, j, k, vs) /\ (vs = {} \/ \E v \in Volume : vs = {v} /\ v \in RestorableVolumes(j))
    BY AskStepInv
<1>2. jobs[j].state = "live"
    BY <1>1 DEF Loaded
<1>3. vs \subseteq Reach[j]
    BY <1>1, <1>2, RestorableIsReached
<1>4. /\ UNCHANGED <<jobs, runs, loaded, deleting, work, reported, edits>>
      /\ \A t \in Starter : t # s => start'[t] = start[t]
    BY <1>1, LoadStepInv
<1>5. PICK x \in StartState : start'[s] = x /\ x.pc = "lock" /\ x.def = jobs[j].def /\ x.volumes = vs /\ x.job = j
    BY <1>1, LoadStepInv
<1>6. Reach' = Reach
    BY <1>4 DEF Reach, ResolveSelection
<1>7. StarterCovered(s)' /\ StarterApart(s)'
    BY <1>2, <1>3, <1>4, <1>5, <1>6 DEF StarterCovered, StarterApart
<1> QED
    BY <1>4, <1>7, StarterMoves

LEMMA LockUndisturbed ==
    ASSUME IInv, Undisturbed, edits = 0, NEW s \in Starter, Lock(s)
    PROVE  Undisturbed'
<1>1. /\ UNCHANGED <<jobs, runs, loaded, deleting, work, reported, edits>>
      /\ \A t \in Starter : t # s => start'[t] = start[t]
    BY LockStepInv
<1>2. PICK x \in StartState :
          /\ start'[s] = x /\ x.pc = "decide" /\ start[s].pc = "lock"
          /\ x.def = start[s].def /\ x.volumes = start[s].volumes /\ x.job = start[s].job
    BY LockStepInv
<1>3. Reach' = Reach /\ StarterCovered(s)
    BY <1>1 DEF Reach, ResolveSelection, Undisturbed
<1>4. StarterCovered(s)' /\ StarterApart(s)'
    BY <1>1, <1>2, <1>3 DEF StarterCovered, StarterApart
<1> QED
    BY <1>1, <1>4, StarterMoves

(* startVolumeAction's comparison: what no running job resolves to is not   *)
(* being worked on.                                                         *)
LEMMA DecideUndisturbed ==
    ASSUME IInv, Undisturbed, edits = 0, NEW s \in Starter, Decide(s)
    PROVE  Undisturbed'
<1> DEFINE volumes == IF start[s].kind = "restore" THEN start[s].volumes ELSE ResolveSelection(start[s].def)
<1>0. /\ UNCHANGED <<jobs, runs, lastRun, startMu, loaded, deleting, work, reported, edits>>
      /\ start[s].pc = "decide" /\ start \in [Starter -> StartState] /\ start[s] \in StartState
    BY DEF Decide, At, IInv, TypeOK
<1>1. PICK pc \in {"create", "fail"}, c \in {"", "VALIDATION", "CONCURRENCY", "REFUSED"} :
          /\ start' = [start EXCEPT ![s].pc = pc, ![s].code = c, ![s].volumes = volumes]
          /\ pc = "create" => ~ OverlapsRunning(volumes)
    BY DEF Decide
<1>2. start[s].job \in Job /\ StarterCovered(s)
    BY <1>0, HolderFacts DEF Undisturbed
<1>3. /\ start[s].def = jobs[start[s].job].def /\ jobs[start[s].job].state # "none"
      /\ start[s].volumes \subseteq Reach[start[s].job]
    BY <1>0, <1>2 DEF StarterCovered
<1>4. volumes \subseteq Reach[start[s].job]
    BY <1>2, <1>3 DEF Reach
<1> HIDE DEF volumes
<1>5. /\ start'[s].pc = pc /\ start'[s].job = start[s].job /\ start'[s].def = start[s].def
      /\ start'[s].volumes = volumes /\ start'[s].run = start[s].run
      /\ \A t \in Starter : t # s => start'[t] = start[t]
    BY <1>0, <1>1 DEF StartState
<1>6. Reach' = Reach
    BY <1>0 DEF Reach, ResolveSelection
<1>7. StarterCovered(s)'
    BY <1>0, <1>3, <1>4, <1>5, <1>6 DEF StarterCovered
<1>8. StarterApart(s)'
    <2>1. SUFFICES ASSUME pc = "create", NEW r \in Run, runs[r].status = "running", jobs[runs[r].job].state = "live"
                   PROVE  volumes \intersect work[r].volumes = {}
        BY <1>0, <1>5 DEF StarterApart, InProgress
    <2>2. ResolveSelection(jobs[runs[r].job].def) \intersect volumes = {}
        BY <1>1, <2>1 DEF OverlapsRunning
    <2>3. runs[r].job \in Job /\ RunCovered(r)
        BY <2>1, RowTypes DEF IInv, RowsHaveJobs, Undisturbed
    <2>4. work[r].volumes \subseteq ResolveSelection(jobs[runs[r].job].def)
        BY <2>1, <2>3 DEF RunCovered, Reach
    <2> QED
        BY <2>2, <2>4
<1> QED
    BY <1>0, <1>5, <1>7, <1>8, StarterMoves

(* The holder of the lock records its run, hands it over, or gives up: the  *)
(* other starters are not past the lock, so only its own volumes count.     *)
LEMMA HolderUndisturbed ==
    ASSUME IInv, Undisturbed, edits = 0, NEW s \in Starter, NEW x \in StartState, HolderStep(s, x),
           NEW i \in Run, i = start[s].run,
           x = Idle \/ (x.def = start[s].def /\ x.volumes = start[s].volumes),
           x.pc = "create" => FALSE, x.pc = "send" => start[s].pc = "create",
           RunCovered(i)',
           \A r \in Run : InProgress(r)' /\ InProgress(i)' /\ r # i =>
               work'[r].volumes \intersect work'[i].volumes = {}
    PROVE  Undisturbed'
<1>0. /\ start \in [Starter -> StartState] /\ start'[s] = x /\ startMu = s
      /\ start[s].job \in Job /\ start[s].run \in Run
      /\ UNCHANGED <<jobs, reported, edits>>
    BY HolderFacts DEF IInv, TypeOK, HolderStep
<1>1. \A t \in Starter : t # s => start'[t] = start[t] /\ start[t].pc \in {"idle", "lock"}
    BY <1>0 DEF IInv, StartersStand, StarterStands, HolderStep
<1>2. Reach' = Reach
    BY <1>0 DEF Reach, ResolveSelection
<1>3. ASSUME NEW r \in Run, r # i
      PROVE  runs'[r] = runs[r] /\ work'[r] = work[r] /\ (InProgress(r)' => InProgress(r))
    BY <1>0, <1>3 DEF HolderStep, InProgress
<1>a. /\ \A t \in Starter : StarterCovered(t) /\ StarterApart(t)
      /\ \A r \in Run : RunCovered(r)
      /\ RunsApart
    BY DEF Undisturbed
<1>4. ASSUME NEW t \in Starter PROVE StarterCovered(t)' /\ StarterApart(t)'
    <2>1. CASE t # s
        BY <1>0, <1>1, <1>2, <1>a, <2>1 DEF StarterCovered, StarterApart
    <2>2. CASE t = s /\ x = Idle
        BY <1>0, <2>2, RowTypes DEF StarterCovered, StarterApart
    <2>3. CASE t = s /\ x # Idle
        <3>1. /\ x.run = start[s].run /\ x.job = start[s].job /\ start[s].pc # "idle" /\ x.def = start[s].def
              /\ x.volumes = start[s].volumes
            BY <1>0, <2>3 DEF HolderStep
        <3>2. StarterCovered(s)'
            BY <1>0, <1>2, <1>a, <3>1 DEF StarterCovered
        <3>3. StarterApart(s)'
            <4>1. SUFFICES ASSUME x.pc = "send", NEW r \in Run, InProgress(r)', r # i
                           PROVE  start[s].volumes \intersect work'[r].volumes = {}
                BY <1>0, <3>1 DEF StarterApart
            <4>2. InProgress(r) /\ work'[r] = work[r] /\ StarterApart(s)
                BY <1>3, <1>a, <4>1
            <4> QED
                BY <4>1, <4>2 DEF StarterApart
        <3> QED
            BY <2>3, <3>2, <3>3
    <2> QED
        BY <2>1, <2>2, <2>3
<1>5. ASSUME NEW r \in Run PROVE RunCovered(r)'
    <2>1. CASE r # i
        <3>1. runs'[r] = runs[r] /\ work'[r] = work[r] /\ RunCovered(r) /\ jobs' = jobs
            BY <1>0, <1>3, <1>a, <2>1
        <3> QED
            BY <1>2, <3>1 DEF RunCovered
    <2>2. CASE r = i
        BY <2>2
    <2> QED
        BY <2>1, <2>2
<1>6. RunsApart'
    <2>1. SUFFICES ASSUME NEW q \in Run, NEW r \in Run, InProgress(q)', InProgress(r)', q # r
                   PROVE  work'[q].volumes \intersect work'[r].volumes = {}
        BY DEF RunsApart
    <2>2. CASE q = i \/ r = i
        BY <2>1, <2>2
    <2>3. CASE q # i /\ r # i
        <3>1. InProgress(q) /\ InProgress(r) /\ work'[q] = work[q] /\ work'[r] = work[r]
            BY <1>3, <2>1, <2>3
        <3> QED
            BY <1>a, <2>1, <3>1 DEF RunsApart
    <2> QED
        BY <2>2, <2>3
<1> QED
    BY <1>4, <1>5, <1>6 DEF Undisturbed

LEMMA NoticeUndisturbed ==
    ASSUME IInv, Undisturbed, edits = 0, NEW s \in Starter,
           CreateBackupRun(s) \/ NotSent(s) \/ NotStarted(s) \/ Started(s) \/ FinishFailed(s)
    PROVE  Undisturbed'
<1>0. start[s].pc \notin {"idle", "lock"} /\ work' = work /\ UNCHANGED <<jobs, reported, edits>>
    BY DEF CreateBackupRun, NotSent, NotStarted, Started, FinishFailed, At
<1>1. PICK i \in Run : i = start[s].run
    BY <1>0, HolderFacts
<1>2. Reach' = Reach
    BY <1>0 DEF Reach, ResolveSelection
<1>3. start[s].job \in Job /\ StarterCovered(s) /\ RunCovered(i) /\ RunsApart
    BY <1>0, <1>1, HolderFacts DEF Undisturbed
<1>4. CASE CreateBackupRun(s)
    <2>1. /\ runs[i] = NoRun /\ runs'[i].job = start[s].job /\ runs'[i].results = {}
          /\ work[i] = NoWork
        BY <1>1, <1>4, CreateStepInv
    <2>2. PICK x \in StartState :
             /\ HolderStep(s, x) /\ x.def = start[s].def /\ x.volumes = start[s].volumes
             /\ x.pc = "send" => start[s].pc = "create"
             /\ x.pc \in {"send", "finish"}
        BY <1>4, CreateStepInv
    <2>3. RunCovered(i)'
        BY <1>0, <1>2, <1>3, <2>1, RowTypes DEF RunCovered, StarterCovered
    <2>4. \A r \in Run : work'[r].volumes \intersect work'[i].volumes = {}
        BY <1>0, <2>1, RowTypes
    <2> QED
        BY <1>1, <2>2, <2>3, <2>4, HolderUndisturbed
<1>5. CASE NotSent(s) \/ NotStarted(s)
    <2>1. runs' = runs /\ start \in [Starter -> StartState] /\ start[s] \in StartState
        BY <1>5 DEF NotSent, NotStarted, IInv, TypeOK
    <2>2. /\ start'[s].pc = "finish" /\ start'[s].def = start[s].def /\ start'[s].volumes = start[s].volumes
          /\ start'[s].job = start[s].job
          /\ \A t \in Starter : t # s => start'[t] = start[t]
        <3>1. start' = [start EXCEPT ![s].pc = "finish", ![s].code = "AGENT"]
            BY <1>5 DEF NotSent, NotStarted
        <3> QED
            BY <2>1, <3>1 DEF StartState
    <2>3. StarterCovered(s)' /\ StarterApart(s)'
        BY <1>0, <1>2, <1>3, <2>2 DEF StarterCovered, StarterApart
    <2> QED
        BY <1>0, <2>1, <2>2, <2>3, StarterMoves
<1>6. CASE Started(s) \/ FinishFailed(s)
    <2>1. /\ HolderStep(s, Idle)
          /\ runs[i].status # "running" => runs'[i] = runs[i]
          /\ runs[i].status = "running" =>
                \/ runs'[i] = runs[i]
                \/ runs'[i].status = "error" /\ runs'[i].job = runs[i].job /\ runs'[i].results = {}
        BY <1>1, <1>6, LeaveStepInv
    <2>2. RunCovered(i)'
        BY <1>0, <1>2, <1>3, <2>1 DEF RunCovered
    <2>3. ASSUME NEW r \in Run, InProgress(r)', InProgress(i)', r # i
          PROVE  work'[r].volumes \intersect work'[i].volumes = {}
        <3>1. runs'[r] = runs[r] /\ runs'[i] = runs[i]
            BY <1>1, <2>1, <2>3 DEF HolderStep, InProgress
        <3>2. InProgress(r) /\ InProgress(i)
            BY <1>0, <2>3, <3>1 DEF InProgress
        <3> QED
            BY <1>0, <1>3, <2>3, <3>2 DEF RunsApart
    <2> QED
        BY <1>1, <2>1, <2>2, <2>3, RowTypes, HolderUndisturbed
<1> QED
    BY <1>4, <1>5, <1>6

LEMMA SendUndisturbed ==
    ASSUME IInv, Undisturbed, edits = 0, NEW s \in Starter, Send(s)
    PROVE  Undisturbed'
<1>0. start[s].pc = "send" /\ UNCHANGED <<jobs, runs, reported, edits>>
    BY DEF Send, At
<1>1. PICK i \in Run : i = start[s].run
    BY <1>0, HolderFacts
<1>2. Reach' = Reach
    BY <1>0 DEF Reach, ResolveSelection
<1>3. PICK x \in StartState :
          HolderStep(s, x) /\ x.def = start[s].def /\ x.volumes = start[s].volumes /\ x.pc = "reply"
    BY SendStepInv
<1>4. work'[i].volumes = start[s].volumes
    BY <1>1, SendStepInv
<1>5. StarterCovered(s) /\ StarterApart(s) /\ RunCovered(i)
    BY DEF Undisturbed
<1>6. RunCovered(i)'
    <2>1. runs[i].status # "none" => runs[i].job = start[s].job
        BY <1>0, <1>1, HolderFacts, RowTypes
    <2> QED
        BY <1>0, <1>2, <1>4, <1>5, <2>1 DEF RunCovered, StarterCovered
<1>7. ASSUME NEW r \in Run, InProgress(r)', r # i PROVE work'[r].volumes \intersect work'[i].volumes = {}
    <2>1. InProgress(r) /\ work'[r] = work[r]
        BY <1>0, <1>1, <1>3, <1>7 DEF InProgress, HolderStep
    <2> QED
        BY <1>0, <1>1, <1>4, <1>5, <1>7, <2>1 DEF StarterApart
<1> QED
    BY <1>1, <1>3, <1>6, <1>7, HolderUndisturbed

-----------------------------------------------------------------------------
LEMMA InitUndisturbed == Init => Undisturbed
BY RowTypes DEF Init, Undisturbed, StarterCovered, StarterApart, RunCovered, RunsApart, InProgress

LEMMA NextUndisturbed ==
    ASSUME IInv, Undisturbed, SelectionsHold, [Next]_vars
    PROVE  Undisturbed'
<1> USE VolumeBackupsAssumption
<1>0. SUFFICES ASSUME edits' = 0 PROVE Undisturbed'
    BY DEF Undisturbed
<1>1. edits \in Nat /\ jobs \in [Job -> JobRow]
    BY DEF IInv, TypeOK
<1>2. CASE UNCHANGED vars
    <2>1. TablesKept /\ edits = 0 /\ UNCHANGED <<jobs, reported>>
        BY <1>0, <1>2 DEF vars, TablesKept
    <2> QED
        BY <2>1, UnchangedJobsKept, QuietStep
<1>3. ASSUME NEW j \in Job, NEW def \in Def, NEW e \in BOOLEAN,
             CreateBackupJob(j, def, e) \/ UpdateBackupJob(j, def, e)
      PROVE  Undisturbed'
    <2>1. CreateBackupJob(j, def, e) /\ edits = 0
        BY <1>0, <1>1, <1>3 DEF UpdateBackupJob, CreateBackupJob
    <2>2. \A k \in Job : jobs[k].state # "none" => jobs'[k] = jobs[k]
        BY <1>1, <2>1 DEF CreateBackupJob
    <2>3. JobsKept
        BY <2>1, <2>2 DEF JobsKept, CreateBackupJob, Reach, ResolveSelection
    <2>4. TablesKept
        BY <1>3, JobStepInv
    <2> QED
        BY <2>1, <2>3, <2>4, QuietStep
<1>4. CASE (\E j \in Job : DeleteCheck(j)) \/ DeleteRuns \/ DeleteJob
    <2>1. TablesKept
        BY <1>4, DeleteStepInv
    <2>2. edits = 0 /\ reported' = reported
        BY <1>0, <1>4 DEF DeleteCheck, DeleteRuns, DeleteJob
    <2>3. CASE (\E j \in Job : DeleteCheck(j)) \/ DeleteRuns
        <3>1. UNCHANGED <<jobs, reported>>
            BY <2>3 DEF DeleteCheck, DeleteRuns
        <3> QED
            BY <2>1, <2>2, <3>1, UnchangedJobsKept, QuietStep
    <2>4. CASE DeleteJob
        <3>1. \A k \in Job : /\ jobs'[k].def = jobs[k].def
                             /\ jobs'[k].state = jobs[k].state \/ jobs'[k].state = "gone"
            BY <1>1, <2>4 DEF DeleteJob, JobRow
        <3>2. JobsKept
            BY <2>2, <3>1 DEF JobsKept, Reach, ResolveSelection
        <3> QED
            BY <2>1, <2>2, <3>2, QuietStep
    <2> QED
        BY <1>4, <2>3, <2>4
<1>5. ASSUME NEW s \in Starter, NEW j \in Job,
             ManualBackup(s, j) \/ ScheduledBackup(s, j) \/ \E v \in Volume : Restore(s, j, v)
      PROVE  Undisturbed'
    <2>1. edits = 0
        BY <1>0, <1>5 DEF ManualBackup, ScheduledBackup, Restore, Loaded
    <2> QED
        BY <1>5, <2>1, AskUndisturbed
<1>6. ASSUME NEW s \in Starter, StartStep(s) PROVE Undisturbed'
    <2>1. edits = 0
        BY <1>0, <1>6 DEF StartStep, Lock, Decide, CreateBackupRun, Send, NotSent, Started, NotStarted, FinishFailed
    <2> QED
        BY <1>6, <2>1, LockUndisturbed, DecideUndisturbed, NoticeUndisturbed, SendUndisturbed DEF StartStep
<1>7. ASSUME NEW r \in Run, AgentStep(r) \/ LoadReport(r) \/ RecordReport(r) \/ FailStaleBackupRuns(r)
      PROVE  Undisturbed'
    <2>1. TablesKept
        BY <1>7, AgentStepInv, ReportStepInv
    <2>2. UNCHANGED <<jobs, reported, edits>>
        BY <1>7 DEF AgentStep, AgentBegins, AgentRefuses, AgentIsGone, AgentWork, AgentEnds,
                    LoadReport, RecordReport, FailStaleBackupRuns
    <2> QED
        BY <1>0, <2>1, <2>2, UnchangedJobsKept, QuietStep
<1>8. ASSUME NEW vs \in SUBSET Volume, ReportVolumes(vs) PROVE Undisturbed'
    <2>1. TablesKept
        BY <1>8, ReportVolumesInv
    <2>2. jobs' = jobs /\ edits' = edits /\ reported \subseteq reported'
        BY <1>8 DEF ReportVolumes, SelectionsHold
    <2>3. JobsKept
        BY <2>2 DEF JobsKept, Reach, ResolveSelection
    <2> QED
        BY <1>0, <2>1, <2>2, <2>3, QuietStep
<1>9. CASE Crash
    <2>1. UNCHANGED <<jobs, runs, work, reported, edits>> /\ \A s \in Starter : start'[s] = Idle
        BY <1>9, CrashInv
    <2>2. Reach' = Reach /\ edits = 0
        BY <1>0, <2>1 DEF Reach, ResolveSelection
    <2>3. \A s \in Starter : StarterCovered(s)' /\ StarterApart(s)'
        BY <2>1, RowTypes DEF StarterCovered, StarterApart
    <2>4. (\A r \in Run : RunCovered(r)') /\ RunsApart'
        BY <2>1, <2>2 DEF Undisturbed, RunCovered, RunsApart, InProgress
    <2> QED
        BY <2>3, <2>4 DEF Undisturbed
<1> QED
    BY <1>2, <1>3, <1>4, <1>5, <1>6, <1>7, <1>8, <1>9 DEF Next

(* startMu and overlapsRunning: as long as no job was edited, two runs in   *)
(* progress never work on one volume, for any number of jobs, volumes,      *)
(* starters, timeouts, reports and restarts, and also while hosts report    *)
(* more volumes and jobs are deleted.                                       *)
THEOREM RunsNeverMeet == SelectionsHold => (Spec => []RunningVolumesApart)
<1> SUFFICES ASSUME SelectionsHold PROVE Spec => []RunningVolumesApart
    OBVIOUS
<1>1. Init => Undisturbed
    BY InitUndisturbed
<1>2. IInv /\ Undisturbed /\ [Next]_vars => Undisturbed'
    BY NextUndisturbed
<1>3. Undisturbed => RunningVolumesApart
    BY DEF Undisturbed, RunsApart, InProgress, RunningVolumesApart
<1> QED
    BY <1>1, <1>2, <1>3, BackupsStand, PTL DEF Spec

-----------------------------------------------------------------------------
(* The history of a job that is deleted.                                    *)

(* No run of a job is being started while the job is deleted.               *)
StartApart == deleting.pc # "idle" => \A s \in Starter : start[s].job # deleting.job
StartsApart == []StartApart

(* The job of a start in progress is there, and once the runs of a job that *)
(* is to go have been deleted it has none.                                  *)
HistoryStands ==
    /\ HistoryGoesWithJob
    /\ \A s \in Starter : start[s].pc # "idle" => jobs[start[s].job].state = "live"
    /\ deleting.pc # "idle" => deleting.job \in Job
    /\ deleting.pc = "job" => \A r \in Run : runs[r].status # "none" => runs[r].job # deleting.job

(* Jobs that are there stay, and the deletion stands where it stood.        *)
LiveJobsStay ==
    /\ \A j \in Job : jobs[j].state = "live" => jobs'[j].state = "live"
    /\ deleting' = deleting

(* Edits, the agent and its reports: no row comes and no job goes.          *)
LEMMA TablesHistory ==
    ASSUME IInv, HistoryStands, TablesKept, LiveJobsStay
    PROVE  HistoryStands'
<1>1. \A r \in Run : runs[r].status # "none" => runs[r].job \in Job
    BY RowTypes DEF IInv, RowsHaveJobs
<1>2. \A s \in Starter : start[s].pc # "idle" => start[s].job \in Job
    BY DEF IInv, StartersStand, StarterStands
<1>3. HistoryGoesWithJob'
    BY <1>1 DEF HistoryStands, HistoryGoesWithJob, TablesKept, LiveJobsStay
<1> QED
    BY <1>1, <1>2, <1>3 DEF HistoryStands, TablesKept, LiveJobsStay

(* The holder of the lock makes the row of its own run, of a job that is    *)
(* there and is not about to go.                                            *)
LEMMA HolderHistory ==
    ASSUME IInv, HistoryStands, StartApart, NEW s \in Starter, NEW x, HolderStep(s, x),
           start[s].run \in Run,
           runs'[start[s].run].status # "none" => runs'[start[s].run].job = start[s].job
    PROVE  HistoryStands'
<1>1. /\ \A t \in Starter : t # s => start'[t] = start[t]
      /\ start'[s] = x /\ (x.pc # "idle" => x.job = start[s].job)
      /\ UNCHANGED <<jobs, deleting>>
    BY RowTypes DEF HolderStep, IInv, TypeOK
<1>2. start[s].pc # "idle" /\ jobs[start[s].job].state = "live"
    BY DEF HolderStep, HistoryStands
<1>3. \A r \in Run : runs'[r].status # "none" =>
          \/ runs[r].status # "none" /\ runs'[r].job = runs[r].job
          \/ runs'[r].job = start[s].job
    BY DEF HolderStep
<1>4. HistoryGoesWithJob'
    BY <1>1, <1>2, <1>3 DEF HistoryStands, HistoryGoesWithJob
<1> QED
    BY <1>1, <1>2, <1>3, <1>4 DEF HistoryStands, StartApart

LEMMA StartHistory ==
    ASSUME IInv, HistoryStands, StartApart, NEW s \in Starter, StartStep(s)
    PROVE  HistoryStands'
<1>0. ASSUME start[s].pc \notin {"idle", "lock"}
      PROVE  /\ start[s].run \in Run
             /\ runs[start[s].run].status # "none" => runs[start[s].run].job = start[s].job
    BY <1>0, HolderFacts, RowTypes
<1>1. CASE Lock(s)
    BY <1>1, LockStepInv DEF HistoryStands, HistoryGoesWithJob
<1>2. CASE Decide(s) \/ NotSent(s) \/ NotStarted(s)
    <2>1. PICK x \in StartState : HolderStep(s, x)
        BY <1>2, ThinkStepInv
    <2>2. runs' = runs /\ start[s].pc \notin {"idle", "lock"}
        BY <1>2, <2>1, ThinkStepInv DEF HolderStep
    <2> QED
        BY <1>0, <2>1, <2>2, HolderHistory
<1>3. CASE CreateBackupRun(s)
    <2>1. PICK x \in StartState : HolderStep(s, x)
        BY <1>3, CreateStepInv
    <2>2. start[s].pc \notin {"idle", "lock"} /\ start[s].run \in Run
        BY <1>0, <2>1 DEF HolderStep
    <2>3. runs'[start[s].run].job = start[s].job
        BY <1>3, <2>2 DEF CreateBackupRun, NoRun, IInv, TypeOK
    <2> QED
        BY <2>1, <2>2, <2>3, HolderHistory
<1>4. CASE Send(s)
    <2>1. PICK x \in StartState : HolderStep(s, x)
        BY <1>4, SendStepInv
    <2>2. runs' = runs /\ start[s].pc \notin {"idle", "lock"}
        BY <1>4, <2>1, SendStepInv DEF HolderStep
    <2> QED
        BY <1>0, <2>1, <2>2, HolderHistory
<1>5. CASE Started(s) \/ FinishFailed(s)
    <2>1. HolderStep(s, Idle) /\ start[s].pc \notin {"idle", "lock"} /\ start[s].run \in Run
        BY <1>5, LeaveStepInv DEF HolderStep
    <2>3. /\ runs'[start[s].run].status # "none" => runs[start[s].run].status # "none"
          /\ runs'[start[s].run].job = runs[start[s].run].job
        BY <1>5, LeaveStepInv
    <2> QED
        BY <1>0, <2>1, <2>3, HolderHistory
<1> QED
    BY <1>1, <1>2, <1>3, <1>4, <1>5 DEF StartStep

LEMMA NextHistory == IInv /\ HistoryStands /\ StartApart /\ [Next]_vars => HistoryStands'
<1> SUFFICES ASSUME IInv, HistoryStands, StartApart, [Next]_vars PROVE HistoryStands'
    OBVIOUS
<1>0. jobs \in [Job -> JobRow] /\ runs \in [Run -> RunRow]
    BY DEF IInv, TypeOK
<1>1. CASE UNCHANGED vars
    BY <1>1 DEF vars, HistoryStands, HistoryGoesWithJob
<1>2. ASSUME NEW j \in Job, NEW def \in Def, NEW e \in BOOLEAN,
             CreateBackupJob(j, def, e) \/ UpdateBackupJob(j, def, e)
      PROVE  HistoryStands'
    <2>1. LiveJobsStay
        BY <1>0, <1>2 DEF LiveJobsStay, CreateBackupJob, UpdateBackupJob, JobRow
    <2> QED
        BY <1>2, <2>1, JobStepInv, TablesHistory
<1>3. CASE \E j \in Job : DeleteCheck(j)
    BY <1>3 DEF DeleteCheck, HistoryStands, HistoryGoesWithJob
<1>4. CASE DeleteRuns
    <2>1. \A r \in Run : runs'[r].status # "none" => runs'[r] = runs[r] /\ runs[r].job # deleting.job
        BY <1>4, RowTypes DEF DeleteRuns
    <2>2. UNCHANGED <<jobs, start>> /\ deleting'.job = deleting.job /\ deleting.pc = "runs"
        BY <1>4 DEF DeleteRuns, IInv, TypeOK
    <2> QED
        BY <2>1, <2>2 DEF HistoryStands, HistoryGoesWithJob
<1>5. CASE DeleteJob
    <2>1. /\ deleting.pc = "job" /\ deleting'.pc = "idle" /\ UNCHANGED <<runs, start>>
          /\ \A j \in Job : j # deleting.job => jobs'[j] = jobs[j]
        BY <1>0, <1>5 DEF DeleteJob
    <2>2. \A r \in Run : runs[r].status # "none" => runs[r].job \in Job /\ runs[r].job # deleting.job
        BY <2>1, RowTypes DEF IInv, RowsHaveJobs, HistoryStands
    <2>3. \A s \in Starter : start[s].pc # "idle" => start[s].job \in Job /\ start[s].job # deleting.job
        BY <2>1 DEF IInv, StartersStand, StarterStands, StartApart
    <2> QED
        BY <2>1, <2>2, <2>3 DEF HistoryStands, HistoryGoesWithJob
<1>6. ASSUME NEW s \in Starter, NEW j \in Job,
             ManualBackup(s, j) \/ ScheduledBackup(s, j) \/ \E v \in Volume : Restore(s, j, v)
      PROVE  HistoryStands'
    <2>1. PICK k \in Kind, vs \in SUBSET Volume : Loaded(s, j, k, vs)
        BY <1>6, AskStepInv
    <2>2. /\ UNCHANGED <<jobs, runs, deleting>>
          /\ \A t \in Starter : t # s => start'[t] = start[t]
          /\ start'[s].job = j
        BY <2>1, LoadStepInv
    <2>3. jobs[j].state = "live"
        BY <2>1 DEF Loaded
    <2> QED
        BY <2>2, <2>3 DEF HistoryStands, HistoryGoesWithJob
<1>7. ASSUME NEW s \in Starter, StartStep(s) PROVE HistoryStands'
    BY <1>7, StartHistory
<1>8. ASSUME NEW r \in Run, AgentStep(r) \/ LoadReport(r) \/ RecordReport(r) \/ FailStaleBackupRuns(r)
      PROVE  HistoryStands'
    <2>1. UNCHANGED <<jobs, deleting>>
        BY <1>8 DEF AgentStep, AgentBegins, AgentRefuses, AgentIsGone, AgentWork, AgentEnds,
                    LoadReport, RecordReport, FailStaleBackupRuns
    <2>2. LiveJobsStay
        BY <2>1 DEF LiveJobsStay
    <2> QED
        BY <1>8, <2>2, AgentStepInv, ReportStepInv, TablesHistory
<1>9. ASSUME NEW vs \in SUBSET Volume, ReportVolumes(vs) PROVE HistoryStands'
    BY <1>9 DEF ReportVolumes, HistoryStands, HistoryGoesWithJob
<1>10. CASE Crash
    BY <1>10, CrashInv, RowTypes DEF Crash, HistoryStands, HistoryGoesWithJob
<1> QED
    BY <1>1, <1>2, <1>3, <1>4, <1>5, <1>6, <1>7, <1>8, <1>9, <1>10 DEF Next

(* "DeleteBackupJob removes a job and its history", in two statements and   *)
(* after a check for running runs: a run is left of a job that is gone only *)
(* if a start of that job, from a copy read earlier, was under way while    *)
(* the job was deleted.  Edits, late reports, other starts and a restart    *)
(* between the two statements leave nothing behind.                         *)
THEOREM HistoryIsRemoved == Spec /\ StartsApart => []HistoryGoesWithJob
<1>1. Init => HistoryStands
    BY RowTypes DEF Init, HistoryStands, HistoryGoesWithJob
<1>2. HistoryStands => HistoryGoesWithJob
    BY DEF HistoryStands
<1> QED
    BY <1>1, <1>2, NextHistory, BackupsStand, PTL DEF Spec, StartsApart

-----------------------------------------------------------------------------
(* Runs the agent works on, whatever the rows say of them.                  *)

AtWork(r) == work[r].state \in {"sent", "working"}

(* Where an answer comes within its thirty seconds, what the agent works on *)
(* is shown as running: a report about to be recorded is of work that has   *)
(* ended, a start that gives up has nothing at work, one about to send has  *)
(* its row, and a job whose runs are about to be deleted has none running.  *)
WorkIsShown ==
    /\ \A r \in Run : AtWork(r) => runs[r].status = "running"
    /\ \A r \in loaded : work[r].state = "ended"
    /\ \A s \in Starter : start[s].pc = "finish" => ~AtWork(start[s].run)
    /\ \A s \in Starter : start[s].pc = "send" => runs[start[s].run].status = "running"
    /\ deleting.pc = "runs" => \A r \in Run : runs[r].job = deleting.job => runs[r].status # "running"

(* The holder of the lock is the only starter that sends or gives up, and   *)
(* what it does concerns its own run.                                       *)
LEMMA HolderShown ==
    ASSUME IInv, WorkIsShown, StartApart, NEW s \in Starter, NEW x, HolderStep(s, x),
           NEW i \in Run, i = start[s].run,
           AtWork(i)' => runs'[i].status = "running",
           i \in loaded => work'[i].state = "ended",
           x.pc = "finish" => ~AtWork(i)',
           x.pc = "send" => runs'[i].status = "running",
           runs'[i].status = "running" => runs'[i].job = start[s].job
    PROVE  WorkIsShown'
<1> USE RowTypes
<1>1. /\ start'[s] = x /\ (x.pc \in {"send", "finish"} => x.run = i)
      /\ UNCHANGED <<loaded, deleting>>
      /\ \A r \in Run : r # i => runs'[r] = runs[r] /\ work'[r] = work[r]
    BY DEF HolderStep, IInv, TypeOK
<1>2. \A t \in Starter : t # s => start'[t] = start[t] /\ start[t].pc \in {"idle", "lock"}
    BY DEF HolderStep, IInv, TypeOK, StartersStand, StarterStands
<1>3. loaded \subseteq Run
    BY DEF IInv, TypeOK
<1>4. (\A r \in Run : AtWork(r) => runs[r].status = "running")'
    BY <1>1 DEF WorkIsShown, AtWork
<1>5. (\A r \in loaded : work[r].state = "ended")'
    BY <1>1, <1>3 DEF WorkIsShown
<1>6. (\A t \in Starter : start[t].pc = "finish" => ~AtWork(start[t].run))'
    BY <1>1, <1>2 DEF AtWork
<1>7. (\A t \in Starter : start[t].pc = "send" => runs[start[t].run].status = "running")'
    BY <1>1, <1>2
<1>8. (deleting.pc = "runs" => \A r \in Run : runs[r].job = deleting.job => runs[r].status # "running")'
    BY <1>1 DEF WorkIsShown, StartApart
<1> QED
    BY <1>4, <1>5, <1>6, <1>7, <1>8 DEF WorkIsShown

LEMMA StartShown ==
    ASSUME ~MayTimeOut, IInv, WorkIsShown, StartApart, NEW s \in Starter, StartStep(s)
    PROVE  WorkIsShown'
<1> USE RowTypes
<1>i. PICK i : i = start[s].run
    OBVIOUS
<1>0. ASSUME start[s].pc \notin {"idle", "lock"}
      PROVE  /\ i \in Run
             /\ runs[i].status # "none" => runs[i].job = start[s].job
             /\ start[s].pc \in {"decide", "create", "fail", "send"} => work[i] = NoWork /\ i \notin loaded
    BY <1>0, <1>i, HolderFacts DEF WorkIsShown
<1>1. CASE Lock(s)
    <2>1. /\ UNCHANGED <<runs, loaded, deleting, work>>
          /\ \A t \in Starter : t # s => start'[t] = start[t]
          /\ start'[s].pc = "decide"
        BY <1>1, LockStepInv
    <2> QED
        BY <2>1 DEF WorkIsShown, AtWork
<1>2. CASE Decide(s) \/ NotSent(s) \/ NotStarted(s)
    <2>1. PICK x \in StartState : HolderStep(s, x)
        BY <1>2, ThinkStepInv
    <2>2. UNCHANGED <<runs, work>> /\ start[s].pc \notin {"idle", "lock"} /\ start'[s] = x
        BY <1>2, <2>1, ThinkStepInv DEF HolderStep, IInv, TypeOK
    <2>t. start \in [Starter -> StartState] /\ start[s] \in StartState
        BY DEF IInv, TypeOK
    <2>3. x.pc \in {"create", "fail", "finish"} /\ (Decide(s) => x.pc # "finish")
        <3>1. CASE Decide(s)
            <4> DEFINE vs == IF start[s].kind = "restore" THEN start[s].volumes
                             ELSE ResolveSelection(start[s].def)
            <4>1. \E to \in {"create", "fail"}, c \in {"", "VALIDATION", "CONCURRENCY", "REFUSED"} :
                      start' = [start EXCEPT ![s].pc = to, ![s].code = c, ![s].volumes = vs]
                BY <3>1 DEF Decide
            <4> HIDE DEF vs
            <4>2. PICK to \in {"create", "fail"}, c \in {"", "VALIDATION", "CONCURRENCY", "REFUSED"} :
                      start' = [start EXCEPT ![s].pc = to, ![s].code = c, ![s].volumes = vs]
                BY <4>1
            <4>3. start' = [start EXCEPT ![s] = [start[s] EXCEPT !.pc = to, !.code = c, !.volumes = vs]]
                BY <2>t, <4>2
            <4>4. start'[s].pc = to
                BY <2>t, <4>3 DEF StartState
            <4> QED
                BY <2>2, <4>4
        <3>2. CASE NotSent(s) \/ NotStarted(s)
            <4>1. start' = [start EXCEPT ![s].pc = "finish", ![s].code = "AGENT"]
                BY <3>2 DEF NotSent, NotStarted
            <4>2. ~Decide(s)
                BY <3>2 DEF NotSent, NotStarted, Decide, At
            <4> QED
                BY <2>2, <2>t, <4>1, <4>2 DEF StartState
        <3> QED
            BY <1>2, <3>1, <3>2
    <2>4. x.pc = "finish" => ~AtWork(i)
        <3>1. CASE Decide(s)
            BY <2>3, <3>1
        <3>2. CASE NotSent(s)
            BY <1>0, <2>2, <3>2 DEF NotSent, At, AtWork
        <3>3. CASE NotStarted(s)
            BY <1>i, <3>3 DEF NotStarted, AtWork
        <3> QED
            BY <1>2, <3>1, <3>2, <3>3
    <2>5. i \in Run /\ (runs[i].status # "none" => runs[i].job = start[s].job)
        BY <1>0, <2>2
    <2>6. AtWork(i)' => runs'[i].status = "running"
        BY <2>2, <2>5 DEF WorkIsShown, AtWork
    <2>7. i \in loaded => work'[i].state = "ended"
        BY <2>2 DEF WorkIsShown
    <2> QED
        BY <1>i, <2>1, <2>2, <2>3, <2>4, <2>5, <2>6, <2>7, HolderShown DEF AtWork
<1>3. CASE CreateBackupRun(s)
    <2>1. PICK x \in StartState : HolderStep(s, x)
        BY <1>3, CreateStepInv
    <2>2. start[s].pc \in {"create", "fail"} /\ work' = work
        BY <1>3 DEF CreateBackupRun
    <2>3. i \in Run /\ work'[i] = NoWork /\ i \notin loaded
        BY <1>0, <2>2
    <2>4. runs'[i].job = start[s].job /\ runs'[i].status = "running"
        BY <1>3, <1>i, <2>3 DEF CreateBackupRun, NoRun, IInv, TypeOK
    <2>5. ~AtWork(i)'
        BY <2>3 DEF AtWork
    <2> QED
        BY <1>i, <2>1, <2>3, <2>4, <2>5, HolderShown
<1>4. CASE Send(s)
    <2>1. PICK x \in StartState : HolderStep(s, x) /\ x.pc = "reply"
        BY <1>4, SendStepInv
    <2>2. runs' = runs /\ start[s].pc = "send"
        BY <1>4 DEF Send, At
    <2>3. i \in Run /\ i \notin loaded /\ runs[i].status = "running" /\ runs[i].job = start[s].job
        BY <1>0, <1>i, <2>2 DEF WorkIsShown
    <2> QED
        BY <1>i, <2>1, <2>2, <2>3, HolderShown
<1>5. CASE Started(s) \/ FinishFailed(s)
    <2>1. HolderStep(s, Idle) /\ start[s].pc \notin {"idle", "lock"} /\ work' = work
        BY <1>5, LeaveStepInv DEF HolderStep
    <2>2. /\ runs'[i].status = "running" => runs[i].status = "running"
          /\ runs'[i].job = runs[i].job
        BY <1>5, <1>i, LeaveStepInv
    <2>3. AtWork(i) => runs' = runs
        <3>1. CASE Started(s)
            BY <3>1 DEF Started
        <3>2. CASE FinishFailed(s)
            BY <1>i, <3>2 DEF FinishFailed, At, WorkIsShown
        <3> QED
            BY <1>5, <3>1, <3>2
    <2>4. i \in Run /\ (runs[i].status # "none" => runs[i].job = start[s].job)
        BY <1>0, <2>1
    <2>5. AtWork(i)' => runs'[i].status = "running"
        BY <2>1, <2>3, <2>4 DEF WorkIsShown, AtWork
    <2>6. i \in loaded => work'[i].state = "ended"
        BY <2>1 DEF WorkIsShown
    <2> QED
        BY <1>i, <2>1, <2>2, <2>4, <2>5, <2>6, HolderShown
<1> QED
    BY <1>1, <1>2, <1>3, <1>4, <1>5 DEF StartStep

(* The agent and the end of its runs.                                       *)
LEMMA AgentShown ==
    ASSUME IInv, WorkIsShown, NEW r \in Run,
           AgentStep(r) \/ LoadReport(r) \/ RecordReport(r) \/ FailStaleBackupRuns(r)
    PROVE  WorkIsShown'
<1> USE RowTypes
<1>0. /\ work \in [Run -> Work] /\ runs \in [Run -> RunRow] /\ loaded \subseteq Run
      /\ \A s \in Starter : start[s].pc \in {"send", "finish"} => start[s].run \in Run
      /\ \A s \in Starter : start[s].pc = "send" => work[start[s].run] = NoWork
    BY DEF IInv, TypeOK, StartersStand, StarterStands
<1>1. CASE AgentStep(r)
    <2>1. /\ UNCHANGED <<runs, start, loaded, deleting>>
          /\ \A q \in Run : work'[q].state # work[q].state => AtWork(q)
        BY <1>0, <1>1 DEF AgentStep, AgentBegins, AgentRefuses, AgentIsGone, AgentWork, AgentEnds, AtWork, Work
    <2>2. \A q \in Run : AtWork(q)' => AtWork(q)
        BY <2>1 DEF AtWork
    <2>3. \A q \in loaded : work'[q].state = "ended"
        BY <1>0, <2>1 DEF WorkIsShown, AtWork
    <2>4. \A s \in Starter : start[s].pc = "finish" => ~AtWork(start[s].run)'
        BY <1>0, <2>1, <2>2 DEF WorkIsShown, AtWork
    <2> QED
        BY <2>1, <2>2, <2>3, <2>4 DEF WorkIsShown, AtWork
<1>2. CASE LoadReport(r)
    BY <1>2 DEF LoadReport, WorkIsShown, AtWork
<1>3. CASE RecordReport(r) \/ FailStaleBackupRuns(r)
    <2>1. /\ UNCHANGED <<work, start, deleting>> /\ loaded' \subseteq loaded
          /\ ~AtWork(r)
          /\ \A s \in Starter : start[s].pc = "send" => start[s].run # r
        <3>1. CASE RecordReport(r)
            BY <1>0, <3>1 DEF RecordReport, WorkIsShown, AtWork
        <3>2. CASE FailStaleBackupRuns(r)
            BY <3>2 DEF FailStaleBackupRuns, Busy, AtWork
        <3> QED
            BY <1>3, <3>1, <3>2
    <2>2. PICK st \in Verdict, c \in Code, vs \in SUBSET Volume : FinishBackupRun(r, st, c, vs)
        <3>1. work[r].volumes \in SUBSET Volume
            BY <1>0 DEF Work
        <3> QED
            BY <1>3, <3>1 DEF RecordReport, FailStaleBackupRuns, Verdict, Code
    <2>3. /\ \A q \in Run : q # r => runs'[q] = runs[q]
          /\ runs'[r].status = "running" => runs'[r] = runs[r]
        BY <1>0, <2>2 DEF FinishBackupRun, Verdict
    <2> QED
        BY <1>0, <2>1, <2>3 DEF WorkIsShown, AtWork
<1> QED
    BY <1>1, <1>2, <1>3

LEMMA NextShown ==
    ASSUME ~MayTimeOut, IInv, WorkIsShown, StartApart, [Next]_vars
    PROVE  WorkIsShown'
<1> USE RowTypes
<1>a. ASSUME UNCHANGED <<runs, work, start, loaded, deleting>> PROVE WorkIsShown'
    BY <1>a DEF WorkIsShown, AtWork
<1>1. CASE UNCHANGED vars
    BY <1>1, <1>a DEF vars
<1>2. ASSUME NEW j \in Job, NEW def \in Def, NEW e \in BOOLEAN,
             CreateBackupJob(j, def, e) \/ UpdateBackupJob(j, def, e)
      PROVE  WorkIsShown'
    BY <1>2, <1>a DEF CreateBackupJob, UpdateBackupJob
<1>3. CASE \E j \in Job : DeleteCheck(j)
    BY <1>3 DEF DeleteCheck, WorkIsShown, AtWork
<1>4. CASE DeleteRuns
    <2>1. /\ deleting.pc = "runs" /\ UNCHANGED <<work, start, loaded>> /\ deleting'.pc = "job"
          /\ \A r \in Run : runs[r].status = "running" => runs'[r] = runs[r]
        BY <1>4 DEF DeleteRuns, WorkIsShown, IInv, TypeOK
    <2>2. \A s \in Starter : start[s].pc = "send" => start[s].run \in Run
        BY DEF IInv, StartersStand, StarterStands
    <2> QED
        BY <2>1, <2>2 DEF WorkIsShown, AtWork
<1>5. CASE DeleteJob
    BY <1>5 DEF DeleteJob, WorkIsShown, AtWork
<1>6. ASSUME NEW s \in Starter, NEW j \in Job,
             ManualBackup(s, j) \/ ScheduledBackup(s, j) \/ \E v \in Volume : Restore(s, j, v)
      PROVE  WorkIsShown'
    <2>1. PICK k \in Kind, vs \in SUBSET Volume : Loaded(s, j, k, vs)
        BY <1>6, AskStepInv
    <2>2. /\ UNCHANGED <<runs, work, loaded, deleting>>
          /\ \A t \in Starter : t # s => start'[t] = start[t]
          /\ start'[s].pc = "lock"
        BY <2>1, LoadStepInv
    <2> QED
        BY <2>2 DEF WorkIsShown, AtWork
<1>7. ASSUME NEW s \in Starter, StartStep(s) PROVE WorkIsShown'
    BY <1>7, StartShown
<1>8. ASSUME NEW r \in Run, AgentStep(r) \/ LoadReport(r) \/ RecordReport(r) \/ FailStaleBackupRuns(r)
      PROVE  WorkIsShown'
    BY <1>8, AgentShown
<1>9. ASSUME NEW vs \in SUBSET Volume, ReportVolumes(vs) PROVE WorkIsShown'
    BY <1>9, <1>a DEF ReportVolumes
<1>10. CASE Crash
    BY <1>10, CrashInv DEF Crash, WorkIsShown, AtWork
<1> QED
    BY <1>1, <1>2, <1>3, <1>4, <1>5, <1>6, <1>7, <1>8, <1>9, <1>10 DEF Next

(* "Two clicks must not start the same volume twice" (volumeBackups), of    *)
(* what the agent really does and not only of what the rows show.  Where    *)
(* answers come in time, no job is deleted under a start of it, and no job  *)
(* was edited, two runs are never at work on one volume: the timeout, the   *)
(* edit and the deletion are the only ways past startMu and                 *)
(* overlapsRunning.                                                         *)
THEOREM VolumesWorkedOnOnce ==
    SelectionsHold /\ ~MayTimeOut => (Spec /\ StartsApart => [](edits = 0 => OneRunPerVolume))
<1> SUFFICES ASSUME SelectionsHold, ~MayTimeOut
             PROVE  Spec /\ StartsApart => [](edits = 0 => OneRunPerVolume)
    OBVIOUS
<1>1. Init => WorkIsShown /\ HistoryStands
    BY RowTypes DEF Init, WorkIsShown, AtWork, HistoryStands, HistoryGoesWithJob
<1>2. IInv /\ WorkIsShown /\ StartApart /\ [Next]_vars => WorkIsShown'
    BY NextShown
<1>3. WorkIsShown /\ HistoryStands /\ RunningVolumesApart => (edits = 0 => OneRunPerVolume)
    BY DEF WorkIsShown, AtWork, HistoryStands, HistoryGoesWithJob, RunningVolumesApart, OneRunPerVolume
<1>4. Spec => []RunningVolumesApart
    BY RunsNeverMeet
<1> QED
    BY <1>1, <1>2, <1>3, <1>4, NextHistory, BackupsStand, PTL DEF Spec, StartsApart
=============================================================================
