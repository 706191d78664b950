------------------------------ MODULE VulnScan ------------------------------
(***************************************************************************)
(* Vulnerability scanning: the settings, the background job that installs a *)
(* scanner, refreshes its database and scans the fleet's images, and the    *)
(* table of results.  What runs in the fleet, how far a vulnerability       *)
(* database has got and whether a command of a scanner fails are inputs.    *)
(***************************************************************************)
EXTENDS Naturals

CONSTANTS Scanner,       \* "trivy", "grype"
          Image,         \* digests, each for its platform
          VulnReq,       \* HTTP requests and schedule ticks in progress at once
          VulnJob,       \* background jobs that could run at once
          NoScanner,
          MaxBuild,      \* bound: builds of the vulnerability database published
          MaxSaves       \* bound: times settings are saved or data is purged, and restarts

ASSUME VulnScanAssumption ==
    /\ NoScanner \notin Scanner
    /\ MaxBuild \in Nat \ {0} /\ MaxSaves \in Nat

VARIABLES
    choice,     \* vuln_settings: enabled, scanner
    busy,       \* vulnStatus.Busy
    disk,       \* what each scanner has under cacheDir: a binary, a database
    scans,      \* image_scans
    vulnReq,    \* what each request is doing
    vulnJob,    \* what each background job is doing
    published,  \* newest build of a vulnerability database one can download
    stray,      \* a choice was saved under a pass or another request, or half applied
    purged,     \* the last thing completed was a purge
    saves

vulnVars == <<choice, busy, disk, scans, vulnReq, vulnJob, published, stray, purged, saves>>

(* builtAt : DBBuiltAt, 0 for the empty string.                             *)
Result == [status : {"none", "ok", "error"}, builtAt : 0 .. MaxBuild]
NoResult == [status |-> "none", builtAt |-> 0]
NoData == [binary |-> FALSE, db |-> 0]

VulnReqState == [op : {"none", "scan", "save", "purge"},
                 pc : {"idle", "write", "rows", "start", "dirs"},
                 enabled : BOOLEAN, scanner : Scanner \union {NoScanner},
                 prev : Scanner \union {NoScanner}, update : BOOLEAN, left : SUBSET Scanner]
NoVulnReq == [op |-> "none", pc |-> "idle", enabled |-> FALSE, scanner |-> NoScanner,
              prev |-> NoScanner, update |-> FALSE, left |-> {}]

(* built : dbBuilt as the pass read it; keep : every target; left : those   *)
(* still to be looked at; image : the one at hand; prev : its row as read.  *)
VulnJobState == [pc : {"idle", "begin", "install", "update", "targets", "next", "scan"},
                 scanner : Scanner \union {NoScanner}, update : BOOLEAN, built : 0 .. MaxBuild,
                 keep : SUBSET Image, left : SUBSET Image,
                 image : Image \union {NoScanner}, prev : Result]
NoVulnJob == [pc |-> "idle", scanner |-> NoScanner, update |-> FALSE, built |-> 0, keep |-> {},
              left |-> {}, image |-> NoScanner, prev |-> NoResult]

ReqGoto(r, pc) == vulnReq' = [vulnReq EXCEPT ![r].pc = pc]
ReqReturn(r) == vulnReq' = [vulnReq EXCEPT ![r] = NoVulnReq]
ReqStart(r, next) == vulnReq[r].op = "none" /\ vulnReq' = [vulnReq EXCEPT ![r] = next]
VulnReqAt(r, op, pc) == vulnReq[r].op = op /\ vulnReq[r].pc = pc
JobGoto(j, pc) == vulnJob' = [vulnJob EXCEPT ![j].pc = pc]

(* A pass that has settled on its scanner and can still write.              *)
Passing == \E j \in VulnJob : vulnJob[j].pc \notin {"idle", "begin"}
Others(r) == \E q \in VulnReq \ {r} : vulnReq[q].op \in {"save", "purge"}
Saving == \E r \in VulnReq : vulnReq[r].op \in {"save", "purge"}

-----------------------------------------------------------------------------
(* start: a second job is refused.                                          *)

(* Slip: busy is looked at without the lock, or not at all.                 *)
MayStartAnyway == TRUE

MayStart == ~ busy

StartJob(update) ==
    IF MayStart
    THEN /\ busy' = TRUE
         /\ \E j \in VulnJob :
               /\ vulnJob[j].pc = "idle"
               /\ vulnJob' = [vulnJob EXCEPT ![j] = [NoVulnJob EXCEPT !.pc = "begin", !.update = update]]
    ELSE UNCHANGED <<busy, vulnJob>>

(* The schedule and the buttons "scan" and "update database" look whether   *)
(* scanning is on, and start a pass afterwards.                             *)
AskScan(r, update) ==
    /\ choice.enabled
    /\ ReqStart(r, [NoVulnReq EXCEPT !.op = "scan", !.pc = "start", !.update = update])
    /\ UNCHANGED <<choice, busy, disk, scans, vulnJob, published, stray, purged, saves>>

StartScan(r) ==
    /\ VulnReqAt(r, "scan", "start")
    /\ StartJob(vulnReq[r].update)
    /\ ReqReturn(r)
    /\ UNCHANGED <<choice, disk, scans, published, stray, purged, saves>>

(* saveVulnHandler: the former settings are read, *)
SaveRead(r, enabled, s) ==
    /\ saves < MaxSaves /\ saves' = saves + 1
    /\ ReqStart(r, [NoVulnReq EXCEPT !.op = "save", !.pc = "write", !.enabled = enabled,
                                     !.scanner = s, !.prev = choice.scanner])
    /\ UNCHANGED <<choice, busy, disk, scans, vulnJob, published, stray, purged>>

(* ... the choice is written (SetVulnSettingsChoice), *)
SaveWrite(r) ==
    LET q == vulnReq[r] IN
    /\ VulnReqAt(r, "save", "write")
    /\ choice' = [enabled |-> q.enabled, scanner |-> q.scanner]
    /\ purged' = (purged /\ ~ q.enabled)
    /\ stray' = (stray \/ Others(r) \/ (Passing /\ choice.scanner # q.scanner))
    /\ ReqGoto(r, "rows")
    /\ UNCHANGED <<busy, disk, scans, vulnJob, published, saves>>

(* ... the results of a scanner no longer used are deleted, *)
SaveRows(r) ==
    LET q == vulnReq[r] IN
    /\ VulnReqAt(r, "save", "rows")
    /\ scans' = IF q.prev \notin {NoScanner, q.scanner}
                THEN [scans EXCEPT ![q.prev] = [i \in Image |-> NoResult]]
                ELSE scans
    /\ IF q.enabled THEN ReqGoto(r, "start") ELSE ReqReturn(r)
    /\ UNCHANGED <<choice, busy, disk, vulnJob, published, stray, purged, saves>>

(* ... and enableJob is started, unless a job runs: the choice stays saved. *)
SaveStarts(r) ==
    /\ VulnReqAt(r, "save", "start")
    /\ StartJob(TRUE)
    /\ ReqReturn(r)
    /\ UNCHANGED <<choice, disk, scans, published, stray, purged, saves>>

(* purgeVulnHandler: refused while busy; the settings are read, then        *)
(* switched off, *)
PurgeCheck(r) ==
    /\ saves < MaxSaves /\ saves' = saves + 1
    /\ ~ busy
    /\ ReqStart(r, [NoVulnReq EXCEPT !.op = "purge", !.pc = "write", !.prev = choice.scanner])
    /\ UNCHANGED <<choice, busy, disk, scans, vulnJob, published, stray, purged>>

PurgeWrite(r) ==
    /\ VulnReqAt(r, "purge", "write")
    /\ choice' = [enabled |-> FALSE, scanner |-> vulnReq[r].prev]
    /\ stray' = (stray \/ Others(r) \/ Passing)
    /\ vulnReq' = [vulnReq EXCEPT ![r].pc = "dirs", ![r].left = Scanner]
    /\ UNCHANGED <<busy, disk, scans, vulnJob, published, purged, saves>>

(* ... the directories removed, one scanner after the other, and last the   *)
(* results.                                                                 *)
PurgeDirs(r) ==
    LET q == vulnReq[r] IN
    /\ VulnReqAt(r, "purge", "dirs")
    /\ IF q.left # {}
       THEN /\ \E s \in q.left : /\ disk' = [disk EXCEPT ![s] = NoData]
                                 /\ vulnReq' = [vulnReq EXCEPT ![r].left = @ \ {s}]
            /\ UNCHANGED <<scans, purged>>
       ELSE /\ scans' = [s \in Scanner |-> [i \in Image |-> NoResult]]
            /\ purged' = ~ choice.enabled
            /\ ReqReturn(r)
            /\ UNCHANGED disk
    /\ UNCHANGED <<choice, busy, vulnJob, published, stray, saves>>

-----------------------------------------------------------------------------
(* The background job: pass, with enableJob in front of it.                 *)

(* Every way a job ends: Busy is cleared.                                   *)
JobEnds(j) ==
    /\ busy' = FALSE
    /\ vulnJob' = [vulnJob EXCEPT ![j] = NoVulnJob]

(* Slip: the pass does not look again whether scanning is on.               *)
ActiveScannerStale == choice.scanner # NoScanner

(* activeScanner.                                                           *)
ActiveScanner == choice.enabled

PassBegin(j) ==
    /\ vulnJob[j].pc = "begin"
    /\ \/ /\ ActiveScanner
          /\ vulnJob' = [vulnJob EXCEPT ![j].pc = "install", ![j].scanner = choice.scanner]
          /\ UNCHANGED busy
       \/ JobEnds(j)
    /\ UNCHANGED <<choice, disk, scans, vulnReq, published, stray, purged, saves>>

PassInstall(j) ==
    LET s == vulnJob[j].scanner IN
    /\ vulnJob[j].pc = "install"
    /\ \/ /\ disk' = [disk EXCEPT ![s].binary = TRUE]
          /\ JobGoto(j, "update")
          /\ UNCHANGED busy
       \/ /\ ~ disk[s].binary /\ JobEnds(j) /\ UNCHANGED disk
    /\ UNCHANGED <<choice, scans, vulnReq, published, stray, purged, saves>>

(* UpdateDB, when asked for or when no date of a database can be read,       *)
(* fetches the newest build; its date is read back, or not.                 *)
PassUpdate(j) ==
    LET s == vulnJob[j].scanner IN
    /\ vulnJob[j].pc = "update"
    /\ \/ /\ \E dated \in {disk[s].db > 0, FALSE} :
                IF vulnJob[j].update \/ ~ dated
                THEN /\ disk[s].binary
                     /\ disk' = [disk EXCEPT ![s].db = published]
                     /\ \E built \in {0, published} :
                           vulnJob' = [vulnJob EXCEPT ![j].pc = "targets", ![j].built = built]
                ELSE /\ vulnJob' = [vulnJob EXCEPT ![j].pc = "targets", ![j].built = disk[s].db]
                     /\ UNCHANGED disk
          /\ UNCHANGED busy
       \/ JobEnds(j) /\ UNCHANGED disk
    /\ UNCHANGED <<choice, scans, vulnReq, published, stray, purged, saves>>

(* targets: what policies and containers name just now.                     *)
PassTargets(j, targets) ==
    /\ vulnJob[j].pc = "targets"
    /\ \/ /\ vulnJob' = [vulnJob EXCEPT ![j].pc = "next", ![j].keep = targets, ![j].left = targets]
          /\ UNCHANGED busy
       \/ JobEnds(j)
    /\ UNCHANGED <<choice, disk, scans, vulnReq, published, stray, purged, saves>>

(* A result from this database or a later one is current.                   *)
Current(row, built) == row.status = "ok" /\ row.builtAt >= built

PassNext(j, i) ==
    LET row == scans[vulnJob[j].scanner][i] IN
    /\ vulnJob[j].pc = "next" /\ i \in vulnJob[j].left
    /\ vulnJob' = [vulnJob EXCEPT ![j].left = @ \ {i}, ![j].image = i, ![j].prev = row,
                                  ![j].pc = IF Current(row, vulnJob[j].built) THEN "next" ELSE "scan"]
    /\ UNCHANGED <<choice, busy, disk, scans, vulnReq, published, stray, purged, saves>>

(* "!(has && prev.Status == ok)": an earlier good result outlives an error. *)
KeepEarlier(row) == row.status = "ok"

UpsertImageScan(s, i, status, built) ==
    [scans EXCEPT ![s][i] = [status |-> status, builtAt |-> built]]

(* Scan takes minutes; it needs binary and database, and the date of the    *)
(* database is read when it is over.                                        *)
PassScan(j) ==
    LET q == vulnJob[j] IN
    /\ q.pc = "scan"
    /\ \/ /\ disk[q.scanner].binary /\ disk[q.scanner].db > 0
          /\ \E built \in {0, disk[q.scanner].db} :
                scans' = UpsertImageScan(q.scanner, q.image, "ok", built)
       \/ scans' = IF KeepEarlier(q.prev) THEN scans
                   ELSE UpsertImageScan(q.scanner, q.image, "error", 0)
    /\ JobGoto(j, "next")
    /\ UNCHANGED <<choice, busy, disk, vulnReq, published, stray, purged, saves>>

(* Slip: only rows of the scanner itself are pruned.                        *)
PruneOwn(s, keep) ==
    [t \in Scanner |-> [i \in Image |-> IF t = s /\ i \notin keep THEN NoResult ELSE scans[t][i]]]

(* PruneImageScans: every other row goes, the other scanner's too.          *)
PruneImageScans(s, keep) ==
    [t \in Scanner |-> [i \in Image |-> IF t = s /\ i \in keep THEN scans[t][i] ELSE NoResult]]

(* The end of a pass over every target.  Whatever stray rows were left by   *)
(* a change of mind are gone, if the choice is the pass's own again.        *)
PassPrune(j) ==
    LET q == vulnJob[j] IN
    /\ q.pc = "next" /\ q.left = {}
    /\ scans' = PruneImageScans(q.scanner, q.keep)
    /\ stray' = (stray /\ (choice # [enabled |-> TRUE, scanner |-> q.scanner] \/ Saving))
    /\ JobEnds(j)
    /\ UNCHANGED <<choice, disk, vulnReq, published, purged, saves>>

(* A failing statement ends the pass.                                       *)
PassFails(j) ==
    /\ vulnJob[j].pc \in {"next", "scan"}
    /\ JobEnds(j)
    /\ UNCHANGED <<choice, disk, scans, vulnReq, published, stray, purged, saves>>

Publish ==
    /\ published < MaxBuild
    /\ published' = published + 1
    /\ UNCHANGED <<choice, busy, disk, scans, vulnReq, vulnJob, stray, purged, saves>>

(* A restart: requests, jobs and Busy are gone; tables and files stay.      *)
VulnRestart ==
    /\ saves < MaxSaves /\ saves' = saves + 1
    /\ busy' = FALSE
    /\ stray' = (stray \/ Saving)
    /\ vulnReq' = [r \in VulnReq |-> NoVulnReq]
    /\ vulnJob' = [j \in VulnJob |-> NoVulnJob]
    /\ UNCHANGED <<choice, disk, scans, published, purged>>

-----------------------------------------------------------------------------
VulnInit ==
    /\ choice = [enabled |-> FALSE, scanner |-> NoScanner]
    /\ busy = FALSE
    /\ disk = [s \in Scanner |-> NoData]
    /\ scans = [s \in Scanner |-> [i \in Image |-> NoResult]]
    /\ vulnReq = [r \in VulnReq |-> NoVulnReq]
    /\ vulnJob = [j \in VulnJob |-> NoVulnJob]
    /\ published = 1
    /\ stray = FALSE
    /\ purged = FALSE
    /\ saves = 0

VulnJobStep(j) ==
    \/ PassBegin(j) \/ PassInstall(j) \/ PassUpdate(j)
    \/ \E targets \in SUBSET Image : PassTargets(j, targets)
    \/ \E i \in Image : PassNext(j, i)
    \/ PassScan(j) \/ PassPrune(j) \/ PassFails(j)

VulnReqStep(r) ==
    \/ \E update \in BOOLEAN : AskScan(r, update)
    \/ StartScan(r)
    \/ \E enabled \in BOOLEAN, s \in Scanner : SaveRead(r, enabled, s)
    \/ SaveWrite(r) \/ SaveRows(r) \/ SaveStarts(r)
    \/ PurgeCheck(r) \/ PurgeWrite(r) \/ PurgeDirs(r)

VulnNext ==
    \/ \E r \in VulnReq : VulnReqStep(r)
    \/ \E j \in VulnJob : VulnJobStep(j)
    \/ Publish \/ VulnRestart

VulnSpec == VulnInit /\ [][VulnNext]_vulnVars

-----------------------------------------------------------------------------
(* Properties.                                                              *)

(* Settings, files, table and progress stay well formed.                    *)
VulnTypeOK ==
    /\ choice \in [enabled : BOOLEAN, scanner : Scanner \union {NoScanner}]
    /\ busy \in BOOLEAN
    /\ disk \in [Scanner -> [binary : BOOLEAN, db : 0 .. MaxBuild]]
    /\ scans \in [Scanner -> [Image -> Result]]
    /\ vulnReq \in [VulnReq -> VulnReqState]
    /\ vulnJob \in [VulnJob -> VulnJobState]
    /\ published \in 1 .. MaxBuild
    /\ stray \in BOOLEAN /\ purged \in BOOLEAN
    /\ saves \in 0 .. MaxSaves

(* A good result is replaced by a good result or deleted, never by an       *)
(* error: the row a pass read before a scan of minutes is still the row     *)
(* there is, because nothing else writes results meanwhile.                 *)
GoodResultStays ==
    [][\A s \in Scanner, i \in Image :
          scans[s][i].status = "ok" => scans'[s][i].status # "error"]_vulnVars

(* The table holds results of the chosen scanner only, although passes,     *)
(* schedule ticks and restarts come at any moment; the choice saved under a *)
(* pass of the other scanner, or two at once, may leave others, and the     *)
(* next complete pass removes those.                                        *)
ResultsOfTheChoice ==
    ~ stray /\ ~ Saving =>
        \A s \in Scanner \ {choice.scanner}, i \in Image : scans[s][i] = NoResult

(* After a purge nothing is left on disk or in the table until scanning is  *)
(* turned on again: a tick or a click that saw it on before the purge       *)
(* starts a job that finds it off.  (A pass under way when the purge        *)
(* switches scanning off excepted.)                                         *)
PurgeLasts ==
    purged /\ ~ stray /\ ~ Saving =>
        /\ \A s \in Scanner : disk[s] = NoData
        /\ \A s \in Scanner, i \in Image : scans[s][i] = NoResult

(* vulnscan.go, purge: "deletes every scanner's binary, database and        *)
(* results", without the exception.                                         *)
PurgeDeletesAll ==
    purged /\ ~ Saving => \A s \in Scanner : disk[s] = NoData
=============================================================================
