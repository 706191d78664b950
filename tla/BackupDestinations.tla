------------------------- MODULE BackupDestinations -------------------------
(***************************************************************************)
(* Backup destinations as one host sees them: the rows, their passwords in  *)
(* keys.db, the jobs that write to them, and what is remembered of the      *)
(* host's repository on each.  What the agent finds on a share is an input. *)
(***************************************************************************)
EXTENDS Naturals

CONSTANTS Dest,          \* ids a destination can get; each is drawn once
          Share,         \* addresses: server, share and folder
          DestJob,       \* backup jobs of the host
          DestReq,       \* requests in progress at once
          NoDest,
          NoShare,
          MaxEdits       \* bound: edits of destinations and jobs, and requests cut short

ASSUME BackupDestinationsAssumption ==
    /\ NoDest \notin Dest /\ NoShare \notin Share
    /\ MaxEdits \in Nat

VARIABLES
    dests,      \* backup_destinations: the address of each, or NoShare
    destDrawn,  \* ids given out
    passwords,  \* keys.db: which of the two passwords each id has
    destJobs,   \* backup_jobs: the destination of each, or NoDest
    repos,      \* backup_repos: what is known of the repository, and of which share
    work,       \* runs at the agent: the share each job's run was given
    destReq,    \* what each request is doing
    misled,     \* an edit or a deletion has overlapped something that relied on it
    destEdits

destVars == <<dests, destDrawn, passwords, destJobs, repos, work, destReq, misled, destEdits>>

Passwords == SUBSET {"smb", "repo"}

(* repoState.  The share is not in the table: it is what the agent looked   *)
(* at to know.                                                              *)
Repo == [state : {"unknown", "ready", "missing"}, share : Share \union {NoShare}]
Unknown == [state |-> "unknown", share |-> NoShare]
Run == [dest : Dest \union {NoDest}, share : Share \union {NoShare}]
NoRun == [dest |-> NoDest, share |-> NoShare]

DestReqState == [op : {"none", "create", "update", "delete", "job", "probe"},
                 pc : {"idle", "read", "write", "row", "clear", "creds", "insert", "agent"},
                 dest : Dest \union {NoDest}, share : Share \union {NoShare},
                 job : DestJob \union {"none"}, held : Passwords]
NoDestReq == [op |-> "none", pc |-> "idle", dest |-> NoDest, share |-> NoShare,
              job |-> "none", held |-> {}]

There(d) == d \in Dest /\ dests[d] # NoShare
DestAt(r, op, pc) == destReq[r].op = op /\ destReq[r].pc = pc
DestGoto(r, pc) == destReq' = [destReq EXCEPT ![r].pc = pc]
DestReturn(r) == destReq' = [destReq EXCEPT ![r] = NoDestReq]
DestStart(r, next) == destReq[r].op = "none" /\ destReq' = [destReq EXCEPT ![r] = next]

(* Requests and runs that have read destination d, or its id, and still go  *)
(* by it.                                                                   *)
ReliesOn(r, d) == \E q \in DestReq \ {r} : destReq[q].dest = d /\ destReq[q].op \in {"job", "probe", "update"}
Deleting(d) == \E q \in DestReq : destReq[q].op = "delete" /\ destReq[q].dest = d
RunOn(d) == \E j \in DestJob : work[j].dest = d

-----------------------------------------------------------------------------
(* createVolumeBackupDestinationHandler: both passwords, then the row; a    *)
(* name already taken takes the passwords back.                             *)
CreateDestination(r, d, sh) ==
    /\ d \notin destDrawn
    /\ destDrawn' = destDrawn \union {d}
    /\ passwords' = [passwords EXCEPT ![d] = {"smb", "repo"}]
    /\ DestStart(r, [NoDestReq EXCEPT !.op = "create", !.pc = "row", !.dest = d, !.share = sh])
    /\ UNCHANGED <<dests, destJobs, repos, work, misled, destEdits>>

CreateDestinationRow(r) ==
    LET q == destReq[r] IN
    /\ DestAt(r, "create", "row")
    /\ \/ dests' = [dests EXCEPT ![q.dest] = q.share] /\ UNCHANGED passwords
       \/ passwords' = [passwords EXCEPT ![q.dest] = {}] /\ UNCHANGED dests
    /\ DestReturn(r)
    /\ UNCHANGED <<destDrawn, destJobs, repos, work, misled, destEdits>>

(* updateVolumeBackupDestinationHandler.  With a new password the stored    *)
(* ones are read and written back with it; then the row, then what was      *)
(* known of the repositories is forgotten.                                  *)
UpdateDestination(r, d, sh, typed) ==
    /\ destEdits < MaxEdits /\ destEdits' = destEdits + 1
    /\ There(d)
    /\ DestStart(r, [NoDestReq EXCEPT !.op = "update", !.pc = IF typed THEN "read" ELSE "row",
                                      !.dest = d, !.share = sh])
    /\ UNCHANGED <<dests, destDrawn, passwords, destJobs, repos, work, misled>>

(* Slip: the new password is stored without the others.                     *)
KeptFresh(d) == {}

Kept(d) == passwords[d]

UpdatePasswordRead(r) ==
    /\ DestAt(r, "update", "read")
    /\ destReq' = [destReq EXCEPT ![r].pc = "write", ![r].held = Kept(destReq[r].dest)]
    /\ UNCHANGED <<dests, destDrawn, passwords, destJobs, repos, work, misled, destEdits>>

UpdatePasswordWrite(r) ==
    /\ DestAt(r, "update", "write")
    /\ passwords' = [passwords EXCEPT ![destReq[r].dest] = destReq[r].held \union {"smb"}]
    /\ DestGoto(r, "row")
    /\ UNCHANGED <<dests, destDrawn, destJobs, repos, work, misled, destEdits>>

UpdateDestinationRow(r) ==
    LET q == destReq[r] IN
    /\ DestAt(r, "update", "row")
    /\ IF There(q.dest)
       THEN /\ dests' = [dests EXCEPT ![q.dest] = q.share]
            /\ misled' = (misled \/ RunOn(q.dest) \/ ReliesOn(r, q.dest))
            /\ DestGoto(r, "clear")
       ELSE DestReturn(r) /\ UNCHANGED <<dests, misled>>
    /\ UNCHANGED <<destDrawn, passwords, destJobs, repos, work, destEdits>>

(* Slip: nothing is forgotten.                                              *)
ClearBackupRepoStatesNot(d) == UNCHANGED repos

ClearBackupRepoStates(d) == repos' = [repos EXCEPT ![d] = Unknown]

(* The end of an update, and the step after the row's in a deletion.        *)
ForgetRepos(r) ==
    /\ destReq[r].pc = "clear"
    /\ ClearBackupRepoStates(destReq[r].dest)
    /\ IF destReq[r].op = "delete" THEN DestGoto(r, "creds") ELSE DestReturn(r)
    /\ UNCHANGED <<dests, destDrawn, passwords, destJobs, work, misled, destEdits>>

(* Slip: jobs that are switched to a destination do not count.              *)
UsedByNone(d) == FALSE

UsedBy(d) == \E j \in DestJob : destJobs[j] = d

(* DeleteBackupDestination: refused while a job writes to it; then the row, *)
(* the repository states and, in the handler, the passwords.                *)
DeleteDestination(r, d) ==
    /\ There(d)
    /\ ~ UsedBy(d)
    /\ DestStart(r, [NoDestReq EXCEPT !.op = "delete", !.pc = "row", !.dest = d])
    /\ UNCHANGED <<dests, destDrawn, passwords, destJobs, repos, work, misled, destEdits>>

DeleteDestinationRow(r) ==
    /\ DestAt(r, "delete", "row")
    /\ dests' = [dests EXCEPT ![destReq[r].dest] = NoShare]
    /\ misled' = (misled \/ ReliesOn(r, destReq[r].dest) \/ RunOn(destReq[r].dest))
    /\ DestGoto(r, "clear")
    /\ UNCHANGED <<destDrawn, passwords, destJobs, repos, work, destEdits>>

DeletePasswords(r) ==
    /\ DestAt(r, "delete", "creds")
    /\ passwords' = [passwords EXCEPT ![destReq[r].dest] = {}]
    /\ DestReturn(r)
    /\ UNCHANGED <<dests, destDrawn, destJobs, repos, work, misled, destEdits>>

-----------------------------------------------------------------------------
(* saveVolumeBackupJobHandler: the destination is looked up, the job        *)
(* written later, a new one or one that now writes elsewhere.               *)
SaveJob(r, j, d) ==
    /\ destEdits < MaxEdits /\ destEdits' = destEdits + 1
    /\ There(d)
    /\ DestStart(r, [NoDestReq EXCEPT !.op = "job", !.pc = "insert", !.dest = d, !.job = j])
    /\ UNCHANGED <<dests, destDrawn, passwords, destJobs, repos, work, misled>>

WriteJob(r) ==
    LET q == destReq[r] IN
    /\ DestAt(r, "job", "insert")
    /\ destJobs' = [destJobs EXCEPT ![q.job] = q.dest]
    /\ misled' = (misled \/ Deleting(q.dest) \/ work[q.job].dest \notin {NoDest, q.dest})
    /\ DestReturn(r)
    /\ UNCHANGED <<dests, destDrawn, passwords, repos, work, destEdits>>

(* Refused while a run of the job is on.                                    *)
DeleteBackupJob(j) ==
    /\ destJobs[j] # NoDest /\ work[j] = NoRun
    /\ destJobs' = [destJobs EXCEPT ![j] = NoDest]
    /\ UNCHANGED <<dests, destDrawn, passwords, repos, work, destReq, misled, destEdits>>

-----------------------------------------------------------------------------
(* Looking at a repository.                                                 *)

(* backupRequestFor: both passwords are needed.                             *)
Reachable(d) == There(d) /\ passwords[d] = {"smb", "repo"}

(* testDestination, jobAgentAction: the agent is sent address and passwords.*)
Probe(r, d) ==
    /\ Reachable(d)
    /\ DestStart(r, [NoDestReq EXCEPT !.op = "probe", !.pc = "agent", !.dest = d, !.share = dests[d]])
    /\ UNCHANGED <<dests, destDrawn, passwords, destJobs, repos, work, misled, destEdits>>

(* SetBackupRepoState, an upsert.                                           *)
NoteRepo(d, sh, state) == repos' = [repos EXCEPT ![d] = [state |-> state, share |-> sh]]

(* ... and what it found is noted, unless it could not tell.                *)
ProbeAnswer(r, state) ==
    LET q == destReq[r] IN
    /\ DestAt(r, "probe", "agent")
    /\ IF state = "unknown" THEN UNCHANGED repos ELSE NoteRepo(q.dest, q.share, state)
    /\ DestReturn(r)
    /\ UNCHANGED <<dests, destDrawn, passwords, destJobs, work, misled, destEdits>>

(* startVolumeAction, as far as destinations go: not when the repository is *)
(* known to be missing.                                                     *)
StartRun(j) ==
    LET d == destJobs[j] IN
    /\ d # NoDest /\ work[j] = NoRun
    /\ Reachable(d)
    /\ repos[d].state # "missing"
    /\ work' = [work EXCEPT ![j] = [dest |-> d, share |-> dests[d]]]
    /\ UNCHANGED <<dests, destDrawn, passwords, destJobs, repos, destReq, misled, destEdits>>

(* volumeBackupReportHandler: a run that read or wrote the repository, or   *)
(* found none, is noted for the destination its job has now.                *)
ReportRun(j, state) ==
    /\ work[j] # NoRun
    /\ IF state = "unknown" \/ destJobs[j] = NoDest THEN UNCHANGED repos
       ELSE NoteRepo(destJobs[j], work[j].share, state)
    /\ work' = [work EXCEPT ![j] = NoRun]
    /\ UNCHANGED <<dests, destDrawn, passwords, destJobs, destReq, misled, destEdits>>

(* A statement fails, or the controller stops: the handler ends where it is, *)
(* perhaps between the row and the clearing.                                *)
DestCutShort(r) ==
    /\ destReq[r].op # "none"
    /\ destEdits < MaxEdits /\ destEdits' = destEdits + 1
    /\ misled' = (misled \/ destReq[r].pc = "clear")
    /\ DestReturn(r)
    /\ UNCHANGED <<dests, destDrawn, passwords, destJobs, repos, work>>

-----------------------------------------------------------------------------
DestInit ==
    /\ dests = [d \in Dest |-> NoShare]
    /\ destDrawn = {}
    /\ passwords = [d \in Dest |-> {}]
    /\ destJobs = [j \in DestJob |-> NoDest]
    /\ repos = [d \in Dest |-> Unknown]
    /\ work = [j \in DestJob |-> NoRun]
    /\ destReq = [r \in DestReq |-> NoDestReq]
    /\ misled = FALSE
    /\ destEdits = 0

DestRequest(r) ==
    \/ \E d \in Dest :
        \/ \E sh \in Share : CreateDestination(r, d, sh)
        \/ \E sh \in Share, typed \in BOOLEAN : UpdateDestination(r, d, sh, typed)
        \/ DeleteDestination(r, d) \/ Probe(r, d)
        \/ \E j \in DestJob : SaveJob(r, j, d)
    \/ CreateDestinationRow(r)
    \/ UpdatePasswordRead(r) \/ UpdatePasswordWrite(r) \/ UpdateDestinationRow(r)
    \/ ForgetRepos(r)
    \/ DeleteDestinationRow(r) \/ DeletePasswords(r)
    \/ WriteJob(r) \/ DestCutShort(r)
    \/ \E state \in {"unknown", "ready", "missing"} : ProbeAnswer(r, state)

DestNext ==
    \/ \E r \in DestReq : DestRequest(r)
    \/ \E j \in DestJob :
        \/ DeleteBackupJob(j) \/ StartRun(j)
        \/ \E state \in {"unknown", "ready", "missing"} : ReportRun(j, state)

DestSpec == DestInit /\ [][DestNext]_destVars

-----------------------------------------------------------------------------
(* Properties.                                                              *)

(* However edits and deletions overlap, a destination that exists has the   *)
(* repository password it was created with: without it no snapshot on the   *)
(* share can be read again, and it is nowhere else.                         *)
RepoPasswordStays == \A d \in Dest : There(d) => "repo" \in passwords[d]

Editing(d) == \E r \in DestReq : destReq[r].dest = d /\ destReq[r].op \in {"update", "delete"}

(* "The repositories may now be elsewhere: what was known of them no longer *)
(* holds".  Unless a probe, a run or a second edit was on while its         *)
(* destination or its job was changed, or an edit broke off before it could *)
(* forget: what the controller says of a repository was seen on the share   *)
(* the destination has now, and nothing is remembered of one that is gone.  *)
RepoStateIsCurrent ==
    ~ misled => \A d \in Dest : ~ Editing(d) =>
                    \/ repos[d] = Unknown
                    \/ There(d) /\ repos[d].share = dests[d]

(* DeleteBackupDestination "refuses while a job still writes to it": unless *)
(* a job was being saved during the deletion, a job's destination exists.   *)
JobsHaveDestinations ==
    ~ misled => \A j \in DestJob : destJobs[j] # NoDest => There(destJobs[j])

(* ... and without the reservation, which is what the comment says.         *)
NeverWrittenOff == \A j \in DestJob : destJobs[j] # NoDest => There(destJobs[j])
=============================================================================
