------------------------- MODULE ControllerRestore -------------------------
(***************************************************************************)
(* Restoring a controller from a backup: an uploaded archive is unpacked     *)
(* into restore-pending while the controller runs, and the next start moves  *)
(* it into place, file by file.  A file is what it came from: the data the   *)
(* controller had, one of the backups, or a start that made it afresh.  The  *)
(* process can stop at any step, the steps of os.RemoveAll included.         *)
(***************************************************************************)
EXTENDS Naturals, Sequences

CONSTANTS Backup,        \* archives an admin uploads
          Upload,        \* uploads in progress at once
          MaxStarts,     \* bound: starts of the controller
          MaxUploads,    \* bound: uploads
          Faults         \* what can go wrong: "crash" during an upload or a start; removing
                         \* restore-pending fails in a start ("unclean") or an upload ("uncleared")

ASSUME ControllerRestoreAssumption ==
    /\ MaxStarts \in Nat /\ MaxUploads \in Nat /\ Faults \subseteq {"crash", "unclean", "uncleared"}
    /\ {"own", "fresh", "torn", "dir", "none"} \intersect Backup = {}

VARIABLES
    power,      \* "down", "applying", "opening", "loading", "generating", "up"
    files,      \* the data directory: where each file came from, or "none"
    aside,      \* the same for the files renamed aside, by suffix
    staging,    \* restore-pending: its files
    pending,    \* whether restore-pending exists
    at,         \* the next step of applyPendingRestore
    suffix,     \* the timestamp of this start, in seconds
    uploads,    \* what each upload is doing
    overlapped, \* two uploads have overlapped
    hurried,    \* two starts got the same suffix
    spoilt,     \* a start has met an identity without certificate staged, or a journal of keys.db
    starts, uploaded

restoreVars == <<power, files, aside, staging, pending, at, suffix, uploads, overlapped,
                 hurried, spoilt, starts, uploaded>>

(* The entries buildBackupArchive writes, in this order; "cert" and "key"   *)
(* are in the directory "identity".                                         *)
Archive == <<"manifest.json", "wharf.db", "keys.db", "cert", "key">>
InIdentity == {"cert", "key"}
Part == {"manifest.json", "wharf.db", "keys.db", "identity", "cert", "key"}
File == {"wharf.db", "wharf.db-wal", "wharf.db-shm", "keys.db", "keys.db-journal", "identity", "cert", "key"}
Data == {"wharf.db", "keys.db", "cert", "key"}
Log == {"wharf.db-wal", "wharf.db-shm"}
Staged == Backup \union {"torn", "dir", "none"}
Origin == Staged \union {"own", "fresh"}

NoPart == [p \in Part |-> "none"]
NoFile == [f \in File |-> "none"]
NoUpload == [backup |-> "none", pc |-> "idle", next |-> 0]

-----------------------------------------------------------------------------
(* restoreBackupHandler, stageRestore.                                      *)

UploadAt(u, pc) == power = "up" /\ uploads[u].pc = pc
UploadGoes(u, pc) == uploads' = [uploads EXCEPT ![u].pc = pc]
OnlyStaging == UNCHANGED <<power, files, aside, at, suffix, overlapped, hurried, spoilt, starts, uploaded>>

(* The archive opens, and whatever was staged is to be removed.             *)
StageStart(u, b) ==
    /\ power = "up" /\ uploads[u] = NoUpload
    /\ uploaded < MaxUploads /\ uploaded' = uploaded + 1
    /\ uploads' = [uploads EXCEPT ![u] = [backup |-> b, pc |-> "clear", next |-> 1]]
    /\ overlapped' = (overlapped \/ \E v \in Upload : uploads[v] # NoUpload)
    /\ UNCHANGED <<power, files, aside, staging, pending, at, suffix, hurried, spoilt, starts>>

(* os.RemoveAll: the entries in the order the directory lists them, a       *)
(* directory after what is in it, restore-pending last.                     *)
Unlinked(p) ==
    /\ staging[p] # "none" /\ (p = "identity" => \A f \in InIdentity : staging[f] = "none")
    /\ staging' = [staging EXCEPT ![p] = "none"]
AllUnlinked == staging = NoPart /\ pending' = FALSE

RemoveOne(u) ==
    /\ UploadAt(u, "clear") \/ UploadAt(u, "drop")
    /\ \E p \in Part : Unlinked(p)
    /\ UNCHANGED <<pending, uploads>> /\ OnlyStaging

(* What was staged is gone; what failed is given up.                        *)
RemoveEnd(u) ==
    /\ AllUnlinked /\ UNCHANGED staging
    /\ \/ UploadAt(u, "clear") /\ UploadGoes(u, "make")
       \/ UploadAt(u, "drop") /\ uploads' = [uploads EXCEPT ![u] = NoUpload]
    /\ OnlyStaging

(* os.RemoveAll returns an error: an upload that begins ends with it, one   *)
(* that failed ignores it.  Something stays staged either way.              *)
RemoveFails(u) ==
    /\ "uncleared" \in Faults /\ pending
    /\ UploadAt(u, "clear") \/ UploadAt(u, "drop")
    /\ uploads' = [uploads EXCEPT ![u] = NoUpload]
    /\ UNCHANGED <<staging, pending>> /\ OnlyStaging

(* os.MkdirAll(staging).                                                    *)
StageMake(u) ==
    /\ UploadAt(u, "make")
    /\ pending' = TRUE /\ UNCHANGED staging
    /\ UploadGoes(u, "entry") /\ OnlyStaging

(* The next entry is read and checked, and its directory made.              *)
StageEntry(u) ==
    /\ UploadAt(u, "entry") /\ uploads[u].next \in 1 .. Len(Archive)
    /\ pending' = TRUE
    /\ staging' = IF Archive[uploads[u].next] \in InIdentity
                  THEN [staging EXCEPT !["identity"] = "dir"] ELSE staging
    /\ UploadGoes(u, "write") /\ OnlyStaging

(* Another upload may have removed the directory of the entry since.        *)
CanWrite(u) ==
    /\ UploadAt(u, "write") /\ pending
    /\ Archive[uploads[u].next] \in InIdentity => staging["identity"] # "none"

(* os.WriteFile(dest).                                                      *)
StageWrite(u) ==
    /\ CanWrite(u)
    /\ staging' = [staging EXCEPT ![Archive[uploads[u].next]] = uploads[u].backup]
    /\ uploads' = [uploads EXCEPT ![u].pc = "entry", ![u].next = @ + 1]
    /\ UNCHANGED pending /\ OnlyStaging

(* The archive ends: with all five entries, or ("not a complete             *)
(* wharf-server backup") to be removed again.                               *)
StageEnd(u) ==
    /\ UploadAt(u, "entry")
    /\ IF uploads[u].next = Len(Archive) + 1
       THEN uploads' = [uploads EXCEPT ![u] = NoUpload] ELSE UploadGoes(u, "drop")
    /\ UNCHANGED <<staging, pending>> /\ OnlyStaging

(* A corrupt archive, an unsafe name, another format version, a directory   *)
(* that cannot be made, a disk that is full before or while it writes.      *)
StageFails(u) ==
    /\ \/ /\ UploadAt(u, "make") /\ uploads' = [uploads EXCEPT ![u] = NoUpload]
          /\ UNCHANGED staging
       \/ /\ UploadAt(u, "entry") \/ UploadAt(u, "write")
          /\ UploadGoes(u, "drop")
          /\ \/ UNCHANGED staging
             \/ CanWrite(u) /\ staging' = [staging EXCEPT ![Archive[uploads[u].next]] = "torn"]
    /\ UNCHANGED pending /\ OnlyStaging

-----------------------------------------------------------------------------
(* applyPendingRestore.                                                     *)

(* Slip: the write-ahead log of the database is left behind.                *)
SetAsideNoLog == <<"wharf.db", "keys.db", "identity">>

(* What is renamed aside, and what is moved in, step by step.               *)
SetAside == <<"wharf.db", "wharf.db-wal", "wharf.db-shm", "keys.db", "identity">>
MoveIn == <<"wharf.db", "keys.db", "identity">>

(* A directory is renamed with what is in it.                               *)
With(p) == IF p = "identity" THEN InIdentity \union {p} ELSE {p}

(* What a restore cannot make good: an identity directory that was staged   *)
(* without a certificate is moved in like any other, and a journal that a   *)
(* write to keys.db left is not set aside with it.                          *)
Spoils ==
    /\ pending
    /\ \/ staging["identity"] # "none" /\ staging["cert"] = "none"
       \/ files["keys.db-journal"] # "none"

Start(sameSecond) ==
    /\ power = "down"
    /\ starts < MaxStarts /\ starts' = starts + 1
    /\ suffix' = IF sameSecond THEN suffix ELSE suffix + 1
    /\ hurried' = (hurried \/ (sameSecond /\ pending))
    /\ spoilt' = (spoilt \/ Spoils)
    /\ at' = 1
    /\ power' = IF pending THEN "applying" ELSE "opening"
    /\ UNCHANGED <<files, aside, staging, pending, uploads, overlapped, uploaded>>

(* log.Fatal.                                                               *)
Fatal == power' = "down" /\ at' = 0

(* Slip: what is there is removed, to make room.                            *)
RenamedAway(fs) == aside

(* A rename replaces a file of that name, or an empty directory.            *)
Renamed(fs) ==
    [aside EXCEPT ![suffix] = [f \in File |-> IF f \in fs THEN files[f] ELSE @[f]]]

ApplySetAside ==
    /\ power = "applying" /\ at <= Len(SetAside)
    /\ LET p == SetAside[at] IN
       CASE files[p] = "none" -> at' = at + 1 /\ UNCHANGED <<power, files, aside>>
         [] p = "identity" /\ \E f \in InIdentity : aside[suffix][f] # "none" ->
                Fatal /\ UNCHANGED <<files, aside>>
         [] OTHER -> /\ aside' = Renamed(With(p))
                     /\ files' = [f \in File |-> IF f \in With(p) THEN "none" ELSE files[f]]
                     /\ at' = at + 1
                     /\ UNCHANGED power
    /\ UNCHANGED <<staging, pending, suffix, uploads, overlapped, hurried, spoilt, starts, uploaded>>

(* What is not staged ends the start; a directory is moved whatever is in   *)
(* it.                                                                      *)
ApplyMoveIn ==
    LET n == at - Len(SetAside)
        p == MoveIn[n] IN
    /\ power = "applying" /\ n \in 1 .. Len(MoveIn)
    /\ IF staging[p] = "none"
       THEN Fatal /\ UNCHANGED <<files, staging>>
       ELSE /\ files' = [f \in File |-> IF f \in With(p) THEN staging[f] ELSE files[f]]
            /\ staging' = [q \in Part |-> IF q \in With(p) THEN "none" ELSE staging[q]]
            /\ at' = at + 1
            /\ UNCHANGED power
    /\ UNCHANGED <<aside, pending, suffix, uploads, overlapped, hurried, spoilt, starts, uploaded>>

(* The rest of restore-pending is removed, or not: "could not clean up      *)
(* staging dir (harmless)".                                                 *)
ApplyClean ==
    /\ power = "applying" /\ at = Len(SetAside) + Len(MoveIn) + 1
    /\ \/ (\E p \in Part : Unlinked(p)) /\ UNCHANGED <<pending, power, at>>
       \/ /\ \/ AllUnlinked
             \/ "unclean" \in Faults /\ UNCHANGED pending
          /\ UNCHANGED staging
          /\ power' = "opening" /\ at' = 0
    /\ UNCHANGED <<files, aside, suffix, uploads, overlapped, hurried, spoilt, starts, uploaded>>

-----------------------------------------------------------------------------
(* store.Open, keys.Open, identity.LoadOrGenerate.                          *)

OnlyFiles == UNCHANGED <<aside, staging, pending, suffix, uploads, overlapped, hurried, spoilt, starts, uploaded>>

(* Databases that are not there are created.  SQLite uses a log that is     *)
(* there, and rolls a journal that is there back into keys.db, even one of  *)
(* another keys.db.                                                         *)
Opened(f) ==
    LET journal == files["keys.db-journal"] IN
    CASE f = "keys.db-journal" -> "none"
      [] f = "keys.db" /\ files[f] # "none" /\ journal \notin {"none", files[f]} -> "torn"
      [] f \in {"wharf.db", "keys.db"} /\ files[f] = "none" -> "fresh"
      [] f \in Log /\ files[f] = "none" -> IF files["wharf.db"] = "none" THEN "fresh" ELSE files["wharf.db"]
      [] OTHER -> files[f]

Open ==
    /\ power = "opening"
    /\ files' = [f \in File |-> Opened(f)]
    /\ power' = "loading" /\ at' = 0
    /\ OnlyFiles

(* An identity that is there must load; where there is no certificate one   *)
(* is made, whatever else is there.                                         *)
LoadOrGenerate ==
    /\ power = "loading"
    /\ CASE files["cert"] = "none" ->
                /\ files' = [files EXCEPT !["identity"] = "dir", !["cert"] = "fresh"]
                /\ power' = "generating" /\ at' = 0
         [] files["cert"] # "none" /\ (files["cert"] # files["key"] \/ files["key"] = "torn") ->
                Fatal /\ UNCHANGED files
         [] OTHER -> power' = "up" /\ at' = 0 /\ UNCHANGED files
    /\ OnlyFiles

(* The key is written after the certificate.                                *)
GenerateKey ==
    /\ power = "generating"
    /\ files' = [files EXCEPT !["key"] = "fresh"]
    /\ power' = "up" /\ at' = 0
    /\ OnlyFiles

-----------------------------------------------------------------------------
(* SIGTERM ends the process where it is, like a crash: SQLite's log stays,  *)
(* and a journal if a write to keys.db was under way.  A file being written *)
(* into restore-pending may be cut off.                                     *)
Stop(torn, journal) ==
    /\ power # "down"
    /\ "crash" \in Faults \/ (power = "up" /\ uploads = [u \in Upload |-> NoUpload] /\ ~ journal)
    /\ torn \in Upload => CanWrite(torn)
    /\ staging' = IF torn \in Upload THEN [staging EXCEPT ![Archive[uploads[torn].next]] = "torn"]
                  ELSE staging
    /\ files' = IF journal /\ power = "up" THEN [files EXCEPT !["keys.db-journal"] = files["keys.db"]]
                ELSE files
    /\ uploads' = [u \in Upload |-> NoUpload]
    /\ power' = "down" /\ at' = 0
    /\ UNCHANGED <<aside, pending, suffix, overlapped, hurried, spoilt, starts, uploaded>>

RestoreInit ==
    /\ power = "down"
    /\ files = [f \in File |-> IF f \in Data THEN "own" ELSE IF f = "identity" THEN "dir" ELSE "none"]
    /\ aside = [s \in 0 .. MaxStarts |-> NoFile]
    /\ staging = NoPart /\ pending = FALSE
    /\ at = 0 /\ suffix = 0
    /\ uploads = [u \in Upload |-> NoUpload]
    /\ overlapped = FALSE /\ hurried = FALSE /\ spoilt = FALSE
    /\ starts = 0 /\ uploaded = 0

RestoreNext ==
    \/ \E u \in Upload : \/ \E b \in Backup : StageStart(u, b)
                         \/ RemoveOne(u) \/ RemoveEnd(u) \/ RemoveFails(u) \/ StageMake(u)
                         \/ StageEntry(u) \/ StageWrite(u) \/ StageEnd(u) \/ StageFails(u)
    \/ \E sameSecond \in BOOLEAN : Start(sameSecond)
    \/ ApplySetAside \/ ApplyMoveIn \/ ApplyClean
    \/ Open \/ LoadOrGenerate \/ GenerateKey
    \/ \E torn \in Upload \union {"none"}, journal \in BOOLEAN : Stop(torn, journal)

RestoreSpec == RestoreInit /\ [][RestoreNext]_restoreVars

-----------------------------------------------------------------------------
(* Properties.                                                              *)

(* The data directory, restore-pending and the progress stay well formed.   *)
RestoreTypeOK ==
    /\ power \in {"down", "applying", "opening", "loading", "generating", "up"}
    /\ files \in [File -> Origin]
    /\ aside \in [0 .. MaxStarts -> [File -> Origin]]
    /\ staging \in [Part -> Staged]
    /\ pending \in BOOLEAN /\ overlapped \in BOOLEAN /\ hurried \in BOOLEAN /\ spoilt \in BOOLEAN
    /\ at \in 0 .. Len(SetAside) + Len(MoveIn) + 1
    /\ suffix \in 0 .. MaxStarts /\ starts \in 0 .. MaxStarts /\ uploaded \in 0 .. MaxUploads
    /\ uploads \in [Upload -> [backup : Backup \union {"none"}, next : 0 .. Len(Archive) + 1,
                               pc : {"idle", "clear", "make", "entry", "write", "drop"}]]

(* "renamed aside with a timestamp suffix, never deleted": wherever the     *)
(* controller stops, and however often a start fails, the databases and the *)
(* identity it had before a restore are in place or beside it, for someone  *)
(* to put back by hand; two starts within a second excepted.                *)
PreviousDataKept ==
    ~ hurried => \A f \in Data : files[f] = "own" \/ \E s \in 0 .. MaxStarts : aside[s][f] = "own"

(* A controller that runs has databases, log and identity from one and the  *)
(* same origin: a half applied or half staged restore never serves anyone,  *)
(* whatever was cut short, two uploads at once and the two cases of Spoils  *)
(* excepted.                                                                *)
RunsFromOneOrigin ==
    power = "up" /\ ~ overlapped /\ ~ spoilt =>
        \A f \in Data \union Log : files[f] = files["wharf.db"]

(* backup.go, applyPendingRestore: "losing the previous identity for        *)
(* nothing would force every already-enrolled agent to be re-pointed at a   *)
(* new fingerprint".  A controller never runs with an identity made afresh. *)
IdentityIsNeverNew == power = "up" => files["cert"] # "fresh"

(* backup.go: a backup is "a full snapshot of everything that makes this    *)
(* controller *this* controller", which a start "moves into place".  A      *)
(* controller never runs on a keys.db into which the journal of another one *)
(* was rolled back.                                                         *)
KeysAreWhole == power = "up" => files["keys.db"] # "torn"

(* backup.go, applyPendingRestore: "could not clean up staging dir          *)
(* (harmless)".  When nothing but the manifest is left of a restore, the    *)
(* database is where the next start looks for it.                           *)
LeftoverIsHarmless ==
    power = "down" /\ pending /\ (\A p \in Part \ {"manifest.json"} : staging[p] = "none")
    => files["wharf.db"] # "none"
=============================================================================
