# TLA+ models of wharf-server

wharf-server is the controller of a GitOps system for Docker: it serves the UI,
keeps all state in two SQLite databases (`wharf.db` and the key custodian's
`keys.db`), and talks to one agent per host over mutually authenticated TLS.
This directory holds TLA+ modules for the parts of it that have protocol state,
the TLC configurations that check them, and TLAPS proofs. `PROJECT.json` maps
every definition to the lines it stands for.

    tlc -workers 2 -config DeployQueue.cfg MCDeployQueue
    tlapm DeployQueueProofs.tla

## 1. Inventory

How the parts interact: HTTP handlers (the UI on one port, agents on another),
robfig/cron ticks and a few goroutines all run at once and share the databases
(one connection pool each, WAL mode, every statement a transaction unless the
code opens one), a handful of mutex-guarded maps (`pollRegistry`,
`tunnelRegistry`, `volumeBackups`, `notifyState`, `loginLimiter`) and cron's own
table. A controller restart empties the maps and keeps the databases; `main`
rebuilds what it needs. Agents are outside this repository: what they do is
modelled from how `agent_protocol.go`, `tunnel.go` and `backup_protocol.go` use
them, and marked external in the map.

| Component | State | Operations | What is hard | What makes it correct |
|---|---|---|---|---|
| Deployment queue (`stacks.go`, `agent_protocol.go`, `internal/store`) | `stacks`, `deployments`, key pairs in `keys.db` | create, delete, deploy, undeploy, webhook, poll, apply update; claim; report | SELECT then UPDATE in the claim; delete checks and acts in steps; two databases; commands lost after the claim | handed out once, per-host order, one verdict, nothing waits for ever, rows and keys go with the stack |
| Git polling (`poller.go`, `stacks.go`) | poll columns of `stacks`, cron entries, `pollRegistry` | create, change of trigger or schedule, delete, tick, "Check now", restart | the lock is dropped between remove and add; slow `ls-remote` between read and compare | exactly one entry per polling stack; a moved branch is noticed; first poll is only a baseline |
| Enrollment and rotation (`agent_protocol.go`, `internal/store/enrollment.go`, `hosts.go`) | `hosts`, `enrollment_tokens` | enroll, approve, reject, purge, rotate, promote | retries and lost answers; look, then store; count, then insert; a rotation may name any certificate | a token approves one host; a rotation never locks an agent out; one host per certificate, unless two requests had found it free at once; the cap |
| Tunnel (`tunnel.go`) | `tunnelRegistry`, pending replies, per-connection cache, `host_*` tables | connect, snapshot, command, reply, timeout, disconnect | overlap of old and new connection; handshake and registration apart; late replies; failed writes | newest connection reachable, unless an older one's handler registered after it; reader never blocks; tables end up showing the host |
| Volume backups (`volume_backup_runs.go`, `volume_backups.go`, `internal/store/backups.go`) | `backup_jobs`, `backup_runs`, `startMu` | edit, delete, start (manual, scheduled, restore), report, give up | start times out but runs; run's volumes recomputed from the edited job; delete against start | one run per volume at a time; every run ends; verdicts stand |
| Accounts and SSO (`users.go`, `oidc.go`) | `users` | create, role, delete, first login, group sync | read-then-write transactions that overlap; first logins of one person under two names | an admin is always left; one account per identity, unless such first logins overlapped |
| Image updates (`imagepolicies.go`, `imagepoller.go`) | `image_policies` | resync, policy, poll, auto redeploy | resyncs that overlap, and write a digest for a reference another one has replaced; the registry moves meanwhile | a digest is of the reference beside it; rows match what is deployed; auto follows the registry |
| Backup destinations (`volume_backup_destinations.go`, `internal/store/backups.go`) | `backup_destinations`, passwords in `keys.db`, `backup_repos` | create, update, delete, test, init; save job; run, report | two databases; late knowledge of an old share; job saved during a deletion | repository password never lost; states describe the share the row names; a job's destination exists |
| Secret connections (`secret_connections.go`, `stack_secrets.go`, `internal/store/secretconn.go`) | `secret_connections`, `stack_secret_bindings`, credentials in `keys.db` | create, update, delete; bind, unbind; delete stack | use check against a binding made meanwhile; private connections made and dropped around the binding | a stack uses its own or shared credentials only; what it is bound to is there; nothing private is left over |
| Git connections (`git_connections.go`) | `git_connections`, keys and credentials in `keys.db` | create, regenerate, update, delete; choose for a stack | row, key and credential in three statements; ids that come back | a stack's connection exists; no edit takes a usable key away |
| Secret resolution (`agent_resolve.go`, `internal/secrets`) | a job's memo, the provider's token cache | resolve, log in, read | edits, new secret versions and revoked tokens during a job | one environment from one connection; two fields of a secret of one version |
| Path rules (`internal/secrets/rules.go`) | none | parse, expand, match | a hand-written matcher; ids that begin alike | the matcher allows what the rule means; where a segment begins with `{stack}`, only that stack's paths. A rule may also have a star before `{stack}`, and then it does not keep stacks apart: `*{stack}` is accepted, and gives the stack `a` the path `a-a` (`CHANGELOG.md`: "A rule that would let one stack read another's secrets, such as `{stack}-*`, is refused when saved") |
| Login limiter (`auth.go`) | attempts per name | check, failure, clear | sign-ins verified at once; doubling of a 64-bit duration | past the free attempts nobody gets a second guess without waiting out a lock-out, up to the 36th failure in a row |
| Sessions (`auth.go`, `users.go`, `internal/store/store.go`) | `users`, `sessions` | sign in, request, change password, reset, role, delete, create again | what a request read of an account is stale when used | a session belongs to the account that signed in; changes count from the next request |
| Controller restore (`backup.go`, `main.go`) | data directory, `restore-pending` | upload, apply at start | a stop between two renames, between a directory and its files, within a removal; clean-up that fails | old data kept; a controller that runs has files of one origin, unless it found an identity without its certificate staged or a journal of `keys.db` |
| Vulnerability scanning (`vulnscan.go`, `vulnscan_ui.go`, `internal/store/imagescan.go`) | `vulnStatus`, `vuln_settings`, `image_scans`, cache directory | save, scan, purge, pass | purge and settings against a pass; results read before and written after a scan | single flight; good results kept over errors; a purge lasts |
| Notifications and version check (`notifications.go`, `versioncheck.go`) | `notifyState`, `latestVersions` | check, version check | overlapping checks, reconnects, failing requests | one message per outage and release |
| Pages, statistics, graphs, audit, settings, registry credentials, Bitwarden tool, identity, SOPS, templates | none that decides anything | | | not modelled: reading, formatting, I/O, cryptography, single statements |

Every hazard of this list is in `PROJECT.json` at its line, with the property
that watches it or the reason none does yet.

## 2. Plan

Done: every component of the table, the most important ones first, and the
proofs of section 5. Left, in this order:

1. A composition of `PollSchedule` and `DeployQueue` (a recorded commit is
   deployed unless superseded), and of `ImageUpdates` and `DeployQueue`.
2. The schedules of backup jobs, registered by the algorithm `PollSchedule`
   models for stacks.

Abstract specifications worth stating: `DeployLedger` (done); for `Tunnel`, one
register per host with the newest connection; for `VolumeBackups`, a lock per
volume.

## 3. Modules

Common conventions. A handler is a goroutine `r \in Req` with a program counter;
one action is one SQL statement, one critical section or one exchange with
somebody else, because other goroutines run between them; early returns lead
back to `idle`. SQL statements are atomic. Texts, ids and digests are model
values or small numbers. Errors of the database itself are not modelled except
where the code handles them in a way that matters (snapshot tables in `Tunnel`,
SQLITE_BUSY in `Accounts`, a failed enqueue in `DeployQueue`).

**DeployLedger** is what the deployment queue promises: each deployment is
enqueued, claimed once and in queueing order of its host, and finished with one
verdict, or purged with its stack. **DeployQueue** is the code: `LoadStack`,
`ApplyCheck`, `AutoCheck`/`AutoLoad` and `EnqueueDeployment` are the handlers
that enqueue; `CreateKeys`/`CreateRow` and `DeleteLoad` .. `DeleteRow` the
creation and deletion; `ClaimSelect`/`ClaimUpdate` are `ClaimNextDeployment`;
`CommandFails`, `CommandSent`, `CommandLost` end a command poll; `AgentRuns` and
`ReportResult` are the agent and its (repeatable) report; `Restart` drops every
goroutine. `deps[d]` keeps the columns of a deleted row because a handler that
read it goes on with them.

**PollSchedule** follows one stack: its row, cron's live entries, the registry's
remembered id, and polls under way. **Enrollment** has agents with the
certificate each uses, host rows with `cert` and `next`, tokens, and the
enrollment and rotation requests. A rotation announces any certificate, its own
or another agent's, as `rotateHandler` does; `CheckFingerprint` and
`SetNextFingerprint`, like `UpsertLookup` and the insertion, are separate
statements, and `crossed` collects the certificates that two requests had both
found free. `astray` are the agents with a certificate announced out of turn.
**Tunnel** follows one host: connections in order of opening, their read loops
and caches, the registry, commands. `Accept` is the handshake, `Register` the
handler's `tunnels.set`, which may come after a newer connection's; `late` are
the connections that lost their registration that way, and `apart` says that no
connection was accepted while an older one was still being served.
**VolumeBackups** follows one host: jobs with what they select, runs, the start
mutex, and the agent's work. **Accounts** models `SetUserRole` and `DeleteUser`
as SQLite does in WAL mode: the transaction reads a snapshot, and its write
fails when anything was committed since (`fresh`). The provider may give a
person another name between any two logins; `renamed` says that an account was
created while another first login of the same identity was under way with
another name. **ImageUpdates** follows one stack: its rows, the compose file and
the images on the host, resyncs and the poll. Resyncs overlap freely.
`overlapped` says that the last one started while another was under way, and
`outrun` are the services whose row got its reference while another resync had
it on its list: what that one then writes is a digest of the old reference.

Connections whose row is in one database and whose secret is in the other:
**SecretConnections** (`conns`, `creds`, `bindings`; `CreateProvider*`,
`UpdateProvider*`, `DeleteProvider*` are the handlers of Settings, `Save*` and
`Unbind*` those of a stack, `DropStack*` the deletion of a stack),
**GitConnections** (rows, keys, credentials and the stacks that chose one) and
**BackupDestinations** (addresses, the two passwords, jobs, runs at the agent,
and `repos`, what is remembered of a host's repository together with the share
it was seen on). Each statement is a step, and `CutShort` ends a handler after
any of them. History variables (`raced`, `gitRaced`, `misled`) say that two
requests that can hurt each other have overlapped; the properties are stated
for behaviours where they have not, and without that condition they are the
counterexamples of section 4.

**VulnScan** has requests (`AskScan`, `Save*`, `Purge*`) and the background job
of `vulnEngine.start` (`Pass*`), with two job slots so that a second one could
run if `start` let it. An error reading a row counts as no error at all: the
code ignores it, and the model's tables do not fail on reads.
**ControllerRestore** keeps for every file where it came from, in the data
directory, beside it, and in `restore-pending`; the identity is a directory with
two files, and can be there without them. `Stage*` is the upload, one entry's
directory and file in two steps; `Remove*` and `ApplyClean` take
`restore-pending` away entry by entry, as `os.RemoveAll` does. `Start`, `Apply*`,
`Open`, `LoadOrGenerate` and `GenerateKey` are the next start, and `Stop` is a
SIGTERM or a crash anywhere, which may cut a file off or leave a journal beside
`keys.db`. `spoilt` says that a start has met one of the two things the code
cannot make good (`Spoils`): an identity staged without its certificate, for
which a new one is made, or a journal, which is not set aside with its database.
A `keys.db` set aside without its journal counts as kept in PreviousDataKept.
**Sessions** tells the accounts a name has had apart (`made`), which
the tables do not. **Notifications** counts what happened (`outages`, `behind`)
and what was said. **LoginLimiter** computes the lock-out with the width of a Go
Duration, and counts what each guesser got to try since a lock-out was last
waited out (`guesses`); sign-ins already being verified when the lock-out begins
go on, as in the code. **PathRules** runs `globSegment` iteration by iteration on every rule,
path and id up to a length, against a recursive definition of what a pattern
means. **SecretResolve** is one `Job` with its memo, the token cache of
`vaultProvider`, and OpenBao as far as tokens and versions go.

The `MC` modules give values to constants: sets of definitions, symmetry.
`MCConnections` and `MCController` put components that share no state into one
run: a behaviour picks one of them (`focus`) and leaves the others at rest, so
what is checked is each component alone. A type invariant is defined in every
module; `DeployQueue.cfg` checks its own, and the others can be added to any
configuration (they hold).

## 4. Runs

Passing runs:

| Run | Shows |
|---|---|
| DeployQueue | TypeOK, ExclusiveClaim, that the tables implement DeployLedger (ImplementsLedger), and QueuedIsClaimed: nothing queued for a host that polls stays queued; 1 handler goroutine against 2 overlapping polls, 2 deployments, 1 restart. The first three are proved for any number of goroutines |
| PollSchedule | PollingIsScheduled and MovedHeadIsNoticed: edits one at a time, everything else at any moment. The first is proved for any polls, schedules and commits |
| Enrollment | TokenApprovesOnce; RotationNeverLocksOut for agents whose certificates were announced by themselves and in turn, whatever others announce; OneHostPerCert, unless two requests were about to store the certificate at once (`crossed`) |
| Tunnel | NewestIsRegistered, unless an older connection's handler registered after it (`late`), ReaderGoesOn, and StateIsStored as long as no connection was accepted while an older one was still being served (`apart`) |
| VolumeBackups | VerdictIsFinal and EveryRunEnds with edits, deletion and restarts; RunningVolumesApart as long as no job was edited |
| Accounts | AlwaysAnAdmin; OneAccountPerIdentity while the provider renames, unless first logins under two names overlapped (`renamed`) |
| ImageUpdates | two resyncs at any moment: AppliedDescribesRef for services not `outrun`, and RowsMatchDisk for services not pinned by digest, unless the last resync started while another was under way, as long as the controller was not restarted |
| ImageUpdatesLive | AutoFollowsRegistry when a tag does not move between pull and resync |
| Connections | secrets: OwnOrShared and SharedOutlivesStacks always, BindingsAreWhole unless requests raced; Git: GitConnectionsAreWhole and UsedAuthStays unless a deletion raced, also when requests break off; destinations: RepoPasswordStays always, RepoStateIsCurrent and JobsHaveDestinations unless an edit overlapped what relied on it |
| Controller | scanning: GoodResultStays, ResultsOfTheChoice, PurgeLasts; restore: PreviousDataKept (unless two starts share a second), RunsFromOneOrigin (unless uploads overlapped or `spoilt`); sessions: SessionsHaveAccounts, NextRequestSeesIt, DuePasswordIsShown; NoRepeatedMessages; OneGuessPerLockout, up to the last failure whose lock-out fits 64 bits; RulesKeepStacksApart; OneAnswerPerJob. All but RulesKeepStacksApart are proved |

A service whose reference carries a digest keeps the row of its last tag:
`syncImagePolicies` skips it (`isDigestPinned`), which is why RowsMatchDisk
leaves it out.

Runs that end in a violation, each a disagreement between the code and a
sentence of the repository (quoted in `PROJECT.json` under "findings"):

| Run | What the code does |
|---|---|
| DeployQueueStillUp | a failed deployment on top of a good one lets a running stack be deleted |
| RestoreLeftover | when the staging directory cannot be removed after a restore, the next start moves the restored data aside and does not come up |

More counterexamples, outside the list of runs: `tlc -config X.cfg MC<module>`
gives a trace for each (`VulnScanPurge` and `LoginLimiterWrap` are run on
`VulnScan` and `LoginLimiter` themselves; for "in X" put the property into
X.cfg in place of its own, without SYMMETRY). The conditions of the passing properties above come from
them.

| Config (property) | What the code does | What the repository says |
|---|---|---|
| DeployQueueOrphan (DeploymentHasStack) | a deployment is enqueued for a stack deleted meanwhile: EnqueueDeployment does not look at the stack | `internal/store/store.go`: "a row here always has a live stack" |
| DeployQueueWait (WaitingHelps) | a command lost after the claim stays "running" for ever | `stacks.go`: "wait for it to finish before deleting" |
| in DeployQueueOrphan: DeleteSparesPending | a deployment enqueued after the check of deleteStackHandler, or queued behind a newer finished one, is deleted with its stack | `stacks.go`: "Also refuses while a deployment is merely queued/running" |
| in DeployQueueOrphan: KeysGoWithStack | a creation between deletion of the key pair and of the row leaves a key pair without a stack | `internal/keys/keys.go`: "its keys must never outlive the stack that owned them" |
| PollScheduleStale (NoStaleSchedule) | the cron entry of a deleted stack polls its successor | `poller.go`: "so a stale schedule can't keep firing" |
| in PollScheduleUnscheduled: NoDuplicateEntry | two edits at once leave an entry nobody can remove | `poller.go`: "instead of accumulating a duplicate entry on every edit" |
| PollScheduleUnscheduled (PollingHasEntry) | a stack shows polling and has no entry | `stacks.go`: "no controller restart needed" |
| in PollScheduleStale: BaselineFirst | a poll that outlives its stack deploys the successor at its first poll | `poller.go`: "The very first poll only establishes the baseline" |
| in Enrollment: PendingCapHolds | enrollments at once exceed WHARF_MAX_PENDING | `agent_protocol.go`: "cap on simultaneous pending rows" |
| in Enrollment: CertIsOneHosts | a rotation has found a certificate free that is announced or enrolled by another host before it is stored | `internal/store/enrollment.go`: "ErrFingerprintInUse is returned when a rotation targets a certificate already pinned to some host" |
| in Enrollment: SpentTokenApproves | a token is spent and approves nobody | `internal/store/enrollment.go`: "equivalent to an admin approval" |
| in Tunnel: NewerSurvives | the handler of an older connection, held up between the handshake and the registration, replaces the newer one, and removes it when it ends | `tunnel.go`: "the newer connection must survive" |
| in Tunnel: CacheIsWritten | an old connection's snapshot stays in a table the new connection believes written | `tunnel.go`: "reports whether table's content is what was last written" |
| VolumeBackupsEdited, VolumeBackupsTimeout (OneRunPerVolume) | two runs work on one volume: after an edit of the first run's job, or after a start that was given up but had reached the agent | `volume_backup_runs.go`: "two clicks must not start the same volume twice" |
| in VolumeBackups: HistoryGoesWithJob | a run is recorded for a job that is gone | `internal/store/backups.go`: "removes a job and its history" |
| AccountsRenamed (NeverTwoAccounts) | two accounts for one identity, when the provider renames between two first logins | `internal/store/store.go`: "the stable identity OIDC actually promises" |
| ImageUpdatesMissed (AutoFollowsRegistry) | a tag that moves between pull and resync is never applied | the service page: "Auto redeploys on its own when the registry moves" |
| in ImageUpdates: PinnedIsNeverChecked | pinned images are asked about after every deployment | the service page: "Pinned is never checked" |
| ImageUpdatesOverlap (NeverOutOfStep) | two resyncs overlap and the older file's rows stay | `imagepolicies.go`: "keep image_policies in step with whatever's actually on disk now" |
| in ImageUpdatesOverlap: NoForeignDigest | a resync writes the digest it looked up into a row whose reference another resync has changed meanwhile | `internal/store/store.go`: "applied_digest is reset since the old digest no longer describes what's tracked" |
| in Connections: BoundIsThere | a stack is bound to a shared connection between the check of its users and its deletion | `secret_connections.go`: "still used by" |
| in Connections: NotPulledOut | a stack that chose a Git connection is inserted after the deletion looked for its users | `git_connections.go`: "can't be pulled out from under them by mistake" |
| in Connections: NeverWrittenOff | a job is saved with a destination deleted meanwhile | `internal/store/backups.go`: "refuses while a job still writes to it" |
| VulnScanPurge (PurgeDeletesAll) | a pass started between the purge's look at Busy and its deletions puts binary and database back | `vulnscan.go`: purge "deletes every scanner's binary, database and results" |
| in Controller: IdentityIsNeverNew | a stop between the making of `restore-pending/identity` and the writing of the certificate, or while a staged backup is removed, leaves complete databases beside an identity without certificate; the next start moves all of it in and makes a new identity | `backup.go`: "losing the previous identity for nothing would force every already-enrolled agent to be re-pointed at a new fingerprint" |
| in Controller: KeysAreWhole | a journal that a write to the old `keys.db` left is not set aside with it, and SQLite rolls it back into the restored one | `backup.go`: "a full snapshot of everything that makes this controller *this* controller" |
| LoginLimiterWrap (GuessingIsSlow) | at the 37th failure in a row the doubled duration no longer fits 64 bits, turns negative, and does not lock: from there on guesses follow each other | `auth.go`: "a sustained guessing script quickly slows to a few attempts per hour" |

The passing and the violating instance of a property differ in constants
(number of goroutines, `MayTimeOut`, `MaxEdits`, `MoveAnytime`) or in a named
condition (`apart`, `late`, `crossed`, `astray`, `edits = 0`, `crashes = 0`,
`renamed`, `overlapped`, `outrun`, `~ raced`, `~ misled`, `~ stray`, `spoilt`,
`failures <= LastThatFits`), so together they say which interleaving breaks it.
The conditions are histories of what the code did, and the behaviours in which
they come about are explored like all others.

**Bounds.** Two goroutines or polls are enough for every race of two actors, and
three in `Accounts`, where two writers and a first login meet. Two deployments,
runs or commits give an older and a newer one; one restart, one crash between any
two steps. One stack, host or service is followed where stacks, hosts or services
share no state (a claim reads one host's rows; a resync one stack's); the proofs
cover any number. In `Enrollment` two agents, two rows and two goroutines are
what a race for one certificate takes; one token, one rotation of each agent, and
both agents may go astray (`MaxAstray = 2`). Two rotations, one after the other,
were explored with `MaxAstray = 1` as well, in a longer run that is not listed.
In `Accounts` the provider may change the one identity's name. In `ImageUpdates`
two resyncs write what they like in between each other's statements; the image
poll, which deploys the file it finds as any deployment does, is left to
`ImageUpdatesLive` (`Polled = FALSE`). One volume, one command and one message on the wire
(`MaxWire = 1`) suffice where the questions are about two runs of one volume and
two connections of one host. `MaxWire`, `MaxDeps`, `MaxRuns`, `MaxEdits`, `MaxStackEdits`,
`MaxPush`, `MaxCommits`, `MaxCrashes` and `MaxRestarts` cap counters in guards
only. In `Connections` two
requests meet three ids (a shared connection, a private one and its successor)
on two stacks; once two requests have raced no new ones arrive (`AfterRace =
FALSE`), because what they do to each other is over by then, and the two that
race run to their end. One request may be cut short. In `Controller`: two scanners,
one image, two builds of a database, two saves, purges or restarts; two uploads
of two backups over three starts; one name with two accounts after each other,
four passwords and two sessions; one host with three outages, updates or
restarts and three releases; forty failures of two guessers, past the width of a Duration;
every rule segment of three characters and every path of the same length; one
resolution of two references with one edit, one new version of each secret and
two logins. In `ImageUpdates` a
poll does not overlap itself (it would have to take fifteen minutes) and the
stack has one deployment under way (`DeployQueue` has the others).

**Deadlock** is not checked where the system may come to rest at a bound: no
more deployments, edits, commands or runs to make. It is checked in
`Enrollment`, `Accounts` and `ImageUpdates`.

**Fairness.** Goroutines, read loops and cron ticks go on (weak fairness of the
steps of a request, a poll, a start, a resync, and of a tunnel's handler between
its handshake and its registration): Go schedules them, and no step
waits for another but through the mutex of `startVolumeAction`, which its holder
leaves. Agents keep polling (`DeployQueue`) and resend their state every few
seconds (`Tunnel`). Strong fairness is assumed only of what may fail any
number of times but not for ever, and is retried: `ls-remote` and its record,
table writes of snapshots (the agent repeats them, and the write retries on
SQLITE_BUSY), registry answers and image deployments, and the chance of the image
poll to find its stack without a deployment under way. In `DeployQueueWait` the
agent in addition runs and reports everything it is handed: the violation needs
no misbehaviour of the agent. Nothing is assumed fair that an administrator does.

## 5. Proofs

`DeployQueueProofs` proves, for any sets of stacks, hosts, goroutines and polls,
from `DeployQueueAssumption` only (the empty id is no stack and no host, the
bounds are naturals):

- `TypeCorrect`: `Spec => []TypeOK`;
- `QueueInvariant`: `Spec => []IInv`;
- `ClaimIsExclusive`: `Spec => []ExclusiveClaim`;
- `QueueImplementsLedger`: `Spec => Ledger!Spec`, the refinement.

ExclusiveClaim is not inductive: it depends on a poll's row being running and of
its own host (`PollOwnsRow`, `ClaimedIsRunning`), on nobody else having it
(`ClaimedOnce`), and on rows not inserted yet having left no trace (`FreshRows`).
The refinement needs two more: a row selected and still queued is the host's
oldest (`SelectedIsOldest`: older rows only ever leave the queue, and new rows
are younger), which gives per-host order although SELECT and UPDATE are apart;
and the verdict of a row the agent was handed is the agent's (`HandedVerdict`),
which makes a repeated report a stuttering step although CompleteDeployment has
no guard. The proof has one lemma per group of actions (handlers, command polls,
agent, restart) over lemmas about the shapes of step (`PrivateStep`, `SetPoll`,
`SetStatus`), and one lemma per kind of ledger step.

Three sentences of the code that section 4 refutes are proved under the
condition that excludes exactly the overlap to blame, with any number of other
requests, polls, reports and restarts at the same time: `RowsHaveStacks`
(DeploymentHasStack, unless a stack is deleted while a handler that has read it
is about to enqueue), `KeysNeverOutlive` (KeysGoWithStack, unless a key pair is
made for an id between the deletion of its old keys and of its row) and
`OnlyIdleStacksGo` (DeleteSparesPending, unless a deployment is enqueued while its
stack is being deleted or has another in progress). So each counterexample is the
only kind there is, and says what a fix has to exclude. The invariants: a handler
about to enqueue has its stack still (`EnqueuersHaveStack`); a row about to go has
no keys; a deployment in progress is the newest of its stack (`BusyIsLatest`), and
a stack past the check of its deletion has none (`CheckedIsIdle`).

`AccountsProofs` proves `TypeCorrect` and `AdminRemains` (`Spec =>
[]AlwaysAnAdmin`) for any users, identities and requests. `FreshIsSafe` is the
strengthening: a transaction that can still commit was checked against the very
table it will change, because any commit makes all others stale. `CommitStep`
and `WriteStep` carry the argument. `AccountsAreNamed` says that a linked account
bears a name the provider gave its identity. `OneAccountEach`
(OneAccountPerIdentity) holds for whatever names the provider gives, although the
table does not enforce it and `CreateOIDCUser` looks before it inserts: two first
logins of one identity under the same name meet at the unique name, and under two
names they are what `renamed` records. Its invariant `OneEach` says that, until
then, a first login past its look-up can find no account of its identity but one
of the name it is about to use (`FirstLoginsAgree`) and that a name without an account is linked to nobody
(`FreeNamesAreFree`).

`EnrollmentProofs` proves `OneHostPerToken`, `NobodyLockedOut` and
`CertsResolve` (the three invariants of the run) for any agents, host ids, tokens,
handlers and rotations, from `EnrollmentAssumption` (`NoToken` and "admin",
the ways of a host that no token approved, are no tokens; bounds are naturals).
A rotation may announce any certificate of any agent; what that can spoil is in
the two histories, and the theorems hold for everything else. None of the three
is inductive. The strengthening has three parts. `CertsStand` follows the
certificates of agents that are not astray: a row is pinned to one its agent has
used and announces at most the next one, which the agent has not left behind
(`HostStands`, `InOrder`); a rotation being served is of a connected row that is
pinned to the old certificate or already to the new one (`RotationStands`); an
agent asks for one certificate at a time (`OneTurn`), has it announced once it was
told yes (`ToldStand`), and is known by the one it uses once it has switched
(`SwitchedStand`). What others announce cannot disturb this, because an
announcement out of turn takes both the caller and the owner of the certificate
astray. `FreeStand` is about storing: a certificate that a handler has found free,
to announce it (`AnnouncesFree`) or to enroll it (`EnrollsFree`), is still free of
other hosts unless it is in `crossed`. A token is with one enrollment or one row,
and only when used (`TokenStands`).

`TunnelProofs` proves `NewestSurvives`, and `CacheIsHonestApart`: `Spec =>
[](apart => CacheIsWritten)`, which says under which condition the sentence the
counterexample `CacheIsWritten` refutes is true. The invariant: connections are
opened in order, the registered one is open, the newest that has registered is
registered while it runs unless it is in `late` (`NewestHasIt`), and while
connections never overlapped one is accepted or read at a time (`Started`) and its
cache remembers what was written last (`CachesStand`). Handlers register in any
order in all of this.

`VolumeBackupsProofs` proves `BackupsStand` (the invariant), `VerdictStays` and
`RunsNeverMeet`. FinishBackupRun's guard alone does not make a verdict final:
the row of a new run must not be an old one, so the invariant says who holds
`startMu`, that its id is the newest and without a trace until the row is
created (`StarterStands`, `FreshIds`), and that there are ids enough for every
starter that waits (`IdsSuffice`, a count of a finite set). `RunsNeverMeet` needs
in addition that what a run works on is among what its job resolves to now
(`RunCovered`): then "resolves to nothing of a running job" implies "is not being
worked on". That is why it is stated under `SelectionsHold`: the host goes on
reporting its volumes, and no job ticks a volume that it also leaves out. The form
does not refuse such a job: the volume is never backed up, but it can be named
for a restore, and `overlapsRunning` would not see that run.

`HistoryIsRemoved` (HistoryGoesWithJob) and `VolumesWorkedOnOnce` (OneRunPerVolume)
again say what it takes for a counterexample of section 4: a start of the very
job that is being deleted (`StartsApart` excludes it) for the first; that, an
edit, or an answer that takes longer than thirty seconds (`MayTimeOut`) for the
second. `WorkIsShown` is the invariant of the second: what the agent works on is
shown as running, so that RunningVolumesApart speaks of it.

`ConnectionsProofs` proves the eight properties of the run Connections for any
connections, stacks, jobs, destinations and requests: `GitWhole`,
`GitAuthStays`; `RepoPasswordSafe`, `RepoStateCorrect`, `JobsCanWrite`;
`OnlyOwnOrShared`, `OnlySettingsRemovesShared`, `SecretWhole`. Each invariant has
the same three parts: what a request in progress has read or written so far and
what of it still holds (`GitFound`, `DestFound`, `Fits`, `Holds`, `InOrder`);
that a race which could spoil it has been noticed in the history variable
(`GitRacesNoticed`, `NobodyMisled`); and the property itself. `SecretWhole` is the
longest proof of the project: each of the handlers' statements, and each way of
breaking off, has its own step.

`ControllerProofs` proves, for sessions, `SessionsOfTheirAccount`,
`RequestsSeeTheAccount` and `DuePasswordKnown`, for any people, sessions,
passwords and requests; and for the controller's own restore `OwnDataIsKept` and
`NeverHalfRestored`, for any backups, uploads, starts and faults. The restore's
invariant says which files a start has set aside or moved in (`SuffixStands`,
`ApplyStands`), and that the controller's own files do not come back once they are
set aside (`OwnStands`). Where uploads did not overlap and no start was `spoilt`
(`OneOrigin`), whatever is staged is of one backup but for one file that was cut
off, after which there is nothing (`Coherent`), although a removal may stop or fail
anywhere; an upload has written what it has passed and nothing
further (`UploadStands`); a start that moves files in has them from one such
archive and will move a certificate with the identity (`Moved`); and what
LoadOrGenerate accepts is then of one origin (`Ready`). The two cases of `Spoils`
are all that is missing: IdentityIsNeverNew and KeysAreWhole are the
counterexamples.

It also proves, for any scanners, images, requests and jobs, `GoodResultsKept`,
`OnlyChosenResults` and `PurgesLast` from one invariant (`VulnIInv`): one job at a
time (`SingleFlight`), so the row a scan replaces is no better than the one it
read (`RowsAsRead`); and unless choices crossed, whoever is about to write the
choice has read the one there is, a pass works with the chosen scanner, rows of
another are about to be deleted (`ChoicesApart`), and after a purge nothing is left
that would write again (`PurgedStands`). `ToldOnce` (NoRepeatedMessages) counts: `NotifyIInv` bounds the
messages sent together with those that checks in progress may still send
(`ReleasesToTell`, `ToCome`) by the outages and releases there were, for any hosts,
checks and order of events. `AnswersHangTogether` (OneAnswerPerJob) rests on
`ResolveIInv`: what the memo of a deployment's resolution holds was read with
the effective connection, over a token given to its credentials
(`MemoStands`), a reference on its way to the provider is allowed and not yet
read (`WorkStands`), and unless an entry failed every value is what the memo has
(`EnvStands`).

For Git polling it proves `PollingStaysScheduled` (PollingIsScheduled), for any
schedules, polls, commits and restarts, where edits of the stack come one at a
time (`EditsApart`, as in the run; two at once are `PollScheduleUnscheduled`). The
invariant follows registerPolling statement by statement: which entries are live
and what the registry remembers of them (`EntryStands`), and which schedule they
have, against the row's (`ScheduleStands`). Under the same condition
`OneEntryApart` gives NoDuplicateEntry, and `StaleOnlyByDeletion` gives
NoStaleSchedule where the stack is never deleted (`NeverDeleted`; a deletion is
what `PollScheduleStale` needs). `BaselineComesFirst` (BaselineFirst) needs no
`EditsApart`, only that the stack is not deleted under one of its polls
(`DeletedBetweenPolls`): a poll that found a commit to deploy has seen a baseline
(`BaselineStands`). That schedules reach cron only when it accepts them and that
ids of entries suffice (`PollTyped`) holds however many edits overlap.

`GuessersWait` (OneGuessPerLockout) is proved for any number of sign-ins at once.
`GuesserWaits` is the invariant: whoever guessed wrong past the free attempts is
not being verified again, and the name is locked. It is kept because every failure
past the free ones locks anew, also one that was verified while another one's
lock-out was running; that the lock-out is positive up to failure 36 is
`LockoutFits`, which is about the 64 bits and needs no induction, because from
failure 12 on it is the cap.

`ImageUpdatesProofs` proves `TypeCorrect` (with `WorkStands`: a digest looked up is
of the reference asked about), `DigestsDescribe` (AppliedDescribesRef) and
`RowsAreInStep` (RowsMatchDisk), for any services, references, compose files,
restarts, and resyncs that overlap in any way. For the first, a row on the list of
a resync that has a digest to write is still as it was listed, or its service is
`outrun` (`ListIsCurrent`): every write of another resync that makes the list stale
is one of those `OutrunBy` notices. For the second, the last resync is alone unless
it started beside another (`OneAtATime`), and the invariant says how far, at each
step of syncImagePolicies, the rows agree with the file it was given, which is the
one on disk (`InStep`, `PulledIsOnDisk`, `DiskStands`), whatever earlier resyncs
that overlapped have left in them.

Assumptions on constants are about the model's names only (the value for "none"
is not an id; a bound is a natural number; starters and editors are finitely
many); TLC
evaluates each of them in the run of its component.

Only model-checked: liveness (QueuedIsClaimed, MovedHeadIsNoticed, ReaderGoesOn,
StateIsStored, EveryRunEnds, AutoFollowsRegistry: fairness is out of the
prover's reach), and RulesKeepStacksApart (what the recursive matcher computes for
every pattern and path needs induction over data). PendingCapHolds has no
theorem: what can exceed the cap are also enrollments with a token, between
insert and approval, and reconnects whose row was rejected meanwhile, so no
single overlap is to blame.

## 6. Not modelled

Pages and formatting, HTTP and TLS, cryptography, parsing of YAML, cron syntax
and image references, what the scanners find, and Docker itself: they have no
state of the controller's, or are pure input and output. CSRF tokens and
cookies. The Bitwarden provider runs a command line tool; the memo it shares is
`SecretResolve`'s. Registry credentials, settings, notification targets and the
audit log are single statements nothing else depends on. The host pages are one
`Tunnel` request each. The shared digest cache (a badge). Moving a stack to
another host and edits of its content. Failures of the databases themselves,
except where the code acts on them and where a handler is cut short.
