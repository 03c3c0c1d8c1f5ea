# backup-restore-sidecar in TLA+

The sidecar sits next to a database in a stateful set. On start it decides
whether the data directory has to be restored from the latest backup, restores
it, lets the database container start, and from then on takes backups. Its
promise (`README.md:71`): *on startup, the affected database automatically
restores from the referenced backup without manual intervention*. What can go
wrong lies in the order of steps of containers that share a volume and are
killed and restarted independently, and in directories that outlive them.

Paths below are relative to `src/`; `internal/` is `cmd/internal/`.

## 1. Inventory

| part | code | state it keeps | operations |
|---|---|---|---|
| initializer | `internal/initializer/initializer.go`, `startCmd` in `cmd/main.go` | `currentStatus`, position of the main goroutine, the download file, `RestoreDir` | `Start`, `initialize`, `Restore` |
| backup service (gRPC) | `internal/initializer/service.go` | none of its own | `RestoreBackup`, `ListBackups`, `GetBackupByVersion` |
| database service (gRPC) | `internal/initializer/service.go` | none of its own | `CreateBackup` |
| backuper | `internal/backup/backup.go` | the semaphore, `BackupDir` and the archive in it | `Start` (cron), `CreateBackup` |
| providers | `internal/backup/providers/{local,s3,gcp,common}` | the stored versions; the slot counter and current name of `local`; the bucket, its versioning and its lifecycle rules | `EnsureBackupBucket`, `ListBackups`, `Latest`, `Get`, `GetNextBackupName`, `UploadBackup`, `DownloadBackup`, `CleanupBackups` |
| adapters | `internal/database/*` | the data directory (with the database) | `Check`, `Backup`, `Recover`, `Probe`, `Upgrade` |
| Postgres upgrade | `internal/database/postgres/upgrade.go` | old and new data directory, copies of the old binaries | `Upgrade` |
| wait | `internal/wait/wait.go`, `waitCmd` | none | poll the status, then run the post-exec command |
| probe | `internal/probe/probe.go` | none | poll `Probe` |
| command execution | `internal/utils/cmd.go` | a process and a goroutine per command | `ExecWithStreamingOutput`, `ExecuteCommandWithOutput` |
| encryption | `internal/encryption` | files beside its input | `Encrypt`, `Decrypt` |
| compression | `internal/compress` | the archive | `Compress`, `Decompress` |
| metrics | `internal/metrics` | counters and gauges | `CountBackup`, `CountError` |
| utilities | `internal/utils` | none | `IsEmpty`, `RemoveContents`, `Copy`, `CopyFS` |
| CLI, client, generated API, manifest generator | `cmd/main.go`, `pkg/client`, `api/v1`, `pkg/generate` | configuration | commands |

**Interaction.** The *main goroutine* of `start` runs the pre-exec commands,
starts the gRPC server, runs `initialize` (Check, ListBackups, Restore), then
`Upgrade`, sets the status to DONE, polls `Probe` and finally runs cron. *gRPC
goroutines* run `RestoreBackup` and `CreateBackup` beside it from the moment the
server listens. *Cron* starts every `CreateBackup` in a goroutine. The *database
container* runs `wait`, which polls the status over gRPC and, on DONE, starts
the database as its post-exec command. Both containers mount the data volume;
the store is outside and outlives everything, and other sidecars may keep their
backups in the same bucket. The recovery of rethinkdb runs a server of its own
in the sidecar, on the data directory the database will use.

**What is hard.** Restarts of either container between any two steps; the
status a database container has read is about the past; directories and files
with constant names shared by all restores and all backups; a recovery that
wipes first and fills later; adapters and providers that differ in the one
detail that matters (purging after an error, refusing a fresh database,
atomicity of an upload, expiry by rule or by slot); several sidecars that set up
one bucket; processes that are asked to stop, and killed when they do not;
output files that are opened without being truncated. `PROJECT.json` lists each
of these hazards at its line with the properties aimed at it.

**What makes each part correct.**

- *initializer*: the automatic restore never works on a directory the database
  uses; the database is never let run on half a restore, or fresh or with less
  than a backup holds; the status becomes DONE again after every failure.
- *manual restore*: an undisturbed restore delivers the version it was asked
  for, whatever earlier attempts left behind.
- *backuper*: one backup at a time; the newest version is restorable and no
  older in content than its predecessors; what was counted as a success is
  stored; the semaphore is released.
- *providers*: no overwrite and no expiry takes the newest restorable version
  before there is a newer one, nor one that its sidecar is to keep; no sidecar
  takes away another's rule; a version number leads to the version it was listed
  for.
- *recovery of rethinkdb*: no server is left on the directory, which is restored
  as a whole or empty when `Recover` returns.
- *commands*: a container that is asked to stop does so.
- *encryption*: what is sealed is the archive, and what is opened is what was
  sealed, whatever was left in the directory.
- *upgrade*: it never reports success without the data it began with; the old
  binaries it needs are there once a backup was taken, and in every backup.

## 2. Modules

| module | models | state and actions |
|---|---|---|
| `Adapters` | the five adapters as records of what `Backup` and `Recover` do to directories; `Check`; a directory's content | constants only. Content is `Empty`, `Torn` (files, but no whole database) or the number of client writes contained |
| `Initializer` | `start` up to the final status, and the RestoreBackup calls beside it | `status`; `main`, the statement of RunE; per *worker* (main goroutine or call) `step`, the statement of `Restore`/`Recover`, and `goal`, the version; `file`, the download file under its two names; `staged` (RestoreDir), `data` (data directory), `bucket`. One action per statement; `Blocked`, `Fail`, `Abort`, `RefuseSealed` are the error returns, `Kill` the end of the process |
| `Pod` | composes the initializer with `probe`, the cron loop, `wait`, the database container, the volume and the store | adds `dbc` (waiting, cleared, running) and `clock`; `Probe`, `CreateBackup`, `Expire`, `Wait` (`Poll` or `InterruptWait`), `DbStart`, `DbWrite`, `DbExit`, `LoseVolume` |
| `RecoveryContract` | abstract specification: a database that loses its data now and then and is repaired from the newest backup before it is up again | `up`, `content`, `stored` |
| `BackupContract` | abstract specification of the backups as a restore needs them: what is added is the newest, complete and no less than what was there; only what is superseded is taken away. `Backuper` and `Pod` implement it | `written`, `kept` |
| `ManualRestore` | `Pod` with the history variable `alone` that tells which restore nothing disturbed | |
| `Backuper` | `CreateBackup` call by call, with concurrent callers, the adapter's `Backup`, naming and upload of each provider, crashes | `sem`, `pc`, `next` and `slot` (local provider), `backupDir`, `archive`, `handle` (per caller, what its open file reads), `store`, `live` (writes in the running database), `master`; `began` is history. `PartDone` is what a statement leaves that fails or is killed |
| `Upgrade` | `Upgrade` of postgres statement by statement, the copies of the binaries by it and by `Backup`, and the restarts, changes of the image, backups and restores around it | `image`, the version in the containers; `pc`, the statement; `dir` and `new`, the data directory and `/data/postgres-new` as version, content and one copy of binaries per version; `job`, the backup goroutine; `dbc`; `latest`, the latest backup; `before`, `cutShort` (an upgrade was), `cutSave` (versions whose start ended while it was saving its binaries, with no whole copy since) and `spoilt` (a `cp` of `Backup` failed in this process and left `pg_config`) are history. `Blocked` are the errors that no retry avoids, `Skip` the ones that are only logged, `Fail` all others and kills, `BackupFail` those of `Backup`; `Redeploy` changes the image, at any moment |
| `Bucket` | the providers as their callers see them: `EnsureBackupBucket` call by call for sidecars that share a bucket of s3 or gcp (or have a local directory each), naming and storing of backups, the lifecycle rules at work, listing, version numbers, `Get` and `DownloadBackup` | `exists`, `versioned`, `rules`, `meta` (the metageneration); `at`, the call `initialize` stands before, `seen`, what it has read; `names` (given by the process, the slot counter), `job`; `store`; `client`, the operator. `Kill` and `Refused` restart a sidecar |
| `Exec` | the commands of the containers: `ExecWithStreamingOutput` with its goroutine, the signal passed on, the force kill and its panic | `proc`, `stop`, `turn` (the command main is at), `cmd`, `watch` |
| `Rethink` | EXTENDS `Exec`: `Recover` of rethinkdb with its private server, in `start` and in requests, `handleFailedRecovery`, `wait` and the database container, signals, kills and restarts | `pc`, `private`, `target` per recovery; `server`, the rethinkdb that is up, and what it holds; `dir`; `phase`, `done`, `waited`; `harm` is history |
| `Encryption` | `encryptFile` and `decryptFile` buffer by buffer, from the dump to the upload and from the download to `Decompress`, with the files of earlier and broken attempts | `pc`, `source`, `target`, `pos`, `iv` per job, `msgLen`, `store`; `goal` and `old` are history |
| `MCManual`, `MCBackuper`, `MCBucket`, `MCRethink` | symmetry sets, prefixes and numbers of commands for TLC | |
| `PodProofs`, `ManualProofs`, `ContractProofs`, `BackuperProofs`, `UpgradeProofs`, `BucketProofs`, `RethinkProofs`, `EncryptionProofs` | theorems | |

A definition named `...Untested`, `...Reusing`, `AcquireAny` and so on, placed
just before the one it varies, is a plausible bug in that code; no specification
uses it. It shows what the properties notice.

How the code is abstracted:

- *Files.* A backup's bytes are its content. `file[TRUE]` is the `.aes` name,
  `file[FALSE]` the plain one; `by` holds the worker whose open handle the name
  leads to, since `RemoveAll` and `Create` by a second worker unlink what the
  first one still writes to. `Decrypt` opens its output without truncating it,
  so a shorter backup keeps a tail of a longer one behind the end of the
  archive; readers of tar stop before it and these modules have no tail.
  `Encryption` has it.
- *Directories.* A wipe and a fill each have a beginning and an end, so that
  other processes see the state in between. A worker that fills while another
  changes the directories ends with files of both (`mixing`, then `Torn`). A
  private rethinkdb comes up on what it finds, unless it cannot, and the restore
  into a database that has tables is refused (`Beginnings`).
- *Upgrade* is, in `Initializer`, a call that succeeds, with no effect on the
  content, or fails: what the theorem `Delivers` of `UpgradeProofs` allows. In
  `Upgrade`, restore and backup are single steps in turn. A copy of the binaries
  is absent, `"bare"` (begun, without `pg_config`), `"part"` (with it, but not
  all) or `"whole"`; a statement that is killed, or a `cp` that fails, leaves any
  of them. `pg_upgrade` needs both servers and a whole database, and with
  `--link` an end in its middle, or during the `RemoveAll` after it, leaves an
  old directory that may be of no use. The entry point of the postgres image
  creates a database of its own version in an empty directory, and a server ends
  at once on files of another version. `/data` is one volume, which also holds
  `/data/postgres-new`. The options for TimescaleDB change no state.
- *Pod* takes a backup in one step; `Backuper` takes that step apart and leaves
  the containers out. `Pod` has one master: a redis replica is in `Backuper`.
- *Time* is only the order of backups (`clock`); intervals and timeouts are
  fair polling steps.
- *currentStatus* is shared without synchronisation in the code; it is an atomic
  variable here.
- *Providers.* Objects of s3 and gcp appear whole, when the upload or `Close`
  succeeds; the file of the local provider is truncated first and copied then.
  The lifecycle rule may delete a version once `Keep` newer ones exist.
- *Bucket.* Rules are known by their owners, prefixes by which one begins with
  which (`Extends`) and which are empty (`Root`). gcp creates a bucket with
  versioning and the rule of its creator; s3 sets both in later calls. A version
  number is an identity for s3 and gcp, and a rank by date for the local provider,
  whose files are truncated and then copied. The operator lists, picks a version,
  and has it looked up and fetched by number. `CleanupBackups` does nothing.
- *Rethink.* There is always a backup to restore, and the steps before `Recover`
  either fail or do not matter here (`Initializer` has them). All servers use one
  cluster port, so that one at a time gets up, and `localhost:1` is whichever
  private server that is. `RemoveAll` under a running server unlinks its files:
  it serves what it held, and the directory is empty (`linked`). What the ten
  seconds of the force kill and the thirty of the probe meet is left open. A
  process that ends takes the processes it started along, as the container does.
- *Encryption.* A byte is what it is a byte of, its place there and the bytes of
  key streams it is XORed with; `Read` returns any number of bytes up to the
  buffer's length. `Decompress` and the archive format belong to a library.

## 3. Runs

| run | question | configuration | states |
|---|---|---|---|
| `PodAuto` | automatic restore, safety, contract and liveness | etcd, key, 3 faults, 2 writes, 2 backups | 10 000 |
| `PodPurge` | the same safety, and the contract of the backups, with a recovery that fails at any step and purges, and no key for an encrypted backup | rethinkdb, 3 faults, 3 writes, 3 backups | 29 000 |
| `ManualPostgres` | what a manual restore delivers when anything may fail or be killed anywhere | 2 calls, 1 fault, 2 writes, 1 backup | 4.8 million |
| `UpgradePostgres` | upgrades, safety and liveness, with every statement failing or killed half-way | 3 versions, 4 faults (errors, kills, changes of the image, lost volumes), 2 writes | 1.1 million |
| `BackupS3` | concurrent backups to an object store | rethinkdb, key, 2 callers, 2 faults with crashes, 3 writes, 4 backups, 2 kept | 164 000 |
| `BackupLocal` | slots of the local provider, reused after wrapping around, and the contract of the backups | postgres, 3 slots, 5 backups, 1 error, no crash | 348 000 |
| `BackupLive` | the order of what a redis stores that is master and replica in turn; release of the semaphore | redis to gcp, failovers and crashes, 2 faults | 207 000 |
| `BucketShared` | what sidecars that share a bucket do to each other's rules and versions, and what a version number leads to | each kind of bucket, 2 sidecars of which one has the empty prefix and keeps one version, 4 backups, 1 error or kill | 1.2 million |
| `Rethink` | what the database serves, which servers are left, and that all containers stop and settle | one request, one command per container, 3 faults | 133 000 |
| `Encryption` | what is uploaded and what is opened, for any reads | vector and buffer of 2 bytes, archives of up to 4, 2 backups | 183 000 |

Properties: `TypeOK`; `AutoRestoreExclusive`, `NoSilentLoss`, `KeepsContract`,
`KeepsBackups`, `Resumes` (`Pod`); `SoloRestoreDelivers` (`ManualRestore`);
`StoredOrder`, `LatestRestorable`, `AckedIsStored`, `NewestSurvives`,
`KeepsContract`, `SemaphoreReleased` (`Backuper`); `NothingLost`, `BackupUpgradable`,
`OldBinariesKept`, `UpgradeDelivers`, `Upgraded` (`Upgrade`);
`PickedIsDelivered`, `RulesKept`, `KeepHonoured`, `RoundKept`, `Trimmed`,
`GetsThrough` (`Bucket`); `ServedWhole`, `NoServerLeft`, `RecoverDelivers`,
`StopEnds`, `Settles` (`Rethink`); `UploadedSealed`, `RestoredExact`
(`Encryption`). Each is stated in words above its definition.

**Bounds** (`MaxFaults`, `MaxGen`, `MaxBackups`, `Keep`, `Rpc`, `Callers`,
`MaxVersion`, `MaxDate`, `MaxLen`). Three
faults allow for a volume that is lost, a restore that is killed or fails, and a
restart of the database while that restore is retried. Two writes distinguish a
database with, without and with half of what a backup holds; two backups make
"latest" a choice. In `Backuper`, `MaxBackups` exceeds `Keep` by at least two, so
that slots are reused and rules expire versions; two callers are enough for any
two steps of two backups to meet. In the manual runs two calls, the automatic
restore and the database meet in every order; one fault suffices for remains of
an earlier attempt. (`Engine = "rethinkdb"` in `ManualPostgres.cfg`, which purges
on an error, passes as well.) In `Upgrade` four faults allow for two changes of the
image with an upgrade that is skipped and one that is killed, and three versions
for an upgrade of what was upgraded before and for a way back. In `Bucket` two
sidecars suffice for any two calls of two set-ups to meet, and four backups for a
rule to expire, a slot to be reused and another sidecar's version to lie in
between; a refused update restarts a sidecar without using up a fault. In
`Rethink` three faults allow for a request, an error in it, and a signal and a kill;
that the private servers of three recoveries meet is left to the theorems. In
`Encryption` the longest archive with its vector takes three full buffers, and
shorter ones end at, before and behind the end of a buffer. The theorems of
section 5 hold for all bounds.

**Fairness.** Every goroutine takes its next statement; `start` is restarted when
it ends (restart policy `Always`, which a stateful set requires); `wait` and
`probe` have a timer; a cleared database starts. In `Rethink` the pre-exec and
post-exec commands other than the database end some time, every container that
has ended is started again, and the force kill comes; that a command heeds the
signal is not assumed. In `Bucket` a store applies its rules in the end. Nothing makes a client write, a
call arrive or a backup succeed, and no fault is fair. Liveness therefore says
what holds once faults stop, and the bound on faults is what makes them stop.

Deadlock is checked in every run but two: in `Rethink` the database may run on
for ever once faults are used up, and `Encryption` ends with its last backup and
restore.

## 4. Where code and documents disagree

Each of these is a run that TLC must find violated:

- `RecoverError` - an error inside `Recover` of postgres (etcd, redis and localfs
  alike) leaves part of a data directory; the restart takes it for a database
  and lets it run. `cmd/main.go:130` promises a restore for *corrupt data*.
- `BucketPrefix` - backups are listed by the object prefix without the slash that
  follows it in the keys, so that a sidecar with prefix `db` takes a backup of one
  with prefix `db2` for its latest. `README.md:83` allows any dedicated prefixes.

More of this kind is reached by changing a constant of a configuration (and
`FairSpec` to `Spec`, without the liveness properties) or by taking a condition
away from a property. Of `Pod` and `Upgrade` (`PodAuto.cfg`, `UpgradePostgres.cfg`):

| change | what TLC shows |
|---|---|
| `EarlyBackup = TRUE` | a CreateBackup request between `Check` and `ListBackups` of a restarted sidecar makes it restore under a running fresh database |
| `Interrupts = TRUE` | the stop signal makes `wait.Start` return nil, and the database is started, if only to be interrupted |
| `Rpc = {r1}` | a restore into a serving pod runs under the database; nothing prevents it, and `README.md:105-143` avoids it by a helper pod |
| `Engine = "localfs"` | its `Probe` never waits, so the empty directory is backed up before the database starts, and after a restart restored under it |
| `KillInRecover = TRUE` | a recovery that is killed leaves half a directory, which the restart takes for a database; also with rethinkdb (`PodPurge.cfg`), whose comment (`rethinkdb.go:130`) says it *must* be cleaned up |
| `RecoverFails = TRUE` | `RecoverError` |
| `Rpc = {r1}`, `Resumes` | `Restore` leaves the status RESTORING, and only `start` sets it to DONE again: when the database container restarts after, or during, a request into a serving pod, `wait` polls until the sidecar is restarted, while `wait.go:16` says it returns *when the initializer server has done its job* |
| `BackupUpgradable` without `spoilt` | a `cp` of the binaries that fails in `Backup` after it has copied `pg_config` is never made good by the process, since later backups only look for that file, and they are stored without the rest, while `README.md:45` says *the previous postgres binaries are present* |
| `Prepared` without its second conjunct | the directory is then without them, too, when the image changes: `OldBinariesKept` fails, and the upgrade is retried for ever (`Upgraded`) |
| `Prepared` without its third conjunct | `start` ends between the `RemoveAll` and the `cp` that save the binaries, and the next image finds none: `OldBinariesKept` and `Upgraded` fail |
| `NothingLost` without `~cutShort` | a skipped upgrade reports DONE and the database container is let start; the restarted sidecar upgrades after all, and the database creates a fresh directory between `RemoveAll` and `Rename`, next to a backup |
| `Upgraded` without `cutShort` | an upgrade that ends between `pg_upgrade` and `Rename` is not resumed, and the next one may remove `/data/postgres-new`, the last whole copy; `contract.go:21` says that a recovery from backup is required then |

Of `Backuper` (`BackupS3.cfg`):

| change | what TLC shows |
|---|---|
| `Provider = "gcp"` | `UploadBackup` drops the error of `Close`, the call that creates the object: the backup is counted as successful, and `AckedIsStored` fails |
| `Engine = "redis"` | a replica, which logs "not taking a backup", uploads what is in the directory as the latest version: a dump it took while it was master, part of one, or nothing. `AckedIsStored` and `LatestRestorable` fail, and `NewestSurvives` once such versions make the rule expire the last whole one |
| `Crashes = TRUE` (`BackupLocal.cfg`) | after a restart the slot counter begins at 0 and the newest version may be overwritten: `NewestSurvives` fails |

Of `Bucket` (`BucketShared.cfg`):

| change | what TLC shows |
|---|---|
| `RulesKept` without the disjunct of s3 | of two s3 sidecars that start together one loses its rule, and any error of reading the rules drops those of all others |
| `Trimmed` without `\ Root` | with s3 and an empty prefix, the default, no version ever expires |
| `KeepHonoured` without its last disjunct | with gcp, the rule of one sidecar expires the versions of another whose prefix begins with its own, by its own number |
| `Early = TRUE` | with s3, a CreateBackup request before versioning is enabled overwrites the only version: `KeepHonoured` fails |
| `PickedIsDelivered` without `clock = client.asof` | a local backup taken after the listing shifts all numbers, and another backup than the chosen one is restored |
| `RoundKept` without `since` | after a restart the local provider overwrites slot 0, whatever it holds |

Of `Rethink` (`Rethink.cfg`), `ServedWhole` fails when one of the four kinds of
`harm` does not count:

| harm | what TLC shows |
|---|---|
| `"overlap"` | a RestoreBackup request next to a running database, to `start` or to another request: its clean-up removes a directory that is in use; or `Check` finds the files of the request's private server, takes them for the database and reports DONE |
| `"cut"` | a recovery is cut off by a kill, by the stop signal, at which `start` returns without waiting for requests, or by the panic of a force kill ten seconds after the stop signal: half a directory is left, which `rethinkdb.go:130` says *must* be cleaned up |
| `"left"` | `RemoveAll` fails in the clean-up, which is only logged |
| `"released"` | `wait.Start` returns nil at the stop signal, and the database is started on whatever is there |

A sealed file of which the local provider has stored only a part is decrypted
without an error (the last block of what is there is taken for the vector), and
only `Decompress` can notice: `RestoredExact` is about versions that are whole.

Two concurrent manual restores can deliver each other's version: without the
conjunct `alone'[w]`, `SoloRestoreDelivers` fails. Read off the code without a
model: `backup_success` is 1 after a success although its help text
(`metrics.go:25`) says 0; the download command opens its output read-only
(`cmd/main.go:305`) and passes on the name without the version (`cmd/main.go:310`);
the stop signal is SIGINT alone (`cmd/main.go:476`), so that a SIGTERM, which a
container runtime sends first, ends the process at once.

## 5. Theorems

`PodProofs` proves, for every engine, set of calls and bound,

- `TypeCorrect`: `Spec => []TypeOK`, with every fault enabled,

and, assuming `Undisturbed`,

- `Safe`: `Spec => []NoSilentLoss`,
- `Exclusive`: `Spec => []AutoRestoreExclusive`,
- `Refines`: `Spec => KeepsContract`,
- `BackupsRefine`: `Spec => KeepsBackups`,
- `Durable`: `Spec => [](BackedUp(n) => [](dbc # "waiting" => Whole(data) /\ n =< data))`.

`Undisturbed` says: the adapter needs the running server, there are no manual
restores, no early CreateBackup requests, no interrupted wait, no kill while
`Recover` writes, and it fails there only if the adapter purges. Section 4 shows
each of these to be needed: TLC violates one of the first three without it.

The argument is the invariant `Inv`. Neither property is inductive: that the
database may run depends on what a status answered in the past was worth.
`AdmittedInv` says that whenever the database is past `wait`, or could be let
past it now (the main goroutine is beyond the restore), the directory is *settled*:
either a whole database that dominates every stored backup, or a directory
without files next to an empty store. `RestoreInv` follows the automatic restore
through its steps: its goal stays the latest version, no matter what the store
expires (`ExpiredIsNotLatest`: what the lifecycle rule may drop has a newer
version beside it), and the file, the restore directory and the data directory
hold what the step says. `ListInv` carries "Check saw no files" to the
ListBackups that follows. `StoreInv` keeps dates unique and contents in date
order; `TornInv` says that half a directory exists only inside a restore. The
refinement follows step by step from `Inv`: `FillEnd` is `Repair`, `DbStart` is
`Start`, `CreateBackup` is `Store`, `Expire` is `Drop`, `DbExit` and `LoseVolume`
are `Stop`, everything else is invisible. Of `BackupContract` it is the same
invariant that makes a backup an `Add`: a database that runs has at least what any
backup has, and so the next backup has it too, although the database may have
been lost and restored in between. `Durable` puts both together for `n` writes:
what is backed up stays backed up, as an expired version has a newer one beside it
with no less in it (`StaysBackedUp`), and a database that is let run has it.

`ManualProofs` proves, for every engine, any number of RestoreBackup calls and
every fault, without an assumption,

- `ManualTyped`: `ManualSpec => [](TypeOK /\ AloneOK)`,
- `SoloDelivers`: `ManualSpec => SoloRestoreDelivers`.

Its invariant `SoloInv` is the part of `RestoreInv` that survives when anything
else may happen: for a worker that is still alone, the download file, the restore
directory and the data directory hold what its statement says of its goal, and
what is left there from earlier attempts is not looked at before it is replaced.
It says nothing of a worker that another one, or the database, has run beside.

`ContractProofs` proves `ContractRemembers`: a database that keeps
`RecoveryContract` is never up with less than any stored backup; and
`ContractNeverLess`: a store that keeps `BackupContract` never offers less than it
once did.

`BackuperProofs` proves, for every engine, set of callers and bound,

- `BackuperTyped`: `Spec => []TypeOK`,
- `Ordered`: `Spec => []StoredOrder`,

and, assuming `Dumps`, that the adapter's `Backup` leaves a dump or returns an
error (every adapter but redis),

- `Restorable`: `Spec => []LatestRestorable`, for s3 and gcp,
- `Acknowledged`: `Spec => AckedIsStored`, for s3 and local.

Each assumption is needed: redis violates `AckedIsStored` (section 4), which has
no `Dumps`, and so does gcp, which loses an object; and a slot of the local
provider holds part of a backup while it is written.

`StoredOrder` is not inductive: an upload appends whatever a caller's open file
reads, so one has to know that this is no older than all that is stored. In
`OrderInv`, `Single` says that one caller at a time is inside `CreateBackup`;
without it another upload could come between a caller's dump and its own. `Carries`
says that what it has in its hands, the archive and then its open file, is the dump,
and `Late` that a dump, where it is whole, has all that is stored. The latter holds
between calls, too, and that is why it makes no difference to the order that a
replica of redis uploads a dump of earlier times. While the local provider copies,
the slot holds this upload, not whole yet, and no other version (`Claimed`).

The other two rest on `BackupInv`, which adds `Stage`: from the dump to the upload
it is whole and has all writes the database had when the call began (`Fresh`), and
before the success is counted the version is there (`Arrived`); an expiry cannot
take it, since nothing is newer (`ExpiredIsOld`). Errors and crashes leave no caller
in the middle, so they keep the invariant whatever they leave in the directories.

Assuming `Dumps` and `Spare`, `BackuperProofs` proves

- `BackupsImplementContract`: `Spec => KeepsContract`,
- `NewestStays`: `Spec => NewestSurvives`,
- `AcknowledgedForEver`: `Spec => [](Answered(n) => []Recoverable(n))`, for s3 and
  local: once a call has counted its backup, all that had been written before the
  call can be restored for ever after.

`Spare` is about the local provider, which spends a slot on every attempt, goes
round its `Keep` slots and begins anew with slot 0 when the process is restarted: no
crash, and `MaxFaults + 1 < Keep`. It is exact: with `Keep = 2` and one error
(`BackupLocal.cfg`) TLC finds the newest version overwritten, by an attempt that
fails in turn. For s3 and gcp it says nothing. `SurvivalInv` counts the turns:
between the slot of the newest version and the slot that is to be written next lie
as many as attempts have failed since (`Rotation`, `Behind`), no more than faults,
so that they do not meet before the counter is all the way round. The refinement
follows from both invariants: the end of an upload is `Add`, since the version
counts from the moment it is whole; the truncation of a slot with a whole version
in it, like an expiry, is `Discard`; everything else is invisible.

`UpgradeProofs` proves, for any number of versions, every bound and every fault,

- `UpgradeTyped`: `Spec => []TypeOK`,
- `Delivers`: `Spec => UpgradeDelivers`,
- `NotLost`: `Spec => []NothingLost`,
- `Upgradable`: `Spec => BackupUpgradable`,
- `BinariesKept`: `Spec => []OldBinariesKept`,

without an assumption: the image changes at any moment, and every statement may
fail or be killed half-way. What the code does lose then is named in the
statements by history variables, of what exactly was cut off or failed (`spoilt`,
`cutSave`), and section 4 shows that none of them can be left out.
`KeptInv` follows what Upgrade began with: it is in the old directory up to
`pg_upgrade`, then in the new one, and no early return lies in between. `LostInv`
explains why a stale DONE is harmless until an upgrade was cut short: the database
container is past `wait` on older files only where the old binaries are missing,
and those no later start of the new image can supply, so no upgrade begins.
`BinsInv` says that a copy with `pg_config` of the version of a serving process is
whole unless it is spoilt, since a start copies anew whatever an earlier process
left, so that `pg_config` does stand for the rest where `Backup` looks for it. For
`OldBinariesKept` two more facts are needed: the data directory is at least as new
as the latest backup (`NewerInv`), so that a copy is only ever removed under the
image that can make it again; and a directory that is `Prepared` has the copy,
except while its own image is just saving it once more (`PresentInv`).

`BucketProofs` proves, for any sidecars, prefixes, kinds of bucket, numbers to
keep and bounds,

- `BucketTyped`: `Spec => []TypeOK`,
- `Delivered`: `Spec => []PickedIsDelivered`,
- `RulesNotLost`: `Spec => RulesKept`,
- `OldestFirst`: `Spec => RoundKept`,

and, assuming that no backup is taken before the set-up is done (`~Early`),

- `Honoured`: `Spec => KeepHonoured`.

The invariant `BucketInv` has three parts beside the types. `Settings` ties what a
sidecar has read of the rules to the metageneration they had, so that an update
that is not refused was made of the rules as they are (`ReadInv`), and says that a
sidecar is beyond the call that enables versioning only where versioning is
enabled (`CallInv`), which no later call undoes: that is why no upload
overwrites. `Versions` says that a date belongs to one version, and a slot of the
local provider too, and that what a process has stored carries a name that it gave
before the one it is about to store; since two names of one slot are a multiple of
`Keep` apart, what that overwrites is `Keep` names old. `ClientInv` follows the operator: a
number stands for the version it was listed for as long as that version is there;
for the local provider, whose numbers are ranks, as long as no backup was taken.

`RethinkProofs` proves, for any number of requests, of commands of both
containers, and of faults,

- `RethinkTyped`: `Spec => []TypeOK`,
- `ServesWhole`: `Spec => []ServedWhole`,
- `NoneLeft`: `Spec => []NoServerLeft`,
- `Delivers`: `Spec => RecoverDelivers`.

`RethinkInv` says for every state where servers may be (`Servers`): a private one is up
only while its recovery runs, since no recovery returns or cleans up before its
goroutine has ended, the real one only as the command behind `wait`; and for the
states without harm (`Unharmed`) that recoveries, `Check` and the database never
meet, so that a recovery that is at work is alone with the directory, and what the
directory holds is what its statement says: nothing, a fresh database, a part of
the rows or all of them. None of the four kinds of harm can be left out (section
4), and each is recorded by the step that does it.

`EncryptionProofs` proves, for any lengths of vectors, buffers and archives and
any number of backups,

- `EncryptionTyped`: `Spec => []TypeOK`,
- `SealsWhole`: `Spec => []UploadedSealed`,
- `OpensAgain`: `Spec => []RestoredExact`.

`EncryptInv` says that what is written so far is the beginning of the sealed
archive, and that nothing longer than it lay there before: the backup directory
is emptied before the dump, or the archive contains what was left in it.
`DecryptInv` says that the output is what lay there, overwritten by the beginning
of the archive up to where the input was read, as far as the message goes; that
`msgLen` is what remains of it; and that the vector at the end of a whole file is
the one it was sealed with. That XORing a byte of a key stream twice gives the
byte back is the one lemma about the cipher.

Only model-checked: the liveness properties `Resumes`, `Upgraded`,
`SemaphoreReleased`, `Trimmed`, `GetsThrough`, `StopEnds` and `Settles` (temporal
reasoning under fairness is out of the prover's reach). Every invariant and action
property of a passing run is stated by a theorem.

## 6. Not modelled

- *metrics*: counters, gauges and their HTTP server. Nothing in the program reads
  them back; that a backup is counted as a success is a step of `Backuper`.
- *client and generated API*: connections and marshalling, without state.
- *manifest generator*: prints the manifests of the demos.
- *flags, configuration files, logging, table printer*: what they set are the
  constants of the modules.
- *TimescaleDB*: the options of `pg_upgrade` for it and the statements that the
  Postgres probe sends to update the extension; they change no state of this
  program.
- *archive formats and cipher*: libraries. The model has of them what the code
  relies on: an archive is read up to its own end, a key stream depends on its
  vector.
- *pages of a listing*: s3 looks at the first one only (`s3.go:322`).
- *container images*: the entry points as far as `Upgrade` and `Rethink` need them.

*Pod and Backuper.* The one-step backup of `Pod` stands for the calls of `Backuper`:
both implement `BackupContract`, `Pod` with `written` as the content of its database
and `Backuper` with `live`. What `Backuper` assumes of the database, that it has
writes or none and is not restored while a backup is under way, is what
`AutoRestoreExclusive` and the order of the statements of `start` give, as long as
no request comes before the cron loop runs. A
single module with both at statement level, in which a request for a backup also
meets a restore, is left open.
