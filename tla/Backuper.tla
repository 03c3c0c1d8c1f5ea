------------------------------ MODULE Backuper ------------------------------
(***************************************************************************)
(* Backuper.CreateBackup (cmd/internal/backup), call by call, with the     *)
(* adapter's Backup and the provider's GetNextBackupName and UploadBackup. *)
(* It is called by every tick of the cron job, each in a goroutine of its  *)
(* own, and by every CreateBackup request; all of them work in the same    *)
(* BackupDir and on the same provider object.                              *)
(***************************************************************************)
EXTENDS Adapters, FiniteSets

CONSTANTS
    Engine,         \* the configured database
    Provider,       \* the configured backup provider
    HasKey,         \* is an encryption key configured?
    Callers,        \* goroutines that call CreateBackup
    Keep,           \* ObjectsToKeep
    Crashes,        \* may the process die?
    MaxFaults,      \* bound on errors, crashes and changes of the role
    MaxGen,         \* bound on client writes
    MaxBackups      \* bound on uploads begun

ASSUME BackuperAssumption ==
    /\ Engine \in Engines
    /\ Provider \in {"local", "s3", "gcp"}
    /\ {HasKey, Crashes} \subseteq BOOLEAN
    /\ Keep \in Nat \ {0}
    /\ {MaxFaults, MaxGen, MaxBackups} \subseteq Nat

VARIABLES
    sem,        \* the callers that hold the semaphore
    pc,         \* per caller: the statement of CreateBackup it is at
    began,      \* history: per caller, live when its call began
    next,       \* nextBackupCount of the local provider
    slot,       \* currentBackupName of the local provider
    backupDir,  \* content of BackupDir, the dump
    archive,    \* content of the archive made of it
    handle,     \* per caller: what its open archive reads
    live,       \* client writes the running database contains
    master,     \* is this database the master?
    store,      \* the versions at the provider
    clock,      \* date of the latest upload
    faults      \* errors, crashes and changes of the role so far

call == <<sem, began>>
naming == <<next, slot>>
directories == <<backupDir, archive>>
files == <<directories, handle>>
database == <<live, master>>
bucket == <<store, clock>>
vars == <<pc, call, naming, files, database, bucket, faults>>

db == AdapterOf[Engine]

Slots == 0..(Keep - 1)
Version == [date : Nat, slot : Slots, gen : Data]

Pcs == {"idle", "clean", "dump", "name", "remove", "compress", "encrypt",
        "open", "upload", "uploading", "count", "cleanup"}

TypeOK ==
    /\ sem \subseteq Callers
    /\ pc \in [Callers -> Pcs]
    /\ began \in [Callers -> Nat]
    /\ next \in Slots
    /\ slot \in Slots
    /\ backupDir \in Data
    /\ archive \in Data
    /\ handle \in [Callers -> Data]
    /\ live \in 0..MaxGen
    /\ master \in BOOLEAN
    /\ store \subseteq Version
    /\ clock \in 0..MaxBackups
    /\ faults \in 0..MaxFaults
    /\ \A c \in Callers : (c \in sem) <=> (pc[c] # "idle")

\* What New sets up for the Backuper, the local provider, next to an empty
\* store.
Init ==
    /\ sem = {}
    /\ pc = [c \in Callers |-> "idle"]
    /\ began = [c \in Callers |-> 0]
    /\ next = 0
    /\ slot = 0
    /\ backupDir = Empty
    /\ archive = Empty
    /\ handle = [c \in Callers |-> Empty]
    /\ live = 0
    /\ master = TRUE
    /\ store = {}
    /\ clock = 0
    /\ faults = 0

Goto(c, from, to) ==
    /\ pc[c] = from
    /\ pc' = [pc EXCEPT ![c] = to]

Fault == faults < MaxFaults /\ faults' = faults + 1

-----------------------------------------------------------------------------
(* CreateBackup.                                                           *)

\* A semaphore of any size.
AcquireAny(c) ==
    /\ Goto(c, "idle", "clean")
    /\ sem' = sem \cup {c}
    /\ began' = [began EXCEPT ![c] = live]
    /\ UNCHANGED <<naming, files, database, bucket, faults>>

\* TryAcquire; a caller it fails for is answered ErrBackupAlreadyInProgress.
Acquire(c) ==
    /\ sem = {}
    /\ Goto(c, "idle", "clean")
    /\ sem' = {c}
    /\ began' = [began EXCEPT ![c] = live]
    /\ UNCHANGED <<naming, files, database, bucket, faults>>

\* A dump that is still there is used again.
CleanReusing(c) ==
    /\ Goto(c, "clean", IF backupDir = Empty THEN "dump" ELSE "name")
    /\ UNCHANGED <<call, naming, files, database, bucket, faults>>

\* Backup begins with RemoveAll and MkdirAll of BackupDir, except where it
\* finds that this is not the master: it returns nil right away.
Clean(c) ==
    /\ IF db.roleGated /\ ~master
       THEN /\ Goto(c, "clean", "name")
            /\ UNCHANGED directories
       ELSE /\ Goto(c, "clean", "dump")
            /\ backupDir' = Empty
            /\ archive' = Empty
    /\ UNCHANGED <<call, naming, handle, database, bucket, faults>>

\* The exit code of the dump command is not looked at.
DumpUnchecked(c) ==
    /\ Goto(c, "dump", "name")
    /\ backupDir' \in {live, Torn}
    /\ UNCHANGED <<call, naming, archive, handle, database, bucket, faults>>

\* The dump is complete; it is consistent as of some moment of the dumping.
Dump(c) ==
    /\ Goto(c, "dump", "name")
    /\ db.refusesFresh => live # 0
    /\ backupDir' = live
    /\ UNCHANGED <<call, naming, archive, handle, database, bucket, faults>>

\* The counter is not increased.
GetSameBackupName(c) ==
    /\ Goto(c, "name", "remove")
    /\ slot' = next
    /\ UNCHANGED <<next, call, files, database, bucket, faults>>

\* GetNextBackupName: the name is constant except with the local provider.
GetNextBackupName(c) ==
    /\ Goto(c, "name", "remove")
    /\ IF Provider = "local"
       THEN /\ slot' = next
            /\ next' = (next + 1) % Keep
       ELSE UNCHANGED naming
    /\ UNCHANGED <<call, files, database, bucket, faults>>

\* RemoveAll of the archive.
RemovePrior(c) ==
    /\ Goto(c, "remove", "compress")
    /\ archive' = Empty
    /\ UNCHANGED <<call, naming, backupDir, handle, database, bucket, faults>>

\* The archive of BackupDir.  A replica may find it empty, or not at all: the
\* archiver makes the directory its output goes to.
Compress(c) ==
    /\ Goto(c, "compress", IF HasKey THEN "encrypt" ELSE "open")
    /\ archive' = backupDir
    /\ UNCHANGED <<call, naming, backupDir, handle, database, bucket, faults>>

\* The sealed file takes the place of the plain one.
Encrypt(c) ==
    /\ Goto(c, "encrypt", "open")
    /\ UNCHANGED <<call, naming, files, database, bucket, faults>>

Open(c) ==
    /\ Goto(c, "open", "upload")
    /\ handle' = [handle EXCEPT ![c] = archive]
    /\ UNCHANGED <<call, naming, directories, database, bucket, faults>>

\* A version that replaces those in old.
Put(gen, old) ==
    /\ clock < MaxBackups
    /\ clock' = clock + 1
    /\ store' = (store \ old) \cup {[date |-> clock + 1, slot |-> slot, gen |-> gen]}

\* s3, gcp: a new version of the object, there as a whole or not at all.
UploadObject(c) ==
    /\ Provider # "local"
    /\ Goto(c, "upload", "count")
    /\ Put(handle[c], {})
    /\ UNCHANGED <<call, naming, files, database, faults>>

\* gcp: Close, which makes the written object a version, fails; its error is
\* dropped and UploadBackup returns nil.
LoseObject(c) ==
    /\ Provider = "gcp"
    /\ Goto(c, "upload", "count")
    /\ Fault
    /\ UNCHANGED <<call, naming, files, database, bucket>>

\* local: Create empties the file that has the slot's name.
CreateFile(c) ==
    /\ Provider = "local"
    /\ Goto(c, "upload", "uploading")
    /\ Put(Torn, {v \in store : v.slot = slot})
    /\ UNCHANGED <<call, naming, files, database, faults>>

\* local: the end of io.Copy.
CopyFile(c) ==
    /\ Goto(c, "uploading", "count")
    /\ store' = {IF v.slot = slot THEN [v EXCEPT !.gen = handle[c]] ELSE v : v \in store}
    /\ UNCHANGED <<call, naming, files, database, clock, faults>>

\* The backup is counted as successful.
CountBackup(c) ==
    /\ Goto(c, "count", "cleanup")
    /\ UNCHANGED <<call, naming, files, database, bucket, faults>>

\* Without the deferred Release.
ReturnHolding(c) ==
    /\ Goto(c, "cleanup", "idle")
    /\ UNCHANGED <<call, naming, files, database, bucket, faults>>

\* CleanupBackups leaves it to the store; then the deferred Release.
Return(c) ==
    /\ Goto(c, "cleanup", "idle")
    /\ sem' = sem \ {c}
    /\ UNCHANGED <<began, naming, files, database, bucket, faults>>

\* Release on the last line instead of deferred.
ReturnErrorHolding(c) ==
    /\ pc' = [pc EXCEPT ![c] = "idle"]
    /\ UNCHANGED <<call, naming, handle, database, bucket>>

\* What CreateBackup does on its error paths: the deferred Release.
ReturnError(c) ==
    /\ pc' = [pc EXCEPT ![c] = "idle"]
    /\ sem' = sem \ {c}
    /\ UNCHANGED <<began, naming, handle, database, bucket>>

\* There is nothing to dump, or no room for another upload.
Blocked(c) ==
    /\ \/ pc[c] = "dump" /\ db.refusesFresh /\ live = 0
       \/ pc[c] = "upload" /\ clock = MaxBackups
    /\ ReturnError(c)
    /\ UNCHANGED <<directories, faults>>

\* A statement that ends before its time has removed or written a part of what
\* it removes or writes; a dump may be all there, and the call fail after it.
PartDone(c) ==
    \/ /\ pc[c] = "clean"
       /\ db.roleGated => master
       /\ backupDir' \in {backupDir, Empty, Torn}
       /\ archive' \in {archive, Empty}
    \/ /\ pc[c] = "dump"
       /\ backupDir' \in {Torn, live}
       /\ archive' = archive
    \/ /\ pc[c] \in {"compress", "encrypt"}
       /\ archive' = Torn
       /\ backupDir' = backupDir

\* A call returns an error.
Fail(c) ==
    /\ pc[c] \in Pcs \ {"idle", "name", "count", "cleanup"}
    /\ Fault
    /\ ReturnError(c)
    /\ UNCHANGED directories \/ PartDone(c)

-----------------------------------------------------------------------------
(* The rest of the world.                                                  *)

\* The process dies and is started again.
Crash ==
    /\ Crashes
    /\ Fault
    /\ sem' = {}
    /\ pc' = [c \in Callers |-> "idle"]
    /\ began' = [c \in Callers |-> 0]
    /\ next' = 0
    /\ slot' = 0
    /\ UNCHANGED directories \/ \E c \in Callers : PartDone(c)
    /\ UNCHANGED <<handle, database, bucket>>

DbWrite ==
    /\ live < MaxGen
    /\ live' = live + 1
    /\ UNCHANGED <<pc, call, naming, files, master, bucket, faults>>

Failover ==
    /\ db.roleGated
    /\ Fault
    /\ master' = ~master
    /\ UNCHANGED <<pc, call, naming, files, live, bucket>>

\* A rule that does not count the newer versions.
ExpireAny ==
    /\ Provider # "local"
    /\ \E v \in store : store' = store \ {v}
    /\ UNCHANGED <<pc, call, naming, files, database, clock, faults>>

\* The lifecycle rule of the object store, on versions superseded long ago.
Expire ==
    /\ Provider # "local"
    /\ \E v \in store :
        /\ Cardinality({u \in store : v.date < u.date}) >= Keep
        /\ store' = store \ {v}
    /\ UNCHANGED <<pc, call, naming, files, database, clock, faults>>

-----------------------------------------------------------------------------
CallStep(c) ==
    \/ Clean(c) \/ Dump(c) \/ GetNextBackupName(c) \/ RemovePrior(c)
    \/ Compress(c) \/ Encrypt(c) \/ Open(c) \/ UploadObject(c) \/ LoseObject(c)
    \/ CreateFile(c) \/ CopyFile(c) \/ CountBackup(c) \/ Return(c)
    \/ Blocked(c)

Next ==
    \/ \E c \in Callers : Acquire(c) \/ CallStep(c) \/ Fail(c)
    \/ Crash \/ DbWrite \/ Failover \/ Expire

Spec == Init /\ [][Next]_vars

\* A call that has begun takes its next step; an idle caller need not call.
Fairness == \A c \in Callers : WF_vars(CallStep(c))

FairSpec == Spec /\ Fairness

-----------------------------------------------------------------------------
(* Properties.                                                             *)

\* Of two stored versions the one with the later date, which is the one that
\* Latest prefers, is not the one with the older content.
StoredOrder ==
    \A u, v \in store :
        u.date < v.date /\ Whole(u.gen) /\ Whole(v.gen) => u.gen =< v.gen

\* What Latest returns can be restored: no incomplete dump, no partial upload.
LatestRestorable ==
    \A v \in store : (\A u \in store : u.date =< v.date) => Whole(v.gen)

\* When a call counts its backup as successful, the store holds a version with
\* every write the database had acknowledged before the call.
AckedIsStored ==
    [][\A c \in Callers :
         pc[c] = "count" /\ pc'[c] = "cleanup"
            => \E v \in store : Whole(v.gen) /\ began[c] =< v.gen]_vars

\* No step takes the newest restorable version away before there is another
\* one that is newer.
NewestSurvives ==
    [][\A v \in store :
         Whole(v.gen) => \E u \in store' : Whole(u.gen) /\ v.date =< u.date]_vars

\* The store keeps the promise of BackupContract: a version counts from the
\* moment it is whole.
Contract ==
    INSTANCE BackupContract WITH
        written <- live,
        kept <- {[date |-> v.date, gen |-> v.gen] :
                    v \in {u \in store : Whole(u.gen)}}

\* Every step of the backups, the crashes and the lifecycle rule is a step of
\* BackupContract or invisible to it.
KeepsContract == Contract!BackupSpec

\* No call keeps the others from taking backups for ever, whatever goes wrong
\* in it.
SemaphoreReleased == \A c \in Callers : c \in sem ~> c \notin sem
=============================================================================
