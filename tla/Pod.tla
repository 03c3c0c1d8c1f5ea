-------------------------------- MODULE Pod --------------------------------
(***************************************************************************)
(* One replica of a stateful set: the sidecar container (Initializer, then *)
(* probe.Start and the cron loop), the database container, whose entry     *)
(* point is `wait' followed by the database as post-exec command, the      *)
(* volume they share, and the backup store outside.  A backup is one step  *)
(* here; module Backuper takes it apart.                                   *)
(***************************************************************************)
EXTENDS Initializer

CONSTANTS
    EarlyBackup,    \* may CreateBackup calls arrive before the cron loop runs?
    Interrupts,     \* may `wait' be interrupted?
    Keep,           \* versions of the archive the store keeps
    MaxGen,         \* bound on client writes
    MaxBackups      \* bound on backups taken

ASSUME PodAssumption ==
    /\ {EarlyBackup, Interrupts} \subseteq BOOLEAN
    /\ Keep \in Nat \ {0}
    /\ {MaxGen, MaxBackups} \subseteq Nat

VARIABLES
    dbc,        \* the database container
    clock       \* date of the latest backup

vars == <<initVars, dbc, clock>>

\* waiting: in wait.Start.  cleared: wait.Start returned.  running: the
\* post-exec command, the database itself, has been started.
DbStates == {"waiting", "cleared", "running"}

TypeOK ==
    /\ InitializerTypeOK
    /\ dbc \in DbStates
    /\ clock \in 0..MaxBackups
    /\ \A b \in bucket : b.date =< clock

\* A first start, with nothing in the store or with what an earlier stateful
\* set left there.
Init ==
    /\ InitializerInit
    /\ dbc = "waiting"
    /\ clock = 0
    /\ bucket \in {{}} \cup {{[date |-> 0, gen |-> 1, sealed |-> s]} :
                                s \in BOOLEAN}

-----------------------------------------------------------------------------
(* The sidecar serving.                                                    *)

DbAnswers == dbc = "running" /\ Whole(data)

\* The end of the loop announces a status of its own.
ProbeReporting ==
    /\ main = "probe"
    /\ db.needsServer => DbAnswers
    /\ main' = "serve"
    /\ status' = "CHECKING"
    /\ UNCHANGED <<step, goal, disk, bucket, faults, dbc, clock>>

\* probe.Start: the loop ends once the database answers.
Probe ==
    /\ main = "probe"
    /\ main' = IF db.needsServer => DbAnswers THEN "serve" ELSE "probe"
    /\ UNCHANGED <<status, step, goal, disk, bucket, faults, dbc, clock>>

\* Does the adapter's Backup return a dump?
CanDump ==
    /\ db.needsServer => DbAnswers
    /\ db.refusesFresh => data # 0

\* The cron job, or a CreateBackup call; an error is logged, or answered.  At
\* most MaxBackups of them succeed.
CreateBackup ==
    /\ main = "serve" \/ (EarlyBackup /\ ServerUp)
    /\ IF CanDump /\ clock < MaxBackups
       THEN /\ clock' = clock + 1
            /\ bucket' = bucket \cup
                   {[date |-> clock + 1, gen |-> data, sealed |-> HasKey]}
       ELSE UNCHANGED <<clock, bucket>>
    /\ UNCHANGED <<memory, disk, faults, dbc>>

\* The store drops a version that Keep newer ones have superseded.
Expire ==
    /\ \E b \in bucket :
        /\ Cardinality({c \in bucket : b.date < c.date}) >= Keep
        /\ bucket' = bucket \ {b}
    /\ UNCHANGED <<memory, disk, faults, dbc, clock>>

-----------------------------------------------------------------------------
(* The database container.                                                 *)

\* Any answer of the initializer server ends the loop.
PollAnyAnswer ==
    /\ dbc = "waiting"
    /\ dbc' = IF ServerUp THEN "cleared" ELSE "waiting"
    /\ UNCHANGED faults

\* The timer: an error or any other status makes wait.Start ask again.
Poll ==
    /\ dbc = "waiting"
    /\ dbc' = IF ServerUp /\ status = "DONE" THEN "cleared" ELSE "waiting"
    /\ UNCHANGED faults

\* The stop signal makes wait.Start return nil too, and the post-exec command
\* is started, to be interrupted in turn.
InterruptWait ==
    /\ Interrupts
    /\ dbc = "waiting"
    /\ Fault
    /\ dbc' = "cleared"

\* The select statement of wait.Start.
Wait == (Poll \/ InterruptWait) /\ UNCHANGED <<memory, disk, bucket, clock>>

\* The database comes up; in a directory without files it creates a new one.
DbStart ==
    /\ dbc = "cleared"
    /\ dbc' = "running"
    /\ data' = IF data = Empty THEN 0 ELSE data
    /\ UNCHANGED <<memory, file, staged, bucket, faults, clock>>

DbWrite ==
    /\ DbAnswers
    /\ data < MaxGen
    /\ data' = data + 1
    /\ UNCHANGED <<memory, file, staged, bucket, faults, dbc, clock>>

\* The container ends and is started again.
DbExit ==
    /\ dbc # "waiting"
    /\ Fault
    /\ dbc' = "waiting"
    /\ UNCHANGED <<memory, disk, bucket, clock>>

\* The pod comes back with new volumes.
LoseVolume ==
    /\ Fault
    /\ Exit
    /\ dbc' = "waiting"
    /\ data' = Empty
    /\ staged' = Empty
    /\ file' = [s \in BOOLEAN |-> AbsentFile]
    /\ UNCHANGED <<bucket, clock>>

-----------------------------------------------------------------------------
Sidecar == InitializerNext /\ UNCHANGED <<dbc, clock>>

Next ==
    \/ Sidecar \/ Probe \/ CreateBackup \/ Expire
    \/ Wait \/ DbStart \/ DbWrite \/ DbExit \/ LoseVolume

Spec == Init /\ [][Next]_vars

(***************************************************************************)
(* Fairness.  A goroutine always takes its next statement, and             *)
(* `start' is restarted when it ends (restartPolicy Always, the default    *)
(* of a stateful set); the polling loops of wait and probe have a timer;   *)
(* a database that may start does.  Nothing makes a client write, a call   *)
(* arrive, a backup succeed, or anything fail.                             *)
(***************************************************************************)
Fairness ==
    /\ WF_vars(MainStep /\ UNCHANGED <<dbc, clock>>)
    /\ \A w \in Workers :
         WF_vars((RestoreStep(w) \/ Blocked(w)) /\ UNCHANGED <<dbc, clock>>)
    /\ \A r \in Rpc : WF_vars(Answer(r) /\ UNCHANGED <<dbc, clock>>)
    /\ WF_vars(Probe)
    /\ WF_vars(Poll /\ UNCHANGED <<memory, disk, bucket, clock>>)
    /\ WF_vars(DbStart)

FairSpec == Spec /\ Fairness

-----------------------------------------------------------------------------
(* Properties.                                                             *)

\* The automatic restore owns the data directory: as long as initialize is
\* inside Restore (which wipes and refills it), the database container has
\* not been let past wait.Start.
AutoRestoreExclusive == main = "restore" => dbc = "waiting"

Covers(b) == Whole(b.gen) => Whole(data) /\ b.gen =< data

\* A database is never let run on a directory that is no whole database, nor
\* on less than some stored backup holds: neither a failed or interrupted
\* restore, nor a fresh database created where one was to be restored, nor the
\* wrong version chosen by Latest goes unnoticed.
NoSilentLoss ==
    dbc # "waiting" => data # Torn /\ \A b \in bucket : Covers(b)

\* The pod keeps the promise of RecoveryContract: what is not a whole database
\* is lost, and a database is up from the moment its process starts.
Contract ==
    INSTANCE RecoveryContract WITH
        Lost <- Torn,
        up <- dbc = "running",
        content <- IF Whole(data) THEN data ELSE Torn,
        stored <- {[date |-> b.date, gen |-> b.gen] : b \in bucket}

\* Every step of the pod is a step of RecoveryContract or invisible to it.
KeepsContract == Contract!ContractSpec

\* A backup, one step here, keeps the promise of BackupContract, as do the
\* statements Backuper takes it apart into.
Backups ==
    INSTANCE BackupContract WITH
        written <- IF Whole(data) THEN data ELSE 0,
        kept <- {[date |-> b.date, gen |-> b.gen] : b \in bucket}

\* Every step of the pod is a step of BackupContract or invisible to it.
KeepsBackups == Backups!BackupSpec

\* Whatever fails, the database is in the end up for good and backed up again.
Resumes == <>[](DbAnswers /\ main = "serve")
=============================================================================
