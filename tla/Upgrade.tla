------------------------------ MODULE Upgrade ------------------------------
(***************************************************************************)
(* The Postgres upgrade (internal/database/postgres/upgrade.go), between   *)
(* the restarts, redeployments and backups it depends on: the binaries it  *)
(* needs are saved in the data directory by start and by every backup, and *)
(* travel with the backups.  Restore and backup are single steps here;     *)
(* Initializer and Backuper take them apart.                               *)
(***************************************************************************)
EXTENDS Adapters

CONSTANTS
    MaxVersion,         \* newest major version of Postgres
    MaxFaults,          \* bound on errors, kills, redeployments and losses
    MaxGen              \* bound on client writes

ASSUME UpgradeAssumption ==
    /\ MaxVersion \in Nat \ {0}
    /\ {MaxFaults, MaxGen} \subseteq Nat

VARIABLES
    image,      \* version of the binaries in the containers
    pc,         \* the statement of start and of Upgrade the sidecar is at
    dir,        \* the data directory
    new,        \* /data/postgres-new
    job,        \* the backup goroutine
    dbc,        \* the database container
    latest,     \* the latest backup, as the directory it restores
    before,     \* history: content that the last Upgrade began with
    cutShort,   \* history: did an error or a kill ever end an upgrade?
    cutSave,    \* history: versions whose start was ended while saving binaries
    spoilt,     \* history: did a cp fail in this process, pg_config being there?
    faults      \* errors, kills, redeployments and losses so far

history == <<before, cutShort, cutSave, spoilt>>
vars == <<image, pc, dir, new, job, dbc, latest, history, faults>>

Versions == 1..MaxVersion

\* pg-bin-v<n>: absent, begun without pg_config, with pg_config, or all of it.
Copies == {"none", "bare", "part", "whole"}
Interrupted == {"none", "bare", "part"}
HasPgConfig(copy) == copy \in {"part", "whole"}

\* A directory of Postgres; version is the content of PG_VERSION, 0 without it.
Directory == [version : 0..MaxVersion, gen : Data, bins : [Versions -> Copies]]
NoBins == [v \in Versions |-> "none"]
Void == [version |-> 0, gen |-> Empty, bins |-> NoBins]
Created == [version |-> image, gen |-> 0, bins |-> NoBins]

\* From pg_upgrade, which links the files of both directories, to Rename.
Swap == {"linking", "remove", "removing", "rename"}
Upgrading == {"save", "copy", "validate", "clean", "init", "config", "link"} \cup Swap
Pcs == {"down", "check", "stat", "done", "serve"} \cup Upgrading

TypeOK ==
    /\ image \in Versions
    /\ pc \in Pcs
    /\ dir \in Directory
    /\ new \in Directory
    /\ job \in {"idle", "copy", "dump"}
    /\ dbc \in {"waiting", "cleared", "running"}
    /\ latest \in Directory
    /\ before \in Data
    /\ {cutShort, spoilt} \subseteq BOOLEAN
    /\ cutSave \subseteq Versions
    /\ faults \in 0..MaxFaults
    /\ pc \in Upgrading \ {"removing", "rename"} => dir.version \in Versions
    /\ job # "idle" => pc = "serve"

Init ==
    /\ image = 1
    /\ pc = "down"
    /\ dir = Void
    /\ new = Void
    /\ job = "idle"
    /\ dbc = "waiting"
    /\ latest = Void
    /\ before = Empty
    /\ cutShort = FALSE
    /\ cutSave = {}
    /\ spoilt = FALSE
    /\ faults = 0

Fault == faults < MaxFaults /\ faults' = faults + 1

Goto(from, to) == pc = from /\ pc' = to

-----------------------------------------------------------------------------
(* The sidecar up to Upgrade.                                              *)

Boot ==
    /\ Goto("down", "check")
    /\ UNCHANGED <<image, dir, new, job, dbc, latest, history, faults>>

\* initialize: an empty directory is filled from the latest backup, if any.
Initialize ==
    /\ Goto("check", "stat")
    /\ dir' = IF dir = Void THEN latest ELSE dir
    /\ before' = dir'.gen
    /\ cutSave' = IF dir = Void THEN {} ELSE cutSave
    /\ UNCHANGED <<image, new, job, dbc, latest, cutShort, spoilt, faults>>

-----------------------------------------------------------------------------
(* Upgrade.                                                                *)

others == <<image, job, dbc, latest, before, cutShort, spoilt, faults>>
outside == <<others, cutSave>>

\* PG_VERSION is not looked for.
StatNothing ==
    /\ Goto("stat", "save")
    /\ UNCHANGED <<dir, new, outside>>

Stat ==
    /\ Goto("stat", IF dir.version = 0 THEN "done" ELSE "save")
    /\ UNCHANGED <<dir, new, outside>>

\* Binaries that seem to be there are not copied again.
RemoveSavedUnlessPresent ==
    /\ Goto("save", IF HasPgConfig(dir.bins[image]) THEN "validate" ELSE "copy")
    /\ UNCHANGED <<dir, new, outside>>

\* The binaries of all versions are removed before those of the image are saved.
RemoveSavedOfAll ==
    /\ Goto("save", "copy")
    /\ dir' = [dir EXCEPT !.bins = NoBins]
    /\ UNCHANGED <<new, outside>>

\* copyPostgresBinaries with override: RemoveAll, ...
RemoveSaved ==
    /\ Goto("save", "copy")
    /\ dir' = [dir EXCEPT !.bins[image] = "none"]
    /\ UNCHANGED <<new, outside>>

\* ... and cp.
CopyBinaries ==
    /\ Goto("copy", "validate")
    /\ dir' = [dir EXCEPT !.bins[image] = "whole"]
    /\ cutSave' = cutSave \ {image}
    /\ UNCHANGED <<new, others>>

\* Gives up where the binaries of the last version are not there, too.
NoUpgradeAcrossVersions ==
    /\ Goto("validate", "done")
    /\ \/ dir.version = image
       \/ /\ dir.version < image
          /\ \E v \in {dir.version, image - 1} : ~HasPgConfig(dir.bins[v])
    /\ UNCHANGED <<dir, new, outside>>

\* Nothing to do, or the old pg_config is not there: Upgrade returns nil.
NoUpgrade ==
    /\ Goto("validate", "done")
    /\ \/ dir.version = image
       \/ dir.version < image /\ ~HasPgConfig(dir.bins[dir.version])
    /\ UNCHANGED <<dir, new, outside>>

Proceed ==
    /\ Goto("validate", "clean")
    /\ dir.version < image
    /\ HasPgConfig(dir.bins[dir.version])
    /\ UNCHANGED <<dir, new, outside>>

Clean ==
    /\ Goto("clean", "init")
    /\ new' = Void
    /\ UNCHANGED <<dir, outside>>

\* initdb does not touch a directory that has files.
InitDb ==
    /\ Goto("init", "config")
    /\ new = Void
    /\ new' = Created
    /\ UNCHANGED <<dir, outside>>

\* The old configuration files, then every pg-bin-v<n>.
RestoreOldBinaries ==
    /\ Goto("config", "link")
    /\ new' = [new EXCEPT !.bins = dir.bins]
    /\ UNCHANGED <<dir, outside>>

\* pg_upgrade needs both servers; it fails on half a database.
PgUpgradeBegin ==
    /\ Goto("link", "linking")
    /\ dir.bins[dir.version] = "whole"
    /\ Whole(dir.gen)
    /\ new' = [new EXCEPT !.gen = Torn]
    /\ UNCHANGED <<dir, outside>>

\* The exit code of pg_upgrade is not looked at.
PgUpgradeUnchecked ==
    /\ Goto("linking", "remove")
    /\ \E g \in {dir.gen, Torn} : new' = [new EXCEPT !.gen = g]
    /\ UNCHANGED <<dir, outside>>

PgUpgradeEnd ==
    /\ Goto("linking", "remove")
    /\ new' = [new EXCEPT !.gen = dir.gen]
    /\ UNCHANGED <<dir, outside>>

\* RemoveAll of the old data directory: files go in any order.
RemoveBegin ==
    /\ Goto("remove", "removing")
    /\ \E version \in {0, dir.version}, bins \in {NoBins, dir.bins} :
          dir' = [version |-> version, gen |-> Torn, bins |-> bins]
    /\ UNCHANGED <<new, outside>>

RemoveEnd ==
    /\ Goto("removing", "rename")
    /\ dir' = Void
    /\ UNCHANGED <<new, outside>>

\* Rename does not replace a directory that has files.
Rename ==
    /\ Goto("rename", "done")
    /\ dir = Void
    /\ dir' = new
    /\ new' = Void
    /\ UNCHANGED outside

\* The process ends, by itself or killed.
Exit ==
    /\ pc' = "down"
    /\ job' = "idle"
    /\ spoilt' = FALSE

\* Upgrade returns an error whatever the environment does: the database is
\* newer than the binaries, pg_upgrade cannot do it, Rename finds files.
Blocked ==
    /\ \/ pc = "validate" /\ dir.version > image
       \/ pc = "link" /\ ~(dir.bins[dir.version] = "whole" /\ Whole(dir.gen))
       \/ pc = "rename" /\ dir # Void
    /\ Exit
    /\ UNCHANGED <<image, dir, new, dbc, latest, before, cutShort, cutSave, faults>>

\* An error before anything was changed is logged, and Upgrade returns nil.
Skip ==
    /\ pc \in {"validate", "clean", "init"}
    /\ Fault
    /\ pc' = "done"
    /\ new' \in {new, [new EXCEPT !.gen = Torn]}
    /\ cutShort' = TRUE
    /\ UNCHANGED <<image, dir, job, dbc, latest, before, cutSave, spoilt>>

\* What ends the process in the middle of a statement leaves half of it done.
LeftHalfDone ==
    \/ UNCHANGED dir
    \/ /\ \/ pc = "copy" \/ job = "copy"
          \/ pc = "save" /\ dir.bins[image] # "none"
       /\ \E c \in Interrupted : dir' = [dir EXCEPT !.bins[image] = c]
    \/ /\ pc \in {"linking", "remove"}
       /\ dir' = [dir EXCEPT !.gen = Torn]

CutOff ==
    /\ Exit
    /\ LeftHalfDone
    /\ cutShort' = (cutShort \/ pc \in Swap)
    /\ cutSave' = cutSave \cup
         {v \in {image} : pc \in {"save", "copy"} /\ dir'.bins[v] # "whole"}
    /\ UNCHANGED <<new, latest, before>>

\* Any other error of start, and a kill.
Fail ==
    /\ pc # "down"
    /\ Fault
    /\ CutOff
    /\ UNCHANGED <<image, dbc>>

-----------------------------------------------------------------------------
(* The sidecar serving.                                                    *)

\* probe.Start returns.
Serve ==
    /\ Goto("done", "serve")
    /\ dbc = "running"
    /\ UNCHANGED <<dir, new, outside>>

\* Backup does not save the binaries.
BackupWithoutBinaries ==
    /\ pc = "serve"
    /\ job = "idle"
    /\ job' = "dump"
    /\ UNCHANGED <<image, pc, dir, new, dbc, latest, history, faults>>

\* copyPostgresBinaries without override: pg_config stands for all of them.
BackupBegin ==
    /\ pc = "serve"
    /\ job = "idle"
    /\ IF HasPgConfig(dir.bins[image])
       THEN job' = "dump" /\ UNCHANGED dir
       ELSE job' = "copy" /\ dir' = [dir EXCEPT !.bins[image] = "none"]
    /\ UNCHANGED <<image, pc, new, dbc, latest, history, faults>>

BackupCopy ==
    /\ job = "copy"
    /\ job' = "dump"
    /\ dir' = [dir EXCEPT !.bins[image] = "whole"]
    /\ UNCHANGED <<image, pc, new, dbc, latest, history, faults>>

\* pg_basebackup takes all files of the data directory, and they are stored.
BackupStore ==
    /\ job = "dump"
    /\ dbc = "running"
    /\ job' = "idle"
    /\ latest' = dir
    /\ UNCHANGED <<image, pc, dir, new, dbc, history, faults>>

\* The error is logged or answered; the process goes on.  cp does not stop at
\* a file it cannot copy, and may have copied pg_config before or after it.
BackupFail ==
    /\ job # "idle"
    /\ Fault
    /\ job' = "idle"
    /\ \/ UNCHANGED dir
       \/ /\ job = "copy"
          /\ \E c \in Interrupted : dir' = [dir EXCEPT !.bins[image] = c]
    /\ spoilt' = (spoilt \/ (job = "copy" /\ HasPgConfig(dir'.bins[image])))
    /\ UNCHANGED <<image, pc, new, dbc, latest, before, cutShort, cutSave>>

-----------------------------------------------------------------------------
(* The rest of the pod.                                                    *)

sidecar == <<image, pc, new, job, latest, history>>

\* Any answer of the server will do.
PollAnyAnswer ==
    /\ dbc = "waiting"
    /\ pc # "down"
    /\ dbc' = "cleared"
    /\ UNCHANGED <<sidecar, dir, faults>>

\* wait.Start sees the status DONE.
Poll ==
    /\ dbc = "waiting"
    /\ pc \in {"done", "serve"}
    /\ dbc' = "cleared"
    /\ UNCHANGED <<sidecar, dir, faults>>

\* Postgres creates a database where there is no file, runs on files of its
\* own version, and ends at once otherwise.
DbStart ==
    /\ dbc = "cleared"
    /\ dir' = IF dir = Void THEN Created ELSE dir
    /\ dbc' = IF dir'.version = image /\ Whole(dir'.gen) THEN "running" ELSE "waiting"
    /\ UNCHANGED <<sidecar, faults>>

DbWrite ==
    /\ dbc = "running"
    /\ dir.gen < MaxGen
    /\ dir' = [dir EXCEPT !.gen = @ + 1]
    /\ UNCHANGED <<sidecar, dbc, faults>>

DbExit ==
    /\ dbc = "running"
    /\ Fault
    /\ dbc' = "waiting"
    /\ UNCHANGED <<sidecar, dir>>

\* The stateful set gets another image, newer or older, and the pod is replaced.
Redeploy ==
    /\ Fault
    /\ \E v \in Versions \ {image} : image' = v
    /\ CutOff
    /\ dbc' = "waiting"

\* The pod comes back with new volumes.
LoseVolume ==
    /\ Fault
    /\ Exit
    /\ dbc' = "waiting"
    /\ dir' = Void
    /\ new' = Void
    /\ cutSave' = {}
    /\ UNCHANGED <<image, latest, before, cutShort>>

-----------------------------------------------------------------------------
UpgradeStep ==
    \/ Stat \/ RemoveSaved \/ CopyBinaries \/ NoUpgrade \/ Proceed \/ Clean
    \/ InitDb \/ RestoreOldBinaries \/ PgUpgradeBegin \/ PgUpgradeEnd
    \/ RemoveBegin \/ RemoveEnd \/ Rename \/ Blocked

StartStep == Boot \/ Initialize \/ UpgradeStep \/ Serve

Next ==
    \/ StartStep \/ Skip \/ Fail
    \/ BackupBegin \/ BackupCopy \/ BackupStore \/ BackupFail
    \/ Poll \/ DbStart \/ DbWrite \/ DbExit \/ Redeploy \/ LoseVolume

Spec == Init /\ [][Next]_vars

\* The sidecar takes its next statement and is restarted when it ends, wait
\* polls, and a database that may start does.
Fairness == WF_vars(StartStep) /\ WF_vars(Poll) /\ WF_vars(DbStart)

FairSpec == Spec /\ Fairness

-----------------------------------------------------------------------------
(* Properties.                                                             *)

\* Whenever Upgrade returns nil, having done the upgrade, found it needless or
\* given it up, the data directory has all that it had when Upgrade began.
UpgradeDelivers ==
    [][pc # "done" /\ pc' = "done" /\ Whole(before)
         => Whole(dir'.gen) /\ before =< dir'.gen]_vars

\* The database runs on all that the latest backup has. The status that let it
\* start may be of an earlier Upgrade, so it might start in the middle of this
\* one, in the directory just emptied; it does once an upgrade was cut short.
NothingLost ==
    dbc = "running" /\ ~cutShort => latest = Void \/ latest.gen =< dir.gen

\* A backup that is stored brings the binaries of its version along, all of
\* them, so that it can be restored under a later image: whatever was killed,
\* restarted, restored or upgraded before.  The one exception is the process in
\* which a cp of Backup failed and pg_config was there: Backup asks for no more.
BackupUpgradable ==
    [][latest' # latest => latest'.bins[latest'.version] = "whole" \/ spoilt]_vars

\* The latest backup is of the version of the files, with all its binaries, and
\* no start of that version ended while it was saving them, or a later one did
\* save them.
Prepared ==
    /\ dir.version \in 1..latest.version
    /\ latest.bins[dir.version] = "whole"
    /\ dir.version \notin cutSave

\* A later image that is so prepared finds the old binaries in the data directory:
\* no image in between, no restore, no upgrade and no failing or killed copy has
\* taken them away.
OldBinariesKept ==
    Whole(dir.gen) /\ dir.version < image /\ Prepared
        => dir.bins[dir.version] = "whole"

Ready == dbc = "running" /\ pc = "serve" /\ dir.version = image

\* Whatever image comes and when, the database ends up running under it, unless
\* the image is older than the data, its upgrade was not prepared, an error was
\* logged and Upgrade gave up, or it was ended between pg_upgrade and Rename,
\* after which the data directory may be of no use to either version.
Upgraded ==
    <>[](Ready \/ cutShort \/ image < dir.version \/ (dir.version < image /\ ~Prepared))
=============================================================================
