---------------------------- MODULE Initializer ----------------------------
(***************************************************************************)
(* The sidecar's `start' process up to the moment it serves: the           *)
(* Initializer (cmd/internal/initializer) driven by the main goroutine,    *)
(* and the RestoreBackup calls its gRPC server, up from the first line of  *)
(* Start, runs beside it.  Main and the calls are Workers: each walks      *)
(* through Restore and the adapter's Recover on the same directories.      *)
(***************************************************************************)
EXTENDS Adapters, FiniteSets

CONSTANTS
    Engine,         \* the configured database
    HasKey,         \* is an encryption key configured?
    Main,           \* the main goroutine
    Rpc,            \* goroutines that serve RestoreBackup calls
    NoBackup,       \* "no backup version"
    RecoverFails,   \* may a step of Recover that writes the data dir fail?
    KillInRecover,  \* may the process die in such a step?
    MaxFaults       \* bound on errors, kills and losses in a behaviour

Workers == {Main} \cup Rpc
Backup == [date : Nat, gen : Data, sealed : BOOLEAN]

ASSUME InitializerAssumption ==
    /\ Engine \in Engines
    /\ {HasKey, RecoverFails, KillInRecover} \subseteq BOOLEAN
    /\ Main \notin Rpc
    /\ NoBackup \notin Backup
    /\ MaxFaults \in Nat

VARIABLES
    status,     \* currentStatus.Status, what the wait container polls
    main,       \* the statement of start's RunE the main goroutine is at
    step,       \* per worker: the statement of Restore or Recover it is at
    goal,       \* per worker: the backup it restores
    file,       \* the download file, per suffix: TRUE is the .aes name
    staged,     \* content of RestoreDir
    data,       \* content of the database's data directory
    bucket,     \* the backup versions in the provider's store
    faults      \* errors, kills and losses so far

memory == <<status, main, step, goal>>
disk == <<file, staged, data>>
initVars == <<memory, disk, bucket, faults>>

db == AdapterOf[Engine]

Statuses == {"CHECKING", "RESTORING", "UPGRADING", "DONE"}

Touching == {"wiping", "filling", "mixing", "doomed"}
Steps == {"idle", "clean", "open", "download", "decrypt", "unpack",
          "recover", "fill", "restored"} \cup Touching

MainSteps == {"down", "ensure", "check", "list", "restore", "upgrade",
              "upgrading", "probe", "serve"}

\* A download file: whose open handle the name leads to, and the backup whose
\* bytes it holds (NoBackup: not all of any).
File == [by : SUBSET Workers, of : Backup \cup {NoBackup}]
AbsentFile == [by |-> {}, of |-> NoBackup]

Idle == [w \in Workers |-> "idle"]
NoGoal == [w \in Workers |-> NoBackup]

InitializerTypeOK ==
    /\ status \in Statuses
    /\ main \in MainSteps
    /\ step \in [Workers -> Steps]
    /\ goal \in [Workers -> Backup \cup {NoBackup}]
    /\ file \in [BOOLEAN -> File]
    /\ staged \in Data
    /\ data \in Data
    /\ bucket \subseteq Backup
    /\ faults \in 0..MaxFaults
    /\ \A w \in Workers : (step[w] = "idle") <=> (goal[w] = NoBackup)
    /\ (main = "restore") <=> (step[Main] # "idle")
    /\ main = "down" => step = Idle

(* A sidecar that was never started, next to a volume without data.        *)
InitializerInit ==
    /\ status = "CHECKING"
    /\ main = "down"
    /\ step = Idle
    /\ goal = NoGoal
    /\ file = [s \in BOOLEAN |-> AbsentFile]
    /\ staged = Empty
    /\ data = Empty
    /\ faults = 0

-----------------------------------------------------------------------------
(* The main goroutine: start's RunE, Initializer.Start and initialize.     *)

ServerUp == main # "down"

\* Pre-exec commands, New, net.Listen, and the gRPC server is up.
Boot ==
    /\ main = "down"
    /\ main' = "ensure"
    /\ UNCHANGED <<status, step, goal, disk, bucket, faults>>

\* MkdirAll, EnsureBackupBucket, MkdirAll, then the status.
Ensure ==
    /\ main = "ensure"
    /\ main' = "check"
    /\ status' = "CHECKING"
    /\ UNCHANGED <<step, goal, disk, bucket, faults>>

Check ==
    /\ main = "check"
    /\ main' = IF NeedsRestore(data) THEN "list" ELSE "upgrade"
    /\ UNCHANGED <<status, step, goal, disk, bucket, faults>>

\* `latestBackup == nil' is not tested for.
FreshDatabaseUntested ==
    /\ main = "list"
    /\ bucket = {}
    /\ main' = "restore"
    /\ status' = "RESTORING"
    /\ step' = [step EXCEPT ![Main] = "clean"]
    /\ UNCHANGED <<goal, disk, bucket, faults>>

\* A latest backup that cannot be decrypted counts as none.
FreshDatabaseUnsealed ==
    /\ main = "list"
    /\ \A b \in bucket : b.sealed /\ ~HasKey
    /\ main' = "upgrade"
    /\ UNCHANGED <<status, step, goal, disk, bucket, faults>>

FreshDatabase ==
    /\ main = "list"
    /\ bucket = {}
    /\ main' = "upgrade"
    /\ UNCHANGED <<status, step, goal, disk, bucket, faults>>

\* Latest with the sort order turned round: the oldest version.
IsOldest(b) ==
    /\ b \in bucket
    /\ \A c \in bucket : b.date =< c.date

IsLatest(b) ==
    /\ b \in bucket
    /\ \A c \in bucket : c.date =< b.date

CanOpen(b) == HasKey \/ ~b.sealed

\* Restore's first lines: the status, then on to the directories.
Enter(w, b) ==
    /\ status' = "RESTORING"
    /\ step' = [step EXCEPT ![w] = "clean"]
    /\ goal' = [goal EXCEPT ![w] = b]

RestoreLatest ==
    /\ main = "list"
    /\ \E b \in bucket :
        /\ IsLatest(b)
        /\ CanOpen(b)
        /\ Enter(Main, b)
    /\ main' = "restore"
    /\ UNCHANGED <<disk, bucket, faults>>

\* Restore returned nil to initialize.
Restored ==
    /\ step[Main] = "restored"
    /\ main' = "upgrade"
    /\ step' = [step EXCEPT ![Main] = "idle"]
    /\ goal' = [goal EXCEPT ![Main] = NoBackup]
    /\ UNCHANGED <<status, disk, bucket, faults>>

BeginUpgrade ==
    /\ main = "upgrade"
    /\ main' = "upgrading"
    /\ status' = "UPGRADING"
    /\ UNCHANGED <<step, goal, disk, bucket, faults>>

\* Start returns without the final status.
PublishNothing ==
    /\ main = "upgrading"
    /\ main' = "probe"
    /\ UNCHANGED <<status, step, goal, disk, bucket, faults>>

Publish ==
    /\ main = "upgrading"
    /\ main' = "probe"
    /\ status' = "DONE"
    /\ UNCHANGED <<step, goal, disk, bucket, faults>>

-----------------------------------------------------------------------------
(* Restore and Recover, by any worker.                                     *)

Fault == faults < MaxFaults /\ faults' = faults + 1

\* Whoever is copying while another worker changes the directories it copies
\* from or to ends up with files of both.
MoveOn(w, to) ==
    step' = [v \in Workers |-> IF v = w THEN to
                               ELSE IF step[v] = "filling" THEN "mixing"
                               ELSE step[v]]

\* RemoveAll and MkdirAll of RestoreDir.
Clean(w) ==
    /\ step[w] = "clean"
    /\ MoveOn(w, "open")
    /\ staged' = Empty
    /\ UNCHANGED <<status, main, goal, file, data, bucket, faults>>

\* RemoveAll and Create of the download file: the name now leads to w's handle.
Open(w) ==
    /\ step[w] = "open"
    /\ step' = [step EXCEPT ![w] = "download"]
    /\ file' = [file EXCEPT ![goal[w].sealed] = [by |-> {w}, of |-> NoBackup]]
    /\ UNCHANGED <<status, main, goal, staged, data, bucket, faults>>

\* DownloadBackup writes through w's handle; another worker that opened the
\* same name since has unlinked what w writes to.
Download(w) ==
    LET s == goal[w].sealed IN
    /\ step[w] = "download"
    /\ goal[w] \in bucket
    /\ step' = [step EXCEPT ![w] = IF s /\ HasKey THEN "decrypt" ELSE "unpack"]
    /\ file' = [file EXCEPT ![s] = IF w \in @.by THEN [by |-> @.by, of |-> goal[w]] ELSE @]
    /\ UNCHANGED <<status, main, goal, staged, data, bucket, faults>>

\* Decrypt writes to the plain name and removes the sealed one.  A plain file that
\* is there is opened as it is: an older handle still leads to it.
Decrypt(w) ==
    /\ step[w] = "decrypt"
    /\ file[TRUE].of # NoBackup
    /\ step' = [step EXCEPT ![w] = "unpack"]
    /\ file' = [s \in BOOLEAN |->
                  IF s THEN AbsentFile ELSE [file[s] EXCEPT !.of = file[TRUE].of]]
    /\ UNCHANGED <<status, main, goal, staged, data, bucket, faults>>

\* The plain name Decompress is given; without a key it is the sealed file.
Archive(w) == file[goal[w].sealed /\ ~HasKey].of

\* Decompress refuses to overwrite, and cannot read a sealed or partial file.
CanUnpack(w) ==
    /\ CanOpen(goal[w])
    /\ Archive(w) # NoBackup
    /\ staged = Empty

Unpack(w) ==
    /\ step[w] = "unpack"
    /\ CanUnpack(w)
    /\ MoveOn(w, "recover")
    /\ staged' = Archive(w).gen
    /\ UNCHANGED <<status, main, goal, file, data, bucket, faults>>

\* The data directory is not emptied before it is filled.
RecoverKeepingData(w) ==
    /\ step[w] = "recover"
    /\ Accepts(db, staged)
    /\ step' = [step EXCEPT ![w] = "fill"]
    /\ UNCHANGED <<status, main, goal, disk, bucket, faults>>

\* Recover starts: stat of the dump, and RemoveContents where there is one.
Recover(w) ==
    /\ step[w] = "recover"
    /\ Accepts(db, staged)
    /\ IF db.wipes
       THEN /\ MoveOn(w, "wiping")
            /\ data' = IF data = Empty THEN Empty ELSE Torn
       ELSE /\ step' = [step EXCEPT ![w] = "fill"]
            /\ UNCHANGED data
    /\ UNCHANGED <<status, main, goal, file, staged, bucket, faults>>

Wiped(w) ==
    /\ step[w] = "wiping"
    /\ MoveOn(w, "fill")
    /\ data' = Empty
    /\ UNCHANGED <<status, main, goal, file, staged, bucket, faults>>

\* Begins to fill what is there: tar, etcdutl and Copy write into it, whatever it
\* is.  A private rethinkdb comes up on it, unless it cannot or another is up, and
\* rethinkdb-restore refuses a database with tables.
Beginnings(w) ==
    IF data = Empty THEN {"filling"}
    ELSE IF db.wipes THEN {"mixing"}
    ELSE {"doomed"} \cup
         IF \E v \in Workers \ {w} : step[v] \in {"filling", "mixing"} THEN {"mixing"}
         ELSE {x \in {"filling"} : data \in {0, Torn}}

\* The first file appears.
FillBegin(w) ==
    /\ step[w] = "fill"
    /\ \E to \in Beginnings(w) :
        /\ MoveOn(w, to)
        /\ data' = IF to = "doomed" THEN data ELSE Torn
    /\ UNCHANGED <<status, main, goal, file, staged, bucket, faults>>

\* Recover returns nil.
FillEnd(w) ==
    /\ step[w] \in {"filling", "mixing"}
    /\ step' = [step EXCEPT ![w] = "restored"]
    /\ data' = IF step[w] = "filling" THEN staged ELSE Torn
    /\ staged' = IF db.consumes THEN Empty ELSE staged
    /\ UNCHANGED <<status, main, goal, file, bucket, faults>>

RestoreStep(w) ==
    \/ Clean(w) \/ Open(w) \/ Download(w) \/ Decrypt(w) \/ Unpack(w)
    \/ Recover(w) \/ Wiped(w) \/ FillBegin(w) \/ FillEnd(w)

-----------------------------------------------------------------------------
(* RestoreBackup calls.                                                    *)

RestoreBackup(r) ==
    /\ ServerUp
    /\ step[r] = "idle"
    /\ \E b \in bucket : Enter(r, b)
    /\ UNCHANGED <<main, disk, bucket, faults>>

\* The answer leaves the call's version set.
AnswerKeepingGoal(r) ==
    /\ step[r] = "restored"
    /\ step' = [step EXCEPT ![r] = "idle"]
    /\ UNCHANGED <<status, main, goal, disk, bucket, faults>>

\* The answer, success or error: no status follows RESTORING.
Answer(r) ==
    /\ step[r] = "restored"
    /\ step' = [step EXCEPT ![r] = "idle"]
    /\ goal' = [goal EXCEPT ![r] = NoBackup]
    /\ UNCHANGED <<status, main, disk, bucket, faults>>

-----------------------------------------------------------------------------
(* Errors and kills.                                                       *)

\* The process ends, and the gRPC goroutines with it.
Exit ==
    /\ main' = "down"
    /\ status' = "CHECKING"
    /\ step' = Idle
    /\ goal' = NoGoal

\* Restore of w returns an error: Main ends the process, a call answers it.
\* An error late in Recover purges the data directory where the adapter does.
ReturnError(w) ==
    /\ IF w = Main
       THEN Exit
       ELSE /\ step' = [step EXCEPT ![w] = "idle"]
            /\ goal' = [goal EXCEPT ![w] = NoBackup]
            /\ UNCHANGED <<status, main>>
    /\ data' = IF db.purges /\ step[w] \in {"fill"} \cup Touching
               THEN Empty ELSE data
    /\ staged' \in {staged} \cup {x \in {Torn} : step[w] = "unpack"}
    /\ UNCHANGED <<file, bucket>>

\* What makes a step of Restore fail whatever the environment does.
Blocked(w) ==
    /\ \/ step[w] = "download" /\ goal[w] \notin bucket
       \/ step[w] = "decrypt" /\ file[TRUE].of = NoBackup
       \/ step[w] = "unpack" /\ ~CanUnpack(w)
       \/ step[w] = "recover" /\ ~Accepts(db, staged)
       \/ step[w] = "doomed"
    /\ ReturnError(w)
    /\ UNCHANGED faults

\* An I/O error, a failing provider or tool.
Fail(w) ==
    /\ step[w] \notin {"idle", "restored"}
    /\ step[w] \in Touching => RecoverFails
    /\ Fault
    /\ ReturnError(w)

\* "latest backup is encrypted, but no encryption/decryption is configured"
RefuseSealed ==
    /\ main = "list"
    /\ \E b \in bucket : IsLatest(b) /\ ~CanOpen(b)
    /\ Exit
    /\ UNCHANGED <<disk, bucket, faults>>

\* Any other call of initialize, Upgrade or probe.Start returns an error.
Abort ==
    /\ main \notin {"down", "restore", "serve"}
    /\ Fault
    /\ Exit
    /\ UNCHANGED <<disk, bucket>>

Kill ==
    /\ ServerUp
    /\ (\E w \in Workers : step[w] \in Touching) => KillInRecover
    /\ Fault
    /\ Exit
    /\ staged' \in {staged} \cup
                   {x \in {Torn} : \E w \in Workers : step[w] = "unpack"}
    /\ UNCHANGED <<file, data, bucket>>

-----------------------------------------------------------------------------
MainStep ==
    \/ Boot \/ Ensure \/ Check \/ FreshDatabase \/ RestoreLatest \/ Restored
    \/ BeginUpgrade \/ Publish \/ RefuseSealed

InitializerNext ==
    \/ MainStep \/ Abort \/ Kill
    \/ \E w \in Workers : RestoreStep(w) \/ Blocked(w) \/ Fail(w)
    \/ \E r \in Rpc : RestoreBackup(r) \/ Answer(r)
=============================================================================
