----------------------------- MODULE PodProofs -----------------------------
(***************************************************************************)
(* Theorems about Pod, for every engine, every set of RestoreBackup calls  *)
(* and every value of the bounds unless an assumption says otherwise.      *)
(***************************************************************************)
EXTENDS Pod, FiniteSetTheorems, TLAPS

USE DEF Workers

-----------------------------------------------------------------------------
(* Type correctness.                                                       *)

LEMMA InitTyped == Init => TypeOK
  <1> SUFFICES ASSUME Init PROVE TypeOK
    OBVIOUS
  <1>1. InitializerTypeOK
    BY InitializerAssumption
    DEF Init, InitializerInit, InitializerTypeOK, Idle, NoGoal, AbsentFile,
        File, Statuses, MainSteps, Steps, Data, Backup
  <1> QED
    BY <1>1, PodAssumption DEF Init, TypeOK, DbStates, InitializerTypeOK

LEMMA MainTyped ==
    ASSUME TypeOK, MainStep, UNCHANGED <<dbc, clock>>
    PROVE  TypeOK'
  <1> USE DEF TypeOK, InitializerTypeOK, Statuses, MainSteps, Steps, Touching, disk, DbStates
  <1>1. CASE Boot
    BY <1>1 DEF Boot
  <1>2. CASE Ensure
    BY <1>2 DEF Ensure
  <1>3. CASE Check
    BY <1>3 DEF Check
  <1>4. CASE FreshDatabase
    BY <1>4 DEF FreshDatabase
  <1>5. CASE RestoreLatest
    BY <1>5, InitializerAssumption DEF RestoreLatest, Enter
  <1>6. CASE Restored
    BY <1>6 DEF Restored
  <1>7. CASE BeginUpgrade
    BY <1>7 DEF BeginUpgrade
  <1>8. CASE Publish
    BY <1>8 DEF Publish
  <1>9. CASE RefuseSealed
    BY <1>9 DEF RefuseSealed, Exit, Idle, NoGoal
  <1> QED
    BY <1>1, <1>2, <1>3, <1>4, <1>5, <1>6, <1>7, <1>8, <1>9 DEF MainStep

\* What Decrypt and the beginning of the fill lead to.
LEMMA DecryptedFile ==
    ASSUME TypeOK, NEW w \in Workers, Decrypt(w)
    PROVE  file'[FALSE].of = file[TRUE].of /\ file' \in [BOOLEAN -> File]
  BY DEF Decrypt, TypeOK, InitializerTypeOK, File, AbsentFile

LEMMA FillBegun ==
    ASSUME TypeOK, NEW w \in Workers, FillBegin(w)
    PROVE  \E to \in {"filling", "mixing", "doomed"} :
             /\ step[w] = "fill" /\ MoveOn(w, to)
             /\ data' = IF to = "doomed" THEN data ELSE Torn
             /\ data = Empty => to = "filling"
             /\ data # Empty /\ ~db.wipes /\ to = "mixing"
                  => \E v \in Workers \ {w} : step[v] # "idle"
             /\ UNCHANGED <<status, main, goal, file, staged, bucket, faults>>
  <1>1. PICK to \in Beginnings(w) :
          step[w] = "fill" /\ MoveOn(w, to) /\ data' = IF to = "doomed" THEN data ELSE Torn
    BY DEF FillBegin
  <1>2. UNCHANGED <<status, main, goal, file, staged, bucket, faults>>
    BY DEF FillBegin
  <1>3. to \in {"filling", "mixing", "doomed"} /\ (data = Empty => to = "filling")
    BY <1>1 DEF Beginnings
  <1>4. data # Empty /\ ~db.wipes /\ to = "mixing"
          => \E v \in Workers \ {w} : step[v] # "idle"
    BY <1>1 DEF Beginnings
  <1> QED
    BY <1>1, <1>2, <1>3, <1>4

LEMMA RestoreTyped ==
    ASSUME TypeOK, NEW w \in Workers, RestoreStep(w), UNCHANGED <<dbc, clock>>
    PROVE  TypeOK'
  <1> USE DEF TypeOK, InitializerTypeOK, Steps, Touching, MoveOn, Idle
  <1>1. CASE Clean(w)
    BY <1>1 DEF Clean, Data
  <1>2. CASE Open(w)
    BY <1>2 DEF Open, File, Backup
  <1>3. CASE Download(w)
    BY <1>3 DEF Download, File, Backup
  <1>4. CASE Decrypt(w)
    BY <1>4, DecryptedFile DEF Decrypt
  <1>5. CASE Unpack(w)
    <2>1. Archive(w) \in Backup
      BY <1>5, InitializerAssumption DEF Unpack, CanUnpack, Archive, File, CanOpen, Backup
    <2> QED
      BY <1>5, <2>1 DEF Unpack, Backup
  <1>6. CASE Recover(w)
    BY <1>6 DEF Recover, Data
  <1>7. CASE Wiped(w)
    BY <1>7 DEF Wiped, Data
  <1>8. CASE FillBegin(w)
    <2>1. PICK to \in {"filling", "mixing", "doomed"} :
            /\ step[w] = "fill" /\ MoveOn(w, to)
            /\ data' = IF to = "doomed" THEN data ELSE Torn
            /\ UNCHANGED <<status, main, goal, file, staged, bucket, faults>>
      BY <1>8, FillBegun
    <2> QED
      BY <2>1 DEF Data
  <1>9. CASE FillEnd(w)
    BY <1>9 DEF FillEnd, Data
  <1> QED
    BY <1>1, <1>2, <1>3, <1>4, <1>5, <1>6, <1>7, <1>8, <1>9 DEF RestoreStep

LEMMA ErrorTyped ==
    ASSUME TypeOK, NEW w \in Workers, ReturnError(w), faults' \in 0..MaxFaults,
           step[w] # "idle", UNCHANGED <<dbc, clock>>
    PROVE  TypeOK'
  BY DEF TypeOK, InitializerTypeOK, ReturnError, Exit, Idle, NoGoal, Statuses,
         MainSteps, Steps, Data

LEMMA FaultTyped ==
    ASSUME TypeOK, Fault
    PROVE  faults' \in 0..MaxFaults
  BY InitializerAssumption DEF TypeOK, InitializerTypeOK, Fault

LEMMA InitializerTyped ==
    ASSUME TypeOK, Sidecar
    PROVE  TypeOK'
  <1> USE DEF TypeOK, InitializerTypeOK
  <1>1. CASE MainStep
    BY <1>1, MainTyped DEF Sidecar
  <1>2. CASE Abort
    BY <1>2, FaultTyped DEF Abort, Exit, Idle, NoGoal, Statuses, MainSteps,
                            Steps, disk, Sidecar
  <1>3. CASE Kill
    BY <1>3, FaultTyped DEF Kill, Exit, Idle, NoGoal, Statuses, MainSteps,
                            Steps, Data, Sidecar
  <1>4. ASSUME NEW w \in Workers, RestoreStep(w) \/ Blocked(w) \/ Fail(w)
        PROVE  TypeOK'
    <2>1. CASE RestoreStep(w)
      BY <2>1, RestoreTyped DEF Sidecar
    <2>2. CASE Blocked(w)
      BY <2>2, ErrorTyped DEF Blocked, Sidecar
    <2>3. CASE Fail(w)
      BY <2>3, ErrorTyped, FaultTyped DEF Fail, Sidecar
    <2> QED
      BY <1>4, <2>1, <2>2, <2>3
  <1>5. ASSUME NEW r \in Rpc, RestoreBackup(r) \/ Answer(r)
        PROVE  TypeOK'
    <2>1. CASE RestoreBackup(r)
      BY <2>1, InitializerAssumption DEF RestoreBackup, Enter, ServerUp, Statuses,
         Steps, disk, Sidecar
    <2>2. CASE Answer(r)
      BY <2>2, InitializerAssumption DEF Answer, Steps, disk, Idle, Sidecar
    <2> QED
      BY <1>5, <2>1, <2>2
  <1> QED
    BY <1>1, <1>2, <1>3, <1>4, <1>5 DEF Sidecar, InitializerNext

LEMMA NextTyped ==
    ASSUME TypeOK, [Next]_vars
    PROVE  TypeOK'
  <1> USE DEF TypeOK, InitializerTypeOK
  <1>1. CASE Sidecar
    BY <1>1, InitializerTyped
  <1>2. CASE Probe
    BY <1>2 DEF Probe, MainSteps, disk
  <1>3. CASE CreateBackup
    BY <1>3, PodAssumption, InitializerAssumption
    DEF CreateBackup, memory, disk, Backup
  <1>4. CASE Expire
    BY <1>4 DEF Expire, memory, disk
  <1>5. CASE Wait /\ Poll
    BY <1>5 DEF Wait, Poll, DbStates, memory, disk
  <1>6. CASE Wait /\ InterruptWait
    BY <1>6, FaultTyped DEF Wait, InterruptWait, DbStates, memory, disk
  <1>7. CASE DbStart
    BY <1>7 DEF DbStart, DbStates, memory, Data
  <1>8. CASE DbWrite
    BY <1>8 DEF DbWrite, DbAnswers, Whole, memory, Data
  <1>9. CASE DbExit
    BY <1>9, FaultTyped DEF DbExit, DbStates, memory, disk
  <1>10. CASE LoseVolume
    BY <1>10, FaultTyped
    DEF LoseVolume, Exit, Idle, NoGoal, AbsentFile, File, Statuses, MainSteps,
        Steps, Data, DbStates
  <1>11. CASE UNCHANGED vars
    BY <1>11 DEF vars, initVars, memory, disk
  <1> QED
    BY <1>1, <1>2, <1>3, <1>4, <1>5, <1>6, <1>7, <1>8, <1>9, <1>10, <1>11
    DEF Next, Wait

\* The variables keep their types; a worker has a version to restore exactly
\* while it is inside Restore, and Main is inside Restore exactly when
\* initialize is (initializer.go, Start, initialize, Restore).
THEOREM TypeCorrect == Spec => []TypeOK
  <1>1. Init => TypeOK
    BY InitTyped
  <1>2. TypeOK /\ [Next]_vars => TypeOK'
    BY NextTyped
  <1> QED
    BY <1>1, <1>2, PTL DEF Spec

-----------------------------------------------------------------------------
(* Safety of the automatic restore.                                        *)

(***************************************************************************)
(* Under which circumstances it is safe: the database is a server, nobody  *)
(* restores or backs up by hand, wait is not interrupted, and no error or  *)
(* kill leaves a partial recovery in the data directory.  Each of them is  *)
(* needed: a run shows what happens without it.                            *)
(***************************************************************************)
Undisturbed ==
    /\ db.needsServer = TRUE
    /\ Rpc = {}
    /\ EarlyBackup = FALSE
    /\ Interrupts = FALSE
    /\ KillInRecover = FALSE
    /\ RecoverFails => db.purges

\* No stored backup holds more than g does.
Dominates(g) == g \in Nat /\ \A b \in bucket : b.gen =< g

\* Backups are of whole databases, and a later one holds no less.
StoreInv ==
    /\ \A b \in bucket : b.gen \in Nat
    /\ \A b, c \in bucket : b.date =< c.date => b.gen =< c.gen
    /\ \A b, c \in bucket : b.date = c.date => b = c

\* Whole data is no older than any backup.
DataInv == Whole(data) => \A b \in bucket : b.gen =< data

\* What the initializer has let through: data, or no backup to take it from.
Admitted == data # Torn /\ (data = Empty => bucket = {})

AdmittedInv ==
    dbc # "waiting" \/ main \in {"upgrade", "upgrading", "probe", "serve"}
        => Admitted

StatusInv == status = "DONE" => main \in {"probe", "serve"}

\* Between Check and the choice of the latest backup.
ListInv == main = "list" /\ bucket # {} => dbc = "waiting" /\ data = Empty

\* While Main restores: the database waits, the directory is empty up to the
\* fill, and each directory holds the chosen backup from its statement on.
RestoreInv ==
    main = "restore" =>
        LET g == goal[Main] IN
        /\ dbc = "waiting"
        /\ IsLatest(g)
        /\ Dominates(g.gen)
        /\ step[Main] \notin {"mixing", "doomed"}
        /\ step[Main] \notin {"filling", "restored"} => data = Empty
        /\ step[Main] = "download" => Main \in file[g.sealed].by
        /\ step[Main] = "decrypt" => g.sealed /\ HasKey /\ file[TRUE].of = g
        /\ step[Main] = "unpack" => file[g.sealed /\ ~HasKey].of = g
        /\ step[Main] \in {"recover", "wiping", "fill", "filling"} => staged = g.gen
        /\ step[Main] = "filling" => data = Torn
        /\ step[Main] = "restored" => data = g.gen

\* Data is torn only while Main fills the directory.
TornInv == data = Torn => main = "restore" /\ step[Main] = "filling"

Inv ==
    /\ TypeOK
    /\ StoreInv
    /\ DataInv
    /\ AdmittedInv
    /\ StatusInv
    /\ ListInv
    /\ RestoreInv
    /\ TornInv

LEMMA InitSafe == Init => Inv
  <1> SUFFICES ASSUME Init PROVE Inv
    OBVIOUS
  <1> USE ContentsDiffer DEF Init, InitializerInit, Idle
  <1>1. TypeOK
    BY InitTyped
  <1>2. StoreInv
    BY DEF StoreInv
  <1>3. DataInv /\ AdmittedInv /\ StatusInv /\ ListInv /\ RestoreInv /\ TornInv
    BY DEF DataInv, Whole, AdmittedInv, StatusInv, ListInv, RestoreInv, TornInv
  <1> QED
    BY <1>1, <1>2, <1>3 DEF Inv

\* Steps of the main goroutine outside Restore.
LEMMA MainSafe ==
    ASSUME Undisturbed, Inv, TypeOK', MainStep, UNCHANGED <<dbc, clock>>
    PROVE  Inv'
  <1> USE ContentsDiffer DEF Inv, StoreInv, DataInv, AdmittedInv, Admitted, StatusInv,
          ListInv, RestoreInv, TornInv, disk, Dominates, IsLatest, Whole
  <1>1. CASE Boot
    BY <1>1 DEF Boot
  <1>2. CASE Ensure
    BY <1>2 DEF Ensure
  <1>3. CASE Check
    BY <1>3 DEF Check, NeedsRestore
  <1>4. CASE FreshDatabase
    BY <1>4 DEF FreshDatabase
  <1>5. CASE RestoreLatest
    <2>1. PICK b \in bucket : IsLatest(b) /\ Enter(Main, b)
      BY <1>5 DEF RestoreLatest
    <2>2. Dominates(b.gen)
      BY <2>1 DEF IsLatest, TypeOK, InitializerTypeOK, Backup
    <2>3. goal'[Main] = b /\ step'[Main] = "clean" /\ bucket' = bucket
      BY <1>5, <2>1 DEF RestoreLatest, Enter, TypeOK, InitializerTypeOK
    <2>4. RestoreInv'
      <3>1. dbc' = "waiting" /\ data' = Empty
        BY <1>5 DEF RestoreLatest
      <3>2. IsLatest(goal[Main])' /\ Dominates(goal[Main].gen)'
        BY <2>1, <2>2, <2>3
      <3> QED
        BY <2>3, <3>1, <3>2
    <2> QED
      BY <1>5, <2>1, <2>4 DEF RestoreLatest, Enter
  <1>6. CASE Restored
    BY <1>6 DEF Restored, TypeOK, InitializerTypeOK
  <1>7. CASE BeginUpgrade
    BY <1>7 DEF BeginUpgrade
  <1>8. CASE Publish
    BY <1>8 DEF Publish
  <1>9. CASE RefuseSealed
    BY <1>9 DEF RefuseSealed, Exit, TypeOK, InitializerTypeOK
  <1> QED
    BY <1>1, <1>2, <1>3, <1>4, <1>5, <1>6, <1>7, <1>8, <1>9 DEF MainStep

\* Steps of Restore and Recover: Main's, as there are no calls.
LEMMA RestoreSafe ==
    ASSUME Undisturbed, Inv, TypeOK', RestoreStep(Main), UNCHANGED <<dbc, clock>>
    PROVE  Inv'
  <1> USE ContentsDiffer DEF Inv, StoreInv, DataInv, AdmittedInv, Admitted, StatusInv,
          ListInv, RestoreInv, TornInv, Dominates, IsLatest, Whole, MoveOn,
          TypeOK, InitializerTypeOK
  <1>1. CASE Clean(Main)
    BY <1>1 DEF Clean
  <1>2. CASE Open(Main)
    BY <1>2 DEF Open, Backup
  <1>3. CASE Download(Main)
    <2> DEFINE g == goal[Main]
    <2>1. /\ step[Main] = "download" /\ main = "restore" /\ goal' = goal
          /\ step'[Main] = IF g.sealed /\ HasKey THEN "decrypt" ELSE "unpack"
      BY <1>3 DEF Download
    <2>2. g \in Backup /\ Main \in file[g.sealed].by
      BY <2>1
    <2>3. file'[g.sealed].of = g
      BY <1>3, <2>2 DEF Download, Backup
    <2>4. RestoreInv'
      <3>1. CASE g.sealed /\ HasKey
        <4>1. g.sealed = TRUE
          BY <2>2, <3>1 DEF Backup
        <4> QED
          BY <1>3, <2>1, <2>3, <3>1, <4>1 DEF Download
      <3>2. CASE ~(g.sealed /\ HasKey)
        <4>1. (g.sealed /\ ~HasKey) = g.sealed
          BY <2>2, <3>2, InitializerAssumption DEF Backup
        <4> QED
          BY <1>3, <2>1, <2>3, <3>2, <4>1 DEF Download
      <3> QED
        BY <3>1, <3>2
    <2> QED
      BY <1>3, <2>1, <2>4 DEF Download
  <1>4. CASE Decrypt(Main)
    <2>1. step[Main] = "decrypt" /\ step'[Main] = "unpack" /\ goal' = goal
      BY <1>4 DEF Decrypt
    <2>2. main = "restore" /\ HasKey /\ file[TRUE].of = goal[Main]
      BY <2>1
    <2>3. file'[FALSE].of = goal[Main]
      BY <1>4, <2>2, DecryptedFile
    <2>4. (goal[Main].sealed /\ ~HasKey) = FALSE
      BY <2>2
    <2>5. RestoreInv'
      BY <1>4, <2>1, <2>2, <2>3, <2>4 DEF Decrypt
    <2> QED
      BY <1>4, <2>1, <2>5 DEF Decrypt
  <1>5. CASE Unpack(Main)
    BY <1>5 DEF Unpack, Archive
  <1>6. CASE Recover(Main)
    BY <1>6 DEF Recover
  <1>7. CASE Wiped(Main)
    BY <1>7 DEF Wiped
  <1>8. CASE FillBegin(Main)
    <2>1. PICK to \in {"filling", "mixing", "doomed"} :
            /\ step[Main] = "fill" /\ MoveOn(Main, to)
            /\ data' = IF to = "doomed" THEN data ELSE Torn
            /\ data = Empty => to = "filling"
            /\ UNCHANGED <<status, main, goal, file, staged, bucket, faults>>
      BY <1>8, FillBegun
    <2>2. main = "restore" /\ to = "filling"
      BY <2>1
    <2> QED
      BY <1>8, <2>1, <2>2 DEF MoveOn
  <1>9. CASE FillEnd(Main)
    BY <1>9 DEF FillEnd
  <1> QED
    BY <1>1, <1>2, <1>3, <1>4, <1>5, <1>6, <1>7, <1>8, <1>9 DEF RestoreStep

\* Errors and kills leave the data directory empty or whole.
LEMMA ErrorSafe ==
    ASSUME Undisturbed, Inv, TypeOK', Blocked(Main) \/ Fail(Main),
           UNCHANGED <<dbc, clock>>
    PROVE  Inv'
  <1> USE ContentsDiffer DEF Inv, TypeOK, InitializerTypeOK
  <1>1. step[Main] # "idle" /\ ReturnError(Main)
    BY DEF Blocked, Fail
  <1>2. main = "restore"
    BY <1>1
  <1>3. step[Main] = "filling" => db.purges
    BY DEF Blocked, Fail, Undisturbed, Touching
  <1>4. data' = data \/ data' = Empty
    BY <1>1 DEF ReturnError
  <1>5. data' # Torn
    BY <1>1, <1>2, <1>3, <1>4 DEF ReturnError, TornInv, Touching
  <1>6. main' = "down" /\ status' = "CHECKING" /\ bucket' = bucket
    BY <1>1 DEF ReturnError, Exit
  <1>7. dbc' = "waiting"
    BY <1>2 DEF RestoreInv
  <1> QED
    BY <1>4, <1>5, <1>6, <1>7
    DEF StoreInv, DataInv, AdmittedInv, StatusInv, ListInv, RestoreInv,
        TornInv, Whole

LEMMA ExitSafe ==
    ASSUME Undisturbed, Inv, TypeOK', Abort \/ Kill, UNCHANGED <<dbc, clock>>
    PROVE  Inv'
  <1> USE ContentsDiffer DEF Inv, TypeOK, InitializerTypeOK
  <1>1. /\ main' = "down" /\ status' = "CHECKING"
        /\ bucket' = bucket /\ data' = data
    BY DEF Abort, Kill, Exit, disk
  <1>2. data # Torn
    BY DEF Abort, Kill, Undisturbed, TornInv, Touching
  <1> QED
    BY <1>1, <1>2
    DEF StoreInv, DataInv, AdmittedInv, Admitted, StatusInv, ListInv,
        RestoreInv, TornInv, Whole

LEMMA SidecarSafe ==
    ASSUME Undisturbed, Inv, TypeOK', Sidecar
    PROVE  Inv'
  <1>1. \A w \in Workers : w = Main
    BY DEF Undisturbed
  <1> QED
    BY <1>1, MainSafe, RestoreSafe, ErrorSafe, ExitSafe
    DEF Sidecar, InitializerNext, Undisturbed

\* What the store drops has been superseded.
LEMMA ExpiredIsNotLatest ==
    ASSUME Expire
    PROVE  \E b \in bucket : /\ bucket' = bucket \ {b}
                             /\ \E c \in bucket : b.date < c.date
  <1>1. PICK b \in bucket :
            /\ Cardinality({c \in bucket : b.date < c.date}) >= Keep
            /\ bucket' = bucket \ {b}
    BY DEF Expire
  <1>2. {c \in bucket : b.date < c.date} # {}
    BY <1>1, PodAssumption, FS_EmptySet
  <1> QED
    BY <1>1, <1>2

LEMMA NextSafe ==
    ASSUME Undisturbed, Inv, [Next]_vars
    PROVE  Inv'
  <1> USE ContentsDiffer DEF Inv, StoreInv, DataInv, AdmittedInv, Admitted, StatusInv,
          ListInv, RestoreInv, TornInv, Dominates, IsLatest, Whole
  <1>0. TypeOK'
    BY NextTyped
  <1>1. CASE Sidecar
    BY <1>0, <1>1, SidecarSafe
  <1>2. CASE Probe
    BY <1>0, <1>2 DEF Probe, disk
  <1>3. CASE CreateBackup
    <2>1. CASE UNCHANGED <<clock, bucket>>
      BY <1>0, <1>3, <2>1 DEF CreateBackup, memory, disk
    <2>2. CASE CanDump /\ clock < MaxBackups
      <3> DEFINE new == [date |-> clock + 1, gen |-> data, sealed |-> HasKey]
      <3>1. bucket' = bucket \cup {new} /\ main = "serve" /\ dbc = "running" /\ data \in Nat
        BY <1>3, <2>2 DEF CreateBackup, CanDump, DbAnswers, Undisturbed
      <3>2. \A b \in bucket : b.gen =< new.gen /\ b.date < new.date
        BY <3>1, PodAssumption DEF TypeOK, InitializerTypeOK, Backup
      <3>3. StoreInv'
        <4>1. \A b \in bucket' : b.gen \in Nat
          BY <3>1
        <4>2. ASSUME NEW b \in bucket', NEW c \in bucket', b.date =< c.date
              PROVE  b.gen =< c.gen
          <5>1. CASE c = new
            BY <3>1, <3>2, <5>1
          <5>2. CASE c # new
            BY <3>1, <3>2, <4>2, <5>2, PodAssumption
            DEF TypeOK, InitializerTypeOK, Backup
          <5> QED
            BY <5>1, <5>2
        <4>3. ASSUME NEW b \in bucket', NEW c \in bucket', b.date = c.date
              PROVE  b = c
          BY <3>1, <3>2, <4>3, PodAssumption
          DEF TypeOK, InitializerTypeOK, Backup
        <4> QED
          BY <4>1, <4>2, <4>3
      <3> QED
        BY <1>0, <1>3, <3>1, <3>2, <3>3 DEF CreateBackup, memory, disk
    <2> QED
      BY <1>3, <2>1, <2>2 DEF CreateBackup
  <1>4. CASE Expire
    <2>1. PICK b \in bucket :
            /\ bucket' = bucket \ {b}
            /\ \E c \in bucket : b.date < c.date
      BY <1>4, ExpiredIsNotLatest
    <2>2. ~IsLatest(b)
      BY <2>1 DEF TypeOK, InitializerTypeOK, Backup
    <2>3. RestoreInv'
      BY <1>4, <2>1, <2>2 DEF Expire, memory, disk
    <2> QED
      BY <1>0, <1>4, <2>1, <2>3 DEF Expire, memory, disk
  <1>5. CASE Wait /\ Poll
    BY <1>0, <1>5 DEF Wait, Poll, memory, disk
  <1>6. CASE Wait /\ InterruptWait
    BY <1>6 DEF InterruptWait, Undisturbed
  <1>7. CASE DbStart
    BY <1>0, <1>7 DEF DbStart, memory
  <1>8. CASE DbWrite
    BY <1>0, <1>8 DEF DbWrite, DbAnswers, memory, TypeOK, InitializerTypeOK
  <1>9. CASE DbExit
    BY <1>0, <1>9 DEF DbExit, memory, disk
  <1>10. CASE LoseVolume
    BY <1>0, <1>10 DEF LoseVolume, Exit
  <1>11. CASE UNCHANGED vars
    BY <1>0, <1>11 DEF vars, initVars, memory, disk
  <1> QED
    BY <1>1, <1>2, <1>3, <1>4, <1>5, <1>6, <1>7, <1>8, <1>9, <1>10, <1>11
    DEF Next, Wait

LEMMA Invariance == ASSUME Undisturbed PROVE Spec => []Inv
  <1>1. Init => Inv
    BY InitSafe
  <1>2. Inv /\ [Next]_vars => Inv'
    BY NextSafe
  <1> QED
    BY <1>1, <1>2, PTL DEF Spec

\* A database is never let run on a directory that is no whole database, nor
\* on less than a stored backup holds (initializer.go: initialize, Restore;
\* wait.go: Start; the adapters' Recover).
THEOREM Safe == ASSUME Undisturbed PROVE Spec => []NoSilentLoss
  <1>1. Inv => NoSilentLoss
    BY ContentsDiffer
    DEF Inv, DataInv, AdmittedInv, Admitted, NoSilentLoss, Covers, Whole,
        TypeOK, InitializerTypeOK, Data
  <1> QED
    BY <1>1, Invariance, PTL

\* The automatic restore has the data directory for itself.
THEOREM Exclusive == ASSUME Undisturbed PROVE Spec => []AutoRestoreExclusive
  <1>1. Inv => AutoRestoreExclusive
    BY DEF Inv, RestoreInv, AutoRestoreExclusive
  <1> QED
    BY <1>1, Invariance, PTL

-----------------------------------------------------------------------------
(* The pod implements RecoveryContract.                                    *)

\* The mapping, as Contract has it.
Content == IF Whole(data) THEN data ELSE Torn
Stored == {[date |-> b.date, gen |-> b.gen] : b \in bucket}

LEMMA ContractStart == Init => Contract!ContractInit
  <1> SUFFICES ASSUME Init PROVE Contract!ContractInit
    OBVIOUS
  <1>1. dbc # "running" /\ Content = Torn
    BY ContentsDiffer DEF Init, InitializerInit, Content, Whole
  <1>2. Stored \in {{}, {[date |-> 0, gen |-> 1]}}
    BY DEF Init, Stored
  <1> QED
    BY <1>1, <1>2 DEF Contract!ContractInit, Content, Stored

\* What most steps are to the contract.
LEMMA Invisible ==
    ASSUME dbc' = dbc, bucket' = bucket, Content' = Content
    PROVE  UNCHANGED Contract!contractVars
  BY DEF Contract!contractVars, Content

\* The fill ends with the content of the newest backup.
LEMMA FillRepairs ==
    ASSUME Undisturbed, Inv, FillEnd(Main), UNCHANGED <<dbc, clock>>
    PROVE  Contract!Repair
  <1> DEFINE g == goal[Main]
             s == [date |-> g.date, gen |-> g.gen]
  <1>1. /\ main = "restore" /\ step[Main] = "filling"
        /\ dbc = "waiting" /\ IsLatest(g) /\ Dominates(g.gen) /\ staged = g.gen
    BY DEF FillEnd, Inv, TypeOK, InitializerTypeOK, RestoreInv
  <1>2. data' = g.gen /\ bucket' = bucket
    BY <1>1 DEF FillEnd
  <1>3. s \in Stored /\ \A t \in Stored : t.date =< s.date
    BY <1>1 DEF IsLatest, Stored
  <1>4. Content = Torn /\ Content' = s.gen
    BY <1>1, <1>2, ContentsDiffer DEF Content, Whole, Inv, RestoreInv, Dominates
  <1>5. dbc' = dbc /\ Stored' = Stored
    BY <1>2 DEF Stored
  <1> QED
    BY <1>1, <1>3, <1>4, <1>5
    DEF Contract!Repair, Contract!Newest, Content, Stored

LEMMA SidecarKeepsContract ==
    ASSUME Undisturbed, Inv, Sidecar
    PROVE  [Contract!ContractNext]_(Contract!contractVars)
  <1> USE ContentsDiffer
  <1>1. CASE MainStep \/ Abort \/ Kill
    <2>1. dbc' = dbc /\ bucket' = bucket /\ data' = data
      BY <1>1 DEF Sidecar, MainStep, Abort, Kill, Boot, Ensure, Check,
         FreshDatabase, RestoreLatest, Restored, BeginUpgrade, Publish,
         RefuseSealed, disk
    <2> QED
      BY <2>1, Invisible DEF Content
  <1>2. CASE RestoreStep(Main) /\ ~FillEnd(Main)
    <2>1. dbc' = dbc /\ bucket' = bucket
      BY <1>2 DEF Sidecar, RestoreStep, Clean, Open, Download, Decrypt, Unpack,
         Recover, Wiped, FillBegin
    <2>2. Content' = Content
      BY <1>2 DEF RestoreStep, Clean, Open, Download, Decrypt, Unpack, Recover,
         Wiped, FillBegin, Content, Whole, Inv, TypeOK, InitializerTypeOK, RestoreInv
    <2> QED
      BY <2>1, <2>2, Invisible
  <1>3. CASE FillEnd(Main)
    BY <1>3, FillRepairs DEF Sidecar, Contract!ContractNext
  <1>4. CASE Blocked(Main) \/ Fail(Main)
    <2>1. dbc' = dbc /\ bucket' = bucket
      BY <1>4 DEF Sidecar, Blocked, Fail, ReturnError
    <2>2. main = "restore" /\ step[Main] # "restored"
      BY <1>4 DEF Blocked, Fail, Inv, TypeOK, InitializerTypeOK
    <2>3. Content' = Content
      BY <1>4, <2>2 DEF Blocked, Fail, ReturnError, Content, Whole, Inv, RestoreInv
    <2> QED
      BY <2>1, <2>3, Invisible
  <1>5. \A w \in Workers : w = Main
    BY DEF Undisturbed
  <1> QED
    BY <1>1, <1>2, <1>3, <1>4, <1>5 DEF Sidecar, InitializerNext, Undisturbed

LEMMA BackupStores ==
    ASSUME Undisturbed, Inv, CreateBackup
    PROVE  [Contract!ContractNext]_(Contract!contractVars)
  <1>1. CASE UNCHANGED <<clock, bucket>>
    <2>1. Content' = Content /\ dbc' = dbc
      BY DEF CreateBackup, disk, Content
    <2> QED
      BY <1>1, <2>1, Invisible
  <1>2. CASE CanDump /\ clock < MaxBackups
    <2> DEFINE s == [date |-> clock + 1, gen |-> data]
               new == [date |-> clock + 1, gen |-> data, sealed |-> HasKey]
    <2>1. /\ dbc = "running" /\ dbc' = dbc /\ data \in Nat /\ data' = data
          /\ bucket' = bucket \cup {new}
      BY <1>2 DEF CreateBackup, CanDump, DbAnswers, Whole, Undisturbed, disk
    <2>2. Stored' = Stored \cup {s}
      <3>1. s = [date |-> new.date, gen |-> new.gen]
        OBVIOUS
      <3> HIDE DEF s, new
      <3> QED
        BY <2>1, <3>1 DEF Stored
    <2>3. \A t \in Stored : t.date < s.date
      BY PodAssumption DEF Stored, Inv, TypeOK, InitializerTypeOK, Backup
    <2>4. Content = data /\ Content' = Content
      BY <2>1 DEF Content, Whole
    <2>5. s \in [date : Nat, gen : {Content}]
      <3>1. clock + 1 \in Nat
        BY PodAssumption DEF Inv, TypeOK
      <3> QED
        BY <3>1, <2>4
    <2>6. Contract!Store
      BY <2>1, <2>2, <2>3, <2>4, <2>5 DEF Contract!Store, Content, Stored
    <2> QED
      BY <2>6 DEF Contract!ContractNext
  <1> QED
    BY <1>1, <1>2 DEF CreateBackup

LEMMA ExpireDrops ==
    ASSUME Undisturbed, Inv, Expire
    PROVE  Contract!Drop
  <1>1. PICK b \in bucket :
            /\ bucket' = bucket \ {b}
            /\ \E c \in bucket : b.date < c.date
    BY ExpiredIsNotLatest
  <1> DEFINE s == [date |-> b.date, gen |-> b.gen]
  <1>2. s \in Stored /\ \E t \in Stored : s.date < t.date
    <2>1. PICK c \in bucket : b.date < c.date
      BY <1>1
    <2> DEFINE t == [date |-> c.date, gen |-> c.gen]
    <2>2. s \in Stored /\ t \in Stored
      BY DEF Stored
    <2>3. s.date < t.date
      BY <2>1
    <2> QED
      BY <2>2, <2>3
  <1>3. \A t \in Stored : t.date \in Nat
    BY DEF Stored, Inv, TypeOK, InitializerTypeOK, Backup
  <1>4. Stored' = Stored \ {s}
    <2>1. \A c \in bucket : c.date = b.date => c = b
      BY DEF Inv, StoreInv
    <2> QED
      BY <1>1, <2>1 DEF Stored
  <1>5. dbc' = dbc /\ Content' = Content
    BY DEF Expire, disk, Content
  <1>6. PICK t \in Stored : s.date < t.date
    BY <1>2
  <1>7. ~(t.date =< s.date)
    BY <1>2, <1>3, <1>6
  <1> QED
    BY <1>2, <1>4, <1>5, <1>6, <1>7 DEF Contract!Drop, Contract!Newest, Stored, Content

LEMMA NextKeepsContract ==
    ASSUME Undisturbed, Inv, [Next]_vars
    PROVE  [Contract!ContractNext]_(Contract!contractVars)
  <1> USE ContentsDiffer
  <1>1. CASE Sidecar
    BY <1>1, SidecarKeepsContract
  <1>2. CASE Probe \/ (UNCHANGED vars)
    BY <1>2, Invisible DEF Probe, disk, vars, initVars, Content
  <1>3. CASE CreateBackup
    BY <1>3, BackupStores
  <1>4. CASE Expire
    BY <1>4, ExpireDrops DEF Contract!ContractNext
  <1>5. CASE Wait /\ Poll
    <2>1. (dbc' = "running") = (dbc = "running") /\ bucket' = bucket /\ data' = data
      BY <1>5 DEF Wait, Poll, disk
    <2> QED
      BY <2>1 DEF Contract!contractVars
  <1>6. CASE Wait /\ InterruptWait
    BY <1>6 DEF InterruptWait, Undisturbed
  <1>7. CASE DbStart
    <2>1. Content = Torn => Stored = {}
      BY <1>7 DEF DbStart, Content, Stored, Whole, Inv, AdmittedInv, Admitted,
         TypeOK, InitializerTypeOK, Data
    <2>2. Content' = IF Content = Torn THEN 0 ELSE Content
      BY <1>7 DEF DbStart, Content, Whole, Inv, AdmittedInv, Admitted,
         TypeOK, InitializerTypeOK, Data
    <2>3. Stored' = Stored
      BY <1>7 DEF DbStart, Stored
    <2>4. Contract!Start
      BY <1>7, <2>1, <2>2, <2>3 DEF DbStart, Contract!Start, Content, Stored
    <2> QED
      BY <2>4 DEF Contract!ContractNext
  <1>8. CASE DbWrite
    <2>1. dbc = "running" /\ dbc' = dbc /\ data \in Nat /\ data' = data + 1 /\ bucket' = bucket
      BY <1>8 DEF DbWrite, DbAnswers, Whole
    <2>2. Content = data /\ Content' = data + 1
      <3>1. data + 1 \in Nat
        BY <2>1
      <3> QED
        BY <2>1, <3>1 DEF Content, Whole
    <2>3. Contract!Write
      BY <2>1, <2>2 DEF Contract!Write, Content
    <2> QED
      BY <2>3 DEF Contract!ContractNext
  <1>9. CASE DbExit
    <2>1. dbc' = "waiting" /\ data' = data /\ bucket' = bucket
      BY <1>9 DEF DbExit, disk
    <2> QED
      BY <2>1 DEF Contract!ContractNext, Contract!Stop, Whole
  <1>10. CASE LoseVolume
    <2>1. dbc' = "waiting" /\ data' = Empty /\ bucket' = bucket
      BY <1>10 DEF LoseVolume
    <2> QED
      BY <2>1 DEF Contract!ContractNext, Contract!Stop, Whole
  <1> QED
    BY <1>1, <1>2, <1>3, <1>4, <1>5, <1>6, <1>7, <1>8, <1>9, <1>10 DEF Next, Wait

\* Seen from outside, the pod is a database that is never up with less than
\* its latest backup (README.md:71, "restores from the referenced backup
\* without manual intervention"; initializer.go, wait.go).
THEOREM Refines == ASSUME Undisturbed PROVE Spec => KeepsContract
  <1>1. Init => Contract!ContractInit
    BY ContractStart
  <1>2. Inv /\ [Next]_vars => [Contract!ContractNext]_(Contract!contractVars)
    BY NextKeepsContract
  <1> QED
    BY <1>1, <1>2, Invariance, PTL DEF Spec, KeepsContract, Contract!ContractSpec

-----------------------------------------------------------------------------
(* The pod implements BackupContract, and what is backed up stays.         *)

\* Only two actions change what is stored.
LEMMA StoreSteps ==
    ASSUME [Next]_vars, ~CreateBackup, ~Expire PROVE bucket' = bucket
  BY DEF Next, vars, initVars, disk, Sidecar, InitializerNext, MainStep, Boot,
         Ensure, Check, FreshDatabase, RestoreLatest, Restored, BeginUpgrade,
         Publish, RefuseSealed, Abort, Kill, RestoreStep, Clean, Open, Download,
         Decrypt, Unpack, Recover, Wiped, FillBegin, FillEnd, Blocked, Fail,
         ReturnError, RestoreBackup, Answer, Probe, Wait, DbStart, DbWrite,
         DbExit, LoseVolume

LEMMA BackupsStart == Init => Backups!BackupInit
  <1> SUFFICES ASSUME Init PROVE Backups!BackupInit
    OBVIOUS
  <1>1. Stored \in {{}, {[date |-> 0, gen |-> 1]}} /\ ~Whole(data)
    BY ContentsDiffer DEF Init, InitializerInit, Stored, Whole
  <1> QED
    BY <1>1 DEF Backups!BackupInit, Stored

LEMMA BackupAdds ==
    ASSUME Undisturbed, Inv, CreateBackup, CanDump, clock < MaxBackups
    PROVE  Backups!Add
  <1> DEFINE new == [date |-> clock + 1, gen |-> data, sealed |-> HasKey]
             k == [date |-> clock + 1, gen |-> data]
  <1>1. /\ data \in Nat /\ data' = data /\ clock + 1 \in Nat
        /\ bucket' = bucket \cup {new}
    BY PodAssumption
    DEF CreateBackup, CanDump, DbAnswers, Whole, Undisturbed, disk, Inv, TypeOK
  <1>2. /\ k \in [date : Nat, gen : 0..data] /\ k.date = clock + 1 /\ k.gen = data
        /\ k = [date |-> new.date, gen |-> new.gen]
    BY <1>1
  <1> HIDE DEF k, new
  <1>3. Stored' = Stored \cup {k} /\ k \in Stored'
    BY <1>1, <1>2 DEF Stored
  <1>4. \A o \in Stored : o.date < k.date /\ o.gen =< k.gen
    BY <1>1, <1>2, PodAssumption
    DEF Stored, Inv, DataInv, Whole, TypeOK, InitializerTypeOK, Backup
  <1>5. \E m \in Stored' : /\ m \in [date : Nat, gen : 0..data]
                           /\ \A o \in Stored : o.date < m.date /\ o.gen =< m.gen
                           /\ Stored' = Stored \cup {m}
    BY <1>2, <1>3, <1>4
  <1> QED
    BY <1>1, <1>5 DEF Backups!Add, Stored, Whole

LEMMA ExpireDiscards ==
    ASSUME Inv, Expire
    PROVE  Backups!Discard
  <1>1. PICK b \in bucket : /\ bucket' = bucket \ {b}
                           /\ \E c \in bucket : b.date < c.date
    BY ExpiredIsNotLatest
  <1>2. PICK c \in bucket : b.date < c.date
    BY <1>1
  <1> DEFINE k == [date |-> b.date, gen |-> b.gen]
             o == [date |-> c.date, gen |-> c.gen]
  <1>3. k \in Stored /\ o \in Stored /\ k.date < o.date
    BY <1>2 DEF Stored
  <1>4. Stored' = Stored \ {k}
    <2>1. \A d \in bucket : d.date = b.date => d = b
      BY DEF Inv, StoreInv
    <2> QED
      BY <1>1, <2>1 DEF Stored
  <1>5. data' = data
    BY DEF Expire, disk
  <1> HIDE DEF k, o
  <1> QED
    BY <1>3, <1>4, <1>5 DEF Backups!Discard, Stored

LEMMA NextKeepsBackups ==
    ASSUME Undisturbed, Inv, [Next]_vars
    PROVE  [Backups!BackupNext]_(Backups!backupVars)
  <1>1. ASSUME bucket' = bucket
        PROVE  [Backups!BackupNext]_(Backups!backupVars)
    <2>1. (IF Whole(data) THEN data ELSE 0)' \in Nat
      BY DEF Whole
    <2> QED
      BY <1>1, <2>1 DEF Backups!BackupNext, Backups!Change
  <1>2. CASE CreateBackup /\ ~(CanDump /\ clock < MaxBackups)
    BY <1>1, <1>2 DEF CreateBackup
  <1>3. CASE CreateBackup /\ CanDump /\ clock < MaxBackups
    BY <1>3, BackupAdds DEF Backups!BackupNext
  <1>4. CASE Expire
    BY <1>4, ExpireDiscards DEF Backups!BackupNext
  <1>5. CASE ~CreateBackup /\ ~Expire
    BY <1>1, <1>5, StoreSteps
  <1> QED
    BY <1>2, <1>3, <1>4, <1>5

\* The backups of the pod are a store as BackupContract has it, although the
\* database loses its data, is restored from them and goes on from there
\* (initializer.go: initialize; backup.go: CreateBackup).
THEOREM BackupsRefine == ASSUME Undisturbed PROVE Spec => KeepsBackups
  <1>1. Init => Backups!BackupInit
    BY BackupsStart
  <1>2. Inv /\ [Next]_vars => [Backups!BackupNext]_(Backups!backupVars)
    BY NextKeepsBackups
  <1> QED
    BY <1>1, <1>2, Invariance, PTL DEF Spec, KeepsBackups, Backups!BackupSpec

BackedUp(n) == \E b \in bucket : n =< b.gen

\* A step keeps what is backed up.
LEMMA StaysBackedUp ==
    ASSUME Undisturbed, Inv, [Next]_vars, NEW n \in Nat, BackedUp(n)
    PROVE  BackedUp(n)'
  <1>1. PICK b \in bucket : n =< b.gen
    BY DEF BackedUp
  <1>2. CASE Expire
    <2>1. PICK e \in bucket : /\ bucket' = bucket \ {e}
                             /\ \E c \in bucket : e.date < c.date
      BY <1>2, ExpiredIsNotLatest
    <2>2. CASE e = b
      <3>1. PICK c \in bucket : b.date < c.date
        BY <2>1, <2>2
      <3>2. b.date \in Nat /\ c.date \in Nat
        BY DEF Inv, TypeOK, InitializerTypeOK, Backup
      <3>3. b.gen =< c.gen /\ b.gen \in Nat /\ c.gen \in Nat /\ c # b
        BY <3>1, <3>2 DEF Inv, StoreInv
      <3> QED
        BY <1>1, <2>1, <2>2, <3>3 DEF BackedUp
    <2>3. CASE e # b
      BY <1>1, <2>1, <2>3 DEF BackedUp
    <2> QED
      BY <2>2, <2>3
  <1>3. CASE ~Expire
    <2>1. bucket \subseteq bucket'
      BY <1>3, StoreSteps DEF CreateBackup
    <2> QED
      BY <1>1, <2>1 DEF BackedUp
  <1> QED
    BY <1>2, <1>3

\* What a backup held once, every database that is let run holds for ever
\* after, through errors, restarts, lost volumes and expired backups
\* (README.md:71; initializer.go: initialize, Restore; wait.go: Start).
THEOREM Durable ==
    ASSUME Undisturbed, NEW n \in Nat
    PROVE  Spec => [](BackedUp(n)
                        => [](dbc # "waiting" => Whole(data) /\ n =< data))
  <1>1. Inv => (BackedUp(n) => (dbc # "waiting" => Whole(data) /\ n =< data))
    <2> SUFFICES ASSUME Inv, BackedUp(n), dbc # "waiting"
                 PROVE  Whole(data) /\ n =< data
      OBVIOUS
    <2>1. PICK b \in bucket : n =< b.gen
      BY DEF BackedUp
    <2>2. Whole(data)
      BY <2>1 DEF Inv, AdmittedInv, Admitted, TypeOK, InitializerTypeOK, Data, Whole
    <2>3. b.gen =< data /\ b.gen \in Nat /\ data \in Nat
      BY <2>2 DEF Inv, DataInv, StoreInv, Whole
    <2> QED
      BY <2>1, <2>2, <2>3
  <1>2. Inv /\ [Next]_vars => (BackedUp(n) => BackedUp(n)')
    BY StaysBackedUp
  <1> QED
    BY <1>1, <1>2, Invariance, PTL DEF Spec
=============================================================================
