---------------------------- MODULE ManualProofs ----------------------------
(***************************************************************************)
(* Theorems about ManualRestore, for every engine, every set of calls and  *)
(* every value of the bounds.                                              *)
(***************************************************************************)
EXTENDS ManualRestore, PodProofs

USE DEF Workers

-----------------------------------------------------------------------------
(* Type correctness.                                                       *)

AloneOK == alone \in [Workers -> BOOLEAN]

LEMMA ManualStep ==
    ASSUME [ManualNext]_manualVars PROVE [Next]_vars
  BY DEF ManualNext, manualVars

\* The variables keep their types next to any number of RestoreBackup calls.
THEOREM ManualTyped == ManualSpec => [](TypeOK /\ AloneOK)
  <1>1. ManualInit => TypeOK /\ AloneOK
    BY InitTyped DEF ManualInit, AloneOK
  <1>2. TypeOK /\ AloneOK /\ [ManualNext]_manualVars => (TypeOK /\ AloneOK)'
    <2> SUFFICES ASSUME TypeOK, AloneOK, [ManualNext]_manualVars
                 PROVE  TypeOK' /\ AloneOK'
      OBVIOUS
    <2>1. TypeOK'
      BY ManualStep, NextTyped
    <2>2. AloneOK'
      BY DEF ManualNext, manualVars, AloneOK
    <2> QED
      BY <2>1, <2>2
  <1> QED
    BY <1>1, <1>2, PTL DEF ManualSpec

-----------------------------------------------------------------------------
(* What a restore delivers.                                                *)

\* What an undisturbed w can rely on at each statement of Restore and Recover:
\* the handle, the file and the directory it is about to read are its own, and
\* from the download on they hold the version it was asked for.
Solo(w) ==
    LET g == goal[w] IN
    /\ step[w] = "download" => w \in file[g.sealed].by
    /\ step[w] = "decrypt" => g.sealed /\ HasKey /\ file[TRUE].of = g
    /\ step[w] = "unpack" => file[g.sealed /\ ~HasKey].of = g
    /\ step[w] \in {"recover", "wiping", "fill", "filling", "doomed"}
          => staged = g.gen
    /\ step[w] = "fill" /\ db.wipes => data = Empty
    /\ step[w] # "mixing"
    /\ step[w] = "restored" => data = g.gen

OthersIdle(w) == \A v \in Workers \ {w} : step[v] = "idle"

SoloInv ==
    /\ TypeOK
    /\ AloneOK
    /\ \A w \in Workers :
         alone[w] => dbc = "waiting" /\ OthersIdle(w) /\ Solo(w)

\* Statements of w's own Restore and Recover.
LEMMA RestoreSolo ==
    ASSUME TypeOK, TypeOK', NEW w \in Workers, Solo(w), OthersIdle(w), RestoreStep(w)
    PROVE  Solo(w)'
  <1> DEFINE g == goal[w]
  <1>0. goal' = goal /\ g \in Backup /\ g.sealed \in BOOLEAN
    BY DEF TypeOK, InitializerTypeOK, RestoreStep, Clean, Open, Download,
           Decrypt, Unpack, Recover, Wiped, FillBegin, FillEnd, Backup
  <1> USE DEF TypeOK, InitializerTypeOK, MoveOn
  <1>1. CASE Clean(w)
    <2>1. step'[w] = "open"
      BY <1>1 DEF Clean
    <2> QED
      BY <2>1 DEF Solo
  <1>2. CASE Open(w)
    <2>1. step'[w] = "download" /\ w \in file'[g.sealed].by
      BY <1>0, <1>2 DEF Open
    <2> QED
      BY <1>0, <2>1 DEF Solo
  <1>3. CASE Download(w)
    <2>1. /\ file'[g.sealed].of = g
          /\ step'[w] = IF g.sealed /\ HasKey THEN "decrypt" ELSE "unpack"
      BY <1>0, <1>3 DEF Download, Solo
    <2>2. CASE g.sealed /\ HasKey
      <3>1. step'[w] = "decrypt" /\ g.sealed = TRUE
        BY <1>0, <2>1, <2>2
      <3> QED
        BY <1>0, <2>1, <2>2, <3>1 DEF Solo
    <2>3. CASE ~(g.sealed /\ HasKey)
      <3>1. step'[w] = "unpack" /\ (g.sealed /\ ~HasKey) = g.sealed
        BY <1>0, <2>1, <2>3, InitializerAssumption
      <3> QED
        BY <1>0, <2>1, <3>1 DEF Solo
    <2> QED
      BY <2>2, <2>3
  <1>4. CASE Decrypt(w)
    <2>1. step'[w] = "unpack" /\ HasKey /\ file'[FALSE].of = g
      BY <1>4, DecryptedFile DEF Decrypt, Solo
    <2>2. (g.sealed /\ ~HasKey) = FALSE
      BY <2>1
    <2> QED
      BY <1>0, <2>1, <2>2 DEF Solo
  <1>5. CASE Unpack(w)
    <2>1. step'[w] = "recover" /\ staged' = g.gen
      BY <1>5 DEF Unpack, Archive, Solo
    <2> QED
      BY <1>0, <2>1 DEF Solo
  <1>6. CASE Recover(w)
    <2>1. /\ step'[w] = IF db.wipes THEN "wiping" ELSE "fill"
          /\ staged' = staged /\ staged = g.gen
      BY <1>6 DEF Recover, Solo
    <2> QED
      BY <1>0, <2>1 DEF Solo
  <1>7. CASE Wiped(w)
    <2>1. step'[w] = "fill" /\ data' = Empty /\ staged' = staged /\ staged = g.gen
      BY <1>7 DEF Wiped, Solo
    <2> QED
      BY <1>0, <2>1 DEF Solo
  <1>8. CASE FillBegin(w)
    <2>1. PICK to \in {"filling", "mixing", "doomed"} :
            /\ step[w] = "fill" /\ MoveOn(w, to) /\ staged' = staged
            /\ data = Empty => to = "filling"
            /\ data # Empty /\ ~db.wipes /\ to = "mixing"
                 => \E v \in Workers \ {w} : step[v] # "idle"
      BY <1>8, FillBegun
    <2>2. step'[w] = to /\ to # "mixing" /\ staged = g.gen
      BY <2>1 DEF OthersIdle, Solo
    <2> QED
      BY <1>0, <2>1, <2>2 DEF Solo
  <1>9. CASE FillEnd(w)
    <2>1. step'[w] = "restored" /\ data' = staged /\ staged = g.gen
      BY <1>9 DEF FillEnd, Solo
    <2> QED
      BY <1>0, <2>1 DEF Solo
  <1> QED
    BY <1>1, <1>2, <1>3, <1>4, <1>5, <1>6, <1>7, <1>8, <1>9 DEF RestoreStep

\* A step that leaves w where it is, and alone what it works on.
LEMMA QuietSolo ==
    ASSUME NEW w \in Workers, Solo(w), step'[w] = step[w], goal'[w] = goal[w],
           disk' = disk
    PROVE  Solo(w)'
  BY DEF Solo, disk

\* Before the download nothing is relied on.
LEMMA EarlySolo ==
    ASSUME NEW w \in Workers, step'[w] \in {"idle", "clean"}
    PROVE  Solo(w)'
  BY DEF Solo

\* Whatever happens while w stays undisturbed.
LEMMA StepSolo ==
    ASSUME TypeOK, TypeOK', NEW w \in Workers, Solo(w), OthersIdle(w), OthersIdle(w)',
           dbc = "waiting", dbc' = "waiting", Next
    PROVE  Solo(w)'
  <1> USE DEF TypeOK, InitializerTypeOK
  <1>1. CASE Sidecar
    <2>1. CASE MainStep
      <3>1. CASE RestoreLatest
        <4>1. step'[Main] = "clean"
          BY <3>1 DEF RestoreLatest, Enter
        <4>2. w = Main
          BY <4>1 DEF OthersIdle
        <4> QED
          BY <4>1, <4>2, EarlySolo
      <3>2. CASE Restored
        <4>1. step[Main] = "restored" /\ step'[Main] = "idle"
          BY <3>2 DEF Restored
        <4>2. w = Main
          BY <4>1 DEF OthersIdle
        <4> QED
          BY <4>1, <4>2, EarlySolo
      <3>3. CASE RefuseSealed
        BY <3>3, EarlySolo DEF RefuseSealed, Exit, Idle
      <3>4. CASE ~(RestoreLatest \/ Restored \/ RefuseSealed)
        BY <2>1, <3>4, QuietSolo
        DEF MainStep, Boot, Ensure, Check, FreshDatabase, BeginUpgrade, Publish
      <3> QED
        BY <3>1, <3>2, <3>3, <3>4
    <2>2. CASE Abort \/ Kill
      BY <2>2, EarlySolo DEF Abort, Kill, Exit, Idle
    <2>3. ASSUME NEW v \in Workers, RestoreStep(v) \/ Blocked(v) \/ Fail(v)
          PROVE  Solo(w)'
      <3>1. step[v] # "idle"
        BY <2>3 DEF RestoreStep, Clean, Open, Download, Decrypt, Unpack, Recover,
                    Wiped, FillBegin, FillEnd, Blocked, Fail
      <3>2. v = w
        BY <3>1 DEF OthersIdle
      <3>3. CASE RestoreStep(v)
        BY <3>2, <3>3, RestoreSolo
      <3>4. CASE Blocked(v) \/ Fail(v)
        <4>1. step'[w] = "idle"
          BY <3>2, <3>4 DEF Blocked, Fail, ReturnError, Exit, Idle
        <4> QED
          BY <4>1, EarlySolo
      <3> QED
        BY <2>3, <3>3, <3>4
    <2>4. ASSUME NEW r \in Rpc, RestoreBackup(r) \/ Answer(r)
          PROVE  Solo(w)'
      <3>1. step'[r] \in {"clean", "idle"}
        BY <2>4 DEF RestoreBackup, Enter, Answer
      <3>2. r = w
        BY <2>4, <3>1 DEF RestoreBackup, Enter, Answer, OthersIdle
      <3> QED
        BY <3>1, <3>2, EarlySolo
    <2> QED
      BY <1>1, <2>1, <2>2, <2>3, <2>4 DEF Sidecar, InitializerNext
  <1>2. CASE Probe
    BY <1>2, QuietSolo DEF Probe
  <1>3. CASE CreateBackup
    BY <1>3, QuietSolo DEF CreateBackup, memory
  <1>4. CASE Expire
    BY <1>4, QuietSolo DEF Expire, memory
  <1>5. CASE Wait
    BY <1>5, QuietSolo DEF Wait, memory
  <1>6. CASE DbStart \/ DbWrite \/ DbExit
    BY <1>6 DEF DbStart, DbWrite, DbAnswers, DbExit
  <1>7. CASE LoseVolume
    BY <1>7, EarlySolo DEF LoseVolume, Exit, Idle
  <1> QED
    BY <1>1, <1>2, <1>3, <1>4, <1>5, <1>6, <1>7 DEF Next

\* An idle worker can but enter Restore.
LEMMA IdleEnters ==
    ASSUME TypeOK, NEW w \in Workers, step[w] = "idle", Next
    PROVE  step'[w] \in {"idle", "clean"}
  <1> USE DEF TypeOK, InitializerTypeOK
  <1>1. CASE Sidecar
    <2>1. CASE MainStep \/ Abort \/ Kill
      BY <2>1 DEF MainStep, Boot, Ensure, Check, FreshDatabase, RestoreLatest, Enter,
         Restored, BeginUpgrade, Publish, RefuseSealed, Abort, Kill, Exit, Idle
    <2>2. ASSUME NEW v \in Workers, RestoreStep(v)
          PROVE  step'[w] \in {"idle", "clean"}
      <3>1. v # w
        BY <2>2 DEF RestoreStep, Clean, Open, Download, Decrypt, Unpack, Recover,
                    Wiped, FillBegin, FillEnd
      <3> QED
        BY <2>2, <3>1 DEF RestoreStep, MoveOn, Clean, Open, Download, Decrypt,
           Unpack, Recover, Wiped, FillBegin, FillEnd
    <2>3. ASSUME NEW v \in Workers, Blocked(v) \/ Fail(v)
          PROVE  step'[w] \in {"idle", "clean"}
      BY <2>3 DEF Blocked, Fail, ReturnError, Exit, Idle
    <2>4. ASSUME NEW r \in Rpc, RestoreBackup(r) \/ Answer(r)
          PROVE  step'[w] \in {"idle", "clean"}
      BY <2>4 DEF RestoreBackup, Enter, Answer
    <2> QED
      BY <1>1, <2>1, <2>2, <2>3, <2>4 DEF Sidecar, InitializerNext
  <1>2. CASE LoseVolume
    BY <1>2 DEF LoseVolume, Exit, Idle
  <1>3. CASE ~(Sidecar \/ LoseVolume)
    BY <1>3 DEF Next, Probe, CreateBackup, Expire, Wait, DbStart, DbWrite, DbExit,
       memory
  <1> QED
    BY <1>1, <1>2, <1>3

\* The version a worker restores is chosen once.
LEMMA GoalKept ==
    ASSUME TypeOK, NEW w \in Workers, step[w] # "idle", step'[w] = "restored",
           step[w] # "restored", Next
    PROVE  goal'[w] = goal[w]
  <1> USE DEF TypeOK, InitializerTypeOK
  <1>1. CASE Sidecar
    <2>1. CASE MainStep \/ Abort \/ Kill
      BY <2>1 DEF MainStep, Boot, Ensure, Check, FreshDatabase, RestoreLatest, Enter,
         Restored, BeginUpgrade, Publish, RefuseSealed, Abort, Kill, Exit, Idle
    <2>2. ASSUME NEW v \in Workers, RestoreStep(v)
          PROVE  goal' = goal
      BY <2>2 DEF RestoreStep, Clean, Open, Download, Decrypt, Unpack, Recover,
         Wiped, FillBegin, FillEnd
    <2>3. ASSUME NEW v \in Workers, Blocked(v) \/ Fail(v)
          PROVE  goal'[w] = goal[w]
      BY <2>3 DEF Blocked, Fail, ReturnError, Exit, Idle
    <2>4. ASSUME NEW r \in Rpc, RestoreBackup(r) \/ Answer(r)
          PROVE  goal'[w] = goal[w]
      BY <2>4 DEF RestoreBackup, Enter, Answer
    <2> QED
      BY <1>1, <2>1, <2>2, <2>3, <2>4 DEF Sidecar, InitializerNext
  <1>2. CASE LoseVolume
    BY <1>2 DEF LoseVolume, Exit, Idle
  <1>3. CASE ~(Sidecar \/ LoseVolume)
    BY <1>3 DEF Next, Probe, CreateBackup, Expire, Wait, DbStart, DbWrite, DbExit,
       memory
  <1> QED
    BY <1>1, <1>2, <1>3

LEMMA NextSolo ==
    ASSUME SoloInv, [ManualNext]_manualVars PROVE SoloInv'
  <1>1. TypeOK /\ AloneOK /\ TypeOK'
    BY ManualStep, NextTyped DEF SoloInv
  <1>2. CASE UNCHANGED manualVars
    BY <1>1, <1>2 DEF manualVars, vars, initVars, memory, disk, SoloInv, AloneOK,
       OthersIdle, Solo
  <1>3. CASE ManualNext
    <2>1. AloneOK'
      BY <1>3 DEF ManualNext, AloneOK
    <2>2. ASSUME NEW w \in Workers, alone'[w]
          PROVE  dbc' = "waiting" /\ OthersIdle(w)' /\ Solo(w)'
      <3>1. /\ step[w] # "idle" => alone[w]
            /\ dbc' = "waiting" /\ OthersIdle(w)' /\ Next
        BY <1>3, <2>2 DEF ManualNext, OthersIdle
      <3>2. CASE step[w] # "idle"
        BY <1>1, <3>1, <3>2, StepSolo DEF SoloInv
      <3>3. CASE step[w] = "idle"
        <4>1. step'[w] \in {"idle", "clean"}
          BY <1>1, <3>1, <3>3, IdleEnters
        <4> QED
          BY <3>1, <4>1, EarlySolo
      <3> QED
        BY <3>2, <3>3
    <2> QED
      BY <1>1, <2>1, <2>2 DEF SoloInv
  <1> QED
    BY <1>2, <1>3

LEMMA SoloInvariance == ManualSpec => []SoloInv
  <1>1. ManualInit => SoloInv
    BY InitTyped DEF ManualInit, AloneOK, SoloInv
  <1>2. SoloInv /\ [ManualNext]_manualVars => SoloInv'
    BY NextSolo
  <1> QED
    BY <1>1, <1>2, PTL DEF ManualSpec

\* A restore that nothing disturbs returns nil only with the version it was
\* asked for in the data directory, whatever earlier restores that failed or
\* were killed have left behind (initializer.go: Restore; encryption.go:
\* Decrypt; the adapters' Recover).
THEOREM SoloDelivers == ManualSpec => SoloRestoreDelivers
  <1>1. ASSUME SoloInv, SoloInv', ManualNext, NEW w \in Workers,
               step[w] # "restored", step'[w] = "restored", alone'[w]
        PROVE  data' = goal[w].gen
    <2>1. data' = goal'[w].gen
      BY <1>1 DEF SoloInv, Solo
    <2>2. step[w] # "idle"
      BY <1>1, IdleEnters DEF ManualNext, SoloInv
    <2>3. goal'[w] = goal[w]
      BY <1>1, <2>2, GoalKept DEF ManualNext, SoloInv
    <2> QED
      BY <2>1, <2>3
  <1>2. SoloInv /\ SoloInv' /\ [ManualNext]_manualVars =>
          [\A w \in Workers :
             step[w] # "restored" /\ step'[w] = "restored" /\ alone'[w]
                => data' = goal[w].gen]_manualVars
    BY <1>1
  <1> QED
    BY <1>2, SoloInvariance, PTL DEF ManualSpec, SoloRestoreDelivers
=============================================================================
