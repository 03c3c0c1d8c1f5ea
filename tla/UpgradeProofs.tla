--------------------------- MODULE UpgradeProofs ---------------------------
(***************************************************************************)
(* Theorems about Upgrade, for every number of versions, every value of    *)
(* the bounds, and every fault.                                            *)
(***************************************************************************)
EXTENDS Upgrade, TLAPS

-----------------------------------------------------------------------------
(* What Upgrade works on.                                                  *)

Older == {"clean", "init", "config", "link", "linking", "remove"}
Begun == {"stat", "save", "copy", "validate"} \cup Older
Linked == {"config", "link", "linking", "remove", "removing", "rename"}
Carried == Linked \ {"config"}
Saved == {"validate", "done", "serve"} \cup Older

\* The database runs on its own version; Upgrade works on an older one, and
\* once that is being removed its contents are gone.
DirInv ==
    /\ dbc = "running" => dir.version = image /\ Whole(dir.gen)
    /\ Whole(dir.gen) => dir.version \in Versions
    /\ Whole(latest.gen) => latest.version \in Versions
    /\ pc \in Older => dir.version < image
    /\ pc = "linking" => Whole(dir.gen)
    /\ pc = "removing" => dir.gen = Torn
    /\ pc \in Linked => new.version = image
    /\ pc = "serve" => dir.version = image /\ Whole(dir.gen)

\* What Upgrade began with is in the old directory, then in the new one.
KeptInv ==
    Whole(before) =>
      /\ pc \in Begun => Whole(dir.gen) /\ before =< dir.gen
      /\ pc \in {"remove", "removing", "rename"} => Whole(new.gen) /\ before =< new.gen

Base == TypeOK /\ DirInv /\ KeptInv

-----------------------------------------------------------------------------
(* Helpers.                                                                *)

LEMMA ContentsNotWhole == ~Whole(Empty) /\ ~Whole(Torn) /\ Whole(0) /\ Empty # Torn
  BY ContentsDiffer DEF Whole

LEMMA VoidTyped == Void \in Directory /\ Void.gen = Empty /\ Void.version = 0
  BY UpgradeAssumption DEF Void, NoBins, Directory, Data, Copies

LEMMA DataTyped == Empty \in Data /\ Torn \in Data /\ 0 \in Data
  BY DEF Data

\* What the assignments to a directory leave alone.
LEMMA SetBins ==
    ASSUME NEW d \in Directory, NEW v \in Versions, NEW c \in Copies,
           NEW e, e = [d EXCEPT !.bins[v] = c]
    PROVE  /\ e \in Directory /\ e.version = d.version /\ e.gen = d.gen
           /\ e.bins[v] = c
           /\ \A u \in Versions : u # v => e.bins[u] = d.bins[u]
  BY DEF Directory

LEMMA SetGen ==
    ASSUME NEW d \in Directory, NEW g \in Data, NEW e, e = [d EXCEPT !.gen = g]
    PROVE  e \in Directory /\ e.version = d.version /\ e.gen = g /\ e.bins = d.bins
  BY DEF Directory

LEMMA CopiesTyped ==
    {"none", "whole"} \cup Interrupted \subseteq Copies
  BY DEF Copies, Interrupted

\* What is left half done keeps its version; its contents may be gone.
LEMMA LeftTyped ==
    ASSUME TypeOK, LeftHalfDone
    PROVE  /\ dir' \in Directory /\ dir'.version = dir.version
           /\ \/ dir'.gen = dir.gen
              \/ dir'.gen = Torn /\ pc \in {"linking", "remove"}
  <1>1. CASE UNCHANGED dir
    BY <1>1 DEF TypeOK
  <1>2. CASE \E c \in Interrupted : dir' = [dir EXCEPT !.bins[image] = c]
    <2>1. PICK c \in Interrupted : dir' = [dir EXCEPT !.bins[image] = c]
      BY <1>2
    <2> QED
      BY <2>1, CopiesTyped, SetBins DEF TypeOK
  <1>3. CASE pc \in {"linking", "remove"} /\ dir' = [dir EXCEPT !.gen = Torn]
    BY <1>3, DataTyped, SetGen DEF TypeOK
  <1> QED
    BY <1>1, <1>2, <1>3 DEF LeftHalfDone

\* The database that Postgres and initdb create.
LEMMA CreatedTyped ==
    ASSUME TypeOK
    PROVE  /\ Created \in Directory /\ Created.version = image /\ Created.gen = 0
           /\ \A v \in Versions : Created.bins[v] = "none"
  <1>1. NoBins \in [Versions -> Copies] /\ image \in 0..MaxVersion
    BY CopiesTyped, UpgradeAssumption DEF NoBins, TypeOK, Versions
  <1> QED
    BY <1>1, DataTyped DEF Created, Directory, NoBins

\* It keeps all binaries but the image's, and is not emptied.
LEMMA LeftBacked ==
    ASSUME TypeOK, LeftHalfDone, pc = "serve" => dir.version = image
    PROVE  /\ dir' = dir \/ dir' # Void
           /\ dir'.version = dir.version
           /\ \A v \in Versions : v # image => dir'.bins[v] = dir.bins[v]
           /\ Whole(dir'.gen) => dir'.gen = dir.gen
  <1> USE VoidTyped, ContentsNotWhole
  <1>1. CASE UNCHANGED dir
    BY <1>1
  <1>2. CASE /\ pc \in {"save", "copy"} \/ job = "copy"
             /\ \E c \in Interrupted : dir' = [dir EXCEPT !.bins[image] = c]
    <2>1. PICK c \in Interrupted : dir' = [dir EXCEPT !.bins[image] = c]
      BY <1>2
    <2>2. dir.version # 0
      BY <1>2 DEF TypeOK, Versions, Upgrading, Swap
    <2> QED
      BY <2>1, <2>2, CopiesTyped, SetBins DEF TypeOK
  <1>3. CASE dir' = [dir EXCEPT !.gen = Torn]
    BY <1>3, DataTyped, SetGen DEF TypeOK
  <1> QED
    BY <1>1, <1>2, <1>3 DEF LeftHalfDone

-----------------------------------------------------------------------------
(* The data directory.                                                     *)

LEMMA InitBase == Init => Base
  <1> SUFFICES ASSUME Init PROVE Base
    OBVIOUS
  <1>1. 1 \in Versions /\ 0 \in 0..MaxFaults
    BY UpgradeAssumption DEF Versions
  <1> QED
    BY <1>1, VoidTyped, ContentsNotWhole, DataTyped
    DEF Init, Base, TypeOK, DirInv, KeptInv, Pcs, Upgrading, Swap,
        Older, Begun, Linked

LEMMA NextBase == Base /\ [Next]_vars => Base'
  <1> SUFFICES ASSUME Base, [Next]_vars PROVE Base'
    OBVIOUS
  <1> USE UpgradeAssumption, VoidTyped, ContentsNotWhole
      DEF Base, TypeOK, DirInv, KeptInv, Older, Begun, Linked, Swap, Upgrading, Pcs,
          outside, others, history, sidecar, Goto, Fault, Exit, CutOff
  <1>1. CASE Boot
    <2>1. TypeOK'
      BY <1>1 DEF Boot
    <2>2. DirInv'
      BY <1>1 DEF Boot
    <2>3. KeptInv'
      BY <1>1 DEF Boot
    <2> QED
      BY <2>1, <2>2, <2>3
  <1>2. CASE Initialize
    <2>1. dir' \in Directory /\ (dir' = dir \/ (dir = Void /\ dir' = latest))
      BY <1>2 DEF Initialize
    <2>2. before' = dir'.gen /\ dir'.gen \in Data
      BY <1>2, <2>1 DEF Initialize, Directory
    <2>3. TypeOK'
      BY <1>2, <2>1, <2>2 DEF Initialize, Whole
    <2>4. DirInv'
      BY <1>2, <2>1, <2>2 DEF Initialize, Whole
    <2>5. KeptInv'
      BY <1>2, <2>1, <2>2 DEF Initialize, Whole
    <2> QED
      BY <2>3, <2>4, <2>5
  <1>3. CASE Stat
    <2>1. dir.version = 0 \/ dir.version \in Versions
      BY DEF Directory, Versions
    <2>2. TypeOK'
      BY <1>3, <2>1 DEF Stat
    <2>3. DirInv'
      BY <1>3, <2>1 DEF Stat
    <2>4. KeptInv'
      BY <1>3, <2>1 DEF Stat
    <2> QED
      BY <2>2, <2>3, <2>4
  <1>4. CASE RemoveSaved
    <2>1. /\ dir' \in Directory /\ dir'.version = dir.version /\ dir'.gen = dir.gen
      BY <1>4, CopiesTyped, SetBins DEF RemoveSaved
    <2>2. TypeOK'
      BY <1>4, <2>1 DEF RemoveSaved
    <2>3. DirInv'
      BY <1>4, <2>1 DEF RemoveSaved
    <2>4. KeptInv'
      BY <1>4, <2>1 DEF RemoveSaved
    <2> QED
      BY <2>2, <2>3, <2>4
  <1>5. CASE CopyBinaries
    <2>1. /\ dir' \in Directory /\ dir'.version = dir.version /\ dir'.gen = dir.gen
      BY <1>5, CopiesTyped, SetBins DEF CopyBinaries
    <2>2. TypeOK'
      BY <1>5, <2>1 DEF CopyBinaries
    <2>3. DirInv'
      BY <1>5, <2>1 DEF CopyBinaries
    <2>4. KeptInv'
      BY <1>5, <2>1 DEF CopyBinaries
    <2> QED
      BY <2>2, <2>3, <2>4
  <1>6. CASE NoUpgrade
    <2>1. TypeOK'
      BY <1>6 DEF NoUpgrade
    <2>2. DirInv'
      BY <1>6 DEF NoUpgrade
    <2>3. KeptInv'
      BY <1>6 DEF NoUpgrade
    <2> QED
      BY <2>1, <2>2, <2>3
  <1>7. CASE Proceed
    <2>1. TypeOK'
      BY <1>7 DEF Proceed
    <2>2. DirInv'
      BY <1>7 DEF Proceed
    <2>3. KeptInv'
      BY <1>7 DEF Proceed
    <2> QED
      BY <2>1, <2>2, <2>3
  <1>8. CASE Clean
    <2>1. TypeOK'
      BY <1>8 DEF Clean
    <2>2. DirInv'
      BY <1>8 DEF Clean
    <2>3. KeptInv'
      BY <1>8 DEF Clean
    <2> QED
      BY <2>1, <2>2, <2>3
  <1>9. CASE InitDb
    <2>1. new' \in Directory /\ new'.version = image
      BY <1>9, CreatedTyped DEF InitDb
    <2>2. TypeOK'
      BY <1>9, <2>1 DEF InitDb
    <2>3. DirInv'
      BY <1>9, <2>1 DEF InitDb
    <2>4. KeptInv'
      BY <1>9, <2>1 DEF InitDb
    <2> QED
      BY <2>2, <2>3, <2>4
  <1>10. CASE RestoreOldBinaries
    <2>1. new' \in Directory /\ new'.version = new.version
      BY <1>10 DEF RestoreOldBinaries, Directory
    <2>2. TypeOK'
      BY <1>10, <2>1 DEF RestoreOldBinaries
    <2>3. DirInv'
      BY <1>10, <2>1 DEF RestoreOldBinaries
    <2>4. KeptInv'
      BY <1>10, <2>1 DEF RestoreOldBinaries
    <2> QED
      BY <2>2, <2>3, <2>4
  <1>11. CASE PgUpgradeBegin
    <2>1. new' \in Directory /\ new'.version = new.version
      BY <1>11, DataTyped, SetGen DEF PgUpgradeBegin
    <2>2. TypeOK'
      BY <1>11, <2>1 DEF PgUpgradeBegin
    <2>3. DirInv'
      BY <1>11, <2>1 DEF PgUpgradeBegin
    <2>4. KeptInv'
      BY <1>11, <2>1 DEF PgUpgradeBegin
    <2> QED
      BY <2>2, <2>3, <2>4
  <1>12. CASE PgUpgradeEnd
    <2>1. new' \in Directory /\ new'.version = new.version /\ new'.gen = dir.gen
      BY <1>12, SetGen DEF PgUpgradeEnd, Directory
    <2>2. TypeOK'
      BY <1>12, <2>1 DEF PgUpgradeEnd
    <2>3. DirInv'
      BY <1>12, <2>1 DEF PgUpgradeEnd
    <2>4. KeptInv'
      BY <1>12, <2>1 DEF PgUpgradeEnd
    <2> QED
      BY <2>2, <2>3, <2>4
  <1>13. CASE RemoveBegin
    <2>1. dir' \in Directory /\ dir'.gen = Torn
      BY <1>13, DataTyped, CopiesTyped DEF RemoveBegin, Directory, NoBins
    <2>2. TypeOK'
      BY <1>13, <2>1 DEF RemoveBegin, Directory, Versions
    <2>3. DirInv'
      BY <1>13, <2>1 DEF RemoveBegin, Directory, Versions
    <2>4. KeptInv'
      BY <1>13, <2>1 DEF RemoveBegin, Directory, Versions
    <2> QED
      BY <2>2, <2>3, <2>4
  <1>14. CASE RemoveEnd
    <2>1. TypeOK'
      BY <1>14 DEF RemoveEnd
    <2>2. DirInv'
      BY <1>14 DEF RemoveEnd
    <2>3. KeptInv'
      BY <1>14 DEF RemoveEnd
    <2> QED
      BY <2>1, <2>2, <2>3
  <1>15. CASE Rename
    <2>1. TypeOK'
      BY <1>15 DEF Rename
    <2>2. DirInv'
      BY <1>15 DEF Rename
    <2>3. KeptInv'
      BY <1>15 DEF Rename
    <2> QED
      BY <2>1, <2>2, <2>3
  <1>16. CASE Blocked
    <2>1. TypeOK'
      BY <1>16 DEF Blocked
    <2>2. DirInv'
      BY <1>16 DEF Blocked
    <2>3. KeptInv'
      BY <1>16 DEF Blocked
    <2> QED
      BY <2>1, <2>2, <2>3
  <1>17. CASE Serve
    <2>1. TypeOK'
      BY <1>17 DEF Serve
    <2>2. DirInv'
      BY <1>17 DEF Serve
    <2>3. KeptInv'
      BY <1>17 DEF Serve
    <2> QED
      BY <2>1, <2>2, <2>3
  <1>18. CASE Skip
    <2>1. new' \in Directory
      BY <1>18, DataTyped, SetGen DEF Skip
    <2>2. faults' \in 0..MaxFaults
      BY <1>18 DEF Skip
    <2>3. TypeOK'
      BY <1>18, <2>1, <2>2 DEF Skip
    <2>4. DirInv'
      BY <1>18, <2>1, <2>2 DEF Skip
    <2>5. KeptInv'
      BY <1>18, <2>1, <2>2 DEF Skip
    <2> QED
      BY <2>3, <2>4, <2>5
  <1>19. CASE Fail
    <2>1. /\ dir' \in Directory /\ dir'.version = dir.version
          /\ \/ dir'.gen = dir.gen
             \/ dir'.gen = Torn /\ pc \in {"linking", "remove"}
      BY <1>19, LeftTyped DEF Fail
    <2>2. faults' \in 0..MaxFaults
      BY <1>19 DEF Fail
    <2>3. TypeOK'
      BY <1>19, <2>1, <2>2 DEF Fail, Directory, Versions
    <2>4. DirInv'
      BY <1>19, <2>1, <2>2 DEF Fail, Directory, Versions
    <2>5. KeptInv'
      BY <1>19, <2>1, <2>2 DEF Fail, Directory, Versions
    <2> QED
      BY <2>3, <2>4, <2>5
  <1>20. CASE BackupBegin
    <2>1. dir' = dir \/ dir' = [dir EXCEPT !.bins[image] = "none"]
      BY <1>20 DEF BackupBegin
    <2>2. /\ dir' \in Directory /\ dir'.version = dir.version /\ dir'.gen = dir.gen
      BY <2>1, CopiesTyped, SetBins
    <2>3. TypeOK'
      BY <1>20, <2>1, <2>2 DEF BackupBegin
    <2>4. DirInv'
      BY <1>20, <2>1, <2>2 DEF BackupBegin
    <2>5. KeptInv'
      BY <1>20, <2>1, <2>2 DEF BackupBegin
    <2> QED
      BY <2>3, <2>4, <2>5
  <1>21. CASE BackupCopy
    <2>1. /\ dir' \in Directory /\ dir'.version = dir.version /\ dir'.gen = dir.gen
      BY <1>21, CopiesTyped, SetBins DEF BackupCopy
    <2>2. TypeOK'
      BY <1>21, <2>1 DEF BackupCopy
    <2>3. DirInv'
      BY <1>21, <2>1 DEF BackupCopy
    <2>4. KeptInv'
      BY <1>21, <2>1 DEF BackupCopy
    <2> QED
      BY <2>2, <2>3, <2>4
  <1>22. CASE BackupStore
    <2>1. TypeOK'
      BY <1>22 DEF BackupStore
    <2>2. DirInv'
      BY <1>22 DEF BackupStore
    <2>3. KeptInv'
      BY <1>22 DEF BackupStore
    <2> QED
      BY <2>1, <2>2, <2>3
  <1>23. CASE BackupFail
    <2>1. /\ dir' \in Directory /\ dir'.version = dir.version /\ dir'.gen = dir.gen
      <3>1. CASE UNCHANGED dir
        BY <3>1
      <3>2. CASE \E c \in Copies : dir' = [dir EXCEPT !.bins[image] = c]
        BY <3>2, SetBins
      <3> QED
        BY <1>23, <3>1, <3>2, CopiesTyped DEF BackupFail
    <2>2. faults' \in 0..MaxFaults
      BY <1>23 DEF BackupFail
    <2>3. TypeOK'
      BY <1>23, <2>1, <2>2 DEF BackupFail
    <2>4. DirInv'
      BY <1>23, <2>1, <2>2 DEF BackupFail
    <2>5. KeptInv'
      BY <1>23, <2>1, <2>2 DEF BackupFail
    <2> QED
      BY <2>3, <2>4, <2>5
  <1>24. CASE Poll
    <2>1. TypeOK'
      BY <1>24 DEF Poll
    <2>2. DirInv'
      BY <1>24 DEF Poll
    <2>3. KeptInv'
      BY <1>24 DEF Poll
    <2> QED
      BY <2>1, <2>2, <2>3
  <1>25. CASE DbStart
    <2>1. /\ dir' \in Directory
          /\ dir' = dir \/ (dir = Void /\ dir'.version = image /\ dir'.gen = 0)
      BY <1>25, CreatedTyped DEF DbStart
    <2>2. TypeOK'
      BY <1>25, <2>1 DEF DbStart, Versions
    <2>3. DirInv'
      BY <1>25, <2>1 DEF DbStart, Versions
    <2>4. KeptInv'
      BY <1>25, <2>1 DEF DbStart, Versions
    <2> QED
      BY <2>2, <2>3, <2>4
  <1>26. CASE DbWrite
    <2>1. /\ dir' \in Directory /\ dir'.version = dir.version
          /\ dir.gen \in Nat /\ dir'.gen = dir.gen + 1
      BY <1>26, SetGen DEF DbWrite, Whole, Data
    <2>2. TypeOK'
      BY <1>26, <2>1 DEF DbWrite, Whole
    <2>3. DirInv'
      BY <1>26, <2>1 DEF DbWrite, Whole
    <2>4. KeptInv'
      BY <1>26, <2>1 DEF DbWrite, Whole
    <2> QED
      BY <2>2, <2>3, <2>4
  <1>27. CASE DbExit
    <2>1. faults' \in 0..MaxFaults
      BY <1>27 DEF DbExit
    <2>2. TypeOK'
      BY <1>27, <2>1 DEF DbExit
    <2>3. DirInv'
      BY <1>27, <2>1 DEF DbExit
    <2>4. KeptInv'
      BY <1>27, <2>1 DEF DbExit
    <2> QED
      BY <2>2, <2>3, <2>4
  <1>28. CASE Redeploy
    <2>1. /\ dir' \in Directory /\ dir'.version = dir.version
          /\ \/ dir'.gen = dir.gen
             \/ dir'.gen = Torn /\ pc \in {"linking", "remove"}
      BY <1>28, LeftTyped DEF Redeploy
    <2>2. faults' \in 0..MaxFaults
      BY <1>28 DEF Redeploy
    <2>3. TypeOK'
      BY <1>28, <2>1, <2>2 DEF Redeploy
    <2>4. DirInv'
      BY <1>28, <2>1, <2>2 DEF Redeploy
    <2>5. KeptInv'
      BY <1>28, <2>1, <2>2 DEF Redeploy
    <2> QED
      BY <2>3, <2>4, <2>5
  <1>29. CASE LoseVolume
    <2>1. faults' \in 0..MaxFaults
      BY <1>29 DEF LoseVolume
    <2>2. TypeOK'
      BY <1>29, <2>1 DEF LoseVolume
    <2>3. DirInv'
      BY <1>29, <2>1 DEF LoseVolume
    <2>4. KeptInv'
      BY <1>29, <2>1 DEF LoseVolume
    <2> QED
      BY <2>2, <2>3, <2>4
  <1>30. CASE UNCHANGED vars
    BY <1>30 DEF vars, history
  <1> QED
    BY <1>1, <1>2, <1>3, <1>4, <1>5, <1>6, <1>7, <1>8, <1>9, <1>10, <1>11,
       <1>12, <1>13, <1>14, <1>15, <1>16, <1>17, <1>18, <1>19, <1>20, <1>21,
       <1>22, <1>23, <1>24, <1>25, <1>26, <1>27, <1>28, <1>29, <1>30
    DEF Next, StartStep, UpgradeStep

\* Every variable keeps its type; Upgrade only works on a data directory that
\* has a version, and a backup only runs while the sidecar serves.
THEOREM UpgradeTyped == Spec => []TypeOK
  <1>1. Init => Base
    BY InitBase
  <1>2. Base /\ [Next]_vars => Base'
    BY NextBase
  <1>3. Base => TypeOK
    BY DEF Base
  <1> QED
    BY <1>1, <1>2, <1>3, PTL DEF Spec

\* The steps that end Upgrade.
LEMMA DoneDelivers ==
    ASSUME Base, Next, pc # "done", pc' = "done", Whole(before)
    PROVE  Whole(dir'.gen) /\ before =< dir'.gen
  <1> USE DEF Base, KeptInv, Begun, Older, Goto, Exit, CutOff
  <1>1. CASE StartStep
    BY <1>1 DEF StartStep, UpgradeStep, Boot, Initialize, Stat, RemoveSaved,
       CopyBinaries, NoUpgrade, Proceed, Clean, InitDb, RestoreOldBinaries,
       PgUpgradeBegin, PgUpgradeEnd, RemoveBegin, RemoveEnd, Rename, Blocked, Serve
  <1>2. CASE Skip
    BY <1>2 DEF Skip
  <1>3. CASE Fail \/ Redeploy \/ LoseVolume
    BY <1>3 DEF Fail, Redeploy, LoseVolume
  <1>4. CASE \/ BackupBegin \/ BackupCopy \/ BackupStore \/ BackupFail
             \/ Poll \/ DbStart \/ DbWrite \/ DbExit
    BY <1>4 DEF BackupBegin, BackupCopy, BackupStore, BackupFail,
       Poll, DbStart, DbWrite, DbExit, sidecar
  <1> QED
    BY <1>1, <1>2, <1>3, <1>4 DEF Next

\* Upgrade returns nil only with all that it began with in the data directory
\* (upgrade.go: the early returns, RemoveAll and Rename), wherever earlier
\* attempts failed or were killed.
THEOREM Delivers == Spec => UpgradeDelivers
  <1>1. Init => Base
    BY InitBase
  <1>2. Base /\ [Next]_vars => Base'
    BY NextBase
  <1>3. Base /\ [Next]_vars =>
          [pc # "done" /\ pc' = "done" /\ Whole(before)
             => Whole(dir'.gen) /\ before =< dir'.gen]_vars
    BY DoneDelivers
  <1> QED
    BY <1>1, <1>2, <1>3, PTL DEF Spec, UpgradeDelivers

-----------------------------------------------------------------------------
(* The latest backup.                                                      *)

AtLeast(g, h) == Whole(h) => Whole(g) /\ h =< g

\* Unless an upgrade was cut short: the data directory has what the latest backup
\* has, then the new one has; the database container waits from Clean to Rename;
\* and where it was let start on an older directory, no upgrade will begin.
LostInv ==
    /\ latest = Void \/ Whole(latest.gen)
    /\ pc \in {"stat", "done"} /\ dir = Void => latest = Void
    /\ ~cutShort =>
         /\ Whole(dir.gen) => AtLeast(dir.gen, latest.gen)
         /\ pc \in {"remove", "removing", "rename"} => AtLeast(new.gen, latest.gen)
         /\ dbc = "cleared" /\ dir = Void => latest = Void
         /\ pc \in Older \cup {"removing", "rename"} => dbc = "waiting"
         /\ /\ dbc = "cleared" \/ pc = "done"
            /\ dir.version \in Versions /\ dir.version < image
            => ~HasPgConfig(dir.bins[dir.version])

LEMMA InitLost == Init => LostInv
  <1> SUFFICES ASSUME Init PROVE LostInv
    OBVIOUS
  <1> QED
    BY VoidTyped, ContentsNotWhole
    DEF Init, LostInv, AtLeast, Older, Versions

LEMMA NextLost == Base /\ LostInv /\ [Next]_vars => LostInv'
  <1> SUFFICES ASSUME Base, LostInv, [Next]_vars PROVE LostInv'
    OBVIOUS
  <1> USE VoidTyped, ContentsNotWhole DEF Base, TypeOK, DirInv, LostInv, AtLeast, Older,
          Linked, outside, others, history, sidecar, Goto, Exit, CutOff
  <1>1. CASE Boot
    BY <1>1 DEF Boot, Directory, Versions
  <1>2. CASE Initialize
    <2>1. dir' = dir \/ (dir = Void /\ dir' = latest)
      BY <1>2 DEF Initialize
    <2>2. AtLeast(latest.gen, latest.gen)
      BY DEF Whole
    <2>3. before' = dir'.gen /\ dir' \in Directory
      BY <1>2 DEF Initialize
    <2> QED
      BY <1>2, <2>1, <2>2, <2>3 DEF Initialize, Directory, Versions
  <1>3. CASE Stat
    BY <1>3 DEF Stat, Directory, Versions
  <1>4. CASE RemoveSaved
    <2>1. dir' = [dir EXCEPT !.bins[image] = "none"]
      BY <1>4 DEF RemoveSaved
    <2>2. /\ dir' \in Directory /\ dir'.version = dir.version /\ dir'.gen = dir.gen
          /\ \A v \in Versions : v # image => dir'.bins[v] = dir.bins[v]
      BY <2>1, CopiesTyped, SetBins
    <2>3. dir.version # 0 /\ dir # Void
      BY <1>4 DEF RemoveSaved, Versions, Upgrading, Swap
    <2> QED
      BY <1>4, <2>1, <2>2, <2>3 DEF RemoveSaved, Directory, Versions
  <1>5. CASE CopyBinaries
    <2>1. /\ dir' \in Directory /\ dir'.version = dir.version /\ dir'.gen = dir.gen
          /\ \A v \in Versions : v # image => dir'.bins[v] = dir.bins[v]
      BY <1>5, CopiesTyped, SetBins DEF CopyBinaries
    <2>2. dir.version # 0 /\ dir # Void
      BY <1>5 DEF CopyBinaries, Versions, Upgrading, Swap
    <2> QED
      BY <1>5, <2>1, <2>2 DEF CopyBinaries, Directory, Versions
  <1>6. CASE NoUpgrade
    <2>1. dir.version # 0 /\ dir # Void
      BY <1>6 DEF NoUpgrade, Versions, Upgrading, Swap
    <2> QED
      BY <1>6, <2>1 DEF NoUpgrade, Directory, Versions
  <1>7. CASE Proceed
    <2>1. dir.version # 0 /\ dir # Void
      BY <1>7 DEF Proceed, Versions, Upgrading, Swap
    <2> QED
      BY <1>7, <2>1 DEF Proceed, Directory, Versions
  <1>8. CASE Clean
    BY <1>8 DEF Clean, Directory, Versions
  <1>9. CASE InitDb
    BY <1>9 DEF InitDb, Directory, Versions
  <1>10. CASE RestoreOldBinaries
    BY <1>10 DEF RestoreOldBinaries, Directory, Versions
  <1>11. CASE PgUpgradeBegin
    BY <1>11 DEF PgUpgradeBegin, Directory, Versions
  <1>12. CASE PgUpgradeEnd
    <2>1. Whole(dir.gen)
      BY <1>12 DEF PgUpgradeEnd
    <2>2. new'.gen = dir.gen
      BY <1>12 DEF PgUpgradeEnd, Directory
    <2> QED
      BY <1>12, <2>1, <2>2 DEF PgUpgradeEnd, Directory, Versions
  <1>13. CASE RemoveBegin
    <2>1. dir'.gen = Torn /\ dir' # Void
      BY <1>13 DEF RemoveBegin
    <2> QED
      BY <1>13, <2>1 DEF RemoveBegin, Directory, Versions
  <1>14. CASE RemoveEnd
    BY <1>14 DEF RemoveEnd, Directory, Versions
  <1>15. CASE Rename
    BY <1>15 DEF Rename, Directory, Versions
  <1>16. CASE Blocked
    BY <1>16 DEF Blocked, Directory, Versions
  <1>17. CASE Serve
    BY <1>17 DEF Serve, Directory, Versions
  <1>18. CASE Skip
    <2>1. dir.version # 0 /\ dir # Void
      BY <1>18 DEF Skip, Versions, Upgrading, Swap
    <2> QED
      BY <1>18, <2>1 DEF Skip, Directory, Versions
  <1>19. CASE Fail
    <2>1. /\ dir' = dir \/ dir' # Void
          /\ dir'.version = dir.version
          /\ \A v \in Versions : v # image => dir'.bins[v] = dir.bins[v]
          /\ Whole(dir'.gen) => dir'.gen = dir.gen
      BY <1>19, LeftBacked DEF Fail
    <2> QED
      BY <1>19, <2>1 DEF Fail, Directory, Versions
  <1>20. CASE BackupBegin
    <2>1. dir' = dir \/ dir' = [dir EXCEPT !.bins[image] = "none"]
      BY <1>20 DEF BackupBegin
    <2>2. /\ dir' \in Directory /\ dir'.version = dir.version /\ dir'.gen = dir.gen
          /\ \A v \in Versions : v # image => dir'.bins[v] = dir.bins[v]
      <3>1. CASE dir' = dir
        BY <3>1
      <3>2. CASE dir' = [dir EXCEPT !.bins[image] = "none"]
        BY <3>2, CopiesTyped, SetBins
      <3> QED
        BY <2>1, <3>1, <3>2
    <2>3. dir.version # 0 /\ dir # Void
      BY <1>20 DEF BackupBegin, Versions
    <2> QED
      BY <1>20, <2>1, <2>2, <2>3 DEF BackupBegin, Directory, Versions
  <1>21. CASE BackupCopy
    <2>1. /\ dir' \in Directory /\ dir'.version = dir.version /\ dir'.gen = dir.gen
          /\ \A v \in Versions : v # image => dir'.bins[v] = dir.bins[v]
      BY <1>21, CopiesTyped, SetBins DEF BackupCopy
    <2>2. dir.version # 0 /\ dir # Void
      BY <1>21 DEF BackupCopy, Versions
    <2> QED
      BY <1>21, <2>1, <2>2 DEF BackupCopy, Directory, Versions
  <1>22. CASE BackupStore
    <2>1. AtLeast(dir.gen, dir.gen)
      BY DEF Whole
    <2> QED
      BY <1>22, <2>1 DEF BackupStore, Directory, Versions
  <1>23. CASE BackupFail
    <2>1. /\ dir' \in Directory /\ dir'.version = dir.version /\ dir'.gen = dir.gen
          /\ \A v \in Versions : v # image => dir'.bins[v] = dir.bins[v]
      <3>1. CASE UNCHANGED dir
        BY <3>1
      <3>2. CASE \E c \in Copies : dir' = [dir EXCEPT !.bins[image] = c]
        BY <3>2, SetBins
      <3> QED
        BY <1>23, <3>1, <3>2, CopiesTyped DEF BackupFail
    <2>2. dir.version # 0 /\ dir # Void
      BY <1>23 DEF BackupFail, Versions
    <2> QED
      BY <1>23, <2>1, <2>2 DEF BackupFail, Directory, Versions
  <1>24. CASE Poll
    BY <1>24 DEF Poll, Directory, Versions
  <1>25. CASE DbStart
    <2>1. \/ dir' = dir /\ dir # Void
          \/ dir = Void /\ dir' = Created /\ dir'.version = image /\ dir'.gen = 0
      BY <1>25, CreatedTyped DEF DbStart
    <2>2. dir' # Void
      BY <2>1
    <2> QED
      BY <1>25, <2>1, <2>2 DEF DbStart, Directory, Versions, Whole
  <1>26. CASE DbWrite
    <2>1. /\ dir' \in Directory /\ dir'.version = dir.version
          /\ dir.gen \in Nat /\ dir'.gen = dir.gen + 1 /\ dir'.bins = dir.bins
      BY <1>26, SetGen DEF DbWrite, Whole, Data
    <2> QED
      BY <1>26, <2>1 DEF DbWrite, Directory, Versions, Whole
  <1>27. CASE DbExit
    BY <1>27 DEF DbExit, Directory, Versions
  <1>28. CASE Redeploy
    <2>1. /\ dir' = dir \/ dir' # Void
          /\ dir'.version = dir.version
          /\ \A v \in Versions : v # image => dir'.bins[v] = dir.bins[v]
          /\ Whole(dir'.gen) => dir'.gen = dir.gen
      BY <1>28, LeftBacked DEF Redeploy
    <2> QED
      BY <1>28, <2>1 DEF Redeploy, Directory, Versions
  <1>29. CASE LoseVolume
    BY <1>29 DEF LoseVolume, Directory, Versions
  <1>30. CASE UNCHANGED vars
    BY <1>30 DEF vars, history
  <1> QED
    BY <1>1, <1>2, <1>3, <1>4, <1>5, <1>6, <1>7, <1>8, <1>9, <1>10, <1>11,
       <1>12, <1>13, <1>14, <1>15, <1>16, <1>17, <1>18, <1>19, <1>20, <1>21,
       <1>22, <1>23, <1>24, <1>25, <1>26, <1>27, <1>28, <1>29, <1>30
    DEF Next, StartStep, UpgradeStep

\* The database container, which starts on a status that may be of an earlier
\* Upgrade (wait.go), never runs with less than the latest backup has, unless an
\* upgrade was cut short.  No assumption is needed.
THEOREM NotLost == Spec => []NothingLost
  <1>1. Init => Base /\ LostInv
    BY InitBase, InitLost
  <1>2. (Base /\ LostInv) /\ [Next]_vars => (Base /\ LostInv)'
    BY NextBase, NextLost
  <1>3. Base /\ LostInv => NothingLost
    BY DEF Base, DirInv, LostInv, AtLeast, NothingLost
  <1> QED
    BY <1>1, <1>2, <1>3, PTL DEF Spec

-----------------------------------------------------------------------------
(* The saved binaries.                                                     *)

\* Once Upgrade has saved the binaries of the image they are not partial, unless
\* a cp of Backup in the same process made them so, and what Backup dumps has all
\* of them, with the same exception.
BinsInv ==
    /\ spoilt => pc = "serve"
    /\ ~spoilt =>
         /\ pc \in Saved /\ dir.version # 0 => dir.bins[image] # "part"
         /\ pc \in Carried => new.bins[image] # "part"
         /\ job = "dump" => dir.bins[image] = "whole"

LEMMA InitBins == Init => BinsInv
  BY DEF Init, BinsInv, Saved, Carried, Linked, Older

LEMMA NextBins ==
    ASSUME Base, BinsInv, [Next]_vars PROVE BinsInv'
  <1> USE DEF Base, TypeOK, DirInv, BinsInv, Saved, Carried, Linked,
          Older, outside, others, history, sidecar, Goto, Exit, CutOff
  <1>1. CASE Boot
    BY <1>1 DEF Boot
  <1>2. CASE Initialize
    BY <1>2 DEF Initialize
  <1>3. CASE Stat
    BY <1>3 DEF Stat
  <1>4. CASE RemoveSaved
    BY <1>4, CopiesTyped, SetBins DEF RemoveSaved
  <1>5. CASE CopyBinaries
    BY <1>5, CopiesTyped, SetBins DEF CopyBinaries
  <1>6. CASE NoUpgrade
    BY <1>6 DEF NoUpgrade
  <1>7. CASE Proceed
    BY <1>7 DEF Proceed
  <1>8. CASE Clean
    BY <1>8 DEF Clean
  <1>9. CASE InitDb
    BY <1>9 DEF InitDb
  <1>10. CASE RestoreOldBinaries
    BY <1>10 DEF RestoreOldBinaries, Directory, Versions, Upgrading, Swap
  <1>11. CASE PgUpgradeBegin
    BY <1>11 DEF PgUpgradeBegin
  <1>12. CASE PgUpgradeEnd
    BY <1>12 DEF PgUpgradeEnd
  <1>13. CASE RemoveBegin
    BY <1>13 DEF RemoveBegin
  <1>14. CASE RemoveEnd
    BY <1>14 DEF RemoveEnd
  <1>15. CASE Rename
    BY <1>15 DEF Rename
  <1>16. CASE Blocked
    BY <1>16 DEF Blocked
  <1>17. CASE Serve
    BY <1>17 DEF Serve
  <1>18. CASE Skip
    BY <1>18 DEF Skip
  <1>19. CASE Fail
    BY <1>19 DEF Fail
  <1>20. CASE BackupBegin
    BY <1>20 DEF BackupBegin, HasPgConfig, Directory, Versions
  <1>21. CASE BackupCopy
    BY <1>21, CopiesTyped, SetBins DEF BackupCopy
  <1>22. CASE BackupStore
    BY <1>22 DEF BackupStore
  <1>23. CASE BackupFail
    BY <1>23 DEF BackupFail, HasPgConfig, Directory, Interrupted
  <1>24. CASE Poll
    BY <1>24 DEF Poll
  <1>25. CASE DbStart
    <2>1. dir' = dir \/ (dir = Void /\ dir'.bins[image] = "none")
      BY <1>25, CreatedTyped DEF DbStart
    <2> QED
      BY <1>25, <2>1, VoidTyped DEF DbStart, Versions
  <1>26. CASE DbWrite
    BY <1>26 DEF DbWrite
  <1>27. CASE DbExit
    BY <1>27 DEF DbExit
  <1>28. CASE Redeploy
    BY <1>28 DEF Redeploy
  <1>29. CASE LoseVolume
    BY <1>29 DEF LoseVolume
  <1>30. CASE UNCHANGED vars
    BY <1>30 DEF vars, history
  <1> QED
    BY <1>1, <1>2, <1>3, <1>4, <1>5, <1>6, <1>7, <1>8, <1>9, <1>10, <1>11,
       <1>12, <1>13, <1>14, <1>15, <1>16, <1>17, <1>18, <1>19, <1>20, <1>21,
       <1>22, <1>23, <1>24, <1>25, <1>26, <1>27, <1>28, <1>29, <1>30
    DEF Next, StartStep, UpgradeStep

\* The one step that stores a backup.
LEMMA StoreUpgradable ==
    ASSUME Base, BinsInv, Next, latest' # latest
    PROVE  latest'.bins[latest'.version] = "whole" \/ spoilt
  <1> USE DEF Base, DirInv, BinsInv, Goto, Exit, CutOff
  <1>1. CASE StartStep
    BY <1>1 DEF StartStep, UpgradeStep, Boot, Initialize, Stat, RemoveSaved,
       CopyBinaries, NoUpgrade, Proceed, Clean, InitDb, RestoreOldBinaries,
       PgUpgradeBegin, PgUpgradeEnd, RemoveBegin, RemoveEnd, Rename, Blocked, Serve,
       outside, others
  <1>2. CASE Skip \/ Fail \/ Redeploy \/ LoseVolume
    BY <1>2 DEF Skip, Fail, Redeploy, LoseVolume
  <1>3. CASE BackupStore
    BY <1>3 DEF BackupStore
  <1>4. CASE \/ BackupBegin \/ BackupCopy \/ BackupFail
             \/ Poll \/ DbStart \/ DbWrite \/ DbExit
    BY <1>4 DEF BackupBegin, BackupCopy, BackupFail,
       Poll, DbStart, DbWrite, DbExit, sidecar
  <1> QED
    BY <1>1, <1>2, <1>3, <1>4 DEF Next

\* Every backup that is stored can be restored and upgraded by a later image: the
\* binaries of its version are in it (postgres.go: Backup copies them before the
\* dump unless pg_config is there), but for the backups of a process in which
\* such a copy failed after pg_config.
THEOREM Upgradable == Spec => BackupUpgradable
  <1>1. Init => Base /\ BinsInv
    BY InitBase, InitBins
  <1>2. (Base /\ BinsInv) /\ [Next]_vars => (Base /\ BinsInv)'
    BY NextBase, NextBins
  <1>3. (Base /\ BinsInv) /\ [Next]_vars =>
          [latest' # latest
             => latest'.bins[latest'.version] = "whole" \/ spoilt]_vars
    BY StoreUpgradable
  <1> QED
    BY <1>1, <1>2, <1>3, PTL DEF Spec, BackupUpgradable

-----------------------------------------------------------------------------
(* The binaries of what was backed up.                                     *)

\* The data directory is at least as new as the latest backup, and where a
\* database may be created in an empty one, that would be newer.
NewerInv ==
    /\ dir.version # 0 => latest.version =< dir.version
    /\ pc \in {"removing", "rename"} => latest.version < image
    /\ pc \in {"stat", "done"} /\ dir = Void => latest = Void
    /\ dbc = "cleared" /\ dir = Void => latest.version < image

\* The binaries of files that are prepared for an upgrade are there, except while
\* start is saving them again; Backup only copies what is not there.
PresentInv ==
    /\ Whole(dir.gen) /\ Prepared /\ (pc = "copy" => dir.version # image)
       => dir.bins[dir.version] = "whole"
    /\ job = "copy" => dir.bins[image] # "whole"

Backed == Base /\ NewerInv /\ PresentInv

LEMMA InitBacked == Init => Backed
  <1> SUFFICES ASSUME Init PROVE Backed
    OBVIOUS
  <1> QED
    BY InitBase, VoidTyped, ContentsNotWhole, UpgradeAssumption
    DEF Init, Backed, NewerInv, PresentInv, Versions

LEMMA NextBacked ==
    ASSUME Backed, [Next]_vars
    PROVE  Backed'
  <1>1. Base'
    BY NextBase DEF Backed
  <1> SUFFICES NewerInv' /\ PresentInv'
    BY <1>1 DEF Backed
  <1> USE VoidTyped, ContentsNotWhole DEF Backed, Base, TypeOK, DirInv, NewerInv,
      PresentInv, Prepared, Older, Linked, outside, others, history, sidecar, Goto,
      Exit
  <1>2. CASE Boot
    <2>1. NewerInv'
      BY <1>1, <1>2 DEF Boot, Directory, Versions
    <2>2. PresentInv'
      BY <1>1, <1>2 DEF Boot, Directory, Versions
    <2> QED
      BY <2>1, <2>2
  <1>3. CASE Initialize
    <2>1. \/ dir' = dir /\ cutSave' = cutSave
          \/ dir = Void /\ dir' = latest /\ cutSave' = {}
      BY <1>3 DEF Initialize
    <2>2. NewerInv'
      BY <1>1, <1>3, <2>1 DEF Initialize, Directory, Versions
    <2>3. PresentInv'
      BY <1>1, <1>3, <2>1 DEF Initialize, Directory, Versions
    <2> QED
      BY <2>2, <2>3
  <1>4. CASE Stat
    <2>1. NewerInv'
      BY <1>1, <1>4 DEF Stat, Directory, Versions
    <2>2. PresentInv'
      BY <1>1, <1>4 DEF Stat, Directory, Versions
    <2> QED
      BY <2>1, <2>2
  <1>5. CASE RemoveSaved
    <2>1. /\ dir' \in Directory /\ dir'.version = dir.version /\ dir'.gen = dir.gen
          /\ \A v \in Versions : v # image => dir'.bins[v] = dir.bins[v]
      BY <1>5, CopiesTyped, SetBins DEF RemoveSaved
    <2>2. dir.version # 0 /\ dir # Void
      BY <1>5 DEF RemoveSaved, Versions, Upgrading, Swap
    <2>3. NewerInv'
      BY <1>1, <1>5, <2>1, <2>2 DEF RemoveSaved, Directory, Versions
    <2>4. PresentInv'
      BY <1>1, <1>5, <2>1, <2>2 DEF RemoveSaved, Directory, Versions
    <2> QED
      BY <2>3, <2>4
  <1>6. CASE CopyBinaries
    <2>1. /\ dir' \in Directory /\ dir'.version = dir.version /\ dir'.gen = dir.gen
          /\ \A v \in Versions : v # image => dir'.bins[v] = dir.bins[v]
          /\ dir'.bins[image] = "whole"
      BY <1>6, CopiesTyped, SetBins DEF CopyBinaries
    <2>2. dir.version # 0 /\ dir # Void
      BY <1>6 DEF CopyBinaries, Versions, Upgrading, Swap
    <2>3. NewerInv'
      BY <1>1, <1>6, <2>1, <2>2 DEF CopyBinaries, Directory, Versions
    <2>4. PresentInv'
      BY <1>1, <1>6, <2>1, <2>2 DEF CopyBinaries, Directory, Versions
    <2> QED
      BY <2>3, <2>4
  <1>7. CASE NoUpgrade
    <2>1. dir.version # 0 /\ dir # Void
      BY <1>7 DEF NoUpgrade, Versions, Upgrading, Swap
    <2>2. NewerInv'
      BY <1>1, <1>7, <2>1 DEF NoUpgrade, Directory, Versions
    <2>3. PresentInv'
      BY <1>1, <1>7, <2>1 DEF NoUpgrade, Directory, Versions
    <2> QED
      BY <2>2, <2>3
  <1>8. CASE Proceed
    <2>1. NewerInv'
      BY <1>1, <1>8 DEF Proceed, Directory, Versions
    <2>2. PresentInv'
      BY <1>1, <1>8 DEF Proceed, Directory, Versions
    <2> QED
      BY <2>1, <2>2
  <1>9. CASE Clean
    <2>1. NewerInv'
      BY <1>1, <1>9 DEF Clean, Directory, Versions
    <2>2. PresentInv'
      BY <1>1, <1>9 DEF Clean, Directory, Versions
    <2> QED
      BY <2>1, <2>2
  <1>10. CASE InitDb
    <2>1. NewerInv'
      BY <1>1, <1>10 DEF InitDb, Directory, Versions
    <2>2. PresentInv'
      BY <1>1, <1>10 DEF InitDb, Directory, Versions
    <2> QED
      BY <2>1, <2>2
  <1>11. CASE RestoreOldBinaries
    <2>1. NewerInv'
      BY <1>1, <1>11 DEF RestoreOldBinaries, Directory, Versions
    <2>2. PresentInv'
      BY <1>1, <1>11 DEF RestoreOldBinaries, Directory, Versions
    <2> QED
      BY <2>1, <2>2
  <1>12. CASE PgUpgradeBegin
    <2>1. NewerInv'
      BY <1>1, <1>12 DEF PgUpgradeBegin, Directory, Versions
    <2>2. PresentInv'
      BY <1>1, <1>12 DEF PgUpgradeBegin, Directory, Versions
    <2> QED
      BY <2>1, <2>2
  <1>13. CASE PgUpgradeEnd
    <2>1. NewerInv'
      BY <1>1, <1>13 DEF PgUpgradeEnd, Directory, Versions
    <2>2. PresentInv'
      BY <1>1, <1>13 DEF PgUpgradeEnd, Directory, Versions
    <2> QED
      BY <2>1, <2>2
  <1>14. CASE RemoveBegin
    <2>1. dir'.version \in {0, dir.version} /\ dir'.gen = Torn /\ dir' # Void
      BY <1>14 DEF RemoveBegin
    <2>2. latest.version < image
      BY <1>14 DEF RemoveBegin, Directory, Versions, Upgrading, Swap
    <2>3. NewerInv'
      BY <1>1, <1>14, <2>1, <2>2 DEF RemoveBegin, Directory, Versions
    <2>4. PresentInv'
      BY <1>1, <1>14, <2>1, <2>2 DEF RemoveBegin, Directory, Versions
    <2> QED
      BY <2>3, <2>4
  <1>15. CASE RemoveEnd
    <2>1. NewerInv'
      BY <1>1, <1>15 DEF RemoveEnd, Directory, Versions
    <2>2. PresentInv'
      BY <1>1, <1>15 DEF RemoveEnd, Directory, Versions
    <2> QED
      BY <2>1, <2>2
  <1>16. CASE Rename
    <2>1. NewerInv'
      BY <1>1, <1>16 DEF Rename, Directory, Versions
    <2>2. PresentInv'
      BY <1>1, <1>16 DEF Rename, Directory, Versions
    <2> QED
      BY <2>1, <2>2
  <1>17. CASE Blocked
    <2>1. NewerInv'
      BY <1>1, <1>17 DEF Blocked, Directory, Versions
    <2>2. PresentInv'
      BY <1>1, <1>17 DEF Blocked, Directory, Versions
    <2> QED
      BY <2>1, <2>2
  <1>18. CASE Serve
    <2>1. NewerInv'
      BY <1>1, <1>18 DEF Serve, Directory, Versions
    <2>2. PresentInv'
      BY <1>1, <1>18 DEF Serve, Directory, Versions
    <2> QED
      BY <2>1, <2>2
  <1>19. CASE Skip
    <2>1. dir.version # 0 /\ dir # Void
      BY <1>19 DEF Skip, Versions, Upgrading, Swap
    <2>2. NewerInv'
      BY <1>1, <1>19, <2>1 DEF Skip, Directory, Versions
    <2>3. PresentInv'
      BY <1>1, <1>19, <2>1 DEF Skip, Directory, Versions
    <2> QED
      BY <2>2, <2>3
  <1>20. CASE Fail
    <2>1. /\ dir' = dir \/ dir' # Void
          /\ dir'.version = dir.version /\ dir' \in Directory
          /\ \A v \in Versions : v # image => dir'.bins[v] = dir.bins[v]
          /\ Whole(dir'.gen) => Whole(dir.gen)
      BY <1>20, LeftBacked, LeftTyped DEF Fail, CutOff
    <2>2. cutSave \subseteq cutSave' /\ latest' = latest
      BY <1>20 DEF Fail, CutOff
    <2>3. /\ pc \in {"save", "copy"} /\ dir'.bins[image] # "whole" => image \in cutSave'
          /\ pc \notin {"save", "copy"} /\ job # "copy" => dir'.bins = dir.bins
      BY <1>20, SetGen, DataTyped DEF Fail, CutOff, LeftHalfDone
    <2>4. NewerInv'
      BY <1>1, <1>20, <2>1, <2>2, <2>3 DEF Fail, CutOff, Directory, Versions
    <2>5. PresentInv'
      BY <1>1, <1>20, <2>1, <2>2, <2>3 DEF Fail, CutOff, Directory, Versions
    <2> QED
      BY <2>4, <2>5
  <1>21. CASE BackupBegin
    <2>1. \/ dir' = dir /\ job' = "dump"
          \/ dir' = [dir EXCEPT !.bins[image] = "none"] /\ dir.bins[image] # "whole"
      BY <1>21 DEF BackupBegin, HasPgConfig
    <2>2. /\ dir' \in Directory /\ dir'.version = dir.version /\ dir'.gen = dir.gen
          /\ \A v \in Versions : v # image => dir'.bins[v] = dir.bins[v]
          /\ job' = "copy" \/ dir' # dir => dir.bins[image] # "whole" /\ dir'.bins[image] # "whole"
      <3>1. CASE dir' = dir /\ job' = "dump"
        BY <3>1
      <3>2. CASE dir' = [dir EXCEPT !.bins[image] = "none"] /\ dir.bins[image] # "whole"
        BY <3>2, CopiesTyped, SetBins
      <3> QED
        BY <2>1, <3>1, <3>2
    <2>3. NewerInv'
      BY <1>1, <1>21, <2>1, <2>2 DEF BackupBegin, Directory, Versions
    <2>4. PresentInv'
      BY <1>1, <1>21, <2>1, <2>2 DEF BackupBegin, Directory, Versions
    <2> QED
      BY <2>3, <2>4
  <1>22. CASE BackupCopy
    <2>1. /\ dir' \in Directory /\ dir'.version = dir.version /\ dir'.gen = dir.gen
          /\ \A v \in Versions : v # image => dir'.bins[v] = dir.bins[v]
          /\ dir'.bins[image] = "whole"
      BY <1>22, CopiesTyped, SetBins DEF BackupCopy
    <2>2. dir.version = image /\ dir # Void /\ dir' # Void
      BY <1>22, <2>1 DEF BackupCopy, Versions
    <2>3. NewerInv'
      BY <1>1, <1>22, <2>1, <2>2 DEF BackupCopy, Directory, Versions
    <2>4. PresentInv'
      BY <1>1, <1>22, <2>1, <2>2 DEF BackupCopy, Directory, Versions
    <2> QED
      BY <2>3, <2>4
  <1>23. CASE BackupStore
    <2>1. NewerInv'
      BY <1>1, <1>23 DEF BackupStore, Directory, Versions
    <2>2. PresentInv'
      BY <1>1, <1>23 DEF BackupStore, Directory, Versions
    <2> QED
      BY <2>1, <2>2
  <1>24. CASE BackupFail
    <2>1. /\ dir' \in Directory /\ dir'.version = dir.version /\ dir'.gen = dir.gen
          /\ \A v \in Versions : v # image => dir'.bins[v] = dir.bins[v]
          /\ dir' # dir => dir.bins[image] # "whole" /\ dir'.bins[image] # "whole"
      <3>1. CASE UNCHANGED dir
        BY <3>1
      <3>2. CASE job = "copy" /\ \E c \in Interrupted : dir' = [dir EXCEPT !.bins[image] = c]
        BY <3>2, CopiesTyped, SetBins DEF Interrupted
      <3> QED
        BY <1>24, <3>1, <3>2 DEF BackupFail
    <2>2. dir.version = image /\ dir # Void /\ dir' # Void
      BY <1>24, <2>1 DEF BackupFail, Versions
    <2>3. NewerInv'
      BY <1>1, <1>24, <2>1, <2>2 DEF BackupFail, Directory, Versions
    <2>4. PresentInv'
      BY <1>1, <1>24, <2>1, <2>2 DEF BackupFail, Directory, Versions
    <2> QED
      BY <2>3, <2>4
  <1>25. CASE Poll
    <2>1. NewerInv'
      BY <1>1, <1>25 DEF Poll, Directory, Versions
    <2>2. PresentInv'
      BY <1>1, <1>25 DEF Poll, Directory, Versions
    <2> QED
      BY <2>1, <2>2
  <1>26. CASE DbStart
    <2>1. \/ dir' = dir /\ dir # Void
          \/ dir = Void /\ dir' = Created /\ dir'.version = image /\ dir'.gen = 0
      BY <1>26, CreatedTyped DEF DbStart
    <2>2. dir' # Void
      BY <2>1
    <2>3. NewerInv'
      BY <1>1, <1>26, <2>1, <2>2 DEF DbStart, Directory, Versions
    <2>4. PresentInv'
      BY <1>1, <1>26, <2>1, <2>2 DEF DbStart, Directory, Versions
    <2> QED
      BY <2>3, <2>4
  <1>27. CASE DbWrite
    <2>1. /\ dir' \in Directory /\ dir'.version = dir.version /\ dir'.bins = dir.bins
          /\ Whole(dir.gen) /\ Whole(dir'.gen) /\ dir # Void /\ dir' # Void
      BY <1>27, SetGen DEF DbWrite, Whole, Data
    <2>2. NewerInv'
      BY <1>1, <1>27, <2>1 DEF DbWrite, Directory, Versions
    <2>3. PresentInv'
      BY <1>1, <1>27, <2>1 DEF DbWrite, Directory, Versions
    <2> QED
      BY <2>2, <2>3
  <1>28. CASE DbExit
    <2>1. NewerInv'
      BY <1>1, <1>28 DEF DbExit, Directory, Versions
    <2>2. PresentInv'
      BY <1>1, <1>28 DEF DbExit, Directory, Versions
    <2> QED
      BY <2>1, <2>2
  <1>29. CASE Redeploy
    <2>1. /\ dir' = dir \/ dir' # Void
          /\ dir'.version = dir.version /\ dir' \in Directory
          /\ \A v \in Versions : v # image => dir'.bins[v] = dir.bins[v]
          /\ Whole(dir'.gen) => Whole(dir.gen)
      BY <1>29, LeftBacked, LeftTyped DEF Redeploy, CutOff
    <2>2. cutSave \subseteq cutSave' /\ latest' = latest
      BY <1>29 DEF Redeploy, CutOff
    <2>3. /\ pc \in {"save", "copy"} /\ dir'.bins[image] # "whole" => image \in cutSave'
          /\ pc \notin {"save", "copy"} /\ job # "copy" => dir'.bins = dir.bins
      BY <1>29, SetGen, DataTyped DEF Redeploy, CutOff, LeftHalfDone
    <2>4. NewerInv'
      BY <1>1, <1>29, <2>1, <2>2, <2>3 DEF Redeploy, CutOff, Directory, Versions
    <2>5. PresentInv'
      BY <1>1, <1>29, <2>1, <2>2, <2>3 DEF Redeploy, CutOff, Directory, Versions
    <2> QED
      BY <2>4, <2>5
  <1>30. CASE LoseVolume
    <2>1. NewerInv'
      BY <1>1, <1>30 DEF LoseVolume, Directory, Versions
    <2>2. PresentInv'
      BY <1>1, <1>30 DEF LoseVolume, Directory, Versions
    <2> QED
      BY <2>1, <2>2
  <1>31. CASE UNCHANGED vars
    BY <1>31 DEF vars, history
  <1> QED
    BY <1>2, <1>3, <1>4, <1>5, <1>6, <1>7, <1>8, <1>9, <1>10, <1>11, <1>12,
       <1>13, <1>14, <1>15, <1>16, <1>17, <1>18, <1>19, <1>20, <1>21, <1>22,
       <1>23, <1>24, <1>25, <1>26, <1>27, <1>28, <1>29, <1>30, <1>31
    DEF Next, StartStep, UpgradeStep

\* A later image finds the old binaries of a directory that is prepared (upgrade.go:
\* saved by start after RemoveAll, by every backup, and carried over by every
\* upgrade), in whatever order images, kills, failing copies and restores come.
THEOREM BinariesKept == Spec => []OldBinariesKept
  <1>1. Init => Backed
    BY InitBacked
  <1>2. Backed /\ [Next]_vars => Backed'
    BY NextBacked
  <1>3. Backed => OldBinariesKept
    BY UpgradeAssumption
    DEF Backed, Base, TypeOK, PresentInv, OldBinariesKept, Directory, Versions
  <1> QED
    BY <1>1, <1>2, <1>3, PTL DEF Spec
=============================================================================
