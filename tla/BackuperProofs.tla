--------------------------- MODULE BackuperProofs ---------------------------
(***************************************************************************)
(* Theorems about Backuper, for every engine and provider, every set of    *)
(* callers and every value of the bounds unless an assumption says         *)
(* otherwise.                                                              *)
(***************************************************************************)
EXTENDS Backuper, FiniteSetTheorems, TLAPS

-----------------------------------------------------------------------------
(* Type correctness.                                                       *)

LEMMA InitTyped == Init => TypeOK
  <1>1. 0 \in Slots /\ 0 \in 0..MaxGen /\ 0 \in 0..MaxBackups /\ 0 \in 0..MaxFaults
    BY BackuperAssumption DEF Slots
  <1> QED
    BY <1>1 DEF Init, TypeOK, Pcs, Data

\* The counter of the local provider stays among its slots.
LEMMA NextSlot == ASSUME next \in Slots PROVE (next + 1) % Keep \in Slots
  BY BackuperAssumption DEF Slots

LEMMA PutTyped ==
    ASSUME TypeOK, NEW gen \in Data, NEW old, Put(gen, old)
    PROVE  store' \subseteq Version /\ clock' \in 0..MaxBackups
  <1>1. clock + 1 \in Nat /\ clock + 1 \in 0..MaxBackups
    BY BackuperAssumption DEF TypeOK, Put
  <1>2. [date |-> clock + 1, slot |-> slot, gen |-> gen] \in Version
    BY <1>1 DEF TypeOK, Version
  <1> QED
    BY <1>1, <1>2 DEF TypeOK, Put

LEMMA FaultTyped ==
    ASSUME TypeOK, Fault PROVE faults' \in 0..MaxFaults
  BY BackuperAssumption DEF TypeOK, Fault

\* What is left in the directories by a statement that does not get to its end.
LEMMA PartTyped ==
    ASSUME TypeOK, UNCHANGED directories \/ \E c \in Callers : PartDone(c)
    PROVE  backupDir' \in Data /\ archive' \in Data
  <1>1. {Empty, Torn, live, backupDir, archive} \subseteq Data
    BY BackuperAssumption DEF TypeOK, Data
  <1> QED
    BY <1>1 DEF PartDone, directories

LEMMA CallTyped ==
    ASSUME TypeOK, NEW c \in Callers, CallStep(c) PROVE TypeOK'
  <1> USE DEF TypeOK, Goto, Pcs, call, naming, directories, files, database, bucket
  <1>1. CASE Clean(c)
    BY <1>1 DEF Clean, Data
  <1>2. CASE Dump(c)
    <2>1. live \in Data
      BY BackuperAssumption DEF Data
    <2> QED
      BY <1>2, <2>1 DEF Dump
  <1>3. CASE GetNextBackupName(c)
    BY <1>3, NextSlot DEF GetNextBackupName
  <1>4. CASE RemovePrior(c)
    BY <1>4 DEF RemovePrior, Data
  <1>5. CASE Compress(c)
    BY <1>5 DEF Compress
  <1>6. CASE Encrypt(c)
    BY <1>6 DEF Encrypt
  <1>7. CASE Open(c)
    BY <1>7 DEF Open
  <1>8. CASE UploadObject(c)
    BY <1>8, PutTyped DEF UploadObject
  <1>9. CASE LoseObject(c)
    BY <1>9, FaultTyped DEF LoseObject
  <1>10. CASE CreateFile(c)
    <2>1. Torn \in Data
      BY DEF Data
    <2> QED
      BY <1>10, <2>1, PutTyped DEF CreateFile
  <1>11. CASE CopyFile(c)
    <2>1. store' \subseteq Version
      BY <1>11 DEF CopyFile, Version
    <2> QED
      BY <1>11, <2>1 DEF CopyFile
  <1>12. CASE CountBackup(c)
    BY <1>12 DEF CountBackup
  <1>13. CASE Return(c)
    BY <1>13 DEF Return
  <1>14. CASE Blocked(c)
    BY <1>14 DEF Blocked, ReturnError
  <1> QED
    BY <1>1, <1>2, <1>3, <1>4, <1>5, <1>6, <1>7, <1>8, <1>9, <1>10, <1>11,
       <1>12, <1>13, <1>14 DEF CallStep

LEMMA NextTyped == TypeOK /\ [Next]_vars => TypeOK'
  <1> SUFFICES ASSUME TypeOK, [Next]_vars PROVE TypeOK'
    OBVIOUS
  <1> USE DEF TypeOK, call, naming, directories, files, database, bucket
  <1>1. ASSUME NEW c \in Callers, Acquire(c) PROVE TypeOK'
    BY <1>1, BackuperAssumption DEF Acquire, Goto, Pcs
  <1>2. ASSUME NEW c \in Callers, CallStep(c) PROVE TypeOK'
    BY <1>2, CallTyped
  <1>3. ASSUME NEW c \in Callers, Fail(c) PROVE TypeOK'
    <2>1. backupDir' \in Data /\ archive' \in Data
      BY <1>3, PartTyped DEF Fail
    <2> QED
      BY <1>3, <2>1, FaultTyped DEF Fail, ReturnError, Pcs
  <1>4. CASE Crash
    <2>1. 0 \in Slots
      BY BackuperAssumption DEF Slots
    <2>2. backupDir' \in Data /\ archive' \in Data
      BY <1>4, PartTyped DEF Crash
    <2> QED
      BY <1>4, <2>1, <2>2, FaultTyped DEF Crash, Pcs
  <1>5. CASE DbWrite
    BY <1>5, BackuperAssumption DEF DbWrite
  <1>6. CASE Failover
    BY <1>6, FaultTyped DEF Failover
  <1>7. CASE Expire
    BY <1>7 DEF Expire
  <1>8. CASE UNCHANGED vars
    BY <1>8 DEF vars
  <1> QED
    BY <1>1, <1>2, <1>3, <1>4, <1>5, <1>6, <1>7, <1>8 DEF Next

\* Every variable keeps its type, and a caller holds the semaphore exactly
\* while it is inside CreateBackup (backup.go: TryAcquire, deferred Release).
THEOREM BackuperTyped == Spec => []TypeOK
  <1>1. Init => TypeOK
    BY InitTyped
  <1>2. TypeOK /\ [Next]_vars => TypeOK'
    BY NextTyped
  <1> QED
    BY <1>1, <1>2, PTL DEF Spec

-----------------------------------------------------------------------------
(* In which order backups are stored.                                      *)

\* One caller at a time is inside CreateBackup.
Single == \A c, d \in Callers : pc[c] # "idle" /\ pc[d] # "idle" => c = d

\* Dates are unique, up to clock; nothing is stored that was never written.
StoreInv ==
    /\ \A v \in store : v.date =< clock
    /\ \A u, v \in store : u.date = v.date => u = v
    /\ \A v \in store : Whole(v.gen) => v.gen =< live

\* A dump that is whole has all that is stored.
Late(x) ==
    Whole(x) => x =< live /\ \A v \in store : Whole(v.gen) => v.gen =< x

\* The version of this upload has its slot, still truncated.
Claimed ==
    /\ Provider = "local"
    /\ \E v \in store : v.slot = slot
    /\ \A v \in store : v.slot = slot => v.date = clock /\ ~Whole(v.gen)

\* What c has in its hands is the dump.
Carries(c) ==
    /\ pc[c] \in {"encrypt", "open"} => archive = backupDir
    /\ pc[c] \in {"upload", "uploading"} => handle[c] = backupDir
    /\ pc[c] = "uploading" => Claimed

OrderInv ==
    /\ TypeOK
    /\ Single
    /\ StoreInv
    /\ StoredOrder
    /\ Late(backupDir)
    /\ \A c \in Callers : Carries(c)

LEMMA InitOrder == Init => OrderInv
  <1> SUFFICES ASSUME Init PROVE OrderInv
    OBVIOUS
  <1>1. store = {} /\ backupDir = Empty /\ \A c \in Callers : pc[c] = "idle"
    BY DEF Init
  <1> QED
    BY <1>1, InitTyped, ContentsDiffer
    DEF OrderInv, Single, StoreInv, StoredOrder, Late, Whole, Carries

\* Callers other than the one that steps are idle.
LEMMA OthersIdle ==
    ASSUME Single, NEW c \in Callers, pc[c] # "idle",
           NEW d \in Callers, d # c
    PROVE  pc[d] = "idle"
  BY DEF Single

\* A step of c that keeps the store, and leaves it with nothing but the dump.
LEMMA QuietOrder ==
    ASSUME OrderInv, TypeOK', NEW c \in Callers, pc[c] # "idle",
           NEW to, pc' = [pc EXCEPT ![c] = to],
           store' = store, clock' = clock, live' = live,
           Late(backupDir)', Carries(c)'
    PROVE  OrderInv'
  <1>1. \A d \in Callers : d # c => pc'[d] = "idle"
    BY OthersIdle DEF OrderInv, TypeOK
  <1>2. Single' /\ \A d \in Callers : Carries(d)'
    BY <1>1 DEF Single, Carries
  <1>3. StoreInv' /\ StoredOrder'
    BY DEF OrderInv, StoreInv, StoredOrder
  <1> QED
    BY <1>2, <1>3 DEF OrderInv

\* A step after which no caller but idle ones is left.
LEMMA IdleOrder ==
    ASSUME OrderInv, TypeOK', \A d \in Callers : pc'[d] = "idle",
           store' = store, clock' = clock, live' = live, Late(backupDir)'
    PROVE  OrderInv'
  BY DEF OrderInv, StoreInv, StoredOrder, Single, Carries

\* Whatever is left of a dump is not whole, or it is a new one.
LEMMA PartLate ==
    ASSUME OrderInv, UNCHANGED directories \/ \E c \in Callers : PartDone(c),
           store' = store, live' = live
    PROVE  Late(backupDir)'
  <1>1. backupDir' \in {backupDir, Empty, Torn, live}
    BY DEF PartDone, directories
  <1>2. ~Whole(Empty) /\ ~Whole(Torn) /\ live \in Nat
    BY ContentsDiffer, BackuperAssumption DEF Whole, OrderInv, TypeOK
  <1>3. Late(live)
    BY <1>2 DEF OrderInv, StoreInv, Late
  <1> QED
    BY <1>1, <1>2, <1>3 DEF OrderInv, Late

LEMMA ErrorOrder ==
    ASSUME OrderInv, TypeOK', NEW c \in Callers, pc[c] # "idle", ReturnError(c),
           UNCHANGED directories \/ PartDone(c)
    PROVE  OrderInv'
  <1>1. \A d \in Callers : pc'[d] = "idle"
    BY OthersIdle DEF OrderInv, TypeOK, ReturnError
  <1>2. store' = store /\ live' = live /\ clock' = clock
    BY DEF ReturnError, bucket, database
  <1>3. Late(backupDir)'
    BY <1>2, PartLate
  <1> QED
    BY <1>1, <1>2, <1>3, IdleOrder

\* A new version, newest by date, that is not whole or has all that is stored.
LEMMA PutKeeps ==
    ASSUME OrderInv, NEW gen \in Data, NEW old, Put(gen, old), live' = live,
           Late(gen)
    PROVE  StoreInv' /\ StoredOrder'
  <1> DEFINE new == [date |-> clock + 1, slot |-> slot, gen |-> gen]
  <1>1. /\ new.date = clock + 1 /\ new.gen = gen
        /\ clock' = clock + 1 /\ clock \in Nat
        /\ \A v \in store' : v \in store \/ v = new
    BY BackuperAssumption DEF Put, OrderInv, TypeOK
  <1>2. \A v \in store : v.date \in Nat /\ v.date =< clock
    BY DEF OrderInv, StoreInv, TypeOK, Version
  <1> HIDE DEF new
  <1>3. \A v \in store' : v.date =< clock'
    BY <1>1, <1>2
  <1>4. \A u, v \in store' : u.date = v.date => u = v
    <2> SUFFICES ASSUME NEW u \in store', NEW v \in store', u.date = v.date
                 PROVE  u = v
      OBVIOUS
    <2>1. CASE u \in store /\ v \in store
      BY <2>1 DEF OrderInv, StoreInv
    <2>2. CASE u = new \/ v = new
      BY <1>1, <1>2, <2>2
    <2> QED
      BY <1>1, <2>1, <2>2
  <1>5. \A v \in store' : Whole(v.gen) => v.gen =< live'
    BY <1>1 DEF OrderInv, StoreInv, Late
  <1>6. StoredOrder'
    <2> SUFFICES ASSUME NEW u \in store', NEW v \in store',
                        u.date < v.date, Whole(u.gen), Whole(v.gen)
                 PROVE  u.gen =< v.gen
      BY DEF StoredOrder, Whole
    <2>1. CASE u \in store /\ v \in store
      BY <2>1 DEF OrderInv, StoredOrder
    <2>2. CASE u \in store /\ v = new
      BY <1>1, <2>2 DEF Late
    <2>3. CASE u = new
      BY <1>1, <1>2, <2>3
    <2> QED
      BY <1>1, <2>1, <2>2, <2>3
  <1> QED
    BY <1>3, <1>4, <1>5, <1>6 DEF StoreInv

LEMMA UploadOrder ==
    ASSUME OrderInv, TypeOK', NEW c \in Callers, UploadObject(c)
    PROVE  OrderInv'
  <1>1. /\ pc[c] = "upload" /\ pc' = [pc EXCEPT ![c] = "count"]
        /\ live' = live /\ backupDir' = backupDir /\ handle[c] = backupDir
        /\ handle[c] \in Data /\ Late(handle[c])
    BY DEF UploadObject, Goto, OrderInv, Carries, database, files, directories, TypeOK
  <1>2. StoreInv' /\ StoredOrder'
    BY <1>1, PutKeeps DEF UploadObject
  <1>3. Late(backupDir)'
    <2>1. PICK new : new.gen = handle[c] /\ store' = store \cup {new}
      BY DEF UploadObject, Put
    <2> QED
      BY <1>1, <2>1, BackuperAssumption DEF Late, Whole, OrderInv, TypeOK
  <1>4. \A d \in Callers : d # c => pc'[d] = "idle"
    BY <1>1, OthersIdle DEF OrderInv, TypeOK
  <1>5. pc'[c] = "count"
    BY <1>1 DEF OrderInv, TypeOK
  <1> QED
    BY <1>2, <1>3, <1>4, <1>5 DEF OrderInv, Single, Carries

LEMMA CreateOrder ==
    ASSUME OrderInv, TypeOK', NEW c \in Callers, CreateFile(c)
    PROVE  OrderInv'
  <1>1. /\ pc[c] = "upload" /\ pc' = [pc EXCEPT ![c] = "uploading"]
        /\ live' = live /\ backupDir' = backupDir /\ handle[c] = backupDir
        /\ Provider = "local" /\ handle' = handle /\ slot' = slot
    BY DEF CreateFile, Goto, OrderInv, Carries, database, naming, files, directories
  <1>2. ~Whole(Torn) /\ Torn \in Data
    BY ContentsDiffer DEF Whole, Data
  <1>3. StoreInv' /\ StoredOrder'
    BY <1>1, <1>2, PutKeeps DEF CreateFile, Late
  <1>4. PICK new : /\ new.slot = slot /\ new.date = clock' /\ new.gen = Torn
                   /\ new \in store'
                   /\ \A v \in store' : v = new \/ (v \in store /\ v.slot # slot)
    BY DEF CreateFile, Put
  <1>5. Claimed'
    BY <1>1, <1>2, <1>4 DEF Claimed
  <1>6. Late(backupDir)'
    BY <1>1, <1>2, <1>4 DEF OrderInv, Late
  <1>7. \A d \in Callers : d # c => pc'[d] = "idle"
    BY <1>1, OthersIdle DEF OrderInv, TypeOK
  <1>8. pc'[c] = "uploading"
    BY <1>1 DEF OrderInv, TypeOK
  <1> QED
    BY <1>1, <1>3, <1>5, <1>6, <1>7, <1>8 DEF OrderInv, Single, Carries

LEMMA CopyOrder ==
    ASSUME OrderInv, TypeOK', NEW c \in Callers, CopyFile(c)
    PROVE  OrderInv'
  <1> DEFINE copied(v) == IF v.slot = slot THEN [v EXCEPT !.gen = handle[c]] ELSE v
  <1>1. /\ pc[c] = "uploading" /\ pc' = [pc EXCEPT ![c] = "count"]
        /\ live' = live /\ backupDir' = backupDir /\ Late(handle[c])
        /\ handle[c] = backupDir /\ clock' = clock /\ Claimed
    BY DEF CopyFile, Goto, OrderInv, Carries, database, files, directories
  <1>2. store' = {copied(v) : v \in store}
    BY DEF CopyFile
  <1>3. \A v \in store : /\ copied(v).date = v.date /\ v.date \in Nat /\ v.date =< clock
                         /\ v.slot = slot => copied(v).gen = handle[c]
                         /\ v.slot # slot => copied(v) = v
    BY DEF OrderInv, StoreInv, TypeOK, Version
  <1> HIDE DEF copied
  <1>4. StoreInv'
    <2>1. \A v \in store' : v.date =< clock'
      BY <1>1, <1>2, <1>3
    <2>2. \A u, v \in store' : u.date = v.date => u = v
      BY <1>2, <1>3 DEF OrderInv, StoreInv
    <2>3. \A v \in store' : Whole(v.gen) => v.gen =< live'
      BY <1>1, <1>2, <1>3 DEF OrderInv, StoreInv, Late
    <2> QED
      BY <2>1, <2>2, <2>3 DEF StoreInv
  <1>5. StoredOrder'
    <2> SUFFICES ASSUME NEW u \in store, NEW v \in store,
                        copied(u).date < copied(v).date,
                        Whole(copied(u).gen), Whole(copied(v).gen)
                 PROVE  copied(u).gen =< copied(v).gen
      BY <1>2 DEF StoredOrder, Whole
    <2>1. u.slot # slot
      BY <1>1, <1>3 DEF Claimed
    <2>2. CASE v.slot = slot
      BY <1>1, <1>3, <2>1, <2>2 DEF Late
    <2>3. CASE v.slot # slot
      BY <1>3, <2>1, <2>3 DEF OrderInv, StoredOrder
    <2> QED
      BY <2>2, <2>3
  <1>6. Late(backupDir)'
    BY <1>1, <1>2, <1>3, BackuperAssumption DEF Late, Whole, OrderInv, TypeOK
  <1>7. \A d \in Callers : d # c => pc'[d] = "idle"
    BY <1>1, OthersIdle DEF OrderInv, TypeOK
  <1>8. pc'[c] = "count"
    BY <1>1 DEF OrderInv, TypeOK
  <1> QED
    BY <1>4, <1>5, <1>6, <1>7, <1>8 DEF OrderInv, Single, Carries

LEMMA CallOrder ==
    ASSUME OrderInv, TypeOK', NEW c \in Callers, CallStep(c)
    PROVE  OrderInv'
  <1> USE DEF Goto, call, naming, directories, files, database, bucket, Carries
  <1>0. pc \in [Callers -> Pcs] /\ Carries(c) /\ Late(backupDir)
    BY DEF OrderInv, TypeOK
  <1>1. CASE Clean(c)
    <2>1. Late(backupDir)'
      BY <1>0, <1>1, ContentsDiffer DEF Clean, Late, Whole
    <2> QED
      BY <1>0, <1>1, <2>1, QuietOrder DEF Clean
  <1>2. CASE Dump(c)
    <2>1. Late(backupDir)'
      BY <1>2, BackuperAssumption DEF Dump, Late, OrderInv, StoreInv, TypeOK
    <2> QED
      BY <1>0, <1>2, <2>1, QuietOrder DEF Dump
  <1>3. CASE GetNextBackupName(c)
    <2>1. Late(backupDir)'
      BY <1>0, <1>3 DEF GetNextBackupName, Late
    <2> QED
      BY <1>0, <1>3, <2>1, QuietOrder DEF GetNextBackupName
  <1>4. CASE RemovePrior(c)
    <2>1. Late(backupDir)'
      BY <1>0, <1>4 DEF RemovePrior, Late
    <2> QED
      BY <1>0, <1>4, <2>1, QuietOrder DEF RemovePrior
  <1>5. CASE Compress(c)
    <2>1. Late(backupDir)'
      BY <1>0, <1>5 DEF Compress, Late
    <2> QED
      BY <1>0, <1>5, <2>1, QuietOrder DEF Compress
  <1>6. CASE Encrypt(c)
    <2>1. Late(backupDir)'
      BY <1>0, <1>6 DEF Encrypt, Late
    <2> QED
      BY <1>0, <1>6, <2>1, QuietOrder DEF Encrypt
  <1>7. CASE Open(c)
    <2>1. Late(backupDir)'
      BY <1>0, <1>7 DEF Open, Late
    <2>2. handle'[c] = archive
      BY <1>7 DEF Open, OrderInv, TypeOK
    <2> QED
      BY <1>0, <1>7, <2>1, <2>2, QuietOrder DEF Open
  <1>8. CASE UploadObject(c)
    BY <1>8, UploadOrder
  <1>9. CASE LoseObject(c)
    <2>1. Late(backupDir)'
      BY <1>0, <1>9 DEF LoseObject, Late
    <2> QED
      BY <1>0, <1>9, <2>1, QuietOrder DEF LoseObject
  <1>10. CASE CreateFile(c)
    BY <1>10, CreateOrder
  <1>11. CASE CopyFile(c)
    BY <1>11, CopyOrder
  <1>12. CASE CountBackup(c)
    <2>1. Late(backupDir)'
      BY <1>0, <1>12 DEF CountBackup, Late
    <2> QED
      BY <1>0, <1>12, <2>1, QuietOrder DEF CountBackup
  <1>13. CASE Return(c)
    <2>1. Late(backupDir)'
      BY <1>0, <1>13 DEF Return, Late
    <2> QED
      BY <1>0, <1>13, <2>1, QuietOrder DEF Return
  <1>14. CASE Blocked(c)
    BY <1>14, ErrorOrder DEF Blocked
  <1> QED
    BY <1>1, <1>2, <1>3, <1>4, <1>5, <1>6, <1>7, <1>8, <1>9, <1>10, <1>11,
       <1>12, <1>13, <1>14 DEF CallStep

LEMMA NextOrder ==
    ASSUME OrderInv, [Next]_vars PROVE OrderInv'
  <1>0. TypeOK'
    BY NextTyped DEF OrderInv
  <1>1. ASSUME NEW c \in Callers, Acquire(c) PROVE OrderInv'
    <2>1. /\ \A d \in Callers : pc[d] = "idle"
          /\ pc' = [pc EXCEPT ![c] = "clean"] /\ backupDir' = backupDir
          /\ store' = store /\ clock' = clock /\ live' = live
      BY <1>1
      DEF Acquire, Goto, OrderInv, TypeOK, bucket, database, files, directories
    <2>2. \A d \in Callers : pc'[d] \in {"idle", "clean"} /\ (d # c => pc'[d] = "idle")
      BY <2>1 DEF OrderInv, TypeOK
    <2> QED
      BY <1>0, <2>1, <2>2
      DEF OrderInv, Single, StoreInv, StoredOrder, Late, Carries
  <1>2. ASSUME NEW c \in Callers, CallStep(c) PROVE OrderInv'
    BY <1>0, <1>2, CallOrder
  <1>3. ASSUME NEW c \in Callers, Fail(c) PROVE OrderInv'
    BY <1>0, <1>3, ErrorOrder DEF Fail
  <1>4. CASE Crash
    <2>1. \A d \in Callers : pc'[d] = "idle"
      BY <1>4 DEF Crash
    <2> QED
      BY <1>0, <1>4, <2>1, IdleOrder, PartLate DEF Crash, bucket, database
  <1>5. CASE DbWrite
    <2>1. /\ live' = live + 1 /\ live \in Nat
          /\ UNCHANGED <<pc, slot, backupDir, archive, handle, store, clock>>
      BY <1>5, BackuperAssumption
      DEF DbWrite, OrderInv, TypeOK, call, naming, files, directories, bucket
    <2>2. \A x \in Nat : x =< live => x =< live'
      BY <2>1
    <2>3. StoreInv' /\ Late(backupDir)'
      BY <2>1, <2>2 DEF OrderInv, StoreInv, Late, Whole
    <2>4. \A c \in Callers : Carries(c)'
      BY <2>1 DEF OrderInv, Carries, Claimed
    <2> QED
      BY <1>0, <2>1, <2>3, <2>4 DEF OrderInv, Single, StoredOrder
  <1>6. CASE Expire
    <2>1. /\ store' \subseteq store /\ Provider # "local"
          /\ UNCHANGED <<pc, backupDir, archive, handle, live, clock>>
      BY <1>6 DEF Expire, call, database, files, directories
    <2>2. ~Claimed
      BY <2>1 DEF Claimed
    <2>3. \A c \in Callers : Carries(c)'
      BY <2>1, <2>2 DEF OrderInv, Carries
    <2> QED
      BY <1>0, <2>1, <2>3 DEF OrderInv, Single, StoreInv, StoredOrder, Late
  <1>7. CASE Failover \/ UNCHANGED vars
    <2>1. UNCHANGED <<pc, slot, backupDir, archive, handle, store, clock, live>>
      BY <1>7 DEF Failover, vars, call, naming, files, directories, database, bucket
    <2> QED
      BY <1>0, <2>1
      DEF OrderInv, Single, StoreInv, StoredOrder, Late, Carries, Claimed
  <1> QED
    BY <1>1, <1>2, <1>3, <1>4, <1>5, <1>6, <1>7 DEF Next

\* Of two stored versions the later one is not the older in content, however
\* many callers back up at the same time, with every adapter, a replica that
\* uploads an old dump included (backup.go: the semaphore; redis.go: Backup).
THEOREM Ordered == Spec => []StoredOrder
  <1>1. Init => OrderInv
    BY InitOrder
  <1>2. OrderInv /\ [Next]_vars => OrderInv'
    BY NextOrder
  <1>3. OrderInv => StoredOrder
    BY DEF OrderInv
  <1> QED
    BY <1>1, <1>2, <1>3, PTL DEF Spec

-----------------------------------------------------------------------------
(* What a backup stores.                                                   *)

\* Backup always leaves a dump or an error: a replica of redis, which returns
\* without either, is left out.
Dumps == db.roleGated = FALSE

\* c's dump is whole and has all that the database had when c began.
Fresh(c) == Whole(backupDir) /\ began[c] =< backupDir

\* The version of this upload is stored, whole.
Arrived(c) ==
    \E v \in store : v.date = clock /\ Whole(v.gen) /\ began[c] =< v.gen

\* What c is going to store, or has stored.
Stage(c) ==
    /\ pc[c] \in {"clean", "dump"} => began[c] =< live
    /\ pc[c] \in {"name", "remove", "compress", "encrypt", "open", "upload",
                  "uploading"} => Fresh(c)
    /\ pc[c] \in {"count", "cleanup"} /\ Provider # "gcp" => Arrived(c)

BackupInv ==
    /\ OrderInv
    /\ Provider # "local" => \A v \in store : Whole(v.gen)
    /\ \A c \in Callers : Stage(c)

LEMMA InitBackup == Init => BackupInv
  <1> SUFFICES ASSUME Init PROVE BackupInv
    OBVIOUS
  <1>1. store = {} /\ \A c \in Callers : pc[c] = "idle"
    BY DEF Init
  <1> QED
    BY <1>1, InitOrder DEF BackupInv, Stage

\* What c uploads is its dump.
LEMMA Uploads ==
    ASSUME BackupInv, NEW c \in Callers, pc[c] \in {"upload", "uploading"}
    PROVE  /\ Whole(handle[c]) /\ handle[c] \in 0..live /\ began[c] =< handle[c]
           /\ \A v \in store : Whole(v.gen) => v.gen =< handle[c]
  <1>1. handle[c] = backupDir /\ Fresh(c) /\ Late(backupDir)
    BY DEF BackupInv, OrderInv, Carries, Stage
  <1> QED
    BY <1>1, BackuperAssumption DEF Fresh, Late, Whole, BackupInv, OrderInv, TypeOK

\* Stages of the callers that do not step.
LEMMA OthersStage ==
    ASSUME BackupInv, NEW c \in Callers, pc[c] # "idle",
           NEW to, pc' = [pc EXCEPT ![c] = to], Stage(c)'
    PROVE  \A d \in Callers : Stage(d)'
  <1>1. \A d \in Callers : d # c => pc'[d] = "idle"
    BY OthersIdle DEF BackupInv, OrderInv, TypeOK
  <1> QED
    BY <1>1 DEF Stage

LEMMA UploadKeeps ==
    ASSUME BackupInv, OrderInv', NEW c \in Callers, UploadObject(c)
    PROVE  BackupInv'
  <1> DEFINE new == [date |-> clock + 1, slot |-> slot, gen |-> handle[c]]
  <1>1. /\ pc[c] = "upload" /\ pc' = [pc EXCEPT ![c] = "count"]
        /\ began' = began /\ Provider # "local"
    BY DEF UploadObject, Goto, call
  <1>2. new \in store' /\ clock' = clock + 1 /\ \A v \in store' : v \in store \/ v = new
    BY DEF UploadObject, Put
  <1>3. Whole(handle[c]) /\ began[c] =< handle[c]
    BY <1>1, Uploads
  <1>4. \A v \in store' : Whole(v.gen)
    BY <1>1, <1>2, <1>3 DEF BackupInv
  <1>5. Arrived(c)'
    BY <1>1, <1>2, <1>3 DEF Arrived
  <1>6. pc'[c] = "count"
    BY <1>1 DEF BackupInv, OrderInv, TypeOK
  <1>7. Stage(c)'
    BY <1>5, <1>6 DEF Stage
  <1> QED
    BY <1>1, <1>4, <1>7, OthersStage DEF BackupInv

LEMMA CopyKeeps ==
    ASSUME BackupInv, OrderInv', NEW c \in Callers, CopyFile(c)
    PROVE  BackupInv'
  <1>1. /\ pc[c] = "uploading" /\ pc' = [pc EXCEPT ![c] = "count"]
        /\ began' = began /\ clock' = clock /\ Claimed /\ Carries(c)
    BY DEF CopyFile, Goto, BackupInv, OrderInv, Carries, call
  <1>2. Whole(handle[c]) /\ began[c] =< handle[c]
    BY <1>1, Uploads
  <1>3. PICK v \in store : v.slot = slot /\ v.date = clock
    BY <1>1 DEF Claimed
  <1>4. \E u \in store' : u.date = clock /\ u.gen = handle[c]
    <2>1. /\ [v EXCEPT !.gen = handle[c]].date = clock
          /\ [v EXCEPT !.gen = handle[c]].gen = handle[c]
      BY <1>3 DEF BackupInv, OrderInv, TypeOK, Version
    <2> QED
      BY <1>3, <2>1 DEF CopyFile
  <1>5. Arrived(c)'
    BY <1>1, <1>2, <1>4 DEF Arrived
  <1>6. pc'[c] = "count"
    BY <1>1 DEF BackupInv, OrderInv, TypeOK
  <1>7. Stage(c)'
    BY <1>5, <1>6 DEF Stage
  <1> QED
    BY <1>1, <1>7, OthersStage DEF BackupInv, Claimed

LEMMA CallKeeps ==
    ASSUME Dumps, BackupInv, OrderInv', NEW c \in Callers, CallStep(c)
    PROVE  BackupInv'
  <1> USE DEF Goto, call, naming, directories, files, database, bucket
  <1>0. pc \in [Callers -> Pcs] /\ Stage(c)
    BY DEF BackupInv, OrderInv, TypeOK
  <1>1. ASSUME NEW to, pc[c] # "idle", pc' = [pc EXCEPT ![c] = to],
               store' = store, Stage(c)'
        PROVE  BackupInv'
    BY <1>1, OthersStage DEF BackupInv
  <1>2. ASSUME NEW to, pc[c] # "idle", pc' = [pc EXCEPT ![c] = to],
               /\ pc[c] \in {"name", "remove", "compress", "encrypt", "open", "upload"}
               /\ to \in {"remove", "compress", "encrypt", "open", "upload", "uploading"},
               backupDir' = backupDir, began' = began
        PROVE  Stage(c)'
    BY <1>0, <1>2 DEF Stage, Fresh
  <1>3. CASE Clean(c)
    <2>1. pc[c] = "clean" /\ pc' = [pc EXCEPT ![c] = "dump"]
      BY <1>3 DEF Clean, Dumps
    <2>2. Stage(c)'
      BY <1>0, <1>3, <2>1 DEF Clean, Stage
    <2> QED
      BY <1>1, <1>3, <2>1, <2>2 DEF Clean
  <1>4. CASE Dump(c)
    <2>1. Fresh(c)'
      BY <1>0, <1>4, BackuperAssumption
      DEF Dump, Fresh, Whole, Stage, BackupInv, OrderInv, TypeOK
    <2>2. Stage(c)'
      BY <1>0, <1>4, <2>1 DEF Dump, Stage
    <2> QED
      BY <1>1, <1>4, <2>2 DEF Dump
  <1>5. CASE GetNextBackupName(c)
    BY <1>1, <1>2, <1>5 DEF GetNextBackupName
  <1>6. CASE RemovePrior(c)
    BY <1>1, <1>2, <1>6 DEF RemovePrior
  <1>7. CASE Compress(c)
    BY <1>1, <1>2, <1>7 DEF Compress
  <1>8. CASE Encrypt(c)
    BY <1>1, <1>2, <1>8 DEF Encrypt
  <1>9. CASE Open(c)
    BY <1>1, <1>2, <1>9 DEF Open
  <1>10. CASE UploadObject(c)
    BY <1>10, UploadKeeps
  <1>11. CASE LoseObject(c)
    <2>1. Stage(c)'
      BY <1>0, <1>11 DEF LoseObject, Stage
    <2> QED
      BY <1>1, <1>11, <2>1 DEF LoseObject
  <1>12. CASE CreateFile(c)
    <2>1. Stage(c)'
      BY <1>2, <1>12 DEF CreateFile
    <2> QED
      BY <1>12, <2>1, OthersStage DEF CreateFile, BackupInv
  <1>13. CASE CopyFile(c)
    BY <1>13, CopyKeeps
  <1>14. CASE CountBackup(c)
    <2>1. Stage(c)'
      BY <1>0, <1>14 DEF CountBackup, Stage, Arrived
    <2> QED
      BY <1>1, <1>14, <2>1 DEF CountBackup
  <1>15. CASE Return(c)
    <2>1. Stage(c)'
      BY <1>0, <1>15 DEF Return, Stage
    <2> QED
      BY <1>1, <1>15, <2>1 DEF Return
  <1>16. CASE Blocked(c)
    <2>1. Stage(c)'
      BY <1>0, <1>16 DEF Blocked, ReturnError, Stage
    <2> QED
      BY <1>1, <1>16, <2>1 DEF Blocked, ReturnError
  <1> QED
    BY <1>3, <1>4, <1>5, <1>6, <1>7, <1>8, <1>9, <1>10, <1>11, <1>12, <1>13,
       <1>14, <1>15, <1>16 DEF CallStep

\* What expires is not the newest version.
LEMMA ExpiredIsOld ==
    ASSUME NEW v \in store,
           Cardinality({u \in store : v.date < u.date}) >= Keep
    PROVE  \E u \in store : v.date < u.date
  <1> SUFFICES ASSUME {u \in store : v.date < u.date} = {} PROVE FALSE
    OBVIOUS
  <1>1. Cardinality({u \in store : v.date < u.date}) = 0
    BY FS_EmptySet
  <1> QED
    BY <1>1, BackuperAssumption

LEMMA ExpireKeeps ==
    ASSUME BackupInv, OrderInv', Expire
    PROVE  BackupInv'
  <1>1. PICK v \in store : /\ Cardinality({u \in store : v.date < u.date}) >= Keep
                           /\ store' = store \ {v}
    BY DEF Expire
  <1>2. PICK u \in store : v.date < u.date
    BY <1>1, ExpiredIsOld
  <1>3. \A w \in store : w.date \in Nat /\ w.date =< clock
    BY DEF BackupInv, OrderInv, StoreInv, TypeOK, Version
  <1>4. v.date # clock /\ clock \in Nat
    BY <1>2, <1>3, BackuperAssumption DEF BackupInv, OrderInv, TypeOK
  <1>5. UNCHANGED <<pc, began, live, clock, backupDir>>
    BY DEF Expire, call, database, files, directories
  <1>6. \A c \in Callers : Arrived(c) => Arrived(c)'
    BY <1>1, <1>4, <1>5 DEF Arrived
  <1>7. \A c \in Callers : Stage(c)'
    BY <1>5, <1>6 DEF BackupInv, Stage, Fresh
  <1> QED
    BY <1>1, <1>7 DEF BackupInv

LEMMA NextBackup ==
    ASSUME Dumps, BackupInv, [Next]_vars PROVE BackupInv'
  <1>0. OrderInv' /\ TypeOK
    BY NextOrder DEF BackupInv, OrderInv
  <1>1. ASSUME NEW c \in Callers, Acquire(c) PROVE BackupInv'
    <2>1. /\ \A d \in Callers : pc[d] = "idle"
          /\ pc' = [pc EXCEPT ![c] = "clean"] /\ began' = [began EXCEPT ![c] = live]
          /\ store' = store /\ live' = live /\ live \in Nat
      BY <1>0, <1>1, BackuperAssumption DEF Acquire, Goto, TypeOK, bucket, database
    <2>2. Stage(c)'
      BY <1>0, <2>1 DEF Stage, TypeOK
    <2>3. \A d \in Callers : d # c => pc'[d] = "idle"
      BY <1>0, <2>1 DEF TypeOK
    <2> QED
      BY <1>0, <2>1, <2>2, <2>3 DEF BackupInv, Stage
  <1>2. ASSUME NEW c \in Callers, CallStep(c) PROVE BackupInv'
    BY <1>0, <1>2, CallKeeps
  <1>3. ASSUME NEW c \in Callers, Fail(c) PROVE BackupInv'
    <2>1. /\ pc[c] # "idle" /\ pc' = [pc EXCEPT ![c] = "idle"] /\ store' = store
      BY <1>3 DEF Fail, ReturnError, bucket
    <2>2. Stage(c)'
      BY <1>0, <2>1 DEF Stage, TypeOK
    <2> QED
      BY <1>0, <2>1, <2>2, OthersStage DEF BackupInv
  <1>4. CASE Crash
    BY <1>0, <1>4 DEF Crash, bucket, BackupInv, Stage
  <1>5. CASE DbWrite
    <2>1. /\ live' = live + 1 /\ live \in Nat
          /\ UNCHANGED <<pc, began, store, clock, backupDir>>
      BY <1>0, <1>5, BackuperAssumption
      DEF DbWrite, TypeOK, call, files, directories, bucket
    <2>2. \A c \in Callers : began[c] \in Nat
      BY <1>0 DEF TypeOK
    <2>3. \A c \in Callers : Stage(c)'
      BY <2>1, <2>2 DEF Stage, BackupInv, Fresh, Arrived
    <2> QED
      BY <1>0, <2>1, <2>3 DEF BackupInv
  <1>6. CASE Failover
    BY <1>6 DEF Failover, Dumps
  <1>7. CASE Expire
    BY <1>0, <1>7, ExpireKeeps
  <1>8. CASE UNCHANGED vars
    BY <1>0, <1>8 DEF vars, call, files, directories, database, bucket,
       BackupInv, Stage, Fresh, Arrived
  <1> QED
    BY <1>1, <1>2, <1>3, <1>4, <1>5, <1>6, <1>7, <1>8 DEF Next

LEMMA BackupInvariance == ASSUME Dumps PROVE Spec => []BackupInv
  <1>1. Init => BackupInv
    BY InitBackup
  <1>2. BackupInv /\ [Next]_vars => BackupInv'
    BY NextBackup
  <1> QED
    BY <1>1, <1>2, PTL DEF Spec

\* In an object store the latest version, like every other, is restorable.
THEOREM Restorable ==
    ASSUME Dumps, Provider # "local" PROVE Spec => []LatestRestorable
  <1>1. BackupInv => LatestRestorable
    BY DEF BackupInv, LatestRestorable
  <1> QED
    BY <1>1, BackupInvariance, PTL

\* A backup that is counted as successful is stored with all that had been
\* written when it was asked for (backup.go: CreateBackup).
THEOREM Acknowledged ==
    ASSUME Dumps, Provider # "gcp" PROVE Spec => AckedIsStored
  <1>1. BackupInv /\ [Next]_vars =>
          [\A c \in Callers :
             pc[c] = "count" /\ pc'[c] = "cleanup"
                => \E v \in store : Whole(v.gen) /\ began[c] =< v.gen]_vars
    BY DEF BackupInv, Stage, Arrived
  <1> QED
    BY <1>1, BackupInvariance, PTL DEF Spec, AckedIsStored

-----------------------------------------------------------------------------
(* What stays stored.                                                      *)

(***************************************************************************)
(* The local provider goes round its Keep slots, begins anew with the      *)
(* first when the process is started again, and spends a slot on every     *)
(* attempt.  So the process must not be restarted, and one slot more than  *)
(* those that failed attempts may spend, and the one of the attempt under  *)
(* way, must be there for the newest version.                              *)
(***************************************************************************)
Spare == Provider = "local" => ~Crashes /\ MaxFaults + 1 < Keep

\* The slot n turns after slot 0, for less than two rounds.
Turn(n) == IF n < Keep THEN n ELSE n - Keep

NamedPcs == {"remove", "compress", "encrypt", "open", "upload", "uploading"}

\* A caller has been given a slot and has not left it yet.
Named == \E c \in Callers : pc[c] \in NamedPcs

Newest(v) ==
    /\ Whole(v.gen)
    /\ \A u \in store : Whole(u.gen) => u.date =< v.date

\* Slot s comes after that of v, and as many after it as attempts have failed
\* since v was stored; there are no more of them than faults.
Behind(v, s) == \E k \in 0..faults : s = Turn(v.slot + 1 + k)

NewestExists ==
    (\E v \in store : Whole(v.gen)) => \E v \in store : Newest(v)

SlotsDiffer == \A u, v \in store : u.slot = v.slot => u = v

Rotation ==
    /\ Named => next = Turn(slot + 1)
    /\ clock < MaxBackups =>
         \A v \in store : Newest(v) => Behind(v, IF Named THEN slot ELSE next)

SurvivalInv ==
    /\ NewestExists
    /\ Provider = "local" => SlotsDiffer /\ Rotation

LEMMA InitSurvival == Init => SurvivalInv
  BY DEF Init, SurvivalInv, NewestExists, SlotsDiffer, Rotation, Named, NamedPcs

\* The counter of the local provider.
LEMMA NextTurn == ASSUME NEW n \in Slots PROVE (n + 1) % Keep = Turn(n + 1)
  <1>1. n \in Nat /\ Keep \in Nat /\ Keep > 0 /\ n < Keep
    BY BackuperAssumption DEF Slots
  <1>2. CASE n + 1 < Keep
    BY <1>1, <1>2 DEF Turn
  <1>3. CASE n + 1 = Keep
    BY <1>1, <1>3 DEF Turn
  <1> QED
    BY <1>1, <1>2, <1>3

\* One attempt more.
LEMMA BehindNext ==
    ASSUME Spare, Provider = "local", TypeOK, faults' = faults + 1, faults' =< MaxFaults,
           NEW v \in store, Behind(v, slot)
    PROVE  \E k \in 0..faults' : Turn(slot + 1) = Turn(v.slot + 1 + k)
  <1>1. PICK k \in 0..faults : slot = Turn(v.slot + 1 + k)
    BY DEF Behind
  <1>2. /\ v.slot \in Nat /\ v.slot < Keep /\ Keep \in Nat /\ faults \in Nat
        /\ MaxFaults \in Nat /\ MaxFaults + 1 < Keep
    BY BackuperAssumption DEF TypeOK, Version, Slots, Spare
  <1>3. k + 1 \in 0..faults' /\ v.slot + 1 + (k + 1) = (v.slot + 1 + k) + 1
    BY <1>1, <1>2
  <1>4. Turn(slot + 1) = Turn((v.slot + 1 + k) + 1)
    BY <1>1, <1>2 DEF Turn
  <1> QED
    BY <1>3, <1>4

\* The slot that is about to be overwritten is not that of the newest version.
LEMMA BehindApart ==
    ASSUME Spare, Provider = "local", TypeOK, NEW v \in store, Behind(v, slot)
    PROVE  v.slot # slot
  <1>1. PICK k \in 0..faults : slot = Turn(v.slot + 1 + k)
    BY DEF Behind
  <1>2. /\ v.slot \in Nat /\ v.slot < Keep /\ Keep \in Nat /\ faults \in Nat
        /\ faults =< MaxFaults /\ MaxFaults \in Nat /\ MaxFaults + 1 < Keep
    BY BackuperAssumption DEF TypeOK, Version, Slots, Spare
  <1> QED
    BY <1>1, <1>2 DEF Turn

\* Whether a slot is taken depends on the one caller that is not idle.
LEMMA NamedByOne ==
    ASSUME BackupInv, NEW c \in Callers, pc[c] # "idle",
           NEW to, pc' = [pc EXCEPT ![c] = to]
    PROVE  /\ Named <=> pc[c] \in NamedPcs
           /\ Named' <=> to \in NamedPcs
  <1>1. \A d \in Callers : d # c => pc[d] = "idle" /\ pc'[d] = "idle"
    BY OthersIdle DEF BackupInv, OrderInv, TypeOK
  <1>2. pc'[c] = to
    BY DEF BackupInv, OrderInv, TypeOK
  <1> QED
    BY <1>1, <1>2 DEF Named, NamedPcs

\* A step that leaves the slots and what is in them alone.
LEMMA QuietSurvival ==
    ASSUME SurvivalInv, TypeOK, TypeOK', store' = store, clock' = clock,
           Provider = "local" => naming' = naming /\ (Named' <=> Named),
           faults' = faults \/ faults' = faults + 1
    PROVE  SurvivalInv'
  <1>1. \A v : Newest(v)' <=> Newest(v)
    BY DEF Newest
  <1>2. NewestExists' /\ (SlotsDiffer => SlotsDiffer')
    BY <1>1 DEF SurvivalInv, NewestExists, SlotsDiffer
  <1>3. 0..faults \subseteq 0..faults'
    BY BackuperAssumption DEF TypeOK
  <1>4. \A v, s : Behind(v, s) => Behind(v, s)'
    BY <1>3 DEF Behind
  <1>5. Provider = "local" => (Rotation => Rotation')
    BY <1>1, <1>4 DEF Rotation, naming
  <1> QED
    BY <1>2, <1>5 DEF SurvivalInv

LEMMA NameSurvival ==
    ASSUME Spare, BackupInv, SurvivalInv, TypeOK', NEW c \in Callers,
           GetNextBackupName(c)
    PROVE  SurvivalInv'
  <1>1. /\ pc[c] = "name" /\ pc' = [pc EXCEPT ![c] = "remove"]
        /\ store' = store /\ clock' = clock /\ faults' = faults /\ TypeOK
    BY DEF GetNextBackupName, Goto, bucket, BackupInv, OrderInv
  <1>2. CASE Provider # "local"
    BY <1>1, <1>2, QuietSurvival
  <1>3. CASE Provider = "local"
    <2>1. ~Named /\ Named'
      BY <1>1, NamedByOne DEF NamedPcs
    <2>2. slot' = next /\ next' = Turn(next + 1)
      BY <1>1, <1>3, NextTurn DEF GetNextBackupName, TypeOK
    <2>3. \A v : /\ Newest(v)' <=> Newest(v)
                 /\ Behind(v, next) => Behind(v, slot)'
      BY <1>1, <2>2 DEF Newest, Behind
    <2>4. Rotation'
      BY <1>1, <1>3, <2>1, <2>2, <2>3 DEF Rotation, SurvivalInv
    <2> QED
      BY <1>1, <2>3, <2>4 DEF SurvivalInv, NewestExists, SlotsDiffer
  <1> QED
    BY <1>2, <1>3

LEMMA UploadSurvival ==
    ASSUME BackupInv, SurvivalInv, NEW c \in Callers, UploadObject(c)
    PROVE  SurvivalInv'
  <1>1. PICK new : /\ new = [date |-> clock + 1, slot |-> slot, gen |-> handle[c]]
                   /\ store' = store \cup {new}
    BY DEF UploadObject, Put
  <1>2. new.date = clock + 1 /\ new.gen = handle[c]
    BY <1>1
  <1>3. Provider # "local" /\ Whole(new.gen)
    BY <1>2, Uploads DEF UploadObject, Goto
  <1>4. \A v \in store' : v.date =< new.date
    BY <1>1, <1>2, BackuperAssumption DEF BackupInv, OrderInv, StoreInv, TypeOK, Version
  <1>5. Newest(new)' /\ new \in store'
    BY <1>1, <1>3, <1>4 DEF Newest
  <1> QED
    BY <1>3, <1>5 DEF SurvivalInv, NewestExists

\* local: the slot that is emptied held a superseded version, or none.
LEMMA CreateSpares ==
    ASSUME Spare, BackupInv, SurvivalInv, NEW c \in Callers, CreateFile(c),
           NEW v \in store, Newest(v)
    PROVE  v.slot # slot /\ v \in store' /\ Newest(v)'
  <1> DEFINE new == [date |-> clock + 1, slot |-> slot, gen |-> Torn]
  <1>1. /\ Provider = "local" /\ clock < MaxBackups /\ pc[c] = "upload"
        /\ store' = (store \ {u \in store : u.slot = slot}) \cup {new}
    BY DEF CreateFile, Put, Goto
  <1>2. Named
    BY <1>1 DEF Named, NamedPcs
  <1>3. v.slot # slot
    BY <1>1, <1>2, BehindApart DEF SurvivalInv, Rotation, BackupInv, OrderInv
  <1>4. ~Whole(new.gen)
    BY ContentsDiffer DEF Whole
  <1> HIDE DEF new
  <1> QED
    BY <1>1, <1>3, <1>4 DEF Newest

LEMMA CreateSurvival ==
    ASSUME Spare, BackupInv, SurvivalInv, TypeOK', NEW c \in Callers, CreateFile(c)
    PROVE  SurvivalInv'
  <1> DEFINE new == [date |-> clock + 1, slot |-> slot, gen |-> Torn]
  <1>1. /\ Provider = "local" /\ clock < MaxBackups
        /\ pc[c] = "upload" /\ pc' = [pc EXCEPT ![c] = "uploading"]
        /\ store' = (store \ {u \in store : u.slot = slot}) \cup {new}
        /\ slot' = slot /\ next' = next /\ faults' = faults
        /\ clock' \in Nat /\ clock \in Nat
    BY BackuperAssumption DEF CreateFile, Put, Goto, naming, BackupInv, OrderInv, TypeOK
  <1>2. Named /\ Named'
    BY <1>1, NamedByOne DEF NamedPcs
  <1>3. ~Whole(new.gen) /\ new.slot = slot
    BY ContentsDiffer DEF Whole
  <1> HIDE DEF new
  <1>4. \A v \in store' : Whole(v.gen) => v \in store
    BY <1>1, <1>3
  <1>5. \A v \in store' : Newest(v)' => Newest(v)
    <2> SUFFICES ASSUME NEW v \in store', Newest(v)'
                 PROVE  Newest(v)
      OBVIOUS
    <2>1. v \in store /\ Whole(v.gen)
      BY <1>4 DEF Newest
    <2>2. PICK w \in store : Newest(w)
      BY <2>1 DEF SurvivalInv, NewestExists
    <2>3. w \in store' /\ Whole(w.gen)
      BY <2>2, CreateSpares DEF Newest
    <2>4. w.date =< v.date /\ v.date =< w.date /\ v.date \in Nat /\ w.date \in Nat
      BY <2>1, <2>2, <2>3 DEF Newest, BackupInv, OrderInv, TypeOK, Version
    <2>5. v = w
      BY <2>1, <2>4 DEF BackupInv, OrderInv, StoreInv
    <2> QED
      BY <2>2, <2>5
  <1>6. NewestExists'
    BY <1>4, CreateSpares DEF SurvivalInv, NewestExists
  <1>7. SlotsDiffer'
    BY <1>1, <1>3 DEF SurvivalInv, SlotsDiffer
  <1>8. \A v \in store' : Newest(v)' => Behind(v, slot)'
    BY <1>1, <1>2, <1>4, <1>5 DEF SurvivalInv, Rotation, Behind, Newest
  <1>9. Rotation'
    BY <1>1, <1>2, <1>8 DEF SurvivalInv, Rotation
  <1> QED
    BY <1>6, <1>7, <1>9 DEF SurvivalInv

LEMMA CopySurvival ==
    ASSUME BackupInv, BackupInv', SurvivalInv, NEW c \in Callers, CopyFile(c)
    PROVE  SurvivalInv'
  <1> DEFINE copied(v) == IF v.slot = slot THEN [v EXCEPT !.gen = handle[c]] ELSE v
  <1>1. /\ pc[c] = "uploading" /\ pc' = [pc EXCEPT ![c] = "count"]
        /\ slot' = slot /\ next' = next /\ faults' = faults
        /\ clock' = clock /\ Claimed /\ Whole(handle[c])
    BY Uploads DEF CopyFile, Goto, BackupInv, OrderInv, Carries, naming
  <1>2. store' = {copied(v) : v \in store}
    BY DEF CopyFile
  <1>3. \A v \in store : /\ copied(v).date = v.date /\ v.date \in Nat
                         /\ copied(v).slot = v.slot
                         /\ v.slot = slot => copied(v).gen = handle[c]
    BY DEF BackupInv, OrderInv, TypeOK, Version
  <1> HIDE DEF copied
  <1>4. PICK n \in store : n.slot = slot /\ n.date = clock
    BY <1>1 DEF Claimed
  <1>5. PICK m \in store' : m.date = clock' /\ m.slot = slot /\ Whole(m.gen)
    BY <1>1, <1>2, <1>3, <1>4
  <1>6. Newest(m)'
    BY <1>5 DEF Newest, BackupInv, OrderInv, StoreInv
  <1>7. \A v \in store' : Newest(v)' => v.slot = slot
    <2> SUFFICES ASSUME NEW v \in store', Newest(v)' PROVE v.slot = slot
      OBVIOUS
    <2>1. clock' =< v.date /\ v.date =< clock' /\ v.date \in Nat /\ clock' \in Nat
      BY <1>5, BackuperAssumption DEF Newest, BackupInv, OrderInv, StoreInv, TypeOK, Version
    <2>2. v = m
      BY <1>5, <2>1 DEF BackupInv, OrderInv, StoreInv
    <2> QED
      BY <1>5, <2>2
  <1>8. NewestExists'
    BY <1>5, <1>6 DEF NewestExists
  <1>9. CASE Provider = "local"
    <2>1. SlotsDiffer'
      BY <1>2, <1>3, <1>9 DEF SurvivalInv, SlotsDiffer
    <2>2. Named /\ ~Named'
      <3>1. Named <=> "uploading" \in NamedPcs
        BY <1>1, NamedByOne
      <3>2. Named' <=> "count" \in NamedPcs
        BY <1>1, NamedByOne
      <3> QED
        BY <3>1, <3>2 DEF NamedPcs
    <2>3. next' = Turn(slot + 1)
      BY <1>1, <1>9, <2>2 DEF SurvivalInv, Rotation
    <2>4. 0 \in 0..faults' /\ slot + 1 + 0 = slot + 1
      BY <1>1, BackuperAssumption DEF BackupInv, OrderInv, TypeOK, Slots
    <2>5. \A v \in store' : Newest(v)' => Behind(v, next)'
      BY <1>7, <2>3, <2>4 DEF Behind
    <2>6. Rotation'
      BY <2>2, <2>5 DEF Rotation
    <2> QED
      BY <1>8, <2>1, <2>6 DEF SurvivalInv
  <1> QED
    BY <1>8, <1>9 DEF SurvivalInv

\* An attempt that ends early leaves its slot for the next one; without a
\* fault it does so only where nothing can be uploaded any more.
LEMMA ErrorSurvival ==
    ASSUME Spare, BackupInv, SurvivalInv, TypeOK', NEW c \in Callers,
           ReturnError(c),
           \/ Blocked(c)
           \/ faults' = faults + 1 /\ pc[c] # "idle"
    PROVE  SurvivalInv'
  <1>1. /\ pc[c] # "idle" /\ pc' = [pc EXCEPT ![c] = "idle"]
        /\ store' = store /\ clock' = clock /\ slot' = slot /\ next' = next
        /\ TypeOK /\ (faults' = faults \/ faults' = faults + 1)
    BY DEF ReturnError, Blocked, bucket, naming, BackupInv, OrderInv
  <1>2. Named <=> pc[c] \in NamedPcs
    BY <1>1, NamedByOne
  <1>3. ~Named'
    <2>1. Named' <=> "idle" \in NamedPcs
      BY <1>1, NamedByOne
    <2> QED
      BY <2>1 DEF NamedPcs
  <1>4. CASE Provider = "local" => ~Named
    BY <1>1, <1>3, <1>4, QuietSurvival DEF naming
  <1>5. CASE Provider = "local" /\ Named
    <2>1. clock < MaxBackups => faults' = faults + 1
      <3>1. ASSUME Blocked(c) PROVE ~(clock < MaxBackups)
        <4>1. pc[c] = "upload" /\ clock = MaxBackups
          BY <1>2, <1>5, <3>1 DEF Blocked, NamedPcs
        <4> QED
          BY <4>1, BackuperAssumption
      <3> QED
        BY <3>1
    <2>2. faults' =< MaxFaults
      BY BackuperAssumption DEF TypeOK
    <2>3. next = Turn(slot + 1) /\ SlotsDiffer
      BY <1>5 DEF SurvivalInv, Rotation
    <2>4. ASSUME clock < MaxBackups, NEW v \in store, Newest(v)
          PROVE  Behind(v, next)'
      <3>1. Behind(v, slot)
        BY <1>5, <2>4 DEF SurvivalInv, Rotation
      <3>2. \E k \in 0..faults' : Turn(slot + 1) = Turn(v.slot + 1 + k)
        BY <1>1, <1>5, <2>1, <2>2, <2>4, <3>1, BehindNext
      <3> QED
        BY <1>1, <2>3, <3>2 DEF Behind
    <2>5. \A v : Newest(v)' <=> Newest(v)
      BY <1>1 DEF Newest
    <2>6. Rotation'
      BY <1>1, <1>3, <2>4, <2>5 DEF Rotation
    <2> QED
      BY <1>1, <2>3, <2>5, <2>6 DEF SurvivalInv, NewestExists, SlotsDiffer
  <1> QED
    BY <1>4, <1>5

LEMMA ExpireSurvival ==
    ASSUME BackupInv, SurvivalInv, Expire
    PROVE  SurvivalInv'
  <1>1. PICK v \in store : /\ Cardinality({u \in store : v.date < u.date}) >= Keep
                           /\ store' = store \ {v}
    BY DEF Expire
  <1>2. PICK u \in store : v.date < u.date
    BY <1>1, ExpiredIsOld
  <1>3. Provider # "local"
    BY DEF Expire
  <1>4. Whole(u.gen)
    BY <1>3 DEF BackupInv
  <1>5. PICK w \in store : Newest(w)
    BY <1>4 DEF SurvivalInv, NewestExists
  <1>6. w # v
    BY <1>2, <1>4, <1>5 DEF Newest, BackupInv, OrderInv, TypeOK, Version
  <1>7. w \in store' /\ Newest(w)'
    BY <1>1, <1>5, <1>6 DEF Newest
  <1> QED
    BY <1>3, <1>7 DEF SurvivalInv, NewestExists

LEMMA NextSurvival ==
    ASSUME Dumps, Spare, BackupInv, SurvivalInv, [Next]_vars
    PROVE  SurvivalInv'
  <1>0. TypeOK /\ BackupInv' /\ TypeOK'
    BY NextBackup DEF BackupInv, OrderInv
  <1> USE DEF naming, bucket
  <1>1. ASSUME NEW c \in Callers, Acquire(c) PROVE SurvivalInv'
    <2>1. \A d \in Callers : pc[d] = "idle" /\ pc'[d] \in {"idle", "clean"}
      BY <1>0, <1>1 DEF Acquire, Goto, TypeOK
    <2>2. ~Named /\ ~Named'
      BY <2>1 DEF Named, NamedPcs
    <2> QED
      BY <1>0, <1>1, <2>2, QuietSurvival DEF Acquire
  <1>2. ASSUME NEW c \in Callers, NEW from \in Pcs, NEW to \in Pcs,
               Goto(c, from, to), from # "idle",
               from \in NamedPcs <=> to \in NamedPcs,
               UNCHANGED <<naming, bucket>>,
               faults' = faults \/ faults' = faults + 1
        PROVE  SurvivalInv'
    <2>1. Named' <=> Named
      BY <1>2, NamedByOne DEF Goto
    <2> QED
      BY <1>0, <1>2, <2>1, QuietSurvival
  <1>3. ASSUME NEW c \in Callers, CallStep(c) PROVE SurvivalInv'
    <2> USE DEF Pcs, NamedPcs
    <2>1. CASE Clean(c)
      BY <1>2, <2>1 DEF Clean, Dumps
    <2>2. CASE Dump(c)
      BY <1>2, <2>2 DEF Dump
    <2>3. CASE GetNextBackupName(c)
      BY <1>0, <2>3, NameSurvival
    <2>4. CASE RemovePrior(c)
      BY <1>2, <2>4 DEF RemovePrior
    <2>5. CASE Compress(c)
      BY <1>2, <2>5 DEF Compress
    <2>6. CASE Encrypt(c)
      BY <1>2, <2>6 DEF Encrypt
    <2>7. CASE Open(c)
      BY <1>2, <2>7 DEF Open
    <2>8. CASE UploadObject(c)
      BY <2>8, UploadSurvival
    <2>9. CASE LoseObject(c)
      BY <1>0, <2>9, QuietSurvival DEF LoseObject, Fault
    <2>10. CASE CreateFile(c)
      BY <1>0, <2>10, CreateSurvival
    <2>11. CASE CopyFile(c)
      BY <1>0, <2>11, CopySurvival
    <2>12. CASE CountBackup(c)
      BY <1>2, <2>12 DEF CountBackup
    <2>13. CASE Return(c)
      BY <1>2, <2>13 DEF Return
    <2>14. CASE Blocked(c)
      BY <1>0, <2>14, ErrorSurvival DEF Blocked
    <2> QED
      BY <1>3, <2>1, <2>2, <2>3, <2>4, <2>5, <2>6, <2>7, <2>8, <2>9, <2>10,
         <2>11, <2>12, <2>13, <2>14 DEF CallStep
  <1>4. ASSUME NEW c \in Callers, Fail(c) PROVE SurvivalInv'
    BY <1>0, <1>4, ErrorSurvival DEF Fail, Fault
  <1>5. CASE Crash
    BY <1>0, <1>5, QuietSurvival DEF Crash, Spare, Fault
  <1>6. CASE DbWrite \/ UNCHANGED vars
    <2>1. pc' = pc /\ UNCHANGED <<naming, bucket, faults>>
      BY <1>6 DEF DbWrite, vars
    <2>2. Named' <=> Named
      BY <2>1 DEF Named
    <2> QED
      BY <1>0, <2>1, <2>2, QuietSurvival
  <1>7. CASE Failover
    BY <1>7 DEF Failover, Dumps
  <1>8. CASE Expire
    BY <1>8, ExpireSurvival
  <1> QED
    BY <1>1, <1>3, <1>4, <1>5, <1>6, <1>7, <1>8 DEF Next

LEMMA SurvivalInvariance ==
    ASSUME Dumps, Spare PROVE Spec => [](BackupInv /\ SurvivalInv)
  <1>1. Init => BackupInv /\ SurvivalInv
    BY InitBackup, InitSurvival
  <1>2. BackupInv /\ SurvivalInv /\ [Next]_vars => (BackupInv /\ SurvivalInv)'
    BY NextBackup, NextSurvival
  <1> QED
    BY <1>1, <1>2, PTL DEF Spec

-----------------------------------------------------------------------------
(* The backuper implements BackupContract.                                 *)

\* The mapping, as Contract has it.
AsKept(v) == [date |-> v.date, gen |-> v.gen]
Kept == {AsKept(v) : v \in {u \in store : Whole(u.gen)}}

LEMMA ContractStart == Init => Contract!BackupInit
  BY DEF Init, Contract!BackupInit

\* What most steps are to the contract.
LEMMA Invisible ==
    ASSUME live' = live, store' = store
    PROVE  UNCHANGED Contract!backupVars
  BY DEF Contract!backupVars

\* A step after which the versions that can be restored are those of before
\* and one more, of a dump that is fresh.
LEMMA FreshAdds ==
    ASSUME BackupInv, NEW x \in 0..live,
           \A v \in store : Whole(v.gen) => v.gen =< x,
           NEW d \in Nat, \A v \in store : Whole(v.gen) => v.date < d,
           live' = live, Kept' = Kept \cup {[date |-> d, gen |-> x]}
    PROVE  Contract!Add
  <1> DEFINE k == [date |-> d, gen |-> x]
  <1>1. live \in Nat /\ x \in 0..live
    BY BackuperAssumption DEF BackupInv, OrderInv, TypeOK
  <1>2. k \in [date : Nat, gen : 0..live] /\ k.date = d /\ k.gen = x
    BY <1>1
  <1>3. \A o \in Kept : o.date < d /\ o.gen =< x
    BY DEF Kept, AsKept
  <1>4. k \in Kept' /\ Kept' = Kept \cup {k}
    OBVIOUS
  <1> HIDE DEF k
  <1>5. \E m \in Kept' : /\ m \in [date : Nat, gen : 0..live]
                         /\ \A o \in Kept : o.date < m.date /\ o.gen =< m.gen
                         /\ Kept' = Kept \cup {m}
    BY <1>2, <1>3, <1>4
  <1> QED
    BY <1>5 DEF Contract!Add, Kept, AsKept

LEMMA UploadAdds ==
    ASSUME BackupInv, NEW c \in Callers, UploadObject(c)
    PROVE  Contract!Add
  <1>1. PICK new : /\ new = [date |-> clock + 1, slot |-> slot, gen |-> handle[c]]
                   /\ store' = store \cup {new}
    BY DEF UploadObject, Put
  <1>2. new.date = clock + 1 /\ new.gen = handle[c]
    BY <1>1
  <1>3. /\ handle[c] \in 0..live /\ Whole(handle[c]) /\ live' = live
        /\ \A v \in store : Whole(v.gen) => v.gen =< handle[c]
    BY Uploads DEF UploadObject, Goto, database
  <1>4. Whole(new.gen)
    BY <1>2, <1>3
  <1>5. Kept' = Kept \cup {[date |-> clock + 1, gen |-> handle[c]]}
    BY <1>1, <1>2, <1>4 DEF Kept, AsKept
  <1>6. clock + 1 \in Nat /\ \A v \in store : v.date < clock + 1
    BY BackuperAssumption DEF BackupInv, OrderInv, StoreInv, TypeOK, Version
  <1> QED
    BY <1>3, <1>5, <1>6, FreshAdds

LEMMA CopyAdds ==
    ASSUME BackupInv, NEW c \in Callers, CopyFile(c)
    PROVE  Contract!Add
  <1> DEFINE copied(v) == IF v.slot = slot THEN [v EXCEPT !.gen = handle[c]] ELSE v
  <1>1. /\ handle[c] \in 0..live /\ Whole(handle[c]) /\ live' = live /\ Claimed
        /\ \A v \in store : Whole(v.gen) => v.gen =< handle[c]
    BY Uploads DEF CopyFile, Goto, database, BackupInv, OrderInv, Carries
  <1>2. store' = {copied(v) : v \in store}
    BY DEF CopyFile
  <1>3. \A v \in store :
            /\ v.slot = slot => /\ copied(v).date = clock /\ copied(v).gen = handle[c]
                                /\ ~Whole(v.gen)
            /\ v.slot # slot => copied(v) = v
    BY <1>1 DEF Claimed, BackupInv, OrderInv, TypeOK, Version
  <1> HIDE DEF copied
  <1>4. PICK n \in store : n.slot = slot
    BY <1>1 DEF Claimed
  <1>5. Whole(handle[c])
    BY <1>1
  <1> DEFINE k == [date |-> clock, gen |-> handle[c]]
  <1>6. Kept' = Kept \cup {k}
    <2>1. \A m \in Kept' : m \in Kept \cup {k}
      <3> SUFFICES ASSUME NEW v \in store, Whole(copied(v).gen)
                   PROVE  AsKept(copied(v)) \in Kept \cup {k}
        BY <1>2 DEF Kept, AsKept
      <3> QED
        BY <1>3 DEF Kept, AsKept
    <2>2. \A m \in Kept : m \in Kept'
      <3> SUFFICES ASSUME NEW v \in store, Whole(v.gen)
                   PROVE  AsKept(v) \in Kept'
        BY DEF Kept
      <3>1. v \in store'
        BY <1>2, <1>3
      <3> QED
        BY <3>1 DEF Kept, AsKept
    <2>3. k \in Kept'
      <3>1. copied(n) \in store' /\ AsKept(copied(n)) = k /\ Whole(copied(n).gen)
        BY <1>2, <1>3, <1>4, <1>5 DEF AsKept
      <3> QED
        BY <3>1 DEF Kept, AsKept
    <2> QED
      BY <2>1, <2>2, <2>3
  <1>7. \A v \in store : Whole(v.gen) => v.date < clock
    <2> SUFFICES ASSUME NEW v \in store, Whole(v.gen) PROVE v.date < clock
      OBVIOUS
    <2>1. v.date # n.date /\ n.date = clock
      BY <1>1, <1>4 DEF Claimed, BackupInv, OrderInv, StoreInv
    <2> QED
      BY <2>1, BackuperAssumption DEF BackupInv, OrderInv, StoreInv, TypeOK, Version
  <1>8. clock \in Nat
    BY BackuperAssumption DEF BackupInv, OrderInv, TypeOK
  <1> QED
    BY <1>1, <1>6, <1>7, <1>8, FreshAdds

\* A version that goes away while a newer one can be restored.
LEMMA SupersededDiscards ==
    ASSUME BackupInv, NEW v \in store, NEW w \in store, Whole(v.gen), Whole(w.gen),
           v.date < w.date, live' = live,
           {u \in store' : Whole(u.gen)} = {u \in store : Whole(u.gen)} \ {v}
    PROVE  Contract!Discard
  <1>1. AsKept(v) \in Kept /\ AsKept(w) \in Kept
    BY DEF Kept
  <1>2. AsKept(v).date < AsKept(w).date
    BY DEF AsKept
  <1>3. \A u \in store : AsKept(u) = AsKept(v) => u = v
    BY DEF AsKept, BackupInv, OrderInv, StoreInv
  <1>4. Kept' = Kept \ {AsKept(v)}
    BY <1>3 DEF Kept, AsKept
  <1> QED
    BY <1>1, <1>2, <1>4 DEF Contract!Discard, Kept, AsKept

LEMMA CreateDiscards ==
    ASSUME Spare, BackupInv, SurvivalInv, NEW c \in Callers, CreateFile(c)
    PROVE  Contract!Discard \/ UNCHANGED Contract!backupVars
  <1>1. PICK new : /\ new = [date |-> clock + 1, slot |-> slot, gen |-> Torn]
                   /\ store' = (store \ {u \in store : u.slot = slot}) \cup {new}
    BY DEF CreateFile, Put
  <1>2. ~Whole(new.gen)
    BY <1>1, ContentsDiffer DEF Whole
  <1>3. live' = live /\ Provider = "local"
    BY DEF CreateFile, database
  <1>4. CASE \E v \in store : v.slot = slot /\ Whole(v.gen)
    <2>1. PICK v \in store : v.slot = slot /\ Whole(v.gen)
      BY <1>4
    <2>2. {u \in store' : Whole(u.gen)} = {u \in store : Whole(u.gen)} \ {v}
      BY <1>1, <1>2, <1>3, <2>1 DEF SurvivalInv, SlotsDiffer
    <2>3. PICK w \in store : Newest(w)
      BY <2>1 DEF SurvivalInv, NewestExists
    <2>4. w # v
      BY <2>1, <2>3, CreateSpares
    <2>5. v.date < w.date
      BY <2>1, <2>3, <2>4 DEF Newest, BackupInv, OrderInv, StoreInv, TypeOK, Version
    <2> QED
      BY <1>3, <2>1, <2>2, <2>3, <2>5, SupersededDiscards DEF Newest
  <1>5. CASE ~\E v \in store : v.slot = slot /\ Whole(v.gen)
    <2>1. {u \in store' : Whole(u.gen)} = {u \in store : Whole(u.gen)}
      BY <1>1, <1>2, <1>5
    <2> QED
      BY <1>3, <2>1 DEF Contract!backupVars
  <1> QED
    BY <1>4, <1>5

LEMMA ExpireDiscards ==
    ASSUME BackupInv, Expire
    PROVE  Contract!Discard
  <1>1. PICK v \in store : /\ Cardinality({u \in store : v.date < u.date}) >= Keep
                           /\ store' = store \ {v}
    BY DEF Expire
  <1>2. PICK w \in store : v.date < w.date
    BY <1>1, ExpiredIsOld
  <1>3. Whole(v.gen) /\ Whole(w.gen) /\ live' = live
    BY DEF Expire, BackupInv, database
  <1>4. {u \in store' : Whole(u.gen)} = {u \in store : Whole(u.gen)} \ {v}
    BY <1>1
  <1> QED
    BY <1>2, <1>3, <1>4, SupersededDiscards

LEMMA StepKeepsContract ==
    ASSUME Dumps, Spare, BackupInv, SurvivalInv, [Next]_vars
    PROVE  [Contract!BackupNext]_(Contract!backupVars)
  <1> USE DEF Contract!BackupNext
  <1>1. ASSUME NEW c \in Callers, Acquire(c) \/ CallStep(c) \/ Fail(c)
        PROVE  [Contract!BackupNext]_(Contract!backupVars)
    <2>1. CASE UploadObject(c)
      BY <2>1, UploadAdds
    <2>2. CASE CreateFile(c)
      BY <2>2, CreateDiscards
    <2>3. CASE CopyFile(c)
      BY <2>3, CopyAdds
    <2>4. CASE ~(UploadObject(c) \/ CreateFile(c) \/ CopyFile(c))
      <3>1. live' = live /\ store' = store
        BY <1>1, <2>4
        DEF Acquire, CallStep, Fail, Clean, Dump, GetNextBackupName, RemovePrior,
            Compress, Encrypt, Open, LoseObject, CountBackup, Return, Blocked,
            ReturnError, database, bucket
      <3> QED
        BY <3>1, Invisible
    <2> QED
      BY <2>1, <2>2, <2>3, <2>4
  <1>2. CASE Crash \/ Failover \/ UNCHANGED vars
    <2>1. live' = live /\ store' = store
      BY <1>2 DEF Crash, Failover, vars, database, bucket
    <2> QED
      BY <2>1, Invisible
  <1>3. CASE DbWrite
    <2>1. live' \in Nat /\ store' = store
      BY <1>3, BackuperAssumption DEF DbWrite, bucket, BackupInv, OrderInv, TypeOK
    <2> QED
      BY <2>1 DEF Contract!Change
  <1>4. CASE Expire
    BY <1>4, ExpireDiscards
  <1> QED
    BY <1>1, <1>2, <1>3, <1>4 DEF Next

\* The backuper with its provider is a backup store as a restore needs it:
\* each of its steps, with overlapping calls, failing ones, crashes (of an
\* object store's sidecar) and the lifecycle rule, is a step of the contract
\* or invisible to it (backup.go: CreateBackup; local.go: GetNextBackupName,
\* UploadBackup; s3.go, gcp.go: UploadBackup, EnsureBackupBucket).
THEOREM BackupsImplementContract ==
    ASSUME Dumps, Spare PROVE Spec => KeepsContract
  <1>1. Init => Contract!BackupInit
    BY ContractStart
  <1>2. BackupInv /\ SurvivalInv /\ [Next]_vars
          => [Contract!BackupNext]_(Contract!backupVars)
    BY StepKeepsContract
  <1> QED
    BY <1>1, <1>2, SurvivalInvariance, PTL
    DEF Spec, KeepsContract, Contract!BackupSpec

LEMMA StepKeepsNewest ==
    ASSUME BackupInv, [Contract!BackupNext]_(Contract!backupVars),
           NEW v \in store, Whole(v.gen)
    PROVE  \E u \in store' : Whole(u.gen) /\ v.date =< u.date /\ v.gen =< u.gen
  <1> DEFINE k == AsKept(v)
  <1>1. /\ k \in Kept /\ k.date = v.date /\ k.gen = v.gen
        /\ v.date \in Nat /\ v.gen \in Nat
    BY DEF Kept, AsKept, BackupInv, OrderInv, TypeOK, Version, Whole
  <1>2. \E m \in Kept' : v.date =< m.date /\ v.gen =< m.gen
    <2>1. CASE Contract!Discard
      <3>1. PICK j \in Kept : /\ \E o \in Kept : j.date < o.date
                              /\ Kept' = Kept \ {j}
        BY <2>1 DEF Contract!Discard, Kept, AsKept
      <3>2. CASE j = k
        <4>1. PICK u \in store : Whole(u.gen) /\ v.date < u.date
          BY <1>1, <3>1, <3>2 DEF Kept, AsKept
        <4>2. v.gen =< u.gen /\ u.date \in Nat
          BY <4>1 DEF BackupInv, OrderInv, StoredOrder, TypeOK, Version
        <4>3. /\ AsKept(u) \in Kept
              /\ AsKept(u).date = u.date /\ AsKept(u).gen = u.gen
          BY <4>1 DEF Kept, AsKept
        <4>4. AsKept(u) \in Kept'
          BY <1>1, <3>1, <3>2, <4>1, <4>2, <4>3
        <4> QED
          BY <1>1, <4>1, <4>2, <4>3, <4>4
      <3>3. CASE j # k
        BY <1>1, <3>1, <3>3
      <3> QED
        BY <3>2, <3>3
    <2>2. CASE ~Contract!Discard
      <3>1. Kept \subseteq Kept'
        BY <2>2 DEF Contract!BackupNext, Contract!Change, Contract!Add,
           Contract!backupVars, Kept, AsKept
      <3> QED
        BY <1>1, <3>1
    <2> QED
      BY <2>1, <2>2
  <1> QED
    BY <1>2 DEF Kept, AsKept

\* No step takes the newest restorable version away before there is another
\* one that is newer (local.go: GetNextBackupName, UploadBackup; s3.go, gcp.go:
\* the lifecycle rules of EnsureBackupBucket).
THEOREM NewestStays ==
    ASSUME Dumps, Spare PROVE Spec => NewestSurvives
  <1>1. BackupInv /\ SurvivalInv /\ [Next]_vars =>
          [\A v \in store :
             Whole(v.gen) => \E u \in store' : Whole(u.gen) /\ v.date =< u.date]_vars
    BY StepKeepsContract, StepKeepsNewest
  <1> QED
    BY <1>1, SurvivalInvariance, PTL DEF Spec, NewestSurvives

\* What a call answers for, from the moment it counts its backup.
Answered(n) == \E c \in Callers : pc[c] = "cleanup" /\ n =< began[c]

Recoverable(n) == \E v \in store : Whole(v.gen) /\ n =< v.gen

\* Once a CreateBackup call has counted its backup, all that had been written
\* before the call can be restored for ever after, through later backups,
\* failed ones and the lifecycle rule (backup.go: CreateBackup; local.go:
\* GetNextBackupName).
THEOREM AcknowledgedForEver ==
    ASSUME Dumps, Spare, Provider # "gcp", NEW n \in Nat
    PROVE  Spec => [](Answered(n) => []Recoverable(n))
  <1>1. BackupInv => (Answered(n) => Recoverable(n))
    <2> SUFFICES ASSUME BackupInv, NEW c \in Callers, pc[c] = "cleanup", n =< began[c]
                 PROVE  Recoverable(n)
      BY DEF Answered
    <2>1. PICK v \in store : Whole(v.gen) /\ began[c] =< v.gen
      BY DEF BackupInv, Stage, Arrived
    <2> QED
      BY <2>1 DEF Recoverable, Whole, BackupInv, OrderInv, TypeOK
  <1>2. BackupInv /\ SurvivalInv /\ [Next]_vars
          => (Recoverable(n) => Recoverable(n)')
    <2> SUFFICES ASSUME BackupInv, SurvivalInv, [Next]_vars,
                        NEW v \in store, Whole(v.gen), n =< v.gen
                 PROVE  Recoverable(n)'
      BY DEF Recoverable
    <2>1. PICK u \in store' : Whole(u.gen) /\ v.gen =< u.gen
      BY StepKeepsContract, StepKeepsNewest
    <2> QED
      BY <2>1 DEF Recoverable, Whole
  <1> QED
    BY <1>1, <1>2, SurvivalInvariance, PTL DEF Spec
=============================================================================
