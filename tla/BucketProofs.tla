---------------------------- MODULE BucketProofs ----------------------------
(***************************************************************************)
(* Proofs about Bucket, for every set of sidecars, every overlap of their  *)
(* prefixes and every bound.                                               *)
(***************************************************************************)
EXTENDS Bucket, FiniteSetTheorems, FunctionTheorems, TLAPS

\* What initialize has done to the bucket before it stands at a call.
CallInv ==
  \A p \in Sidecars :
    /\ at[p] \in {"list", "create", "versioning", "get", "put"} => provider = "s3"
    /\ at[p] \in {"insert", "attrs", "update"} => provider = "gcp"
    /\ at[p] = "mkdir" => provider = "local"
    /\ at[p] \in {"versioning", "get", "put", "attrs", "update"} => exists
    /\ at[p] = "serve" /\ provider # "local" => exists
    /\ at[p] \in {"get", "put", "serve"} /\ provider # "local" => versioned
    /\ provider = "gcp" /\ exists => versioned

\* A reading that has the current count has the current rules.
ReadInv ==
  /\ ~exists => rules = {} /\ meta = 0
  /\ \A p \in Sidecars : /\ seen[p].meta <= meta
                         /\ seen[p].meta = meta => seen[p].rules = rules
                         /\ ~exists => seen[p] = NoReading

\* A request is made outside initialize only.
JobInv == ~Early => \A p \in Sidecars : job[p] # "idle" => at[p] = "serve"

\* Dates tell versions apart, and so do the slots of a local directory.
StoreInv ==
  /\ IsFiniteSet(store)
  /\ \A v \in store : v.date <= clock
  /\ \A v, w \in store : v.date = w.date => v = w
  /\ provider = "local" =>
       \A v, w \in store : v.by = w.by /\ Slot(v.by, v.nth) = Slot(w.by, w.nth) => v = w

\* The names a process gave to what it stored.
NameInv ==
  \A v \in store : v.date > since[v.by] =>
    v.nth <= names[v.by] /\ (job[v.by] = "named" => v.nth < names[v.by])

SameBackup(v, w) == v.by = w.by /\ v.date = w.date

\* The operator's number still stands for what was picked.
PickedInv ==
  client.at = "picked" =>
    /\ client.meant.date <= clock
    /\ provider # "local" =>
         /\ client.asked = client.meant.date
         /\ \A v \in store : v.date = client.meant.date => v.by = client.meant.by
    /\ provider = "local" /\ client.asof = clock =>
         \E v \in store : /\ SameBackup(v, client.meant) /\ v.by = client.of
                          /\ client.asked = Number(client.of, v)

\* What the request has found is it.
FoundInv ==
  client.at = "found" =>
    /\ provider # "local" => SameBackup(client.got, client.meant)
    /\ provider = "local" /\ client.asof = clock =>
         \E v \in store : /\ SameBackup(v, client.meant) /\ v.by = client.of
                          /\ v.nth = client.got.nth

ClientInv == client.asof <= clock /\ PickedInv /\ FoundInv /\ PickedIsDelivered

Settings == CallInv /\ ReadInv /\ JobInv

Versions == StoreInv /\ NameInv

BucketInv == TypeOK /\ Settings /\ Versions /\ ClientInv

-----------------------------------------------------------------------------
(* Types *)

USE BucketAssumption

LEMMA KeepNat == \A p \in Sidecars : Keep(p) \in Nat \ {0}
  BY DEF Keep

LEMMA FirstCallType == provider \in Providers => FirstCall \in Calls
  BY DEF FirstCall, Calls

LEMMA TypeInit == Init => TypeOK
<1> SUFFICES ASSUME Init PROVE TypeOK OBVIOUS
<1>1. at \in [Sidecars -> Calls] BY FirstCallType DEF Init
<1>2. seen \in [Sidecars -> Reading] BY DEF Init, Reading, NoReading
<1>3. since \in [Sidecars -> 0 .. MaxDate] /\ names \in [Sidecars -> Nat] BY DEF Init
<1>4. job \in [Sidecars -> {"idle", "named", "copy"}] BY DEF Init
<1>5. clock \in 0 .. MaxDate /\ faults \in 0 .. MaxFaults BY DEF Init
<1> QED BY <1>1, <1>2, <1>3, <1>4, <1>5 DEF Init, TypeOK

LEMMA TypeEnsure ==
  ASSUME TypeOK, NEW p \in Sidecars, Ensure(p) PROVE TypeOK'
<1> USE DEF TypeOK, Calls, Reading, NoReading, Step, bucket
<1>1. CASE ListBuckets(p) BY <1>1 DEF ListBuckets
<1>2. CASE CreateBucket(p) BY <1>2 DEF CreateBucket
<1>3. CASE PutBucketVersioning(p) BY <1>3 DEF PutBucketVersioning
<1>4. CASE GetLifecycle(p) BY <1>4 DEF GetLifecycle, Fault
<1>5. CASE PutLifecycle(p) BY <1>5 DEF PutLifecycle
<1>6. CASE InsertBucket(p)
  <2>1. at' \in [Sidecars -> Calls] BY <1>6 DEF InsertBucket
  <2>2. CASE exists BY <1>6, <2>1, <2>2 DEF InsertBucket
  <2>3. CASE ~exists
    <3>1. exists' = TRUE /\ versioned' = TRUE /\ rules' = {p} /\ meta' = 1
      BY <1>6, <2>3 DEF InsertBucket
    <3> QED BY <1>6, <2>1, <3>1 DEF InsertBucket
  <2> QED BY <2>2, <2>3
<1>7. CASE Attrs(p) BY <1>7 DEF Attrs
<1>8. CASE Update(p) BY <1>8 DEF Update
<1>9. CASE Refused(p)
  <2>1. FirstCall \in Calls BY FirstCallType
  <2>2. client' = Idle \/ client' = client BY <1>9 DEF Refused, Restart
  <2> QED BY <1>9, <2>1, <2>2 DEF Refused, Restart
<1>10. CASE MkdirAll(p) BY <1>10 DEF MkdirAll
<1> QED BY <1>1, <1>2, <1>3, <1>4, <1>5, <1>6, <1>7, <1>8, <1>9, <1>10 DEF Ensure

LEMMA TypeKill ==
  ASSUME TypeOK, NEW p \in Sidecars, Kill(p) PROVE TypeOK'
<1>1. FirstCall \in Calls BY FirstCallType DEF TypeOK
<1>2. client' = Idle \/ client' = client BY DEF Kill, Restart
<1> QED BY <1>1, <1>2 DEF TypeOK, Kill, Restart, Fault, bucket, Reading, NoReading

LEMMA NewVersion ==
  ASSUME TypeOK, NEW p \in Sidecars, NEW b \in BOOLEAN, clock < MaxDate
  PROVE New(p, b) \in Version /\ clock + 1 \in 0 .. MaxDate
  BY DEF TypeOK, New, Version

LEMMA TypeBackup ==
  ASSUME TypeOK, NEW p \in Sidecars, CreateBackup(p) PROVE TypeOK'
<1>1. CASE GetNextBackupName(p) BY <1>1 DEF GetNextBackupName, TypeOK, bucket
<1>2. CASE UploadObject(p)
  <2>1. clock < MaxDate BY <1>2 DEF UploadObject
  <2>2. New(p, TRUE) \in Version /\ clock + 1 \in 0 .. MaxDate BY <2>1, NewVersion
  <2> QED BY <1>2, <2>2 DEF UploadObject, TypeOK, bucket
<1>3. CASE CreateFile(p)
  <2>1. clock < MaxDate BY <1>3 DEF CreateFile
  <2>2. New(p, FALSE) \in Version /\ clock + 1 \in 0 .. MaxDate BY <2>1, NewVersion
  <2> QED BY <1>3, <2>2 DEF CreateFile, TypeOK, bucket
<1>4. CASE CopyFile(p)
  <2>1. \A v \in store : [v EXCEPT !.whole = @ \/ (v \in Overwritten(p))] \in Version
    BY DEF TypeOK, Version
  <2> QED BY <1>4, <2>1 DEF CopyFile, TypeOK, bucket
<1>5. CASE FailBackup(p) BY <1>5 DEF FailBackup, Fault, TypeOK, bucket
<1> QED BY <1>1, <1>2, <1>3, <1>4, <1>5 DEF CreateBackup

LEMMA DatesFinite ==
  ASSUME TypeOK, NEW p \in Sidecars, NEW n \in Nat
  PROVE /\ IsFiniteSet({d \in Dates(p) : d > n})
        /\ Cardinality({d \in Dates(p) : d > n}) \in Nat
<1>1. IsFiniteSet(1 .. MaxDate) BY FS_Interval
<1>2. {d \in Dates(p) : d > n} \subseteq 1 .. MaxDate
  <2>1. \A v \in ListBackups(p) : v \in Version BY DEF ListBackups, TypeOK
  <2> QED BY <2>1 DEF Dates, Version
<1>3. IsFiniteSet({d \in Dates(p) : d > n}) BY <1>1, <1>2, FS_Subset
<1> QED BY <1>3, FS_CardinalityType

LEMMA NumberNat ==
  ASSUME TypeOK, NEW p \in Sidecars, NEW v \in store
  PROVE Number(p, v) \in Nat
<1>1. v.date \in Nat BY DEF TypeOK, Version
<1> QED BY <1>1, DatesFinite DEF Number

LEMMA TypeOperator ==
  ASSUME TypeOK, Operator PROVE TypeOK'
<1> USE DEF OnlyClient, bucket
<1>1. ASSUME NEW p \in Sidecars, NEW v \in store, Pick(p, v) PROVE TypeOK'
  BY <1>1, NumberNat DEF Pick, TypeOK
<1>2. CASE Find
  <2>1. CASE client' = Idle BY <1>2, <2>1 DEF Find, TypeOK
  <2>2. ASSUME NEW v \in store, client' = Going("found", v) PROVE TypeOK'
    BY <1>2, <2>2 DEF Find, Going, TypeOK, Idle
  <2> QED BY <1>2, <2>1, <2>2 DEF Find, Get, ListBackups
<1>3. CASE Fetch
  <2>1. CASE client' = Idle BY <1>3, <2>1 DEF Fetch, TypeOK
  <2>2. ASSUME NEW v \in store, client' = Going("done", v) PROVE TypeOK'
    BY <1>3, <2>2 DEF Fetch, Going, TypeOK, Idle
  <2> QED BY <1>3, <2>1, <2>2 DEF Fetch, DownloadBackup
<1>4. CASE Download BY <1>4 DEF Download, TypeOK
<1> QED BY <1>1, <1>2, <1>3, <1>4 DEF Operator

-----------------------------------------------------------------------------
(* The settings of the bucket: CallInv, ReadInv, JobInv *)

\* A call between two others of EnsureBackupBucket that is no write of rules.
LEMMA StepJobs ==
  ASSUME TypeOK, JobInv, NEW p \in Sidecars, NEW a \in Calls \ {"serve"}, NEW b, Step(p, a, b)
  PROVE JobInv'
<1>1. ASSUME ~Early, NEW q \in Sidecars, job[q] # "idle" PROVE at'[q] = "serve"
  <2>1. at[q] = "serve" BY <1>1 DEF JobInv
  <2>2. q # p BY <2>1 DEF Step
  <2> QED BY <2>1, <2>2 DEF Step, TypeOK
<1> QED BY <1>1 DEF JobInv, Step

LEMMA SettingsRestart ==
  ASSUME TypeOK, Settings, NEW p \in Sidecars, Restart(p) PROVE Settings'
<1> USE DEF TypeOK, bucket
<1>1. CallInv'
  <2>1. CASE provider = "s3" BY <2>1 DEF Restart, Settings, CallInv, FirstCall
  <2>2. CASE provider = "gcp" BY <2>2 DEF Restart, Settings, CallInv, FirstCall
  <2>3. CASE provider = "local" BY <2>3 DEF Restart, Settings, CallInv, FirstCall
  <2> QED BY <2>1, <2>2, <2>3
<1>2. ReadInv'
  <2>1. ASSUME NEW q \in Sidecars, q # p PROVE seen'[q] = seen[q] BY <2>1 DEF Restart
  <2>2. seen'[p] = NoReading /\ NoReading.meta = -1 BY DEF Restart, NoReading
  <2>3. UNCHANGED <<exists, rules, meta>> BY DEF Restart
  <2> QED BY <2>1, <2>2, <2>3 DEF Settings, ReadInv
<1>3. JobInv' BY DEF Restart, Settings, JobInv
<1> QED BY <1>1, <1>2, <1>3 DEF Settings

LEMMA SettingsEnsure ==
  ASSUME TypeOK, Settings, NEW p \in Sidecars, Ensure(p) PROVE Settings'
<1> USE DEF Settings, TypeOK, Reading, NoReading, bucket
<1>1. CASE ListBuckets(p)
  <2>1. CallInv' BY <1>1 DEF ListBuckets, Step, CallInv
  <2>2. ReadInv' BY <1>1 DEF ListBuckets, Step, ReadInv
  <2>3. JobInv' BY <1>1, StepJobs DEF ListBuckets, Calls
  <2> QED BY <2>1, <2>2, <2>3
<1>2. CASE CreateBucket(p)
  <2>1. CallInv' BY <1>2 DEF CreateBucket, Step, CallInv
  <2>2. ReadInv' BY <1>2 DEF CreateBucket, Step, ReadInv
  <2>3. JobInv' BY <1>2, StepJobs DEF CreateBucket, Calls
  <2> QED BY <2>1, <2>2, <2>3
<1>3. CASE PutBucketVersioning(p)
  <2>1. CallInv' BY <1>3 DEF PutBucketVersioning, Step, CallInv
  <2>2. ReadInv' BY <1>3 DEF PutBucketVersioning, Step, ReadInv
  <2>3. JobInv' BY <1>3, StepJobs DEF PutBucketVersioning, Calls
  <2> QED BY <2>1, <2>2, <2>3
<1>4. CASE GetLifecycle(p)
  <2>1. CallInv' BY <1>4 DEF GetLifecycle, Step, CallInv
  <2>2. ReadInv' BY <1>4 DEF GetLifecycle, Step, ReadInv, CallInv
  <2>3. JobInv' BY <1>4, StepJobs DEF GetLifecycle, Calls
  <2> QED BY <2>1, <2>2, <2>3
<1>5. CASE PutLifecycle(p)
  <2>1. CallInv' BY <1>5 DEF PutLifecycle, Step, CallInv
  <2>2. ReadInv' BY <1>5 DEF PutLifecycle, Step, ReadInv, CallInv
  <2>3. JobInv' BY <1>5, StepJobs DEF PutLifecycle, Calls
  <2> QED BY <2>1, <2>2, <2>3
<1>6. CASE InsertBucket(p)
  <2>1. CASE exists
    <3>1. CallInv' BY <1>6, <2>1 DEF InsertBucket, Step, CallInv
    <3>2. ReadInv' BY <1>6, <2>1 DEF InsertBucket, Step, ReadInv
    <3> QED BY <1>6, <3>1, <3>2, StepJobs DEF InsertBucket, Calls
  <2>2. CASE ~exists
    <3>0. exists' = TRUE /\ versioned' = TRUE /\ rules' = {p} /\ meta' = 1
      BY <1>6, <2>2 DEF InsertBucket
    <3>1. CallInv' BY <1>6, <3>0 DEF InsertBucket, Step, CallInv
    <3>2. ReadInv' BY <1>6, <2>2, <3>0 DEF InsertBucket, Step, ReadInv
    <3> QED BY <1>6, <3>1, <3>2, StepJobs DEF InsertBucket, Calls
  <2> QED BY <2>1, <2>2
<1>7. CASE Attrs(p)
  <2>1. CallInv' BY <1>7 DEF Attrs, Step, CallInv
  <2>2. ReadInv' BY <1>7 DEF Attrs, Step, ReadInv, CallInv
  <2>3. JobInv' BY <1>7, StepJobs DEF Attrs, Calls
  <2> QED BY <2>1, <2>2, <2>3
<1>8. CASE Update(p)
  <2>1. CallInv' BY <1>8 DEF Update, Step, CallInv
  <2>2. ReadInv' BY <1>8 DEF Update, Step, ReadInv, CallInv
  <2>3. JobInv' BY <1>8, StepJobs DEF Update, Calls
  <2> QED BY <2>1, <2>2, <2>3
<1>9. CASE Refused(p) BY <1>9, SettingsRestart DEF Refused
<1>10. CASE MkdirAll(p)
  <2>1. CallInv' BY <1>10 DEF MkdirAll, Step, CallInv
  <2>2. ReadInv' BY <1>10 DEF MkdirAll, Step, ReadInv
  <2>3. JobInv' BY <1>10, StepJobs DEF MkdirAll, Calls
  <2> QED BY <2>1, <2>2, <2>3
<1> QED BY <1>1, <1>2, <1>3, <1>4, <1>5, <1>6, <1>7, <1>8, <1>9, <1>10 DEF Ensure

LEMMA SettingsBackup ==
  ASSUME TypeOK, Settings, NEW p \in Sidecars, CreateBackup(p) PROVE Settings'
<1>1. UNCHANGED <<provider, bucket, at, seen>>
  BY DEF CreateBackup, GetNextBackupName, UploadObject, CreateFile, CopyFile, FailBackup
<1>2. CallInv' /\ ReadInv' BY <1>1 DEF Settings, CallInv, ReadInv, bucket
<1>3. ASSUME ~Early, NEW q \in Sidecars, job'[q] # "idle" PROVE at[q] = "serve"
  <2>1. CASE GetNextBackupName(p) BY <1>3, <2>1 DEF GetNextBackupName, Settings, JobInv, TypeOK
  <2>2. CASE UploadObject(p) BY <1>3, <2>2 DEF UploadObject, Settings, JobInv, TypeOK
  <2>3. CASE CreateFile(p) BY <1>3, <2>3 DEF CreateFile, Settings, JobInv, TypeOK
  <2>4. CASE CopyFile(p) BY <1>3, <2>4 DEF CopyFile, Settings, JobInv, TypeOK
  <2>5. CASE FailBackup(p) BY <1>3, <2>5 DEF FailBackup, Settings, JobInv, TypeOK
  <2> QED BY <2>1, <2>2, <2>3, <2>4, <2>5 DEF CreateBackup
<1>4. JobInv' BY <1>1, <1>3 DEF JobInv
<1> QED BY <1>2, <1>4 DEF Settings

LEMMA SettingsElse ==
  ASSUME Settings, UNCHANGED <<provider, bucket, at, seen, job>> PROVE Settings'
  BY DEF Settings, CallInv, ReadInv, JobInv, bucket

-----------------------------------------------------------------------------
(* The versions: StoreInv, NameInv *)

LEMMA VersionsElse ==
  ASSUME Versions, UNCHANGED <<provider, store, since, names, job, clock>> PROVE Versions'
  BY DEF Versions, StoreInv, NameInv, Slot

LEMMA VersionsRestart ==
  ASSUME TypeOK, Versions, NEW p \in Sidecars, Restart(p) PROVE Versions'
<1>1. StoreInv' BY DEF Restart, Versions, StoreInv, Slot
<1>2. ASSUME NEW v \in store, v.date > since'[v.by]
      PROVE v.nth <= names'[v.by] /\ (job'[v.by] = "named" => v.nth < names'[v.by])
  <2>1. v.date <= clock /\ v.date \in Nat /\ clock \in Nat BY DEF Versions, StoreInv, TypeOK, Version
  <2>2. v.by # p BY <1>2, <2>1 DEF Restart, TypeOK
  <2>3. since'[v.by] = since[v.by] /\ names'[v.by] = names[v.by] /\ job'[v.by] = job[v.by]
    BY <2>2 DEF Restart
  <2> QED BY <1>2, <2>3 DEF Versions, NameInv
<1>3. NameInv' BY <1>2 DEF NameInv, Restart
<1> QED BY <1>1, <1>3 DEF Versions

\* A version with a new date joins those that are left.
LEMMA VersionsAdd ==
  ASSUME TypeOK, Versions, NEW p \in Sidecars, NEW b \in BOOLEAN, clock < MaxDate,
         NEW O, provider = "local" =>
                  \A v \in store : v.by = p /\ Slot(p, v.nth) = Slot(p, names[p]) => v \in O,
         store' = (store \ O) \cup {New(p, b)}, clock' = clock + 1,
         job' \in [Sidecars -> {"idle", "named", "copy"}],
         \A q \in Sidecars : job'[q] = "named" => job[q] = "named" /\ q # p,
         UNCHANGED <<provider, since, names>>
  PROVE  Versions'
<1> DEFINE n == New(p, b)
<1>1. n.by = p /\ n.nth = names[p] /\ n.date = clock + 1 BY DEF New
<1>2. \A v \in store : v.date <= clock /\ v.date \in Nat /\ v.by \in Sidecars /\ v.nth \in Nat
  BY DEF Versions, StoreInv, TypeOK, Version
<1>3. clock \in Nat /\ names[p] \in Nat BY DEF TypeOK
<1> HIDE DEF n
<1>4. store' = (store \ O) \cup {n} BY DEF n
<1>5. IsFiniteSet(store')
  <2>1. IsFiniteSet(store \ O) BY FS_Subset DEF Versions, StoreInv
  <2> QED BY <1>4, <2>1, FS_AddElement
<1>6. \A v \in store' : v.date <= clock' BY <1>1, <1>2, <1>3, <1>4
<1>7. \A v, w \in store' : v.date = w.date => v = w
  BY <1>1, <1>2, <1>3, <1>4 DEF Versions, StoreInv
<1>8. ASSUME provider = "local"
      PROVE \A v, w \in store' : v.by = w.by /\ Slot(v.by, v.nth) = Slot(w.by, w.nth) => v = w
  <2>1. \A v \in store \ O : v.by = n.by => Slot(v.by, v.nth) # Slot(n.by, n.nth)
    BY <1>1, <1>8
  <2> QED BY <1>4, <1>8, <2>1 DEF Versions, StoreInv
<1>9. StoreInv' BY <1>5, <1>6, <1>7, <1>8 DEF StoreInv, Slot
<1>10. ASSUME NEW v \in store', v.date > since'[v.by]
       PROVE v.nth <= names'[v.by] /\ (job'[v.by] = "named" => v.nth < names'[v.by])
  <2>1. CASE v = n BY <1>1, <1>3, <2>1
  <2>2. CASE v \in store BY <1>2, <1>10, <2>2 DEF Versions, NameInv
  <2> QED BY <1>4, <2>1, <2>2
<1> QED BY <1>9, <1>10 DEF Versions, NameInv

\* What CopyFile makes of the versions.
Copied(v, p) == [v EXCEPT !.whole = @ \/ (v \in Overwritten(p))]

LEMMA CopiedSame ==
  ASSUME TypeOK, NEW p, NEW v \in store
  PROVE Copied(v, p).by = v.by /\ Copied(v, p).nth = v.nth /\ Copied(v, p).date = v.date
        /\ (v.whole => Copied(v, p) = v)
  BY DEF Copied, TypeOK, Version

LEMMA CopiedStore ==
  ASSUME NEW p, CopyFile(p)
  PROVE /\ \A w \in store' : \E v \in store : w = Copied(v, p)
        /\ \A v \in store : Copied(v, p) \in store'
  BY DEF CopyFile, Copied

LEMMA VersionsCopy ==
  ASSUME TypeOK, Versions, NEW p \in Sidecars, CopyFile(p) PROVE Versions'
<1>1. IsFiniteSet(store')
  <2> DEFINE f == [v \in store |-> Copied(v, p)]
  <2>1. f \in [store -> store'] BY CopiedStore
  <2>2. \A w \in store' : \E v \in store : f[v] = w BY CopiedStore
  <2> HIDE DEF f
  <2>3. f \in Surjection(store, store') BY <2>1, <2>2, Fun_IsSurj
  <2> QED BY <2>3, FS_Surjection DEF Versions, StoreInv
<1>2. UNCHANGED <<provider, since, names, clock>> BY DEF CopyFile
<1>3. \A v \in store' : v.date <= clock' BY <1>2, CopiedStore, CopiedSame DEF Versions, StoreInv
<1>4. \A v, w \in store' : v.date = w.date => v = w
  BY CopiedStore, CopiedSame DEF Versions, StoreInv
<1>5. provider = "local" =>
        \A v, w \in store' : v.by = w.by /\ Slot(v.by, v.nth) = Slot(w.by, w.nth) => v = w
  BY CopiedStore, CopiedSame DEF Versions, StoreInv
<1>6. StoreInv' BY <1>1, <1>2, <1>3, <1>4, <1>5 DEF StoreInv, Slot
<1>7. ASSUME NEW w \in store', w.date > since'[w.by]
      PROVE w.nth <= names'[w.by] /\ (job'[w.by] = "named" => w.nth < names'[w.by])
  <2>1. PICK v \in store : w = Copied(v, p) BY CopiedStore
  <2>2. w.by = v.by /\ w.nth = v.nth /\ w.date = v.date BY <2>1, CopiedSame
  <2>3. v.by \in Sidecars BY DEF TypeOK, Version
  <2>4. job'[w.by] = "named" => job[w.by] = "named" BY <2>2, <2>3 DEF CopyFile, TypeOK
  <2> QED BY <1>2, <1>7, <2>2, <2>4 DEF Versions, NameInv
<1> QED BY <1>6, <1>7 DEF Versions, NameInv

LEMMA VersionsBackup ==
  ASSUME TypeOK, Versions, NEW p \in Sidecars, CreateBackup(p) PROVE Versions'
<1>1. CASE GetNextBackupName(p)
  <2>1. StoreInv' BY <1>1 DEF GetNextBackupName, Versions, StoreInv, Slot
  <2>2. NameInv' BY <1>1 DEF GetNextBackupName, Versions, NameInv, TypeOK, Version
  <2> QED BY <2>1, <2>2 DEF Versions
<1>2. CASE UploadObject(p)
  <2>1. job' = [job EXCEPT ![p] = "idle"] /\ provider # "local" BY <1>2 DEF UploadObject
  <2>2. job' \in [Sidecars -> {"idle", "named", "copy"}]
        /\ \A q \in Sidecars : job'[q] = "named" => job[q] = "named" /\ q # p
    BY <2>1 DEF TypeOK
  <2> QED BY <1>2, <2>1, <2>2, VersionsAdd DEF UploadObject
<1>3. CASE CreateFile(p)
  <2>1. job' = [job EXCEPT ![p] = "copy"] BY <1>3 DEF CreateFile
  <2>2. job' \in [Sidecars -> {"idle", "named", "copy"}]
        /\ \A q \in Sidecars : job'[q] = "named" => job[q] = "named" /\ q # p
    BY <2>1 DEF TypeOK
  <2>3. \A v \in store : v.by = p /\ Slot(p, v.nth) = Slot(p, names[p]) => v \in Overwritten(p)
    BY <1>3 DEF CreateFile, Overwritten
  <2> QED BY <1>3, <2>2, <2>3, VersionsAdd DEF CreateFile
<1>4. CASE CopyFile(p) BY <1>4, VersionsCopy
<1>5. CASE FailBackup(p)
  <2>1. StoreInv' BY <1>5 DEF FailBackup, Versions, StoreInv, Slot
  <2>2. NameInv' BY <1>5 DEF FailBackup, Versions, NameInv, TypeOK, Version
  <2> QED BY <2>1, <2>2 DEF Versions
<1> QED BY <1>1, <1>2, <1>3, <1>4, <1>5 DEF CreateBackup

LEMMA VersionsExpire ==
  ASSUME Versions, NEW v \in store, Expire(v) PROVE Versions'
<1>1. store' \subseteq store /\ UNCHANGED <<provider, since, names, job, clock>> BY DEF Expire
<1>2. IsFiniteSet(store') BY <1>1, FS_Subset DEF Versions, StoreInv
<1> QED BY <1>1, <1>2 DEF Versions, StoreInv, NameInv, Slot

-----------------------------------------------------------------------------
(* The operator: ClientInv *)

LEMMA ClientElse ==
  ASSUME ClientInv, UNCHANGED <<provider, store, client, clock>> PROVE ClientInv'
  BY DEF ClientInv, PickedInv, FoundInv, PickedIsDelivered, SameBackup, Number, Dates, ListBackups

LEMMA ClientIdle ==
  ASSUME TypeOK, client' = Idle, UNCHANGED clock PROVE ClientInv'
<1>1. Idle.at = "idle" /\ Idle.asof = 0 /\ clock \in Nat BY DEF Idle, TypeOK
<1> QED BY <1>1 DEF ClientInv, PickedInv, FoundInv, PickedIsDelivered

LEMMA ClientRestart ==
  ASSUME TypeOK, ClientInv, NEW p \in Sidecars, Restart(p) PROVE ClientInv'
<1>1. UNCHANGED <<provider, store, clock>> BY DEF Restart
<1>2. client' = Idle \/ client' = client BY DEF Restart
<1> QED BY <1>1, <1>2, ClientElse, ClientIdle

LEMMA ClientEnsure ==
  ASSUME TypeOK, ClientInv, NEW p \in Sidecars, Ensure(p) PROVE ClientInv'
<1>1. CASE Refused(p) BY <1>1, ClientRestart DEF Refused
<1>2. CASE ~Refused(p)
  <2>1. UNCHANGED <<provider, store, client, clock>>
    BY <1>2 DEF Ensure, ListBuckets, CreateBucket, PutBucketVersioning, GetLifecycle, PutLifecycle,
                InsertBucket, Attrs, Update, MkdirAll, Step
  <2> QED BY <2>1, ClientElse
<1> QED BY <1>1, <1>2

\* A backup more: a number of a local directory counts no longer, the date of
\* the new version is the date of no version picked before.
LEMMA ClientAdd ==
  ASSUME TypeOK, Versions, ClientInv, NEW p \in Sidecars, NEW b \in BOOLEAN, NEW O,
         store' = (store \ O) \cup {New(p, b)}, clock' = clock + 1,
         UNCHANGED <<provider, client>>
  PROVE  ClientInv'
<1> DEFINE n == New(p, b)
<1>1. n.date = clock + 1 BY DEF New
<1> HIDE DEF n
<1>2. store' = (store \ O) \cup {n} BY DEF n
<1>3. clock \in Nat /\ client.asof <= clock /\ client.asof \in Nat BY DEF TypeOK, ClientInv, Idle
<1>4. client'.asof < clock' /\ client'.asof # clock' BY <1>3
<1>5. PickedInv'
  <2> SUFFICES ASSUME client.at = "picked"
               PROVE /\ client.meant.date <= clock + 1
                     /\ provider # "local" =>
                          /\ client.asked = client.meant.date
                          /\ \A v \in store' : v.date = client.meant.date => v.by = client.meant.by
    BY <1>3, <1>4 DEF PickedInv, SameBackup
  <2>1. client.meant.date <= clock /\ client.meant.date \in Nat
    BY DEF ClientInv, PickedInv, TypeOK, Version, Idle
  <2> QED BY <1>1, <1>2, <1>3, <2>1 DEF ClientInv, PickedInv
<1>6. FoundInv' BY <1>4 DEF FoundInv, ClientInv, SameBackup
<1>7. PickedIsDelivered' BY <1>3, <1>4 DEF PickedIsDelivered, ClientInv
<1> QED BY <1>3, <1>4, <1>5, <1>6, <1>7 DEF ClientInv

LEMMA CopiedNumbers ==
  ASSUME TypeOK, NEW p \in Sidecars, CopyFile(p), NEW q \in Sidecars,
         NEW v, NEW w, w.date = v.date
  PROVE  Number(q, w)' = Number(q, v)
<1>1. provider' = provider BY DEF CopyFile
<1>2. Dates(q)' = Dates(q)
  <2>1. \A x \in ListBackups(q)' : \E u \in ListBackups(q) : u.date = x.date
    BY <1>1, CopiedStore, CopiedSame DEF ListBackups
  <2>2. \A u \in ListBackups(q) : \E x \in ListBackups(q)' : u.date = x.date
    BY <1>1, CopiedStore, CopiedSame DEF ListBackups
  <2> QED BY <2>1, <2>2 DEF Dates
<1> QED BY <1>1, <1>2 DEF Number

LEMMA ClientCopy ==
  ASSUME TypeOK, ClientInv, NEW p \in Sidecars, CopyFile(p) PROVE ClientInv'
<1>1. UNCHANGED <<provider, client, clock>> BY DEF CopyFile
<1>2. PickedInv'
  <2> SUFFICES ASSUME client.at = "picked" PROVE PickedInv' BY <1>1 DEF PickedInv
  <2>1. client.of \in Sidecars BY DEF TypeOK, Idle
  <2>2. \A v \in store' : v.date = client.meant.date /\ provider # "local" => v.by = client.meant.by
    BY CopiedStore, CopiedSame DEF ClientInv, PickedInv
  <2>3. ASSUME provider = "local", client.asof = clock
        PROVE \E v \in store' : /\ SameBackup(v, client.meant) /\ v.by = client.of
                                /\ client.asked = (Number(client.of, v))'
    <3>1. PICK v \in store : /\ SameBackup(v, client.meant) /\ v.by = client.of
                             /\ client.asked = Number(client.of, v)
      BY <2>3 DEF ClientInv, PickedInv
    <3>2. PICK w \in store' : w = Copied(v, p) BY CopiedStore
    <3>3. SameBackup(w, client.meant) /\ w.by = client.of /\ w.date = v.date
      BY <3>1, <3>2, CopiedSame DEF SameBackup
    <3>4. (Number(client.of, w))' = client.asked
      <4>1. PICK r \in Sidecars : r = client.of BY <2>1
      <4>2. Number(r, w)' = Number(r, v) BY <3>3, CopiedNumbers
      <4>3. Number(r, w)' = (Number(client.of, w))' BY <1>1, <4>1 DEF Number, Dates, ListBackups
      <4> QED BY <3>1, <4>1, <4>2, <4>3
    <3> QED BY <3>2, <3>3, <3>4
  <2> QED BY <1>1, <2>2, <2>3 DEF ClientInv, PickedInv, SameBackup, Number, Dates, ListBackups
<1>3. FoundInv'
  <2> SUFFICES ASSUME client.at = "found" PROVE FoundInv' BY <1>1 DEF FoundInv
  <2>1. ASSUME provider = "local", client.asof = clock
        PROVE \E v \in store' : /\ SameBackup(v, client.meant) /\ v.by = client.of
                                /\ v.nth = client.got.nth
    <3>1. PICK v \in store : /\ SameBackup(v, client.meant) /\ v.by = client.of
                             /\ v.nth = client.got.nth
      BY <2>1 DEF ClientInv, FoundInv
    <3> QED BY <3>1, CopiedStore, CopiedSame DEF SameBackup
  <2> QED BY <1>1, <2>1 DEF ClientInv, FoundInv, SameBackup
<1>4. PickedIsDelivered' BY <1>1 DEF ClientInv, PickedIsDelivered
<1> QED BY <1>1, <1>2, <1>3, <1>4 DEF ClientInv

LEMMA ClientBackup ==
  ASSUME TypeOK, Versions, ClientInv, NEW p \in Sidecars, CreateBackup(p) PROVE ClientInv'
<1>1. CASE GetNextBackupName(p) BY <1>1, ClientElse DEF GetNextBackupName
<1>2. CASE UploadObject(p) BY <1>2, ClientAdd DEF UploadObject
<1>3. CASE CreateFile(p) BY <1>3, ClientAdd DEF CreateFile
<1>4. CASE CopyFile(p) BY <1>4, ClientCopy
<1>5. CASE FailBackup(p) BY <1>5, ClientElse DEF FailBackup
<1> QED BY <1>1, <1>2, <1>3, <1>4, <1>5 DEF CreateBackup

LEMMA ClientExpire ==
  ASSUME ClientInv, NEW v \in store, Expire(v) PROVE ClientInv'
<1>1. store' \subseteq store /\ UNCHANGED <<provider, client, clock>> BY DEF Expire
<1>2. provider # "local" BY DEF Expire, Matches
<1> QED BY <1>1, <1>2 DEF ClientInv, PickedInv, FoundInv, PickedIsDelivered, SameBackup

\* Of two local backups of a sidecar the older one has the larger number.
LEMMA NumbersDiffer ==
  ASSUME TypeOK, provider = "local", NEW p \in Sidecars,
         NEW v \in ListBackups(p), NEW w \in ListBackups(p), v.date < w.date
  PROVE  Number(p, v) # Number(p, w)
<1> DEFINE V == {d \in Dates(p) : d > v.date}
           W == {d \in Dates(p) : d > w.date}
<1>1. v.date \in Nat /\ w.date \in Nat BY DEF ListBackups, TypeOK, Version
<1>2. IsFiniteSet(V) BY <1>1, DatesFinite
<1>3. \A d \in Dates(p) : d \in Nat BY DEF Dates, ListBackups, TypeOK, Version
<1>4. W \subseteq V BY <1>1, <1>3
<1>5. w.date \in V /\ w.date \notin W BY <1>1 DEF Dates
<1>6. Cardinality(W) < Cardinality(V)
  <2> HIDE DEF V, W
  <2> QED BY <1>2, <1>4, <1>5, FS_Subset, FS_CardinalityType
<1>7. Cardinality(V) \in Nat /\ Cardinality(W) \in Nat BY <1>1, DatesFinite
<1> QED BY <1>6, <1>7 DEF Number

LEMMA ClientFind ==
  ASSUME TypeOK, Versions, ClientInv, Find PROVE ClientInv'
<1>1. UNCHANGED <<provider, store, clock>> /\ client.at = "picked" BY DEF Find, OnlyClient
<1>2. CASE client' = Idle BY <1>1, <1>2, ClientIdle
<1>3. ASSUME NEW v \in Get(client.of, client.asked), client' = Going("found", v)
      PROVE ClientInv'
  <2>1. v \in ListBackups(client.of) /\ Number(client.of, v) = client.asked /\ v \in store
    BY DEF Get, ListBackups
  <2>2. /\ client'.at = "found" /\ client'.got = v /\ client'.of = client.of
        /\ client'.asof = client.asof /\ client'.meant = client.meant
    BY <1>3 DEF Going
  <2>3. ASSUME provider # "local" PROVE SameBackup(v, client.meant)
    BY <1>1, <2>1, <2>3 DEF ClientInv, PickedInv, SameBackup, Number
  <2>4. ASSUME provider = "local", client.asof = clock
        PROVE \E u \in store : /\ SameBackup(u, client.meant) /\ u.by = client.of
                               /\ u.nth = v.nth
    <3>1. PICK u \in store : /\ SameBackup(u, client.meant) /\ u.by = client.of
                             /\ client.asked = Number(client.of, u)
      BY <1>1, <2>4 DEF ClientInv, PickedInv
    <3>2. u \in ListBackups(client.of) BY <3>1 DEF ListBackups
    <3>3. client.of \in Sidecars BY <1>1 DEF TypeOK, Idle
    <3>4. u.date \in Nat /\ v.date \in Nat BY <2>1 DEF TypeOK, Version
    <3>5. u.date = v.date BY <2>1, <2>4, <3>1, <3>2, <3>3, <3>4, NumbersDiffer
    <3>6. u = v BY <2>1, <3>5 DEF Versions, StoreInv
    <3> QED BY <3>1, <3>6
  <2>5. FoundInv' BY <1>1, <2>2, <2>3, <2>4 DEF FoundInv, SameBackup
  <2> QED BY <1>1, <2>2, <2>5 DEF ClientInv, PickedInv, PickedIsDelivered
<1> QED BY <1>2, <1>3 DEF Find

LEMMA ClientFetch ==
  ASSUME TypeOK, Versions, ClientInv, Fetch PROVE ClientInv'
<1>1. UNCHANGED <<provider, store, clock>> /\ client.at = "found" BY DEF Fetch, OnlyClient
<1>2. CASE client' = Idle BY <1>1, <1>2, ClientIdle
<1>3. ASSUME NEW v \in DownloadBackup(client.of, client.got), client' = Going("done", v)
      PROVE ClientInv'
  <2>1. /\ client'.at = "done" /\ client'.got = v
        /\ client'.asof = client.asof /\ client'.meant = client.meant
    BY <1>3 DEF Going
  <2>2. ASSUME provider # "local" PROVE SameBackup(v, client.meant)
    BY <1>1, <2>2 DEF DownloadBackup, ClientInv, FoundInv
  <2>3. ASSUME provider = "local", client.asof = clock PROVE SameBackup(v, client.meant)
    <3>1. PICK u \in store : /\ SameBackup(u, client.meant) /\ u.by = client.of
                             /\ u.nth = client.got.nth
      BY <1>1, <2>3 DEF ClientInv, FoundInv
    <3>2. v \in store /\ v.by = client.of /\ Slot(client.of, v.nth) = Slot(client.of, client.got.nth)
      BY <2>3 DEF DownloadBackup
    <3>3. v = u BY <2>3, <3>1, <3>2 DEF Versions, StoreInv
    <3> QED BY <3>1, <3>3
  <2>4. PickedIsDelivered' BY <1>1, <2>1, <2>2, <2>3 DEF PickedIsDelivered, SameBackup
  <2> QED BY <1>1, <2>1, <2>4 DEF ClientInv, PickedInv, FoundInv
<1> QED BY <1>2, <1>3 DEF Fetch

LEMMA ClientPick ==
  ASSUME TypeOK, Versions, ClientInv, NEW p \in Sidecars, NEW v \in store, Pick(p, v)
  PROVE  ClientInv'
<1>1. UNCHANGED <<provider, store, clock>> /\ v \in ListBackups(p) BY DEF Pick, OnlyClient
<1>2. /\ client'.at = "picked" /\ client'.of = p /\ client'.asked = Number(p, v)
      /\ client'.asof = clock /\ client'.meant = v
  BY DEF Pick
<1>3. clock \in Nat /\ v.date <= clock BY DEF TypeOK, Versions, StoreInv
<1>4. \A w \in store : w.date = v.date => w.by = v.by BY DEF Versions, StoreInv
<1>5. provider # "local" => Number(p, v) = v.date BY DEF Number
<1>6. provider = "local" => v.by = p BY <1>1 DEF ListBackups
<1>7. Number(p, v)' = Number(p, v) BY <1>1 DEF Number, Dates, ListBackups
<1>8. PickedInv'
  <2>1. provider = "local" => SameBackup(v, v) /\ v.by = p BY <1>6 DEF SameBackup
  <2> QED BY <1>1, <1>2, <1>3, <1>4, <1>5, <1>6, <1>7, <2>1
          DEF PickedInv, SameBackup, Number, Dates, ListBackups
<1> QED BY <1>1, <1>2, <1>3, <1>8 DEF ClientInv, FoundInv, PickedIsDelivered

LEMMA ClientOperator ==
  ASSUME TypeOK, Versions, ClientInv, Operator PROVE ClientInv'
<1>1. CASE Download BY <1>1, ClientIdle DEF Download, OnlyClient
<1> QED BY <1>1, ClientPick, ClientFind, ClientFetch DEF Operator

-----------------------------------------------------------------------------
(* The invariant *)

LEMMA BucketInit == Init => BucketInv
<1> SUFFICES ASSUME Init PROVE BucketInv OBVIOUS
<1>1. TypeOK BY TypeInit
<1>2. CallInv
  <2>1. \A p \in Sidecars : at[p] = FirstCall BY DEF Init
  <2>2. CASE provider = "s3" BY <2>1, <2>2 DEF CallInv, FirstCall, Init
  <2>3. CASE provider = "gcp" BY <2>1, <2>3 DEF CallInv, FirstCall, Init
  <2>4. CASE provider = "local" BY <2>1, <2>4 DEF CallInv, FirstCall, Init
  <2> QED BY <2>2, <2>3, <2>4 DEF Init
<1>3. ReadInv BY DEF Init, ReadInv, NoReading
<1>4. JobInv BY DEF Init, JobInv
<1>5. StoreInv BY FS_EmptySet DEF Init, StoreInv
<1>6. NameInv BY DEF Init, NameInv
<1>7. ClientInv BY DEF Init, ClientInv, Idle, PickedInv, FoundInv, PickedIsDelivered
<1> QED BY <1>1, <1>2, <1>3, <1>4, <1>5, <1>6, <1>7 DEF BucketInv, Settings, Versions

LEMMA BucketStep == BucketInv /\ [Next]_vars => BucketInv'
<1> SUFFICES ASSUME BucketInv, [Next]_vars PROVE BucketInv' OBVIOUS
<1> USE DEF BucketInv
<1>1. ASSUME NEW p \in Sidecars, Ensure(p) PROVE BucketInv'
  <2>1. TypeOK' /\ Settings' /\ ClientInv'
    BY <1>1, TypeEnsure, SettingsEnsure, ClientEnsure
  <2>2. Versions'
    <3>1. CASE Refused(p) BY <3>1, VersionsRestart DEF Refused
    <3>2. CASE ~Refused(p)
      <4>1. UNCHANGED <<provider, store, since, names, job, clock>>
        BY <1>1, <3>2 DEF Ensure, ListBuckets, CreateBucket, PutBucketVersioning, GetLifecycle,
                          PutLifecycle, InsertBucket, Attrs, Update, MkdirAll, Step
      <4> QED BY <4>1, VersionsElse
    <3> QED BY <3>1, <3>2
  <2> QED BY <2>1, <2>2
<1>2. ASSUME NEW p \in Sidecars, Kill(p) PROVE BucketInv'
  BY <1>2, TypeKill, SettingsRestart, VersionsRestart, ClientRestart DEF Kill
<1>3. ASSUME NEW p \in Sidecars, CreateBackup(p) PROVE BucketInv'
  BY <1>3, TypeBackup, SettingsBackup, VersionsBackup, ClientBackup
<1>4. ASSUME NEW v \in store, Expire(v) PROVE BucketInv'
  <2>1. TypeOK' BY <1>4 DEF Expire, TypeOK, bucket
  <2>2. Settings' BY <1>4, SettingsElse DEF Expire
  <2> QED BY <1>4, <2>1, <2>2, VersionsExpire, ClientExpire
<1>5. CASE Operator
  <2>1. UNCHANGED <<provider, bucket, store, at, seen, since, names, job, clock>>
    BY <1>5 DEF Operator, Pick, Find, Fetch, Download, OnlyClient
  <2>2. Settings' /\ Versions' BY <2>1, SettingsElse, VersionsElse
  <2> QED BY <1>5, <2>2, TypeOperator, ClientOperator
<1>6. CASE UNCHANGED vars
  <2>1. UNCHANGED <<provider, bucket, store, at, seen, since, names, job, client, clock>>
    BY <1>6 DEF vars
  <2>2. TypeOK' BY <1>6 DEF vars, TypeOK, bucket
  <2> QED BY <2>1, <2>2, SettingsElse, VersionsElse, ClientElse
<1> QED BY <1>1, <1>2, <1>3, <1>4, <1>5, <1>6 DEF Next

LEMMA BucketSafe == Spec => []BucketInv
  BY BucketInit, BucketStep, PTL DEF Spec

\* Every variable keeps its type, whatever kind of bucket it is and however many
\* sidecars share it.
THEOREM BucketTyped == Spec => []TypeOK
<1>1. BucketInv => TypeOK BY DEF BucketInv
<1> QED BY <1>1, BucketSafe, PTL

\* What the operator picked is restored: a version id is still that version's,
\* and the rank of a local backup still is unless a backup came in between.
THEOREM Delivered == Spec => []PickedIsDelivered
<1>1. BucketInv => PickedIsDelivered BY DEF BucketInv, ClientInv
<1> QED BY <1>1, BucketSafe, PTL

-----------------------------------------------------------------------------
(* What a step may not do *)

LEMMA RulesEnsure ==
  ASSUME TypeOK, Settings, NEW p \in Sidecars, Ensure(p), ~(rules \subseteq rules')
  PROVE  provider = "s3" /\ at[p] = "put" /\ at'[p] = "serve" /\ seen[p].meta # meta
<1> USE DEF Settings
<1>1. CASE InsertBucket(p) BY <1>1 DEF InsertBucket, ReadInv, bucket
<1>2. CASE Update(p) BY <1>2 DEF Update, ReadInv
<1>3. CASE PutLifecycle(p)
  <2>1. provider = "s3" /\ at[p] = "put" /\ at'[p] = "serve"
    BY <1>3 DEF PutLifecycle, Step, CallInv, TypeOK
  <2>2. seen[p].meta = meta => seen[p].rules = rules BY DEF ReadInv
  <2> QED BY <1>3, <2>1, <2>2 DEF PutLifecycle
<1>4. CASE ~InsertBucket(p) /\ ~Update(p) /\ ~PutLifecycle(p)
  <2>1. UNCHANGED rules
    BY <1>4 DEF Ensure, ListBuckets, CreateBucket, PutBucketVersioning, GetLifecycle, Attrs,
                Refused, Restart, MkdirAll, bucket
  <2> QED BY <2>1
<1> QED BY <1>1, <1>2, <1>3, <1>4

\* The metageneration keeps the rules of all sidecars in a gcp bucket; in an s3
\* bucket they are lost only to a sidecar whose reading is out of date or failed.
THEOREM RulesNotLost == Spec => RulesKept
<1>1. BucketInv /\ [Next]_vars =>
        rules \subseteq rules' \/
          \E p \in Sidecars : /\ provider = "s3" /\ at[p] = "put" /\ at'[p] = "serve"
                              /\ seen[p].meta # meta
  <2> SUFFICES ASSUME BucketInv, [Next]_vars, ~(rules \subseteq rules')
               PROVE \E p \in Sidecars : /\ provider = "s3" /\ at[p] = "put" /\ at'[p] = "serve"
                                         /\ seen[p].meta # meta
    OBVIOUS
  <2>1. PICK p \in Sidecars : Ensure(p)
    BY DEF Next, vars, bucket, Kill, Restart, CreateBackup, GetNextBackupName, UploadObject,
           CreateFile, CopyFile, FailBackup, Expire, Operator, Pick, Find, Fetch, Download, OnlyClient
  <2> QED BY <2>1, RulesEnsure DEF BucketInv
<1> QED BY <1>1, BucketSafe, PTL DEF Spec, RulesKept

\* The actions that leave the versions alone.
LEMMA StoreElse ==
  ASSUME [Next]_vars, store' # store
  PROVE  \/ \E p \in Sidecars : UploadObject(p) \/ CreateFile(p) \/ CopyFile(p)
         \/ \E v \in store : Expire(v)
<1>1. ASSUME NEW p \in Sidecars, Ensure(p) PROVE FALSE
  BY <1>1 DEF Ensure, ListBuckets, CreateBucket, PutBucketVersioning, GetLifecycle, PutLifecycle,
              InsertBucket, Attrs, Update, Refused, Restart, MkdirAll, Step
<1>2. ASSUME NEW p \in Sidecars, Kill(p) PROVE FALSE BY <1>2 DEF Kill, Restart
<1>3. ASSUME NEW p \in Sidecars, GetNextBackupName(p) \/ FailBackup(p) PROVE FALSE
  BY <1>3 DEF GetNextBackupName, FailBackup
<1>4. ~Operator BY DEF Operator, Pick, Find, Fetch, Download, OnlyClient
<1>5. ~UNCHANGED vars BY DEF vars
<1> QED BY <1>1, <1>2, <1>3, <1>4, <1>5 DEF Next, CreateBackup

\* No upload overwrites a version of an object store, for versioning is on before
\* initialize is done; and no rule removes what its sidecar is to keep.
THEOREM Honoured == ~Early => (Spec => KeepHonoured)
<1> SUFFICES ASSUME ~Early PROVE Spec => KeepHonoured OBVIOUS
<1> DEFINE A == \A v \in store : provider # "local" /\ v \notin store' =>
                  \/ Cardinality(Newer(v)) >= Keep(v.by)
                  \/ provider = "gcp" /\ \E p \in Sidecars : p # v.by /\ <<p, v.by>> \in Extends
<1>1. BucketInv /\ [Next]_vars => A
  <2> SUFFICES ASSUME BucketInv, [Next]_vars, NEW v \in store, provider # "local", v \notin store'
               PROVE \/ Cardinality(Newer(v)) >= Keep(v.by)
                     \/ provider = "gcp" /\ \E p \in Sidecars : p # v.by /\ <<p, v.by>> \in Extends
    OBVIOUS
  <2> USE DEF BucketInv
  <2>1. ASSUME NEW p \in Sidecars, job[p] # "idle" PROVE Overwritten(p) = {}
    <3>1. at[p] = "serve" BY <2>1 DEF Settings, JobInv
    <3>2. versioned BY <3>1 DEF Settings, CallInv
    <3> QED BY <3>2 DEF Overwritten
  <2>2. ASSUME NEW p \in Sidecars PROVE ~UploadObject(p) /\ ~CreateFile(p)
    BY <2>1 DEF UploadObject, CreateFile
  <2>3. ASSUME NEW p \in Sidecars, CopyFile(p) PROVE FALSE
    <3>1. Overwritten(p) = {} BY <2>1, <2>3 DEF CopyFile
    <3>2. Copied(v, p) = v BY <3>1 DEF Copied, TypeOK, Version
    <3> QED BY <2>3, <3>2, CopiedStore
  <2>4. PICK u \in store : Expire(u) BY <2>2, <2>3, StoreElse
  <2>5. u = v BY <2>4 DEF Expire
  <2>6. PICK p \in rules : /\ Matches(p, v.by)
                           /\ Cardinality(Newer(v)) >= IF provider = "s3" THEN Keep(p) + 1 ELSE Keep(p)
    BY <2>4, <2>5 DEF Expire
  <2>7. p \in Sidecars /\ Keep(p) \in Nat BY KeepNat DEF TypeOK
  <2>8. Cardinality(Newer(v)) \in Nat
    BY FS_Subset, FS_CardinalityType DEF Newer, Versions, StoreInv
  <2>9. p = v.by \/ (provider = "gcp" /\ <<p, v.by>> \in Extends)
    BY <2>6 DEF Matches, TypeOK
  <2> QED BY <2>6, <2>7, <2>8, <2>9
<1> QED BY <1>1, BucketSafe, PTL DEF Spec, KeepHonoured

\* Numbers that fall into the same slot are a whole round apart.
LEMMA WholeRound ==
  ASSUME NEW k \in Nat \ {0}, NEW a \in Int, NEW b \in Int, a < b, a % k = b % k
  PROVE  b - a >= k
<1>1. a = k * (a \div k) + (a % k) /\ b = k * (b \div k) + (b % k) OBVIOUS
<1> DEFINE q == a \div k
           r == b \div k
<1>2. q \in Int /\ r \in Int OBVIOUS
<1> HIDE DEF q, r
<1>3. b - a = k * r - k * q BY <1>1 DEF q, r
<1>4. k * r - k * q = k * (r - q) BY <1>2
<1>5. r - q > 0 BY <1>2, <1>3, <1>4
<1>6. k * (r - q) >= k BY <1>2, <1>5
<1> QED BY <1>3, <1>4, <1>6

\* As long as a process of the local provider lives, a backup is overwritten by
\* none of the names it gives before the slots are used up.
THEOREM OldestFirst == Spec => RoundKept
<1> DEFINE A == \A v \in store : provider = "local" /\ v.whole /\ v \notin store' =>
                  v.date <= since[v.by] \/ names[v.by] - v.nth >= Keep(v.by)
<1>1. BucketInv /\ [Next]_vars => A
  <2> SUFFICES ASSUME BucketInv, [Next]_vars, NEW v \in store, provider = "local", v.whole,
                      v \notin store'
               PROVE v.date <= since[v.by] \/ names[v.by] - v.nth >= Keep(v.by)
    OBVIOUS
  <2> USE DEF BucketInv
  <2>1. ASSUME NEW p \in Sidecars PROVE ~UploadObject(p) /\ ~CopyFile(p)
    BY CopiedSame, CopiedStore DEF UploadObject
  <2>2. ~\E u \in store : Expire(u) BY DEF Expire, Matches
  <2>3. PICK p \in Sidecars : CreateFile(p) BY <2>1, <2>2, StoreElse
  <2>4. v.by = p /\ Slot(p, v.nth) = Slot(p, names[p]) /\ job[p] = "named"
    BY <2>3 DEF CreateFile, Overwritten
  <2>5. v.nth \in Nat /\ names[p] \in Nat /\ v.date \in Nat /\ since[p] \in Nat /\ Keep(p) \in Nat \ {0}
    BY KeepNat DEF TypeOK, Version
  <2>6. CASE v.date > since[p]
    <3>1. v.nth < names[p] BY <2>4, <2>6 DEF Versions, NameInv
    <3>2. (v.nth - 1) % Keep(p) = (names[p] - 1) % Keep(p) BY <2>4 DEF Slot
    <3>3. (names[p] - 1) - (v.nth - 1) >= Keep(p) BY <2>5, <3>1, <3>2, WholeRound
    <3> QED BY <2>4, <2>5, <3>3
  <2> QED BY <2>4, <2>5, <2>6
<1> QED BY <1>1, BucketSafe, PTL DEF Spec, RoundKept
=============================================================================
