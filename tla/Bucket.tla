------------------------------- MODULE Bucket -------------------------------
(***************************************************************************)
(* The providers as their callers see them: EnsureBackupBucket call by     *)
(* call, for sidecars that share a bucket; naming and storing of backups;  *)
(* the lifecycle rules at work; and an operator who lists the backups,     *)
(* picks one and has it restored by its version number.                    *)
(* With the local provider every sidecar has a directory of its own.       *)
(***************************************************************************)
EXTENDS Integers, FiniteSets

CONSTANTS
  Sidecars,             \* one object prefix each
  Extends,              \* pairs <<p, q>>: the prefix of q begins with that of p
  Root,                 \* the sidecars with an empty prefix, the default
  Providers,            \* the kinds of bucket to look at
  ObjectsToKeep,        \* what each sidecar is configured with, 0 for nothing
  DefaultObjectsToKeep,
  Early,                \* CreateBackup requests while initialize is at work
  MaxDate, MaxFaults,   \* bounds on backups and on errors and kills
  None

ASSUME BucketAssumption ==
  /\ Extends \subseteq Sidecars \X Sidecars
  /\ Root \subseteq Sidecars
  /\ Providers \subseteq {"s3", "gcp", "local"}
  /\ ObjectsToKeep \in [Sidecars -> Nat]
  /\ DefaultObjectsToKeep \in Nat \ {0}
  /\ Early \in BOOLEAN
  /\ MaxDate \in Nat /\ MaxFaults \in Nat

\* What New makes of an option that is not set.
Keep(p) == IF ObjectsToKeep[p] = 0 THEN DefaultObjectsToKeep ELSE ObjectsToKeep[p]

VARIABLES
  provider,   \* the kind of this bucket
  exists, versioned, rules, meta,
              \* the bucket of s3 and gcp; meta counts the changes of its rules
  store,      \* the versions there are
  at,         \* per sidecar: the call initialize stands before, then "serve"
  seen,       \* per sidecar: the rules it has read, and the count they had
  since,      \* per sidecar: the clock at the start of its process
  names,      \* per sidecar: the names this process has given to backups
  job,        \* per sidecar: where its CreateBackup is
  client,     \* the operator
  clock, faults

bucket == <<exists, versioned, rules, meta>>

vars == <<provider, bucket, store, at, seen, since, names, job, client, clock, faults>>

Calls == {"list", "create", "versioning", "get", "put", "insert", "attrs", "update",
          "mkdir", "serve"}

\* nth: it was the nth name its process gave; whole: all bytes are there
Version == [by: Sidecars, nth: Nat, date: 1 .. MaxDate, whole: BOOLEAN]

\* the rules of a bucket are known by their owners: ID or prefix tells them apart
Reading == [rules: SUBSET Sidecars, meta: Int]
NoReading == [rules |-> {}, meta |-> -1]

\* asked: the version number; asof: when it was listed; meant: what it stood for
Idle == [at |-> "idle", of |-> None, asked |-> None, asof |-> 0, meant |-> None, got |-> None]

TypeOK ==
  /\ provider \in Providers
  /\ exists \in BOOLEAN /\ versioned \in BOOLEAN
  /\ rules \subseteq Sidecars /\ meta \in Nat
  /\ store \subseteq Version
  /\ at \in [Sidecars -> Calls]
  /\ seen \in [Sidecars -> Reading]
  /\ since \in [Sidecars -> 0 .. MaxDate]
  /\ names \in [Sidecars -> Nat]
  /\ job \in [Sidecars -> {"idle", "named", "copy"}]
  /\ \/ client = Idle
     \/ client \in [at: {"picked", "found", "done"}, of: Sidecars, asked: Nat, asof: 0 .. MaxDate,
                    meant: Version, got: Version \cup {None}]
  /\ clock \in 0 .. MaxDate
  /\ faults \in 0 .. MaxFaults

FirstCall == CASE provider = "s3" -> "list"
               [] provider = "gcp" -> "insert"
               [] provider = "local" -> "mkdir"

Init ==
  /\ provider \in Providers
  /\ exists = FALSE /\ versioned = FALSE /\ rules = {} /\ meta = 0
  /\ store = {}
  /\ at = [p \in Sidecars |-> FirstCall]
  /\ seen = [p \in Sidecars |-> NoReading]
  /\ since = [p \in Sidecars |-> 0]
  /\ names = [p \in Sidecars |-> 0]
  /\ job = [p \in Sidecars |-> "idle"]
  /\ client = Idle
  /\ clock = 0
  /\ faults = 0

Fault == faults < MaxFaults /\ faults' = faults + 1

(***************************************************************************)
(* EnsureBackupBucket                                                      *)
(***************************************************************************)

\* Statement a of EnsureBackupBucket is done, b is next.
Step(p, a, b) ==
  /\ at[p] = a
  /\ at' = [at EXCEPT ![p] = b]
  /\ UNCHANGED <<provider, store, since, names, job, client, clock>>

ListBuckets(p) ==
  /\ Step(p, "list", IF exists THEN "versioning" ELSE "create")
  /\ UNCHANGED <<bucket, seen, faults>>

\* That the bucket exists by now is no error.
CreateBucket(p) ==
  /\ Step(p, "create", "versioning")
  /\ exists' = TRUE
  /\ UNCHANGED <<versioned, rules, meta, seen, faults>>

PutBucketVersioningSkipped(p) ==
  /\ Step(p, "versioning", "get")
  /\ UNCHANGED <<bucket, seen, faults>>

PutBucketVersioning(p) ==
  /\ Step(p, "versioning", "get")
  /\ versioned' = TRUE
  /\ UNCHANGED <<exists, rules, meta, seen, faults>>

\* On any error the result is nil, and the code goes on as if there were no
\* rules: that is how a bucket without a configuration answers.
GetLifecycle(p) ==
  /\ Step(p, "get", "put")
  /\ \/ /\ seen' = [seen EXCEPT ![p] = [rules |-> rules, meta |-> meta]]
        /\ UNCHANGED faults
     \/ /\ Fault
        /\ seen' = [seen EXCEPT ![p] = NoReading]
  /\ UNCHANGED bucket

PutLifecycle(p) ==
  /\ Step(p, "put", "serve")
  /\ rules' = seen[p].rules \cup {p}
  /\ meta' = meta + 1
  /\ seen' = [seen EXCEPT ![p] = NoReading]
  /\ UNCHANGED <<exists, versioned, faults>>

\* The process ends and the container is started again. What the operator has
\* on the screen stays, a request that was being served does not.
Restart(p) ==
  /\ at' = [at EXCEPT ![p] = FirstCall]
  /\ seen' = [seen EXCEPT ![p] = NoReading]
  /\ since' = [since EXCEPT ![p] = clock]
  /\ names' = [names EXCEPT ![p] = 0]
  /\ job' = [job EXCEPT ![p] = "idle"]
  /\ client' = IF client.at = "found" /\ client.of = p THEN Idle ELSE client
  /\ UNCHANGED <<provider, bucket, store, clock>>

InsertBucketConflicting(p) ==
  \/ /\ ~exists
     /\ Step(p, "insert", "attrs")
     /\ exists' = TRUE /\ versioned' = TRUE /\ rules' = {p} /\ meta' = 1
     /\ UNCHANGED <<seen, faults>>
  \/ at[p] = "insert" /\ exists /\ Restart(p) /\ UNCHANGED faults

\* Create of gcp makes the bucket with versioning and the own rule; that it
\* exists (StatusConflict) is no error.
InsertBucket(p) ==
  /\ Step(p, "insert", "attrs")
  /\ \/ exists /\ UNCHANGED bucket
     \/ ~exists /\ exists' = TRUE /\ versioned' = TRUE /\ rules' = {p} /\ meta' = 1
  /\ UNCHANGED <<seen, faults>>

Attrs(p) ==
  /\ Step(p, "attrs", "update")
  /\ seen' = [seen EXCEPT ![p] = [rules |-> rules, meta |-> meta]]
  /\ UNCHANGED <<bucket, faults>>

UpdateUnconditional(p) ==
  /\ Step(p, "update", "serve")
  /\ versioned' = TRUE
  /\ rules' = seen[p].rules \cup {p}
  /\ meta' = meta + 1
  /\ seen' = [seen EXCEPT ![p] = NoReading]
  /\ UNCHANGED <<exists, faults>>

UpdateReplacing(p) ==
  /\ seen[p].meta = meta
  /\ Step(p, "update", "serve")
  /\ versioned' = TRUE
  /\ rules' = seen[p].rules
  /\ meta' = meta + 1
  /\ seen' = [seen EXCEPT ![p] = NoReading]
  /\ UNCHANGED <<exists, faults>>

\* The update is refused when the metageneration is not the one that was read.
Update(p) ==
  /\ seen[p].meta = meta
  /\ Step(p, "update", "serve")
  /\ versioned' = TRUE
  /\ rules' = seen[p].rules \cup {p}
  /\ meta' = meta + 1
  /\ seen' = [seen EXCEPT ![p] = NoReading]
  /\ UNCHANGED <<exists, faults>>

MkdirAll(p) == Step(p, "mkdir", "serve") /\ UNCHANGED <<bucket, seen, faults>>

\* start returns the error of EnsureBackupBucket.
Refused(p) ==
  /\ at[p] = "update" /\ seen[p].meta # meta
  /\ Restart(p)
  /\ UNCHANGED faults

\* Any other error of a call, or a kill at any time.
Kill(p) == Fault /\ Restart(p)

Ensure(p) ==
  \/ ListBuckets(p) \/ CreateBucket(p) \/ PutBucketVersioning(p)
  \/ GetLifecycle(p) \/ PutLifecycle(p)
  \/ InsertBucket(p) \/ Attrs(p) \/ Update(p) \/ Refused(p)
  \/ MkdirAll(p)

(***************************************************************************)
(* CreateBackup, as far as the provider sees it                            *)
(***************************************************************************)

SlotConstant(p, nth) == 0

\* Of the local provider: the file name of the nth name of a process.
Slot(p, nth) == (nth - 1) % Keep(p)

\* The versions the provider would overwrite with the current name.
Overwritten(p) ==
  IF provider = "local"
  THEN {v \in store : v.by = p /\ Slot(p, v.nth) = Slot(p, names[p])}
  ELSE IF versioned THEN {} ELSE {v \in store : v.by = p}

New(p, whole) ==
  [by |-> p, nth |-> names[p], date |-> clock + 1, whole |-> whole]

\* One at a time, the semaphore sees to that.
GetNextBackupName(p) ==
  /\ at[p] = "serve" \/ Early
  /\ job[p] = "idle"
  /\ clock < MaxDate
  /\ names' = [names EXCEPT ![p] = @ + 1]
  /\ job' = [job EXCEPT ![p] = "named"]
  /\ UNCHANGED <<provider, bucket, store, at, seen, since, client, clock, faults>>

UploadObject(p) ==
  /\ job[p] = "named" /\ provider # "local" /\ exists
  /\ clock < MaxDate
  /\ store' = (store \ Overwritten(p)) \cup {New(p, TRUE)}
  /\ clock' = clock + 1
  /\ job' = [job EXCEPT ![p] = "idle"]
  /\ UNCHANGED <<provider, bucket, at, seen, since, names, client, faults>>

\* The file is truncated first and copied then.
CreateFile(p) ==
  /\ job[p] = "named" /\ provider = "local"
  /\ clock < MaxDate
  /\ store' = (store \ Overwritten(p)) \cup {New(p, FALSE)}
  /\ clock' = clock + 1
  /\ job' = [job EXCEPT ![p] = "copy"]
  /\ UNCHANGED <<provider, bucket, at, seen, since, names, client, faults>>

CopyFile(p) ==
  /\ job[p] = "copy"
  /\ store' = {[v EXCEPT !.whole = @ \/ (v \in Overwritten(p))] : v \in store}
  /\ job' = [job EXCEPT ![p] = "idle"]
  /\ UNCHANGED <<provider, bucket, at, seen, since, names, client, clock, faults>>

\* Any call after GetNextBackupName returns an error, and so does CreateBackup.
FailBackup(p) ==
  /\ Fault
  /\ job[p] # "idle"
  /\ job' = [job EXCEPT ![p] = "idle"]
  /\ UNCHANGED <<provider, bucket, store, at, seen, since, names, client, clock>>

CreateBackup(p) ==
  GetNextBackupName(p) \/ UploadObject(p) \/ CreateFile(p) \/ CopyFile(p) \/ FailBackup(p)

Newer(v) == {w \in store : w.by = v.by /\ w.date > v.date}

\* Whether the rule of p is about the versions of q: s3 filters by the prefix
\* and a slash, which no key has if the prefix is empty; gcp by the prefix.
Matches(p, q) ==
  CASE provider = "s3" -> p = q /\ p \notin Root
    [] provider = "gcp" -> p = q \/ <<p, q>> \in Extends
    [] provider = "local" -> FALSE

\* s3 counts the noncurrent newer versions, gcp all newer versions.
Expire(v) ==
  /\ \E p \in rules : Matches(p, v.by) /\
       Cardinality(Newer(v)) >= IF provider = "s3" THEN Keep(p) + 1 ELSE Keep(p)
  /\ store' = store \ {v}
  /\ UNCHANGED <<provider, bucket, at, seen, since, names, job, client, clock, faults>>

(***************************************************************************)
(* ListBackups, RestoreBackup, GetBackupByVersion and the command line     *)
(***************************************************************************)

\* s3 and gcp list by the prefix without a slash.
ListBackups(p) ==
  {v \in store : v.by = p \/ (provider # "local" /\ <<p, v.by>> \in Extends)}

Dates(p) == {v.date : v \in ListBackups(p)}

Latest(p) == CHOOSE v \in ListBackups(p) : \A w \in ListBackups(p) : w.date <= v.date

NumberOffByOne(p, v) ==
  IF provider = "local" THEN Cardinality({d \in Dates(p) : d > v.date}) - 1 ELSE v.date

\* Version id and generation belong to a version; the number of a local backup
\* is its place in the sorted list.
Number(p, v) ==
  IF provider = "local" THEN Cardinality({d \in Dates(p) : d > v.date}) ELSE v.date

\* common.Get
Get(p, number) == {v \in ListBackups(p) : Number(p, v) = number}

DownloadBackupByName(p, v) ==
  {w \in store : /\ w.by = v.by
                 /\ IF provider = "local" THEN Slot(p, w.nth) = Slot(p, v.nth) ELSE Newer(w) = {}}

\* What DownloadBackup reads: the file of that name, or that very version.
DownloadBackup(p, v) ==
  {w \in store : IF provider = "local" THEN w.by = p /\ Slot(p, w.nth) = Slot(p, v.nth)
                                       ELSE w = v}

OnlyClient ==
  UNCHANGED <<provider, bucket, store, at, seen, since, names, job, clock, faults>>

\* restore list-versions, and the operator's choice.
Pick(p, v) ==
  /\ client.at \in {"idle", "done"}
  /\ v \in ListBackups(p)
  /\ client' = [at |-> "picked", of |-> p, asked |-> Number(p, v), asof |-> clock,
                meant |-> v, got |-> None]
  /\ OnlyClient

Going(a, v) == [at |-> a, of |-> client.of, asked |-> client.asked, asof |-> client.asof,
                meant |-> client.meant, got |-> v]

\* The request lists once more and looks for the number.
Find ==
  /\ client.at = "picked"
  /\ LET found == Get(client.of, client.asked) IN
       IF found = {} THEN client' = Idle
       ELSE \E v \in found : client' = Going("found", v)
  /\ OnlyClient

Fetch ==
  /\ client.at = "found"
  /\ LET read == DownloadBackup(client.of, client.got) IN
       IF read = {} THEN client' = Idle
       ELSE \E v \in read : client' = Going("done", v)
  /\ OnlyClient

\* The download command opens its output for reading only, so that it fails at
\* the first write if not before; and it passes on the name without the version.
Download ==
  /\ client.at = "found"
  /\ client' = Idle
  /\ OnlyClient

Operator == (\E p \in Sidecars, v \in store : Pick(p, v)) \/ Find \/ Fetch \/ Download

Next ==
  \/ \E p \in Sidecars : Ensure(p) \/ Kill(p) \/ CreateBackup(p)
  \/ \E v \in store : Expire(v)
  \/ Operator

Spec == Init /\ [][Next]_vars

\* start goes on with its next call and is started again when it ends; an
\* upload goes on; a store applies its rules in the end.
Fairness ==
  /\ \A p \in Sidecars : WF_vars(Ensure(p))
  /\ \A p \in Sidecars : WF_vars(UploadObject(p) \/ CreateFile(p) \/ CopyFile(p))
  /\ WF_vars(\E v \in store : Expire(v))

FairSpec == Spec /\ Fairness

-----------------------------------------------------------------------------

\* A sidecar that sets up the bucket does not take away the rule of another: gcp
\* never, s3 only if its reading of the rules was out of date or had failed when
\* it wrote them.
RulesKept ==
  [][rules \subseteq rules' \/
     \E p \in Sidecars : /\ provider = "s3" /\ at[p] = "put" /\ at'[p] = "serve"
                         /\ seen[p].meta # meta]_vars

\* What the operator picked from the list is what is restored, or there is an
\* error. A local directory must not have changed since the listing.
PickedIsDelivered ==
  client.at = "done" /\ (provider = "local" => clock = client.asof) =>
    /\ client.got.by = client.meant.by
    /\ client.got.date = client.meant.date

\* A version leaves an object store only when as many newer ones of the same
\* sidecar are there as it keeps: no upload overwrites, and the rule of another
\* sidecar does not apply, unless a prefix of gcp begins with that of the other.
KeepHonoured ==
  [][\A v \in store : provider # "local" /\ v \notin store' =>
       \/ Cardinality(Newer(v)) >= Keep(v.by)
       \/ provider = "gcp" /\ \E p \in Sidecars : p # v.by /\ <<p, v.by>> \in Extends]_vars

\* The local provider overwrites a backup only when the process has given as many
\* names since as it is to keep. A backup of an earlier process may go at once:
\* after a restart the slots begin anew, whatever is in them.
RoundKept ==
  [][\A v \in store : provider = "local" /\ v.whole /\ v \notin store' =>
       v.date <= since[v.by] \/ names[v.by] - v.nth >= Keep(v.by)]_vars

\* In the end no sidecar has more versions than it is to keep, and with gcp the
\* rule for that is there. With s3 a rule may get lost, and never matches a key
\* if the prefix is empty; s3 does not count the current version.
Trimmed ==
  \A p \in Sidecars :
    <>[]LET own == Cardinality({v \in store : v.by = p}) IN
        IF provider = "s3" THEN p \in rules \ Root => own <= Keep(p) + 1
        ELSE own <= Keep(p) /\ (provider = "gcp" => p \in rules)

\* Whatever the sidecars do to each other while they set up the bucket, each of
\* them gets through.
GetsThrough == \A p \in Sidecars : <>[](at[p] = "serve")

\* The latest version a sidecar sees is its own.
LatestIsOwn ==
  \A p \in Sidecars : ListBackups(p) # {} => Latest(p).by = p
=============================================================================
