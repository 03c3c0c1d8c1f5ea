------------------------------ MODULE Adapters ------------------------------
(***************************************************************************)
(* The database adapters under cmd/internal/database, seen through the     *)
(* directories they read and write.  A directory's content is abstracted   *)
(* to what the properties of the sidecar tell apart: no file at all, the   *)
(* files of an incomplete database, or a complete database, named by the   *)
(* number of client writes it contains.                                    *)
(***************************************************************************)
EXTENDS Naturals

CONSTANTS
    Empty,      \* content of a directory without files
    Torn        \* content of a directory whose files are not a whole database

ASSUME ContentsDiffer ==
    /\ Empty \notin Nat
    /\ Torn \notin Nat
    /\ Empty # Torn

Data == Nat \cup {Empty, Torn}

Whole(d) == d \in Nat

(***************************************************************************)
(* What one adapter's Backup and Recover do, call by call:                 *)
(*   needsServer  Backup and Probe talk to the running database            *)
(*   roleGated    Backup returns nil without a dump unless it is master    *)
(*   refusesFresh Backup returns an error for a database without rows      *)
(*   requires     Recover fails early unless the dump is in the restore dir*)
(*   validates    Recover also has the dump verified before it goes on     *)
(*   wipes        Recover removes the contents of the data directory first *)
(*   purges       Recover empties the data directory when it fails later on*)
(*   consumes     Recover removes the dump from the restore dir at its end *)
(***************************************************************************)
Postgres ==
    [needsServer |-> TRUE, roleGated |-> FALSE, refusesFresh |-> FALSE,
     requires |-> TRUE, validates |-> FALSE, wipes |-> TRUE,
     purges |-> FALSE, consumes |-> FALSE]

Etcd ==
    [Postgres EXCEPT !.validates = TRUE, !.consumes = TRUE]

Redis ==
    [Postgres EXCEPT !.roleGated = TRUE]

LocalFS ==
    [Postgres EXCEPT !.needsServer = FALSE, !.requires = FALSE]

\* A recovery that forgets the clean-up after a failed restore.
RethinkDBWithoutPurge ==
    [Postgres EXCEPT !.refusesFresh = TRUE, !.wipes = FALSE]

RethinkDB ==
    [Postgres EXCEPT !.refusesFresh = TRUE, !.wipes = FALSE, !.purges = TRUE]

\* initDatabase's switch: redis, keydb and valkey share one adapter.
AdapterOf ==
    [postgres |-> Postgres, etcd |-> Etcd, redis |-> Redis, keydb |-> Redis,
     valkey |-> Redis, localfs |-> LocalFS, rethinkdb |-> RethinkDB]

Engines == DOMAIN AdapterOf

\* Check would also ask for a restore of a directory that has files.
NeedsRestoreAlways(d) == TRUE

\* Check, the same in every adapter: only a directory without files asks for
\* a restore.  What the files are is not looked at.
NeedsRestore(d) == d = Empty

\* The first lines of Recover: may it go on with this restore directory?
Accepts(a, s) ==
    /\ a.requires => s # Empty
    /\ a.validates => Whole(s)
=============================================================================
