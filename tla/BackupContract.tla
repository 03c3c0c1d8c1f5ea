--------------------------- MODULE BackupContract ---------------------------
(***************************************************************************)
(* What a backup store promises to the one who will restore from it, with  *)
(* no caller, directory, slot or lifecycle rule in sight: a version that   *)
(* is added is the newest, is complete and holds no less than those before *)
(* it, and only a version that has been superseded is taken away.          *)
(***************************************************************************)
EXTENDS Naturals

VARIABLES
    written,    \* client writes the database contains
    kept        \* the versions a restore can use, each a date and a content

backupVars == <<written, kept>>

BackupTypeOK ==
    /\ written \in Nat
    /\ kept \subseteq [date : Nat, gen : Nat]

BackupInit ==
    /\ written = 0
    /\ kept \in {{}, {[date |-> 0, gen |-> 1]}}

\* The database is written to, loses its data or is restored.
Change ==
    /\ written' \in Nat
    /\ UNCHANGED kept

Add ==
    /\ \E k \in kept' :
        /\ k \in [date : Nat, gen : 0..written]
        /\ \A o \in kept : o.date < k.date /\ o.gen =< k.gen
        /\ kept' = kept \cup {k}
    /\ UNCHANGED written

Discard ==
    /\ \E k \in kept :
        /\ \E o \in kept : k.date < o.date
        /\ kept' = kept \ {k}
    /\ UNCHANGED written

BackupNext == Change \/ Add \/ Discard

BackupSpec == BackupInit /\ [][BackupNext]_backupVars

\* Whatever could be restored once, that much or more can be restored for ever
\* after.
NeverLess ==
    [][\A n \in Nat : (\E k \in kept : n =< k.gen)
                         => \E k \in kept' : n =< k.gen]_backupVars
=============================================================================
