-------------------------- MODULE RecoveryContract --------------------------
(***************************************************************************)
(* What the README promises of the sidecar as a whole, with no container,  *)
(* process or directory in sight: a database that is written to, backed up *)
(* now and then, loses its data now and then, and is never up with less    *)
(* than the latest backup.                                                 *)
(***************************************************************************)
EXTENDS Naturals

CONSTANT Lost       \* content of a database whose data is gone: not in Nat

VARIABLES
    up,         \* does the database run?
    content,    \* the client writes it contains
    stored      \* the backups, each a date and a content

contractVars == <<up, content, stored>>

ContractTypeOK ==
    /\ up \in BOOLEAN
    /\ content \in Nat \cup {Lost}
    /\ stored \subseteq [date : Nat, gen : Nat]

ContractInit ==
    /\ up = FALSE
    /\ content = Lost
    /\ stored \in {{}, {[date |-> 0, gen |-> 1]}}

Newest(s) == s \in stored /\ \A t \in stored : t.date =< s.date

\* The automatic restore: of the latest backup, of a lost database, while down.
Repair ==
    /\ ~up
    /\ content = Lost
    /\ \E s \in stored : Newest(s) /\ content' = s.gen
    /\ UNCHANGED <<up, stored>>

\* Only without any backup does a lost database start anew.
Start ==
    /\ ~up
    /\ content = Lost => stored = {}
    /\ up' = TRUE
    /\ content' = IF content = Lost THEN 0 ELSE content
    /\ UNCHANGED stored

Write ==
    /\ up
    /\ content' = content + 1
    /\ UNCHANGED <<up, stored>>

Store ==
    /\ up
    /\ \E s \in stored' :
        /\ s \in [date : Nat, gen : {content}]
        /\ \A t \in stored : t.date < s.date
        /\ stored' = stored \cup {s}
    /\ UNCHANGED <<up, content>>

Drop ==
    /\ \E s \in stored :
        /\ ~Newest(s)
        /\ stored' = stored \ {s}
    /\ UNCHANGED <<up, content>>

Stop ==
    /\ up' = FALSE
    /\ content' \in {content, Lost}
    /\ UNCHANGED stored

ContractNext == Repair \/ Start \/ Write \/ Store \/ Drop \/ Stop

ContractSpec == ContractInit /\ [][ContractNext]_contractVars

\* A database that is up holds whatever any stored backup holds.
NothingForgotten ==
    up => content # Lost /\ \A s \in stored : s.gen =< content
=============================================================================
