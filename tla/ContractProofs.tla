--------------------------- MODULE ContractProofs ---------------------------
(***************************************************************************)
(* What the contracts are worth: a database that keeps RecoveryContract is *)
(* never up with less than any backup that is still stored, and a store    *)
(* that keeps BackupContract never offers less than it once did.           *)
(***************************************************************************)
EXTENDS RecoveryContract, BackupContract, TLAPS

\* Newer backups hold at least as much, and no two share a date.
Ordered ==
    \A s, t \in stored : /\ s.date < t.date => s.gen =< t.gen
                         /\ s.date = t.date => s = t

Complete ==
    content # Lost => \A s \in stored : s.gen =< content

ContractInv ==
    /\ ContractTypeOK
    /\ Ordered
    /\ Complete
    /\ up => content # Lost

LEMMA ContractInitInv ==
    ASSUME Lost \notin Nat, ContractInit PROVE ContractInv
  <1>1. up = FALSE /\ content = Lost /\ stored \in {{}, {[date |-> 0, gen |-> 1]}}
    BY DEF ContractInit
  <1>2. stored \subseteq [date : Nat, gen : Nat]
    BY <1>1
  <1>3. \A s, t \in stored : s = t
    BY <1>1
  <1>4. Ordered
    BY <1>2, <1>3 DEF Ordered
  <1> QED
    BY <1>1, <1>2, <1>4 DEF ContractInv, ContractTypeOK, Complete

LEMMA StorePreserves ==
    ASSUME Lost \notin Nat, ContractInv, Store PROVE ContractInv'
  <1>1. PICK s \in stored' :
            /\ s \in [date : Nat, gen : {content}]
            /\ \A t \in stored : t.date < s.date
            /\ stored' = stored \cup {s}
    BY DEF Store
  <1>2. up /\ up' = up /\ content' = content /\ content \in Nat
    BY DEF Store, ContractInv, ContractTypeOK
  <1>3. s.gen = content /\ s.date \in Nat /\ s \in [date : Nat, gen : Nat]
    BY <1>1, <1>2
  <1>4. \A t \in stored : t.date \in Nat /\ t.gen \in Nat /\ t.gen =< s.gen
    BY <1>2, <1>3 DEF ContractInv, ContractTypeOK, Complete
  <1>5. ContractTypeOK'
    BY <1>1, <1>2, <1>3 DEF ContractInv, ContractTypeOK
  <1>6. Ordered'
    <2> SUFFICES ASSUME NEW a \in stored', NEW b \in stored'
                 PROVE  /\ a.date < b.date => a.gen =< b.gen
                        /\ a.date = b.date => a = b
      BY DEF Ordered
    <2>1. CASE a \in stored /\ b \in stored
      BY <2>1 DEF ContractInv, Ordered
    <2>2. CASE a = s /\ b \in stored
      BY <2>2, <1>1, <1>3, <1>4
    <2>3. CASE a \in stored /\ b = s
      BY <2>3, <1>1, <1>3, <1>4
    <2>4. CASE a = s /\ b = s
      BY <2>4, <1>2, <1>3
    <2> QED
      BY <1>1, <2>1, <2>2, <2>3, <2>4
  <1>7. Complete'
    <2>1. \A t \in stored' : t.gen =< content
      BY <1>1, <1>2, <1>3, <1>4
    <2> QED
      BY <1>2, <2>1 DEF Complete
  <1> QED
    BY <1>2, <1>5, <1>6, <1>7 DEF ContractInv, ContractTypeOK

LEMMA RepairPreserves ==
    ASSUME Lost \notin Nat, ContractInv, Repair PROVE ContractInv'
  <1>1. PICK s : Newest(s) /\ content' = s.gen
    BY DEF Repair
  <1>2. s \in stored /\ s.gen \in Nat /\ s.date \in Nat
    BY <1>1 DEF Newest, ContractInv, ContractTypeOK
  <1>3. \A t \in stored : t.gen =< s.gen
    <2> SUFFICES ASSUME NEW t \in stored PROVE t.gen =< s.gen
      OBVIOUS
    <2>1. t.date =< s.date /\ t.date \in Nat /\ t.gen \in Nat
      BY <1>1 DEF Newest, ContractInv, ContractTypeOK
    <2>2. CASE t.date < s.date
      BY <2>2, <1>2 DEF ContractInv, Ordered
    <2>3. CASE t.date = s.date
      BY <2>3, <1>2 DEF ContractInv, Ordered
    <2> QED
      BY <1>2, <2>1, <2>2, <2>3
  <1> QED
    BY <1>1, <1>2, <1>3
    DEF Repair, ContractInv, ContractTypeOK, Ordered, Complete

LEMMA ContractNextInv ==
    ASSUME Lost \notin Nat, ContractInv, [ContractNext]_contractVars
    PROVE  ContractInv'
  <1> USE DEF ContractInv, ContractTypeOK, Ordered, Complete
  <1>1. CASE Repair
    BY <1>1, RepairPreserves
  <1>2. CASE Start
    BY <1>2 DEF Start
  <1>3. CASE Write
    <2>1. content \in Nat /\ content' = content + 1 /\ content' \in Nat
      BY <1>3 DEF Write
    <2>2. \A s \in stored : s.gen \in Nat /\ s.gen =< content'
      BY <2>1
    <2> QED
      BY <1>3, <2>1, <2>2 DEF Write
  <1>4. CASE Store
    BY <1>4, StorePreserves
  <1>5. CASE Drop
    BY <1>5 DEF Drop
  <1>6. CASE Stop
    BY <1>6 DEF Stop
  <1>7. CASE UNCHANGED contractVars
    BY <1>7 DEF contractVars
  <1> QED
    BY <1>1, <1>2, <1>3, <1>4, <1>5, <1>6, <1>7 DEF ContractNext

\* A database that is up holds whatever any stored backup holds (README.md:71,
\* the automatic restore; every specification that implements the contract
\* inherits this).
THEOREM ContractRemembers ==
    ASSUME Lost \notin Nat PROVE ContractSpec => []NothingForgotten
  <1>1. ContractInit => ContractInv
    BY ContractInitInv
  <1>2. ContractInv /\ [ContractNext]_contractVars => ContractInv'
    BY ContractNextInv
  <1>3. ContractInv => NothingForgotten
    BY DEF ContractInv, Complete, NothingForgotten
  <1> QED
    BY <1>1, <1>2, <1>3, PTL DEF ContractSpec

-----------------------------------------------------------------------------
(* BackupContract.                                                         *)

\* Later versions hold at least as much.
KeptInv ==
    /\ BackupTypeOK
    /\ \A k, o \in kept : k.date < o.date => k.gen =< o.gen

LEMMA AddPreserves ==
    ASSUME KeptInv, Add PROVE KeptInv'
  <1>1. PICK k \in [date : Nat, gen : 0..written] :
            /\ \A o \in kept : o.date < k.date /\ o.gen =< k.gen
            /\ kept' = kept \cup {k}
    BY DEF Add
  <1>2. written' = written /\ written \in Nat /\ k \in [date : Nat, gen : Nat]
    BY DEF Add, KeptInv, BackupTypeOK
  <1>3. \A a, b \in kept' : a.date < b.date => a.gen =< b.gen
    <2> SUFFICES ASSUME NEW a \in kept', NEW b \in kept', a.date < b.date
                 PROVE  a.gen =< b.gen
      OBVIOUS
    <2>1. CASE a \in kept /\ b \in kept
      BY <2>1 DEF KeptInv
    <2>2. CASE b = k /\ a \in kept
      BY <1>1, <2>2
    <2>3. CASE a = k
      BY <1>1, <1>2, <2>3 DEF KeptInv, BackupTypeOK
    <2> QED
      BY <1>1, <2>1, <2>2, <2>3
  <1> QED
    BY <1>1, <1>2, <1>3 DEF KeptInv, BackupTypeOK

LEMMA KeptInvariance == BackupSpec => []KeptInv
  <1>1. BackupInit => KeptInv
    BY DEF BackupInit, KeptInv, BackupTypeOK
  <1>2. KeptInv /\ [BackupNext]_backupVars => KeptInv'
    <2> SUFFICES ASSUME KeptInv, [BackupNext]_backupVars PROVE KeptInv'
      OBVIOUS
    <2> USE DEF KeptInv, BackupTypeOK
    <2>1. CASE Change
      BY <2>1 DEF Change
    <2>2. CASE Add
      BY <2>2, AddPreserves
    <2>3. CASE Discard
      BY <2>3 DEF Discard
    <2>4. CASE UNCHANGED backupVars
      BY <2>4 DEF backupVars
    <2> QED
      BY <2>1, <2>2, <2>3, <2>4 DEF BackupNext
  <1> QED
    BY <1>1, <1>2, PTL DEF BackupSpec

\* What could be restored once can be restored for ever after, or more than
\* that (README.md:71, the regular backups; every specification that implements the
\* contract inherits this).
THEOREM ContractNeverLess == BackupSpec => NeverLess
  <1>1. ASSUME KeptInv, [BackupNext]_backupVars, NEW n \in Nat,
               NEW k \in kept, n =< k.gen
        PROVE  \E m \in kept' : n =< m.gen
    <2>1. CASE Discard
      <3>1. PICK j \in kept : /\ \E o \in kept : j.date < o.date
                              /\ kept' = kept \ {j}
        BY <2>1 DEF Discard
      <3>2. PICK o \in kept : j.date < o.date
        BY <3>1
      <3>3. CASE j = k
        <4>1. k.date \in Nat /\ k.gen \in Nat /\ o.gen \in Nat
          BY <1>1 DEF KeptInv, BackupTypeOK
        <4>2. k.gen =< o.gen
          BY <1>1, <3>2, <3>3 DEF KeptInv
        <4>3. o # k
          BY <3>2, <3>3, <4>1
        <4>4. o \in kept'
          BY <3>1, <3>2, <3>3, <4>3
        <4> QED
          BY <1>1, <4>1, <4>2, <4>4
      <3>4. CASE j # k
        BY <1>1, <3>1, <3>4
      <3> QED
        BY <3>3, <3>4
    <2>2. CASE ~Discard
      BY <1>1, <2>2 DEF BackupNext, Change, Add, backupVars
    <2> QED
      BY <2>1, <2>2
  <1>2. KeptInv /\ [BackupNext]_backupVars =>
          [\A n \in Nat : (\E k \in kept : n =< k.gen)
                             => \E k \in kept' : n =< k.gen]_backupVars
    BY <1>1
  <1> QED
    BY <1>2, KeptInvariance, PTL DEF BackupSpec, NeverLess
=============================================================================
