----------------------------- MODULE MCBackuper -----------------------------
(* Backuper for TLC.                                                       *)
EXTENDS Backuper, TLC

\* Callers are alike.
CallerSymmetry == Permutations(Callers)
=============================================================================
