------------------------------- MODULE MCManual ----------------------------
(* ManualRestore for TLC.                                               *)
EXTENDS ManualRestore, TLC

\* Calls of RestoreBackup are alike.
RpcSymmetry == Permutations(Rpc)
=============================================================================
