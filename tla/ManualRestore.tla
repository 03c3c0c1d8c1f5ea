---------------------------- MODULE ManualRestore ----------------------------
(***************************************************************************)
(* RestoreBackup calls ("restore <version>" of the CLI) against a pod.     *)
(* Nothing in the code keeps a call apart from another call, from the      *)
(* automatic restore or from a running database, so what a call delivers   *)
(* is claimed only for one that nothing of this disturbed: the history     *)
(* variable alone tells which.                                             *)
(***************************************************************************)
EXTENDS Pod

VARIABLE alone      \* per worker: undisturbed since it entered Restore?

manualVars == <<vars, alone>>

ManualInit ==
    /\ Init
    /\ alone = [w \in Workers |-> FALSE]

\* A worker is undisturbed while every other worker is idle and the database
\* container is kept in wait.Start.
ManualNext ==
    /\ Next
    /\ alone' = [w \in Workers |->
                   /\ step[w] # "idle" => alone[w]
                   /\ dbc' = "waiting"
                   /\ \A v \in Workers \ {w} : step'[v] = "idle"]

ManualSpec == ManualInit /\ [][ManualNext]_manualVars

-----------------------------------------------------------------------------
\* A restore that is about to return nil, and that nothing disturbed, has
\* filled the data directory with the version it was asked for: not with what
\* an earlier, failed or killed restore left in the download file, in the
\* restore directory or in the data directory itself.
SoloRestoreDelivers ==
    [][\A w \in Workers :
         step[w] # "restored" /\ step'[w] = "restored" /\ alone'[w]
            => data' = goal[w].gen]_manualVars
=============================================================================
