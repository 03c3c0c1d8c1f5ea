------------------------------- MODULE Rethink -------------------------------
(***************************************************************************)
(* The recovery of rethinkdb, server by server.  Recover starts a private  *)
(* rethinkdb on the data directory, has the backup imported through it and *)
(* stops it again; the database container runs the real rethinkdb on the   *)
(* same directory as its last post-exec command.  Recover runs in start,   *)
(* for an empty directory, and in the requests that come in later.  Both   *)
(* containers run their commands as Exec has it and may be stopped, killed *)
(* and started again at any time.  There is always a backup to restore.    *)
(***************************************************************************)
EXTENDS Exec, FiniteSets

CONSTANTS
  Main,          \* the recovery of start
  Requests,      \* RestoreBackup requests at a time
  Real,          \* the rethinkdb of the database container
  MaxFaults      \* bound on signals, kills, errors and requests

Recoveries == {Main} \cup Requests

ASSUME RethinkAssumption ==
  /\ Containers = {"sidecar", "database"}
  /\ Count["database"] > 0
  /\ Real \notin Recoveries /\ Main \notin Requests
  /\ "none" \notin Recoveries \cup {Real}
  /\ MaxFaults \in Nat

VARIABLES
  phase,         \* start: what it is at when its commands are done
  done,          \* the status of the initializer is DONE
  waited,        \* wait.Start has returned
  pc,            \* per recovery: where Recover is
  private,       \* per recovery: its rethinkdb
  target,        \* per recovery: the server it imports through
  server,        \* the rethinkdb that is up, and what it holds
  dir,           \* the data directory
  harm,          \* what went wrong since the directory was last found empty
  faults

recoverVars == <<pc, private, target, server, dir>>
vars == <<execVars, phase, done, waited, recoverVars, harm, faults>>

Contents == {"empty", "fresh", "part", "rows"}

\* linked: its files are those in the data directory. All rethinkdb of the pod
\* use the same ports for the cluster, so that one at a time gets up.
NoServer == [by |-> "none", holds |-> "empty", linked |-> FALSE]

\* Inside Recover, and behind its first checks.
Busy == {"probe", "restore", "import", "term", "leave", "reap", "remove"}

TypeOK ==
  /\ ExecTypeOK
  /\ phase \in {"check", "recover", "serve"}
  /\ done \in BOOLEAN /\ waited \in BOOLEAN
  /\ pc \in [Recoveries -> Busy \cup {"idle", "ok", "failed"}]
  /\ private \in [Recoveries -> {"new", "up", "down"}]
  /\ target \in [Recoveries -> Recoveries]
  /\ \/ server = NoServer
     \/ server \in [by: Recoveries \cup {Real}, holds: Contents \ {"empty"}, linked: BOOLEAN]
  /\ dir \in Contents
  /\ harm \subseteq {"overlap", "cut", "left", "released"}
  /\ faults \in 0 .. MaxFaults
  /\ server.linked => dir = server.holds
  /\ \A r \in Recoveries : private[r] = "up" <=> server.by = r

Init ==
  /\ ExecInit
  /\ phase = "check" /\ done = FALSE /\ waited = FALSE
  /\ pc = [r \in Recoveries |-> "idle"]
  /\ private = [r \in Recoveries |-> "down"]
  /\ target = [r \in Recoveries |-> r]
  /\ server = NoServer
  /\ dir = "empty"
  /\ harm = {}
  /\ faults = 0

Fault == faults < MaxFaults /\ faults' = faults + 1
NoFault == UNCHANGED faults

RealCommand == <<"database", Count["database"]>>
Active == {r \in Recoveries : pc[r] \in Busy}

(***************************************************************************)
(* Recover                                                                 *)
(***************************************************************************)

\* Statement a of Recover is done, b is next.
Go(r, a, b) ==
  /\ pc[r] = a
  /\ pc' = [pc EXCEPT ![r] = b]
  /\ UNCHANGED <<execVars, phase, done, waited>>

\* The context of r is done. That of the private server is done, too, when r
\* has called cancel, or has returned.
Stopped == "sidecar" \in stop
Cancelled(r) == Stopped \/ pc[r] \in {"reap", "failed", "ok"}

\* The file to restore and the password are there, the goroutine is started.
Enter(r) ==
  /\ pc' = [pc EXCEPT ![r] = "probe"]
  /\ private' = [private EXCEPT ![r] = "new"]
  /\ target' = [target EXCEPT ![r] = r]
  /\ harm' = IF Active # {} \/ waited \/ (r # Main /\ phase # "serve")
             THEN harm \cup {"overlap"}
             ELSE IF r = Main THEN {} ELSE harm
  /\ UNCHANGED <<server, dir>>

\* The goroutine: a server whose context is done is not started.
ServerStarts(r) ==
  /\ private[r] = "new" /\ proc["sidecar"] = "up"
  /\ IF Cancelled(r) \/ server # NoServer
     THEN /\ private' = [private EXCEPT ![r] = "down"]
          /\ UNCHANGED <<server, dir>>
     ELSE /\ private' = [private EXCEPT ![r] = "up"]
          /\ dir' = IF dir = "empty" THEN "fresh" ELSE dir
          /\ server' = [by |-> r, holds |-> dir', linked |-> TRUE]
  /\ UNCHANGED <<execVars, phase, done, waited, pc, target, harm, faults>>

\* It ends when it is killed or asked to, or on its own account.
ServerEnds(r) ==
  /\ private[r] = "up"
  /\ \/ (Cancelled(r) \/ pc[r] = "leave") /\ NoFault
     \/ Fault
  /\ private' = [private EXCEPT ![r] = "down"]
  /\ server' = NoServer
  /\ UNCHANGED <<execVars, phase, done, waited, pc, target, dir, harm>>

\* localhost:1 is the private server of any recovery.
PrivateServer == server.by \in Recoveries

Probe(r) ==
  /\ Go(r, "probe", "restore")
  /\ PrivateServer
  /\ UNCHANGED <<private, target, server, dir, harm, faults>>

\* Thirty seconds are over, or the context is done.
ProbeFails(r) ==
  /\ Go(r, "probe", "reap")
  /\ \/ (private[r] = "down" \/ Stopped) /\ NoFault
     \/ Fault
  /\ UNCHANGED <<private, target, server, dir, harm>>

\* rethinkdb-restore, to tables that must not exist yet.
Import(r) ==
  /\ Go(r, "restore", "import")
  /\ PrivateServer /\ server.holds = "fresh"
  /\ target' = [target EXCEPT ![r] = server.by]
  /\ server' = [server EXCEPT !.holds = "part"]
  /\ dir' = IF server.linked THEN "part" ELSE dir
  /\ UNCHANGED <<private, harm, faults>>

Imported(r) ==
  /\ Go(r, "import", "term")
  /\ server.by = target[r]
  /\ server' = [server EXCEPT !.holds = "rows"]
  /\ dir' = IF server.linked THEN "rows" ELSE dir
  /\ UNCHANGED <<private, target, harm, faults>>

ImportFails(r) ==
  /\ Go(r, pc[r], "reap")
  /\ \/ pc[r] = "restore" /\ ~(PrivateServer /\ server.holds = "fresh") /\ NoFault
     \/ pc[r] = "import" /\ server.by # target[r] /\ NoFault
     \/ pc[r] \in {"restore", "import"} /\ Stopped /\ NoFault
     \/ pc[r] \in {"restore", "import"} /\ Fault
  /\ UNCHANGED <<private, target, server, dir, harm>>

\* The command is there: the goroutine had to run for the server to come up, if
\* it is the own server that has come up.
Terminate(r) ==
  /\ Go(r, "term", "leave")
  /\ private[r] # "new"
  /\ UNCHANGED <<private, target, server, dir, harm, faults>>

\* It is not: nil is dereferenced. The server of gRPC answers a panic of a
\* request with an error.
TerminateNobody(r) ==
  /\ r \in Requests
  /\ Go(r, "term", "failed")
  /\ private[r] = "new"
  /\ UNCHANGED <<private, target, server, dir, harm, faults>>

ReturnBeforeWait(r) ==
  /\ Go(r, "leave", "ok")
  /\ UNCHANGED <<private, target, server, dir, harm, faults>>

\* g.Wait, and nil whatever it returns.
Return(r) ==
  /\ Go(r, "leave", "ok")
  /\ private[r] = "down"
  /\ UNCHANGED <<private, target, server, dir, harm, faults>>

ReapNothing(r) ==
  /\ Go(r, "reap", "remove")
  /\ UNCHANGED <<private, target, server, dir, harm, faults>>

\* handleFailedRecovery: g.Wait behind cancel.
Reap(r) ==
  /\ Go(r, "reap", "remove")
  /\ private[r] = "down"
  /\ UNCHANGED <<private, target, server, dir, harm, faults>>

\* RemoveAll, on whatever is in the directory and whoever runs on it. That it
\* fails is logged.
Remove(r) ==
  /\ Go(r, "remove", "failed")
  /\ \/ /\ dir' = "empty" /\ server' = [server EXCEPT !.linked = FALSE]
        /\ UNCHANGED harm /\ NoFault
     \/ Fault /\ harm' = harm \cup {"left"} /\ UNCHANGED <<dir, server>>
  /\ UNCHANGED <<private, target>>

Recover(r) ==
  \/ Probe(r) \/ ProbeFails(r) \/ Import(r) \/ Imported(r) \/ ImportFails(r)
  \/ Terminate(r) \/ TerminateNobody(r) \/ Return(r) \/ Reap(r) \/ Remove(r)

(***************************************************************************)
(* The sidecar container                                                   *)
(***************************************************************************)

\* What the end of the sidecar's process takes with it.
SidecarGone ==
  /\ phase' = "check" /\ done' = FALSE
  /\ pc' = [r \in Recoveries |-> "idle"]
  /\ private' = [r \in Recoveries |-> "down"]
  /\ target' = [r \in Recoveries |-> r]
  /\ server' = IF PrivateServer THEN NoServer ELSE server
  /\ harm' = IF Active # {} THEN harm \cup {"cut"} ELSE harm
  /\ UNCHANGED <<waited, dir>>

\* An empty directory is restored, any other is taken for the database. A new
\* beginning, unless a request is at work already.
Check ==
  /\ AtWork("sidecar") /\ phase = "check"
  /\ IF dir = "empty"
     THEN phase' = "recover" /\ Enter(Main) /\ UNCHANGED done
     ELSE /\ phase' = "serve" /\ done' = TRUE
          /\ UNCHANGED <<recoverVars, harm>>
  /\ UNCHANGED <<execVars, waited, faults>>

RestoredSilently ==
  /\ AtWork("sidecar") /\ phase = "recover" /\ pc[Main] = "ok"
  /\ phase' = "serve"
  /\ UNCHANGED <<execVars, done, waited, recoverVars, harm, faults>>

Restored ==
  /\ AtWork("sidecar") /\ phase = "recover" /\ pc[Main] = "ok"
  /\ phase' = "serve" /\ done' = TRUE
  /\ UNCHANGED <<execVars, waited, recoverVars, harm, faults>>

\* start returns the error of Recover, or that of a call before it; and at the
\* stop signal probe and the cron loop return, whatever requests are at work.
StartReturns ==
  /\ AtWork("sidecar")
  /\ \/ phase = "recover" /\ pc[Main] = "failed" /\ NoFault
     \/ phase = "serve" /\ Stopped /\ NoFault
     \/ phase = "check" /\ Stopped /\ NoFault
     \/ phase # "recover" /\ Fault
  /\ End("sidecar", "exited")
  /\ SidecarGone

\* The panic of TerminateNobody in start itself.
Crash ==
  /\ pc[Main] = "term" /\ private[Main] = "new"
  /\ End("sidecar", "panicked")
  /\ SidecarGone /\ NoFault

\* The status is RESTORING from now on. The server is up before start checks.
Request(r) ==
  /\ AtWork("sidecar") /\ ~Stopped
  /\ r \in Requests /\ pc[r] \in {"idle", "ok", "failed"} /\ private[r] = "down"
  /\ Enter(r)
  /\ done' = FALSE
  /\ Fault
  /\ UNCHANGED <<execVars, phase, waited>>

(***************************************************************************)
(* The database container                                                  *)
(***************************************************************************)

DatabaseGone ==
  /\ waited' = FALSE
  /\ server' = IF server.by = Real THEN NoServer ELSE server
  /\ UNCHANGED <<phase, done, pc, private, target, dir, harm>>

OnlyWaited ==
  /\ proc["database"] = "up" /\ ~waited /\ waited' = TRUE
  /\ UNCHANGED <<execVars, phase, done, recoverVars, faults>>

PollAnyAnswer == proc["sidecar"] = "up" /\ OnlyWaited /\ UNCHANGED harm

\* The initializer's answer is DONE.
Poll == proc["sidecar"] = "up" /\ done /\ OnlyWaited /\ UNCHANGED harm

\* wait.Start returns nil at the stop signal, too.
PollStopped ==
  /\ "database" \in stop /\ ~done
  /\ OnlyWaited
  /\ harm' = harm \cup {"released"}

\* rethinkdb opens the directory, if it gets its ports.
RealOpens ==
  /\ Alive(RealCommand) /\ server = NoServer
  /\ dir' = IF dir = "empty" THEN "fresh" ELSE dir
  /\ server' = [by |-> Real, holds |-> dir', linked |-> TRUE]
  /\ harm' = IF Active # {} THEN harm \cup {"overlap"} ELSE harm
  /\ UNCHANGED <<execVars, phase, done, waited, pc, private, target, faults>>

WaitReturns ==
  /\ AtWork("database")
  /\ End("database", "exited") /\ DatabaseGone /\ NoFault

(***************************************************************************)
(* The commands and the life of both containers                            *)
(***************************************************************************)

Gone(c) == IF c = "sidecar" THEN SidecarGone ELSE DatabaseGone
Else == UNCHANGED <<phase, done, waited, recoverVars, harm>>

\* A rethinkdb that does not get its ports fails; other commands are to end.
Ending(k) ==
  \/ k # RealCommand /\ cmd[k] = "running" /\ CommandEnds(k, "ended") /\ NoFault
  \/ k = RealCommand /\ PrivateServer /\ CommandEnds(k, "failed") /\ NoFault
  \/ CommandEnds(k, "failed") /\ Fault

ServerWith(k) ==
  /\ server' = IF k = RealCommand /\ server.by = Real THEN NoServer ELSE server
  /\ UNCHANGED <<phase, done, waited, pc, private, target, dir, harm>>

Start(c) ==
  /\ c = "database" => waited
  /\ StartCommand(c) /\ NoFault /\ Else

\* A command may heed the signal, and may not.
Obey(k) ==
  /\ cmd[k] = "asked"
  /\ \E how \in {"ended", "failed"} : CommandEnds(k, how)
  /\ ServerWith(k) /\ NoFault

Command(k) ==
  \/ Ending(k) /\ ServerWith(k)
  \/ PassOn(k) /\ NoFault /\ Else
  \/ ForceKill(k) /\ NoFault /\ (IF Alive(k) THEN ServerWith(k) ELSE Else)
  \/ Panic(k) /\ NoFault /\ Gone(k[1])

Container(c) ==
  \/ Start(c)
  \/ Wait(c) /\ NoFault /\ Else
  \/ WaitFails(c) /\ NoFault /\ Gone(c)
  \/ Restart(c) /\ NoFault /\ Else

Kill(c) == Fault /\ End(c, "exited") /\ Gone(c)

Signal(c) == Fault /\ Interrupt(c) /\ Else

Next ==
  \/ \E r \in Recoveries : ServerStarts(r) \/ ServerEnds(r) \/ Recover(r)
  \/ Check \/ Restored \/ StartReturns \/ Crash \/ (\E r \in Requests : Request(r))
  \/ Poll \/ PollStopped \/ RealOpens \/ WaitReturns
  \/ \E k \in Commands : Command(k) \/ Obey(k)
  \/ \E c \in Containers : Container(c) \/ Kill(c) \/ Signal(c)

Spec == Init /\ [][Next]_vars

\* Processes and goroutines go on, containers are started again, commands other
\* than the database end, and the timers fire.
Fairness ==
  /\ \A r \in Recoveries :
       WF_vars((ServerStarts(r) \/ ServerEnds(r) \/ Recover(r)) /\ NoFault)
  /\ WF_vars((Check \/ Restored \/ StartReturns \/ Crash) /\ NoFault)
  /\ WF_vars(Poll \/ PollStopped \/ RealOpens \/ WaitReturns)
  /\ \A k \in Commands : WF_vars(Command(k) /\ NoFault)
  /\ \A c \in Containers : WF_vars(Container(c))

FairSpec == Spec /\ Fairness

-----------------------------------------------------------------------------

\* The database never serves anything but the restored backup, whatever fails
\* while it is restored; unless a recovery ran beside another or beside the
\* database, was cut off by the end of its process, could not clean up, or the
\* database was let go by a stop signal.
ServedWhole == server.by = Real => server.holds = "rows" \/ harm # {}

\* Recover returns nil with all rows in the directory, and an error with an empty
\* directory and no server that could write to it, under the same conditions.
RecoverDelivers ==
  [][\A r \in Recoveries : pc'[r] # pc[r] /\ harm' = {} =>
       /\ pc'[r] = "ok" => dir' = "rows"
       /\ pc'[r] = "failed" => dir' = "empty" /\ server' = NoServer]_vars

\* A private server is gone before Recover returns, whatever runs beside it.
NoServerLeft ==
  \A r \in Recoveries : pc[r] \in {"idle", "ok", "failed"} => server.by # r

\* A container that receives the stop signal ends, also if its command ignores it.
StopEnds == \A c \in Containers : c \in stop ~> proc[c] # "up"

\* Whatever happens to the containers, the database is up in the end; or the
\* sidecar serves with the status that a request has left behind.
Settles ==
  <>[](\/ server.by = Real
       \/ phase = "serve" /\ ~done /\ \E r \in Requests : pc[r] # "idle")
=============================================================================
